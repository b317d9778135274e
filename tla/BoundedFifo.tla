---------------------------- MODULE BoundedFifo ----------------------------
(***************************************************************************)
(* What the keyboard queue promises: a first-in first-out buffer of at     *)
(* most Capacity keys that refuses a key when it is full and answers       *)
(* NoKey when it is empty, saying so in err.                               *)
(***************************************************************************)
EXTENDS Naturals, Sequences

CONSTANTS Keys, NoKey, Capacity

VARIABLES q, out, err

Init == q = <<>> /\ out = NoKey /\ err = 0

Put(k) == /\ UNCHANGED out
          /\ IF Len(q) < Capacity
             THEN q' = Append(q, k) /\ err' = 0
             ELSE UNCHANGED q /\ err' = 1

Get == IF q = <<>>
       THEN out' = NoKey /\ err' = 1 /\ UNCHANGED q
       ELSE out' = Head(q) /\ err' = 0 /\ q' = Tail(q)

Next == Get \/ \E k \in Keys : Put(k)

Spec == Init /\ [][Next]_<<q, out, err>>
=============================================================================
