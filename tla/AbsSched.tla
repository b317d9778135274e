------------------------------ MODULE AbsSched ------------------------------
(***************************************************************************)
(* What the scheduler promises, without queues, pointers, flags or         *)
(* interrupt state: every task is in one place, a task that blocks or is   *)
(* preempted hands the processor to some runnable task, and the processor  *)
(* goes to the kernel task only when no task is runnable.                  *)
(***************************************************************************)
CONSTANTS Tasks, Kern, Shell

VARIABLES place,     \* "none", "run", "wakeup" or "event" for every task
          running    \* the task whose context the processor is in

Init == /\ place = [t \in Tasks |-> IF t = Shell THEN "run" ELSE "none"]
        /\ running = Kern

Runnable(p) == {t \in Tasks : p[t] = "run"}

\* Whom the scheduler may choose when the tasks are at p.
Choice(p) == IF Runnable(p) = {} THEN {Kern} ELSE Runnable(p)

Create(t) == /\ running \in Tasks
             /\ place[t] = "none"
             /\ place' = [place EXCEPT ![t] = "run"]
             /\ UNCHANGED running

Block(q) == /\ running \in Tasks
            /\ place' = [place EXCEPT ![running] = q]
            /\ running' \in Choice(place')

Wake(t) == /\ place[t] \in {"wakeup", "event"}
           /\ place' = [place EXCEPT ![t] = "run"]
           /\ UNCHANGED running

Reschedule == /\ running' \in Choice(place)
              /\ UNCHANGED place

Next == \/ \E t \in Tasks : Create(t) \/ Wake(t)
        \/ Block("wakeup") \/ Block("event")
        \/ Reschedule

Spec == Init /\ [][Next]_<<place, running>>
=============================================================================
