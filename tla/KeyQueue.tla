------------------------------ MODULE KeyQueue ------------------------------
(***************************************************************************)
(* The ring buffer between the keyboard interrupt and get_keydata():       *)
(* struct queue, enqueue and dequeue of kernel/console_io.c.  start and    *)
(* end are unsigned chars that wrap by overflow, which is right because    *)
(* QUEUE_BUF_SIZE is 256; QSize stands for both numbers.                   *)
(***************************************************************************)
EXTENDS Integers, Sequences

CONSTANTS Keys,    \* what the keyboard controller delivers
          NoKey,   \* the 0 dequeue returns when the queue is empty
          QSize    \* QUEUE_BUF_SIZE

ASSUME KeyAssumption == QSize \in Nat \ {0} /\ NoKey \notin Keys

VARIABLES buf, start, end, is_full,   \* keycode_queue
          error_status,
          data                        \* what the last dequeue returned

keyVars == <<buf, start, end, is_full, error_status, data>>

KeyTypeOK ==
    /\ buf \in [0 .. QSize - 1 -> Keys \cup {NoKey}]
    /\ start \in 0 .. QSize - 1
    /\ end \in 0 .. QSize - 1
    /\ is_full \in BOOLEAN
    /\ error_status \in {0, 1}
    /\ data \in Keys \cup {NoKey}

con_init ==
    /\ buf = [i \in 0 .. QSize - 1 |-> NoKey]
    /\ start = 0 /\ end = 0
    /\ is_full = FALSE
    /\ error_status = 0
    /\ data = NoKey

Inc(i) == IF i + 1 = QSize THEN 0 ELSE i + 1

enqueue(k) ==
    /\ IF is_full
       THEN /\ error_status' = 1
            /\ UNCHANGED <<buf, end, is_full>>
       ELSE /\ error_status' = 0
            /\ buf' = [buf EXCEPT ![end] = k]
            /\ end' = Inc(end)
            /\ is_full' = (start = Inc(end))
    /\ UNCHANGED <<start, data>>

IsEmpty == ~is_full /\ start = end

\* Mutant: is_full is not reset.
dequeueStaysFull ==
    /\ IF IsEmpty
       THEN /\ error_status' = 1
            /\ data' = NoKey
            /\ UNCHANGED start
       ELSE /\ error_status' = 0
            /\ data' = buf[start]
            /\ start' = Inc(start)
    /\ UNCHANGED <<buf, end, is_full>>

dequeue ==
    /\ IF IsEmpty
       THEN /\ error_status' = 1
            /\ data' = NoKey
            /\ UNCHANGED <<start, is_full>>
       ELSE /\ error_status' = 0
            /\ data' = buf[start]
            /\ start' = Inc(start)
            /\ is_full' = FALSE
    /\ UNCHANGED <<buf, end>>

KeyNext == dequeue \/ \E k \in Keys : enqueue(k)

KeySpec == con_init /\ [][KeyNext]_keyVars

----------------------------------------------------------------------------
\* The number of keys in the buffer, and the keys from the oldest on.
Count == IF is_full THEN QSize
         ELSE IF start <= end THEN end - start ELSE end - start + QSize

Slot(i) == IF start + i >= QSize THEN start + i - QSize ELSE start + i

Contents == [i \in 1 .. Count |-> buf[Slot(i - 1)]]

\* is_full tells the two meanings of start = end apart.
KeyFullOK == is_full => start = end

(***************************************************************************)
(* enqueue/dequeue: through every wrap-around of start and end the ring is *)
(* a bounded FIFO: no key is lost, duplicated or reordered except that a   *)
(* key arriving at a full buffer is refused with error_status set.         *)
(***************************************************************************)
Fifo == INSTANCE BoundedFifo WITH Capacity <- QSize, q <- Contents,
                                  out <- data, err <- error_status
ImplementsFifo == Fifo!Spec
=============================================================================
