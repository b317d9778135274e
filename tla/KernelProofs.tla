---------------------------- MODULE KernelProofs ----------------------------
(***************************************************************************)
(* The composed kernel: it implements the scheduler and the FIFO, and no   *)
(* keyboard wake-up is lost, for any number of tasks and any buffer size.  *)
(***************************************************************************)
EXTENDS Kernel, SchedProofs, SequenceTheorems

(***************************************************************************)
(* The keyboard ring buffer is a bounded FIFO, for every capacity.         *)
(***************************************************************************)
KeyInv == KeyTypeOK /\ KeyFullOK

\* con_init establishes the types of the ring and the meaning of is_full.
LEMMA KeyInitInv == con_init => KeyInv
<1> SUFFICES ASSUME con_init PROVE KeyInv
  OBVIOUS
<1>1. /\ buf \in [0 .. QSize - 1 -> Keys \cup {NoKey}]
      /\ start \in 0 .. QSize - 1 /\ end \in 0 .. QSize - 1
      /\ error_status \in {0, 1} /\ data \in Keys \cup {NoKey}
  BY KeyAssumption DEF con_init
<1>2. is_full \in BOOLEAN /\ KeyFullOK
  BY DEF con_init, KeyFullOK
<1> QED BY <1>1, <1>2 DEF KeyInv, KeyTypeOK

\* enqueue and dequeue keep them.
LEMMA KeyStep == KeyInv /\ [KeyNext]_keyVars => KeyInv'
<1> SUFFICES ASSUME KeyInv, [KeyNext]_keyVars PROVE KeyInv'
  OBVIOUS
<1> USE DEF KeyInv, KeyTypeOK
<1>i. \A i \in 0 .. QSize - 1 : Inc(i) \in 0 .. QSize - 1
  BY KeyAssumption DEF Inc
<1>1. CASE dequeue
  <2>1. CASE IsEmpty
    BY <1>1, <2>1 DEF dequeue, KeyFullOK
  <2>2. CASE ~IsEmpty
    <3>1. /\ error_status' = 0 /\ data' = buf[start] /\ start' = Inc(start)
          /\ is_full' = FALSE /\ UNCHANGED <<buf, end>>
      BY <1>1, <2>2 DEF dequeue
    <3>2. data' \in Keys \cup {NoKey}
      BY <3>1
    <3> QED BY <3>1, <3>2, <1>i DEF KeyFullOK
  <2> QED BY <2>1, <2>2
<1>2. ASSUME NEW k \in Keys, enqueue(k) PROVE KeyInv'
  <2>1. CASE is_full
    BY <1>2, <2>1 DEF enqueue, KeyFullOK
  <2>2. CASE ~is_full
    <3>1. /\ error_status' = 0 /\ buf' = [buf EXCEPT ![end] = k]
          /\ end' = Inc(end) /\ is_full' = (start = Inc(end))
          /\ UNCHANGED <<start, data>>
      BY <1>2, <2>2 DEF enqueue
    <3>2. buf' \in [0 .. QSize - 1 -> Keys \cup {NoKey}]
      BY <3>1
    <3>3. is_full' \in BOOLEAN /\ KeyFullOK'
      BY <3>1 DEF KeyFullOK
    <3> QED BY <3>1, <3>2, <3>3, <1>i
  <2> QED BY <2>1, <2>2
<1>3. CASE UNCHANGED keyVars
  BY <1>3 DEF keyVars, KeyFullOK
<1> QED BY <1>1, <1>2, <1>3 DEF KeyNext

\* start and end stay inside the buffer and is_full implies start = end.
THEOREM KeyInvariant == KeySpec => []KeyInv
  BY KeyInitInv, KeyStep, PTL DEF KeySpec

\* Contents is a sequence of Count elements.
ContentsOK ==
    /\ Count \in 0 .. QSize
    /\ Contents \in Seq(Keys \cup {NoKey}) /\ Len(Contents) = Count
    /\ \A i \in 1 .. Count : Contents[i] = buf[Slot(i - 1)]

\* The refinement mapping of the ring is a sequence of Count keys.
LEMMA ContentsSeq == KeyInv => ContentsOK
<1> SUFFICES ASSUME KeyInv PROVE ContentsOK
  OBVIOUS
<1>1. Count \in 0 .. QSize
  BY KeyAssumption DEF KeyInv, KeyTypeOK, KeyFullOK, Count
<1>2. \A i \in 1 .. Count : Slot(i - 1) \in 0 .. QSize - 1
  BY <1>1, KeyAssumption DEF KeyInv, KeyTypeOK, Slot
<1>3. \A i \in 1 .. Count : buf[Slot(i - 1)] \in Keys \cup {NoKey}
  BY <1>2 DEF KeyInv, KeyTypeOK
<1>4. Contents \in [1 .. Count -> Keys \cup {NoKey}]
  BY <1>3 DEF Contents
<1>5. Contents \in Seq(Keys \cup {NoKey}) /\ Len(Contents) = Count
  BY <1>1, <1>4
<1> QED BY <1>1, <1>5 DEF ContentsOK, Contents

\* enqueue appends to it, or refuses at the limit.
LEMMA EnqueuePuts ==
    ASSUME KeyInv, NEW k \in Keys, enqueue(k)
    PROVE  Fifo!Put(k)
<1>0. KeyInv'
  BY KeyStep DEF KeyNext
<1>1. /\ Count \in 0 .. QSize /\ Contents \in Seq(Keys \cup {NoKey})
      /\ Len(Contents) = Count
      /\ \A i \in 1 .. Count : Contents[i] = buf[Slot(i - 1)]
  BY ContentsSeq DEF ContentsOK
<1>p. ContentsOK'
  BY <1>0, ContentsSeq, PTL
<1>2. /\ Count' \in 0 .. QSize /\ Contents' \in Seq(Keys \cup {NoKey})
      /\ Len(Contents') = Count'
      /\ \A i \in 1 .. Count' : Contents'[i] = buf'[Slot(i - 1)']
  BY <1>p DEF ContentsOK
<1>3. CASE is_full
  <2>1. UNCHANGED <<buf, start, end, is_full, data>> /\ error_status' = 1
    BY <1>3 DEF enqueue
  <2>2. Contents' = Contents
    BY <2>1 DEF Contents, Count, Slot
  <2>3. Count = QSize
    BY <1>3 DEF Count
  <2> QED BY <2>1, <2>2, <2>3, <1>1, KeyAssumption DEF Fifo!Put
<1>4. CASE ~is_full
  <2>1. /\ error_status' = 0 /\ buf' = [buf EXCEPT ![end] = k]
        /\ end' = Inc(end) /\ is_full' = (start = Inc(end))
        /\ start' = start /\ data' = data
    BY <1>4 DEF enqueue
  <2>2. Count < QSize /\ Count' = Count + 1
    <3>1. start \in 0 .. QSize - 1 /\ end \in 0 .. QSize - 1 /\ QSize \in Nat
      BY KeyAssumption DEF KeyInv, KeyTypeOK
    <3>2. Count = IF start <= end THEN end - start ELSE end - start + QSize
      BY <1>4 DEF Count
    <3>3. Count' = IF start = end' THEN QSize
                   ELSE IF start <= end' THEN end' - start ELSE end' - start + QSize
      BY <2>1 DEF Count
    <3> QED BY <3>1, <3>2, <3>3, <2>1 DEF Inc
  <2>3. Slot(Count) = end
    BY <1>4, KeyAssumption DEF KeyInv, KeyTypeOK, KeyFullOK, Count, Slot
  <2>4. \A i \in 1 .. Count : Slot(i - 1) # end /\ Slot(i - 1) \in 0 .. QSize - 1
    BY <1>4, <1>1, KeyAssumption DEF KeyInv, KeyTypeOK, KeyFullOK, Count, Slot
  <2>5. \A i : Slot(i)' = Slot(i)
    BY <2>1 DEF Slot
  <2>b. buf \in [0 .. QSize - 1 -> Keys \cup {NoKey}] /\ end \in 0 .. QSize - 1
    BY DEF KeyInv, KeyTypeOK
  <2>6. \A i \in 1 .. Count : Contents'[i] = Contents[i]
    BY <1>1, <1>2, <2>1, <2>2, <2>4, <2>5, <2>b
  <2>7. Contents'[Count + 1] = k
    <3>1. Contents'[Count + 1] = buf'[Slot(Count)]
      BY <1>1, <1>2, <2>2, <2>5
    <3> QED BY <3>1, <2>1, <2>3, <2>b
  <2>8. Contents' = Append(Contents, k)
    <3> DEFINE c == Contents
               d == Contents'
               n == Count
    <3>1. /\ c \in Seq(Keys \cup {NoKey}) /\ d \in Seq(Keys \cup {NoKey})
          /\ Len(c) = n /\ Len(d) = n + 1 /\ n \in Nat
          /\ \A i \in 1 .. n : d[i] = c[i]
          /\ d[n + 1] = k
      BY <1>1, <1>2, <2>2, <2>6, <2>7
    <3> HIDE DEF c, d, n
    <3>2. d = Append(c, k)
      BY <3>1
    <3> QED BY <3>2 DEF c, d
  <2> QED BY <2>1, <2>2, <2>8, <1>1 DEF Fifo!Put
<1> QED BY <1>3, <1>4

\* dequeue takes its head, or reports that there is none.
LEMMA DequeueGets ==
    ASSUME KeyInv, dequeue
    PROVE  Fifo!Get
<1>0. KeyInv'
  BY KeyStep DEF KeyNext
<1>1. /\ Count \in 0 .. QSize /\ Contents \in Seq(Keys \cup {NoKey})
      /\ Len(Contents) = Count
      /\ \A i \in 1 .. Count : Contents[i] = buf[Slot(i - 1)]
  BY ContentsSeq DEF ContentsOK
<1>p. ContentsOK'
  BY <1>0, ContentsSeq, PTL
<1>2. /\ Count' \in 0 .. QSize /\ Contents' \in Seq(Keys \cup {NoKey})
      /\ Len(Contents') = Count'
      /\ \A i \in 1 .. Count' : Contents'[i] = buf'[Slot(i - 1)']
  BY <1>p DEF ContentsOK
<1>3. CASE IsEmpty
  <2>1. UNCHANGED <<buf, start, end, is_full>> /\ error_status' = 1 /\ data' = NoKey
    BY <1>3 DEF dequeue
  <2>2. Contents' = Contents
    BY <2>1 DEF Contents, Count, Slot
  <2>3. Count = 0
    BY <1>3 DEF Count, IsEmpty, KeyInv, KeyTypeOK
  <2>4. Contents = <<>>
    BY <2>3, <1>1
  <2> QED BY <2>1, <2>2, <2>4 DEF Fifo!Get
<1>4. CASE ~IsEmpty
  <2>1. /\ error_status' = 0 /\ data' = buf[start] /\ start' = Inc(start)
        /\ is_full' = FALSE /\ buf' = buf /\ end' = end
    BY <1>4 DEF dequeue
  <2>2. Count > 0 /\ Count' = Count - 1
    BY <1>4, <2>1, KeyAssumption DEF KeyInv, KeyTypeOK, KeyFullOK, Count, Inc, IsEmpty
  <2>3. Slot(0) = start
    BY KeyAssumption DEF KeyInv, KeyTypeOK, Slot
  <2>4. \A i \in 1 .. Count' : Slot(i - 1)' = Slot(i)
    BY <1>1, <2>1, <2>2, KeyAssumption DEF KeyInv, KeyTypeOK, Slot, Inc
  <2>5. Head(Contents) = buf[start] /\ Contents # <<>>
    <3>1. Contents[1] = buf[Slot(0)]
      BY <1>1, <2>2
    <3> QED BY <3>1, <2>2, <2>3, <1>1
  <2>6. Contents' = Tail(Contents)
    <3> DEFINE c == Contents
               d == Contents'
               n == Count
    <3>1. ASSUME NEW i \in 1 .. n - 1 PROVE d[i] = c[i + 1]
      <4>1. i + 1 \in 1 .. n /\ (i + 1) - 1 = i /\ i \in 1 .. Count'
        BY <1>1, <2>2
      <4>2. c[i + 1] = buf[Slot(i)]
        BY <1>1, <4>1
      <4>3. d[i] = buf'[Slot(i - 1)']
        BY <1>2, <4>1
      <4> QED BY <4>1, <4>2, <4>3, <2>1, <2>4
    <3>2. /\ c \in Seq(Keys \cup {NoKey}) /\ d \in Seq(Keys \cup {NoKey})
          /\ Len(c) = n /\ Len(d) = n - 1 /\ n \in Nat /\ n > 0
      BY <1>1, <1>2, <2>2
    <3> HIDE DEF c, d, n
    <3>3. d = Tail(c)
      BY <3>1, <3>2
    <3> QED BY <3>3 DEF c, d
  <2> QED BY <2>1, <2>5, <2>6 DEF Fifo!Get
<1> QED BY <1>3, <1>4

(***************************************************************************)
(* enqueue/dequeue: the ring implements a bounded FIFO of QSize keys.      *)
(***************************************************************************)
THEOREM FifoRefinement == KeySpec => ImplementsFifo
<1>1. con_init => Fifo!Init
  <2> SUFFICES ASSUME con_init PROVE Fifo!Init
    OBVIOUS
  <2>1. KeyInv
    BY KeyInitInv
  <2>2. Count = 0
    BY DEF con_init, Count
  <2>3. Contents = <<>>
    BY <2>1, <2>2, ContentsSeq DEF ContentsOK
  <2> QED BY <2>3 DEF con_init, Fifo!Init
<1>2. KeyInv /\ [KeyNext]_keyVars => [Fifo!Next]_<<Contents, data, error_status>>
  <2> SUFFICES ASSUME KeyInv, [KeyNext]_keyVars
               PROVE  Fifo!Next \/ UNCHANGED <<Contents, data, error_status>>
    OBVIOUS
  <2>1. CASE dequeue
    BY <2>1, DequeueGets DEF Fifo!Next
  <2>2. ASSUME NEW k \in Keys, enqueue(k) PROVE Fifo!Next
    BY <2>2, EnqueuePuts DEF Fifo!Next
  <2>3. CASE UNCHANGED keyVars
    BY <2>3 DEF keyVars, Contents, Count, Slot
  <2> QED BY <2>1, <2>2, <2>3 DEF KeyNext
<1> QED
  BY <1>1, <1>2, KeyInvariant, PTL DEF KeySpec, ImplementsFifo, Fifo!Spec


USE DEF sched_runq_enq, sched_runq_del, sched_wakeupq_enq, sched_wakeupq_del,
        sched_wakeupevq_enq, sched_wakeupevq_del

\* Every step of the kernel is a step of the scheduler or leaves it alone.
LEMMA NextIsSched == [Next]_vars => [SchedNext]_schedVars
<1> SUFFICES ASSUME [Next]_vars PROVE SchedNext \/ UNCHANGED schedVars
  OBVIOUS
<1>k. KBD \in Events
  BY KernelAssumption
<1>1. CASE timer_handler
  BY <1>1 DEF timer_handler, SchedNext
<1>2. ASSUME NEW k \in Keys \cup {NoKey}, do_ir_keyboard(k) PROVE SchedNext
  BY <1>2, <1>k DEF do_ir_keyboard, SchedNext
<1>3. CASE handler_step
  BY <1>3 DEF handler_step, SchedNext
<1>4. ASSUME NEW ms \in SleepMs, sys_sleep(ms) PROVE SchedNext
  BY <1>4 DEF sys_sleep, SchedNext
<1>5. ASSUME NEW t \in Tasks, sys_task_init(t) PROVE SchedNext
  BY <1>5 DEF sys_task_init, SchedNext
<1>6. CASE sys_get_line
  BY <1>6 DEF sys_get_line
<1>7. CASE get_line_key
  BY <1>7 DEF get_line_key
<1>8. CASE get_line_wait
  BY <1>8, <1>k DEF get_line_wait, SchedNext
<1>9. CASE UNCHANGED vars
  BY <1>9 DEF vars
<1> QED
  BY <1>1, <1>2, <1>3, <1>4, <1>5, <1>6, <1>7, <1>8, <1>9 DEF Next

\* Every step of the kernel is a step of the key queue or leaves it alone.
LEMMA NextIsKey == [Next]_vars => [KeyNext]_keyVars
<1> SUFFICES ASSUME [Next]_vars PROVE KeyNext \/ UNCHANGED keyVars
  OBVIOUS
<1>2. ASSUME NEW k \in Keys \cup {NoKey}, do_ir_keyboard(k)
      PROVE  KeyNext \/ UNCHANGED keyVars
  <2>1. CASE k = NoKey
    BY <1>2, <2>1 DEF do_ir_keyboard
  <2>2. CASE k # NoKey
    BY <1>2, <2>2 DEF do_ir_keyboard, KeyNext
  <2> QED BY <2>1, <2>2
<1>7. CASE get_line_key
  BY <1>7 DEF get_line_key, KeyNext
<1>8. CASE get_line_wait
  BY <1>8 DEF get_line_wait, KeyNext
<1> QED
  BY <1>2, <1>7, <1>8 DEF Next, vars, timer_handler, handler_step, sys_sleep,
                          sys_task_init, sys_get_line

(***************************************************************************)
(* The kernel implements Sched, so that every theorem about SchedSpec      *)
(* holds of it.                                                            *)
(***************************************************************************)
THEOREM KernelImplementsSched == Spec => SchedSpec
<1>1. Init => SchedInit
  BY DEF Init
<1> QED BY <1>1, NextIsSched, PTL DEF Spec, SchedSpec

\* enqueue and dequeue, called from the interrupt and from get_keydata, are a
\* bounded FIFO in the running kernel too.
THEOREM KernelImplementsFifo == Spec => ImplementsFifo
<1>1. Init => con_init
  BY DEF Init
<1>2. Spec => KeySpec
  BY <1>1, NextIsKey, PTL DEF Spec, KeySpec
<1> QED BY <1>2, FifoRefinement, PTL

(***************************************************************************)
(* The inductive invariant of the kernel's own state.                      *)
(***************************************************************************)
LineOK == /\ cont \in [Tasks -> {"user", "get_line"}]
          /\ line \in [Tasks -> 0 .. BufSize - 1]
          /\ \A t \in Tasks : cont[t] = "get_line" => line[t] < BufSize - 1

\* NoLostWakeup inside the walk: one key is still to be matched by a reader.
WakeupInv ==
    /\ cpu = "wakeupevq" => scan_event = KBD
    /\ Waiters # {} =>
         Count <= Cardinality(Readers) + (IF cpu = "wakeupevq" THEN 1 ELSE 0)

KernelInv == SchedInv /\ KeyInv /\ LineOK /\ WaitersAreReaders /\ WakeupInv

\* How the queue operations change the number of keys.
LEMMA CountChange ==
    ASSUME KeyInv
    PROVE  /\ Count \in Nat
           /\ IsEmpty => Count = 0
           /\ UNCHANGED keyVars => Count' = Count
           /\ \A k \in Keys : enqueue(k) => Count' <= Count + 1 /\ Count' \in Nat
           /\ dequeue => Count' \in Nat
           /\ dequeue /\ ~IsEmpty => Count' = Count - 1
<1>1. Count \in 0 .. QSize
  BY ContentsSeq DEF ContentsOK
<1>2. [KeyNext]_keyVars => Count' \in 0 .. QSize
  <2>1. KeyInv' => ContentsOK'
    BY ContentsSeq, PTL
  <2> QED BY <2>1, KeyStep DEF ContentsOK
<1>3. IsEmpty => Count = 0
  BY DEF IsEmpty, Count, KeyInv, KeyTypeOK
<1>4. UNCHANGED keyVars => Count' = Count
  BY DEF keyVars, Count
<1>t. /\ start \in 0 .. QSize - 1 /\ end \in 0 .. QSize - 1 /\ QSize \in Nat
      /\ is_full => start = end
  BY KeyAssumption DEF KeyInv, KeyTypeOK, KeyFullOK
<1>5. ASSUME NEW k \in Keys, enqueue(k) PROVE Count' <= Count + 1 /\ Count' \in Nat
  <2>0. Count' \in 0 .. QSize
    BY <1>5, <1>2 DEF KeyNext
  <2>1. CASE is_full
    BY <2>0, <2>1, <1>1, <1>t DEF Count
  <2>2. CASE ~is_full
    <3>1. Count = IF start <= end THEN end - start ELSE end - start + QSize
      BY <2>2 DEF Count
    <3>2. start' = start /\ end' = Inc(end) /\ is_full' = (start = Inc(end))
      BY <1>5, <2>2 DEF enqueue
    <3>3. Count' = IF start = end' THEN QSize
                   ELSE IF start <= end' THEN end' - start ELSE end' - start + QSize
      BY <3>2 DEF Count
    <3> QED BY <2>0, <3>1, <3>2, <3>3, <1>t DEF Inc
  <2> QED BY <2>1, <2>2
<1>6. ASSUME dequeue PROVE Count' \in Nat
  BY <1>6, <1>2, <1>t DEF KeyNext
<1>7. ASSUME dequeue, ~IsEmpty PROVE Count' = Count - 1
  <2>1. start' = Inc(start) /\ end' = end /\ is_full' = FALSE
    BY <1>7 DEF dequeue
  <2>2. Count' = IF start' <= end THEN end - start' ELSE end - start' + QSize
    BY <2>1 DEF Count
  <2>3. CASE is_full
    <3>1. Count = QSize
      BY <2>3 DEF Count
    <3> QED BY <3>1, <2>1, <2>2, <2>3, <1>t DEF Inc
  <2>4. CASE ~is_full
    <3>1. Count = IF start <= end THEN end - start ELSE end - start + QSize
      BY <2>4 DEF Count
    <3>2. start # end
      BY <1>7, <2>4 DEF IsEmpty
    <3> QED BY <3>1, <3>2, <2>1, <2>2, <1>t DEF Inc
  <2> QED BY <2>3, <2>4
<1> QED BY <1>1, <1>3, <1>4, <1>5, <1>6, <1>7

\* The invariant holds when kern_init enables interrupts.
LEMMA KernelInitInv == Init => KernelInv
<1> SUFFICES ASSUME Init PROVE KernelInv
  OBVIOUS
<1>1. SchedInv /\ KeyInv
  BY SchedInitInv, KeyInitInv DEF Init
<1>2. LineOK
  BY KernelAssumption DEF Init, LineOK
<1>3. rings.loc = [t \in Tasks |-> IF t = Shell THEN "run" ELSE "none"]
  <2>1. rings.loc = [EmptyHeap.loc EXCEPT ![Shell] = "run"]
    BY EnqLoc DEF Init, SchedInit
  <2> QED BY <2>1, SchedAssumption DEF EmptyHeap
<1>4. Waiters = {}
  BY <1>3 DEF Waiters, On
<1>5. WaitersAreReaders
  BY <1>4 DEF WaitersAreReaders, Init
<1>6. WakeupInv
  BY <1>4 DEF WakeupInv, Init, SchedInit
<1> QED BY <1>1, <1>2, <1>5, <1>6 DEF KernelInv

\* Every interrupt, loop iteration and system call keeps the invariant.
LEMMA KernelStep == KernelInv /\ [Next]_vars => KernelInv'
<1> SUFFICES ASSUME KernelInv, [Next]_vars PROVE KernelInv'
  OBVIOUS
<1>i. SchedInv /\ KeyInv /\ LineOK /\ WaitersAreReaders /\ WakeupInv
  BY DEF KernelInv
<1>s. SchedInv' /\ KeyInv'
  BY <1>i, NextIsSched, NextIsKey, SchedStep, KeyStep
<1>g. LineOK' /\ WaitersAreReaders' /\ WakeupInv' => KernelInv'
  BY <1>s DEF KernelInv
<1>t. /\ SchedTypeOK /\ PhaseOK /\ DispatchOK /\ Good(rings)
      /\ rings.loc \in [Tasks -> Places]
      /\ wakeup_after_event \in [Tasks -> Events \cup {NoEvent}]
      /\ cont \in [Tasks -> {"user", "get_line"}]
      /\ Count \in Nat
  BY <1>i, CountChange DEF SchedInv, QueuesOK, Good, SchedTypeOK, Heaps, LineOK
<1>f. /\ IsFiniteSet(Readers) /\ IsFiniteSet(Readers')
      /\ Cardinality(Readers) \in Nat /\ Cardinality(Readers') \in Nat
  BY TasksAssumption, FS_Subset, FS_CardinalityType DEF Readers, On
\* Steps that take nobody off the run queue inside get_keydata().
<1>mono. ASSUME Waiters' \subseteq Waiters, Readers \subseteq Readers', Count' = Count,
                cpu # "wakeupevq", cpu' # "wakeupevq"
         PROVE  WakeupInv'
  <2>1. Cardinality(Readers) <= Cardinality(Readers')
    BY <1>mono, <1>f, FS_Subset
  <2>2. Waiters' # {} => Count' <= Cardinality(Readers')
    BY <2>1, <1>mono, <1>i, <1>f, <1>t DEF WakeupInv
  <2> QED BY <2>2, <1>mono, <1>f DEF WakeupInv
<1>line. ASSUME UNCHANGED taskVars PROVE LineOK'
  BY <1>line, <1>i DEF taskVars, LineOK
<1>key. ASSUME UNCHANGED keyVars PROVE Count' = Count
  BY <1>key, <1>i, CountChange
<1>1. CASE timer_handler
  <2>1. /\ UNCHANGED <<rings, wakeup_after_event>> /\ UNCHANGED keyVars
        /\ cont' = cont /\ UNCHANGED taskVars
        /\ cpu = "task" /\ cpu' # "wakeupevq"
    BY <1>1 DEF timer_handler, do_ir_timer, taskVars
  <2>2. Waiters' = Waiters /\ Readers' = Readers
    BY <2>1 DEF Waiters, Readers, On
  <2>3. WaitersAreReaders'
    BY <2>1, <2>2, <1>i DEF WaitersAreReaders
  <2>4. WakeupInv'
    BY <2>1, <2>2, <1>mono, <1>key
  <2> QED BY <2>1, <2>3, <2>4, <1>line, <1>g
<1>2. ASSUME NEW k \in Keys \cup {NoKey}, do_ir_keyboard(k) PROVE KernelInv'
  <2>1. /\ UNCHANGED <<rings, wakeup_after_event>>
        /\ cont' = cont /\ UNCHANGED taskVars /\ cpu = "task"
        /\ rings.head["event"] # NULL => cpu' = "wakeupevq" /\ scan_event' = KBD
        /\ rings.head["event"] = NULL => cpu' = "task"
    BY <1>2 DEF do_ir_keyboard, do_ir_event, taskVars
  <2>2. Waiters' = Waiters /\ Readers' = Readers
    BY <2>1 DEF Waiters, Readers, On
  <2>3. WaitersAreReaders'
    BY <2>1, <2>2, <1>i DEF WaitersAreReaders
  <2>4. Count' <= Count + 1 /\ Count' \in Nat
    <3>1. CASE k = NoKey
      BY <1>2, <3>1, <1>key, <1>t DEF do_ir_keyboard
    <3>2. CASE k # NoKey
      BY <1>2, <3>2, <1>i, CountChange DEF do_ir_keyboard
    <3> QED BY <3>1, <3>2
  <2>5. rings.head["event"] = NULL => Waiters = {}
    BY <1>t DEF Good, RingOK, HeadOK, Waiters, Queues
  <2>6. Waiters # {} => Count <= Cardinality(Readers)
    BY <2>1, <1>i, <1>f, <1>t DEF WakeupInv
  <2>7. WakeupInv'
    <3>1. CASE rings.head["event"] = NULL
      BY <3>1, <2>1, <2>2, <2>5 DEF WakeupInv
    <3>2. CASE rings.head["event"] # NULL
      <4>1. Waiters' # {} => Count' <= Cardinality(Readers') + 1
        BY <2>2, <2>4, <2>6, <1>f, <1>t
      <4> QED BY <3>2, <4>1, <2>1 DEF WakeupInv
    <3> QED BY <3>1, <3>2
  <2> QED BY <2>1, <2>3, <2>7, <1>line, <1>g
<1>3. CASE sched_update_wakeupq /\ UNCHANGED <<keyVars, taskVars>>
  <2>0. scan \in Tasks /\ rings.loc[scan] = "wakeup" /\ cpu = "wakeupq"
    BY <1>3, <1>t DEF PhaseOK, sched_update_wakeupq
  <2>1. rings'.loc = rings.loc \/ rings'.loc = [rings.loc EXCEPT ![scan] = "run"]
    <3>1. \/ rings' = rings
          \/ rings' = Enq(Del(rings, "wakeup", scan), "run", scan)
      BY <1>3 DEF sched_update_wakeupq
    <3>2. Enq(Del(rings, "wakeup", scan), "run", scan).loc
            = [rings.loc EXCEPT ![scan] = "run"]
      BY <2>0, <1>t, WalkOK
    <3> QED BY <3>1, <3>2
  <2>2. /\ wakeup_after_event' = wakeup_after_event /\ UNCHANGED keyVars
        /\ cont' = cont /\ UNCHANGED taskVars /\ cpu' # "wakeupevq"
    BY <1>3 DEF sched_update_wakeupq, taskVars
  <2>3. cont[scan] = "user"
    BY <2>0, <1>i, <1>t DEF WaitersAreReaders
  <2>4. \A t \in Tasks : /\ rings'.loc[t] = "event" <=> rings.loc[t] = "event"
                         /\ t # scan => rings'.loc[t] = rings.loc[t]
    BY <2>0, <2>1, <1>t
  <2>5. Waiters' = Waiters /\ Readers' = Readers
    BY <2>2, <2>3, <2>4 DEF Waiters, Readers, On
  <2>6. WaitersAreReaders'
    BY <2>2, <2>3, <2>4, <2>5, <1>i DEF WaitersAreReaders
  <2>7. WakeupInv'
    BY <2>0, <2>2, <2>5, <1>mono, <1>key
  <2> QED BY <2>2, <2>6, <2>7, <1>line, <1>g
<1>4. CASE schedule_timer /\ UNCHANGED <<keyVars, taskVars>>
  <2>1. /\ UNCHANGED <<rings, wakeup_after_event>> /\ UNCHANGED keyVars
        /\ cont' = cont /\ UNCHANGED taskVars
        /\ cpu = "schedule" /\ cpu' # "wakeupevq"
    BY <1>4 DEF schedule_timer, taskVars
  <2>2. Waiters' = Waiters /\ Readers' = Readers
    BY <2>1 DEF Waiters, Readers, On
  <2>3. WaitersAreReaders'
    BY <2>1, <2>2, <1>i DEF WaitersAreReaders
  <2>4. WakeupInv'
    BY <2>1, <2>2, <1>mono, <1>key
  <2> QED BY <2>1, <2>3, <2>4, <1>line, <1>g
<1>5. CASE sched_update_wakeupevq /\ UNCHANGED <<keyVars, taskVars>>
  <2>0. /\ scan \in Tasks /\ rings.loc[scan] = "event" /\ cpu = "wakeupevq"
        /\ scan_event = KBD /\ wakeup_after_event[scan] = KBD
        /\ cont[scan] = "get_line"
    BY <1>5, <1>t, <1>i
       DEF PhaseOK, sched_update_wakeupevq, WakeupInv, WaitersAreReaders, Waiters, On
  <2>1. rings'.loc = [rings.loc EXCEPT ![scan] = "run"]
    <3>1. rings' = Enq(Del(rings, "event", scan), "run", scan)
      BY <1>5, <2>0 DEF sched_update_wakeupevq
    <3> QED BY <3>1, <2>0, <1>t, WalkOK
  <2>2. /\ wakeup_after_event' = [wakeup_after_event EXCEPT ![scan] = NoEvent]
        /\ UNCHANGED keyVars /\ cont' = cont /\ UNCHANGED taskVars
        /\ cpu' = "wakeupevq" => scan_event' = KBD
    BY <1>5, <2>0, <1>t DEF sched_update_wakeupevq, taskVars
  <2>3. /\ Waiters' = Waiters \ {scan} /\ scan \in Waiters
        /\ Readers' = Readers \cup {scan} /\ scan \notin Readers
    BY <2>0, <2>1, <2>2, <1>t DEF Waiters, Readers, On
  <2>4. WaitersAreReaders'
    BY <2>0, <2>1, <2>2, <2>3, <1>t, <1>i DEF WaitersAreReaders, Waiters, On
  <2>5. Cardinality(Readers') = Cardinality(Readers) + 1
    BY <2>3, <1>f, FS_AddElement
  <2>6. Count <= Cardinality(Readers) + 1
    BY <2>0, <2>3, <1>i DEF WakeupInv
  <2>7. Count' <= Cardinality(Readers')
    BY <2>2, <2>5, <2>6, <1>key
  <2>8. WakeupInv'
    BY <2>2, <2>7, <1>f, <1>t, <1>key DEF WakeupInv
  <2> QED BY <2>2, <2>4, <2>8, <1>line, <1>g
<1>6. ASSUME NEW ms \in SleepMs, sys_sleep(ms) PROVE KernelInv'
  <2>0. cpu = "task" /\ tr \in Tasks /\ cont[tr] = "user" /\ cpu' = "task"
    BY <1>6 DEF sys_sleep, InUser, sys_wakeup_after_msec
  <2>1. rings'.loc = [rings.loc EXCEPT ![tr] = "wakeup"]
    BY <1>6, <1>i, BlockOK DEF sys_sleep, sys_wakeup_after_msec
  <2>2. /\ wakeup_after_event' = wakeup_after_event /\ UNCHANGED keyVars
        /\ cont' = cont /\ UNCHANGED taskVars
    BY <1>6 DEF sys_sleep, sys_wakeup_after_msec, taskVars
  <2>r. rings.loc[tr] = "run"
    BY <2>0, <1>t, SchedAssumption DEF DispatchOK
  <2>3. Waiters' = Waiters /\ Readers' = Readers
    BY <2>0, <2>1, <2>2, <2>r, <1>t DEF Waiters, Readers, On
  <2>4. WaitersAreReaders'
    BY <2>0, <2>1, <2>2, <2>3, <1>t, <1>i DEF WaitersAreReaders
  <2>5. WakeupInv'
    BY <2>0, <2>2, <2>3, <1>mono, <1>key
  <2> QED BY <2>2, <2>4, <2>5, <1>line, <1>g
<1>7. ASSUME NEW t \in Tasks, sys_task_init(t) PROVE KernelInv'
  <2>0. rings.loc[t] = "none" /\ cpu = "task" /\ cpu' = "task"
    BY <1>7 DEF sys_task_init, sys_exec
  <2>1. rings'.loc = [rings.loc EXCEPT ![t] = "run"]
    BY <1>7 DEF sys_task_init, sys_exec, Enq, EnqHistory
  <2>2. /\ wakeup_after_event' = wakeup_after_event /\ UNCHANGED keyVars
        /\ cont' = cont /\ UNCHANGED taskVars
    BY <1>7 DEF sys_task_init, sys_exec, taskVars
  <2>r. cont[t] = "user"
    BY <2>0, <1>i, <1>t DEF WaitersAreReaders
  <2>3. Waiters' = Waiters /\ Readers' = Readers
    BY <2>0, <2>1, <2>2, <2>r, <1>t DEF Waiters, Readers, On
  <2>4. WaitersAreReaders'
    BY <2>0, <2>1, <2>2, <2>r, <2>3, <1>t, <1>i DEF WaitersAreReaders
  <2>5. WakeupInv'
    BY <2>0, <2>2, <2>3, <1>mono, <1>key
  <2> QED BY <2>2, <2>4, <2>5, <1>line, <1>g
<1>8. CASE sys_get_line
  <2>0. /\ cpu = "task" /\ tr \in Tasks /\ cont' = [cont EXCEPT ![tr] = "get_line"]
        /\ line' = [line EXCEPT ![tr] = 0]
        /\ UNCHANGED <<rings, wakeup_after_event, cpu>> /\ UNCHANGED keyVars
    BY <1>8 DEF sys_get_line, InUser, schedVars
  <2>r. rings.loc[tr] = "run"
    BY <2>0, <1>t, SchedAssumption DEF DispatchOK
  <2>1. LineOK'
    BY <2>0, <1>i, KernelAssumption DEF LineOK
  <2>2. Waiters' = Waiters /\ Readers \subseteq Readers'
    BY <2>0, <1>t DEF Waiters, Readers, On
  <2>3. WaitersAreReaders'
    BY <2>0, <2>r, <2>2, <1>t, <1>i DEF WaitersAreReaders
  <2>4. WakeupInv'
    BY <2>0, <2>2, <1>mono, <1>key
  <2> QED BY <2>1, <2>3, <2>4, <1>g
<1>9. CASE get_line_key
  <2>0. /\ cpu = "task" /\ tr \in Tasks /\ cont[tr] = "get_line"
        /\ line' = [line EXCEPT ![tr] = Edit(data', @)]
        /\ cont' = [cont EXCEPT ![tr] = IF LineDone(data', line'[tr])
                                        THEN "user" ELSE @]
        /\ UNCHANGED <<rings, wakeup_after_event, cpu>>
        /\ dequeue /\ ~IsEmpty
    BY <1>9 DEF get_line_key, InKernelCall, schedVars
  <2>r. rings.loc[tr] = "run"
    BY <2>0, <1>t, SchedAssumption DEF DispatchOK
  <2>1. LineOK'
    <3>1. line[tr] \in 0 .. BufSize - 1 /\ line[tr] < BufSize - 1 /\ BufSize \in Nat
      BY <2>0, <1>i, KernelAssumption DEF LineOK
    <3>2. Edit(data', line[tr]) \in 0 .. BufSize - 1
      BY <3>1 DEF Edit
    <3>3. line'[tr] = Edit(data', line[tr]) /\ line' \in [Tasks -> 0 .. BufSize - 1]
      BY <3>2, <2>0, <1>i DEF LineOK
    <3>4. cont' \in [Tasks -> {"user", "get_line"}]
      BY <2>0, <1>i DEF LineOK
    <3>5. cont'[tr] = "get_line" => line'[tr] < BufSize - 1
      BY <3>1, <3>2, <3>3, <2>0, <1>t DEF LineDone
    <3>6. \A t \in Tasks : t # tr => cont'[t] = cont[t] /\ line'[t] = line[t]
      BY <2>0, <1>i DEF LineOK
    <3> QED BY <3>3, <3>4, <3>5, <3>6, <1>i DEF LineOK
  <2>2. Waiters' = Waiters /\ Readers \ {tr} \subseteq Readers' /\ tr \in Readers
    BY <2>0, <2>r, <1>t DEF Waiters, Readers, On
  <2>3. WaitersAreReaders'
    BY <2>0, <2>r, <2>2, <1>t, <1>i DEF WaitersAreReaders, Waiters, On
  <2>4. Cardinality(Readers) - 1 <= Cardinality(Readers')
    <3>1. /\ IsFiniteSet(Readers \ {tr})
          /\ Cardinality(Readers \ {tr}) = Cardinality(Readers) - 1
      BY <2>2, <1>f, FS_RemoveElement
    <3> QED BY <3>1, <2>2, <1>f, FS_Subset
  <2>5. Count' = Count - 1
    BY <2>0, <1>i, CountChange
  <2>6. WakeupInv'
    <3>1. Waiters' # {} => Count' <= Cardinality(Readers')
      BY <2>0, <2>2, <2>4, <2>5, <1>f, <1>t, <1>i DEF WakeupInv
    <3> QED BY <3>1, <2>0, <1>f DEF WakeupInv
  <2> QED BY <2>1, <2>3, <2>6, <1>g
<1>10. CASE get_line_wait
  <2>0. /\ cpu = "task" /\ tr \in Tasks /\ cont[tr] = "get_line" /\ cpu' = "task"
        /\ IsEmpty /\ dequeue /\ cont' = cont /\ UNCHANGED taskVars
        /\ sys_wakeup_after_event(KBD)
    BY <1>10 DEF get_line_wait, InKernelCall, sys_wakeup_after_event, taskVars
  <2>1. rings'.loc = [rings.loc EXCEPT ![tr] = "event"] /\ current_task = tr
    BY <2>0, <1>i, BlockOK DEF sys_wakeup_after_event
  <2>2. wakeup_after_event' = [wakeup_after_event EXCEPT ![tr] = KBD]
    BY <2>0, <2>1 DEF sys_wakeup_after_event
  <2>3. WaitersAreReaders'
    BY <2>0, <2>1, <2>2, <1>t, <1>i DEF WaitersAreReaders, Waiters, On
  <2>4. Count' = 0
    <3>1. UNCHANGED <<start, end, is_full>>
      BY <2>0 DEF dequeue
    <3>2. Count' = Count
      BY <3>1 DEF Count
    <3> QED BY <3>2, <2>0, <1>i, CountChange
  <2>5. WakeupInv'
    BY <2>0, <2>4, <1>f DEF WakeupInv
  <2> QED BY <2>0, <2>3, <2>5, <1>line, <1>g
<1>11. CASE UNCHANGED vars
  <2>1. UNCHANGED schedVars /\ UNCHANGED keyVars /\ UNCHANGED taskVars
    BY <1>11 DEF vars
  <2>2. /\ UNCHANGED <<rings, wakeup_after_event, cpu, scan_event>> /\ cont' = cont
    BY <2>1 DEF schedVars, taskVars
  <2>3. Waiters' = Waiters /\ Readers' = Readers /\ Count' = Count
    BY <2>1, <2>2, <1>key DEF Waiters, Readers, On
  <2>4. WaitersAreReaders' /\ WakeupInv'
    BY <2>2, <2>3, <1>i DEF WaitersAreReaders, WakeupInv
  <2> QED BY <2>1, <2>4, <1>line, <1>g
<1> QED
  BY <1>1, <1>2, <1>3, <1>4, <1>5, <1>6, <1>7, <1>8, <1>9, <1>10, <1>11
     DEF Next, handler_step

\* The inductive invariant of the composed kernel.
THEOREM KernelInvariant == Spec => []KernelInv
  BY KernelInitInv, KernelStep, PTL DEF Spec

(***************************************************************************)
(* do_ir_keyboard / get_keydata: no keyboard wake-up is lost.              *)
(***************************************************************************)
THEOREM NoWakeupLost == Spec => []NoLostWakeup
<1>1. KernelInv => NoLostWakeup
  <2> SUFFICES ASSUME KernelInv, Waiters # {}, cpu # "wakeupevq"
               PROVE  Count <= Cardinality(Readers)
    BY DEF NoLostWakeup
  <2>1. Count \in Nat /\ Cardinality(Readers) \in Nat
    BY CountChange, TasksAssumption, FS_Subset, FS_CardinalityType
       DEF KernelInv, Readers, On
  <2> QED BY <2>1 DEF KernelInv, WakeupInv
<1> QED BY <1>1, KernelInvariant, PTL

(***************************************************************************)
(* Types, and with them that get_line never writes outside its buffer.     *)
(***************************************************************************)
THEOREM KernelTypes == Spec => []KernelTypeOK
<1>1. KernelInv => KernelTypeOK
  BY DEF KernelInv, KernelTypeOK, SchedInv, KeyInv, LineOK
<1> QED BY <1>1, KernelInvariant, PTL

(***************************************************************************)
(* get_keydata(): the tasks on the event queue are inside get_keydata, and *)
(* a task inside it is runnable or on that queue, never asleep or lost.    *)
(***************************************************************************)
THEOREM WaitersAlwaysReaders == Spec => []WaitersAreReaders
<1>1. KernelInv => WaitersAreReaders
  BY DEF KernelInv
<1> QED BY <1>1, KernelInvariant, PTL
==============================================================================
