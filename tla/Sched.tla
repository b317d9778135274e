------------------------------- MODULE Sched -------------------------------
(***************************************************************************)
(* The scheduler of kernel/sched.c with the interrupt and system-call      *)
(* entries that drive it (do_ir_timer, do_ir_keyboard, do_syscall).        *)
(*                                                                         *)
(* All IDT entries are interrupt gates, so handlers and system calls run   *)
(* with EFLAGS.IF = 0 and kern_lock/kern_unlock inside them change         *)
(* nothing; the processor takes an interrupt only while it executes a      *)
(* task's own code (cpu = "task").  The two queue-walking loops are one    *)
(* step per iteration; no other action is enabled between the iterations.  *)
(* A system call is one step, up to and including the task switch its      *)
(* schedule() makes.                                                       *)
(***************************************************************************)
EXTENDS TaskQueues

CONSTANTS Kern,        \* the kernel task, task_instance_table[KERN_TASK_ID]
          Fault,       \* the halted processor after a faulting ljmp
          Shell,       \* the task kern_init creates
          Events,      \* event types (EVENT_TYPE_KBD)
          NoEvent,     \* the value 0 of wakeup_after_event
          TickMs,      \* TIMER_TICK_MS
          SleepMs,     \* arguments of the sleep system call
          CounterMod   \* 2^32: global_counter is a 32-bit unsigned long

ASSUME SchedAssumption ==
    /\ Shell \in Tasks
    /\ Kern \notin Tasks /\ Fault \notin Tasks /\ Kern # Fault
    /\ NoEvent \notin Events
    /\ TickMs \in Nat \ {0}
    /\ SleepMs \subseteq Nat
    /\ CounterMod \in Nat /\ CounterMod > TickMs

VARIABLES
    rings,             \* the three queues and the tasks' links
    current_task,      \* NULL while the kernel task runs
    task_switched,     \* task_switched_in_time_slice of every struct task
    wakeup_after_msec,
    wakeup_after_event,
    global_counter,
    tr,                \* task register: whose context the processor is in
    isr,               \* in-service bits of the master PIC
    cpu,               \* "task", or the loop / call a handler is in
    scan, scan_event,  \* t and event_type of the queue-walking loops
    asked, slept       \* history: sleep asked for, milliseconds of ticks since

schedVars == <<rings, current_task, task_switched, wakeup_after_msec,
          wakeup_after_event, global_counter, tr, isr, cpu, scan, scan_event,
          asked, slept>>
history == <<asked, slept>>

SchedTypeOK ==
    /\ rings \in Heaps
    /\ current_task \in TaskPtr
    /\ task_switched \in [Tasks \cup {Dummy} -> BOOLEAN]
    /\ wakeup_after_msec \in [Tasks -> Nat]
    /\ wakeup_after_event \in [Tasks -> Events \cup {NoEvent}]
    /\ global_counter \in 0 .. CounterMod - 1
    /\ tr \in Tasks \cup {Kern, Fault}
    /\ isr \subseteq {"timer", "kbd"}
    /\ cpu \in {"task", "wakeupq", "wakeupevq", "schedule"}
    /\ scan \in TaskPtr
    /\ scan_event \in Events \cup {NoEvent}
    /\ asked \in [Tasks -> Nat]
    /\ slept \in [Tasks -> Nat]

SchedInit ==
    /\ rings = sched_runq_enq(EmptyHeap, Shell)
    /\ current_task = NULL
    /\ task_switched = [t \in Tasks \cup {Dummy} |-> FALSE]
    /\ wakeup_after_msec = [t \in Tasks |-> 0]
    /\ wakeup_after_event = [t \in Tasks |-> NoEvent]
    /\ global_counter = 0
    /\ tr = Kern
    /\ isr = {}
    /\ cpu = "task"
    /\ scan = NULL /\ scan_event = NoEvent
    /\ asked = [t \in Tasks |-> 0]
    /\ slept = [t \in Tasks |-> 0]

----------------------------------------------------------------------------
(***************************************************************************)
(* schedule(cause), called with the queues r, current_task = cur and the   *)
(* flags fl.  Every path sends the timer's EOI, and does so before the far *)
(* jump: nobody would send it after a switch to a task that has not been   *)
(* in the kernel yet.  A far jump to the TSS that is already in the task   *)
(* register raises #GP, and exception_handler never returns.               *)
(***************************************************************************)
ContextSwitch(t) == tr' = IF t = tr THEN Fault ELSE t

\* Mutants: the keyboard handler acknowledges the timer's line; nobody
\* acknowledges anything.
EndOfTimerOnly(irq) == isr' = isr \ {"timer"}
NoEndOfInterrupt(irq) == UNCHANGED isr

EndOfInterrupt(irq) == isr' = isr \ {irq}

\* A task switched in by a system call keeps the rest of that tick's slice
\* and the next one.
KeepsSlice(cause, cur, fl) == cause = "timer" /\ cur # NULL /\ fl[cur]

\* Mutant: the flag is cleared on the common path only, so that a task
\* switched in by a system call is never preempted.
ClearFlagNotOnReturn(cur, fl) ==
    IF cur = NULL \/ cpu = "schedule" THEN fl ELSE [fl EXCEPT ![cur] = FALSE]

ClearFlag(cur, fl) == IF cur = NULL THEN fl ELSE [fl EXCEPT ![cur] = FALSE]

\* Mutant: a lone runnable task is switched to again.
AlwaysSuccessor(r, cur) == TRUE

HasSuccessor(r, cur) == cur # r.next[cur]

Schedule(cause, r, cur, fl) ==
    LET cleared == ClearFlag(cur, fl)
        SwitchTo(n) ==
            /\ current_task' = n
            /\ task_switched' = IF cause = "syscall"
                                THEN [cleared EXCEPT ![n] = TRUE] ELSE cleared
            /\ EndOfInterrupt("timer")
            /\ ContextSwitch(n)
        Stay == /\ current_task' = cur
                /\ task_switched' = cleared
                /\ EndOfInterrupt("timer")
                /\ UNCHANGED tr
    IN  IF KeepsSlice(cause, cur, fl)
        THEN Stay
        ELSE IF r.head["run"] = NULL
        THEN IF cur = NULL
             THEN Stay
             ELSE /\ current_task' = NULL
                  /\ task_switched' = cleared
                  /\ EndOfInterrupt("timer")
                  /\ ContextSwitch(Kern)
        ELSE IF cur # NULL
        THEN IF HasSuccessor(r, cur) THEN SwitchTo(r.next[cur]) ELSE Stay
        ELSE SwitchTo(r.head["run"])

----------------------------------------------------------------------------
(***************************************************************************)
(* Timer interrupt: do_ir_timer, sched_update_wakeupq, schedule(TIMER).    *)
(***************************************************************************)
Wrap(n) == IF n >= CounterMod THEN n - CounterMod ELSE n

do_ir_timer ==
    /\ cpu = "task" /\ tr # Fault
    /\ "timer" \notin isr
    /\ isr' = isr \cup {"timer"}
    /\ global_counter' = Wrap(global_counter + TickMs)
    /\ scan' = rings.head["wakeup"]
    /\ cpu' = IF rings.head["wakeup"] = NULL THEN "schedule" ELSE "wakeupq"
    /\ slept' = [t \in Tasks |-> IF rings.loc[t] = "wakeup"
                                 THEN slept[t] + TickMs ELSE slept[t]]
    /\ UNCHANGED <<rings, current_task, task_switched, wakeup_after_msec,
                   wakeup_after_event, tr, scan_event, asked>>

\* The do-while condition, evaluated with the queues r and the next task n.
LoopAgain(r, q, n) == r.head[q] # NULL /\ n # r.head[q]

\* Mutants: a sleeper is released one tick early, one tick late.
TimeLeftEarly(t) == wakeup_after_msec[t] > 2 * TickMs
TimeLeftGe(t) == wakeup_after_msec[t] >= TickMs

TimeLeft(t) == wakeup_after_msec[t] > TickMs

sched_update_wakeupq ==
    /\ cpu = "wakeupq"
    /\ LET t == scan
           n == rings.next[t]
           r == IF TimeLeft(t) THEN rings
                ELSE sched_runq_enq(sched_wakeupq_del(rings, t), t)
       IN  /\ rings' = r
           /\ IF TimeLeft(t)
              THEN /\ wakeup_after_msec' = [wakeup_after_msec EXCEPT ![t] = @ - TickMs]
                   /\ UNCHANGED history
              ELSE /\ wakeup_after_msec' = [wakeup_after_msec EXCEPT ![t] = 0]
                   /\ asked' = [asked EXCEPT ![t] = 0]
                   /\ slept' = [slept EXCEPT ![t] = 0]
           /\ IF LoopAgain(r, "wakeup", n)
              THEN scan' = n /\ cpu' = "wakeupq"
              ELSE scan' = NULL /\ cpu' = "schedule"
    /\ UNCHANGED <<current_task, task_switched, wakeup_after_event,
                   global_counter, tr, isr, scan_event>>

schedule_timer ==
    /\ cpu = "schedule"
    /\ Schedule("timer", rings, current_task, task_switched)
    /\ cpu' = "task"
    /\ UNCHANGED <<rings, wakeup_after_msec, wakeup_after_event,
                   global_counter, scan, scan_event, asked, slept>>

----------------------------------------------------------------------------
(***************************************************************************)
(* Keyboard interrupt, the scheduler's half: sched_update_wakeupevq(ev)    *)
(* and the EOI.  (What happens to the key is in Kernel.tla.)               *)
(***************************************************************************)
do_ir_event(ev) ==
    /\ cpu = "task" /\ tr # Fault
    /\ isr = {}
    /\ IF rings.head["event"] = NULL
       THEN UNCHANGED <<isr, cpu, scan, scan_event>>
       ELSE /\ isr' = isr \cup {"kbd"}
            /\ cpu' = "wakeupevq"
            /\ scan' = rings.head["event"]
            /\ scan_event' = ev
    /\ UNCHANGED <<rings, current_task, task_switched, wakeup_after_msec,
                   wakeup_after_event, global_counter, tr, asked, slept>>

sched_update_wakeupevq ==
    /\ cpu = "wakeupevq"
    /\ LET t == scan
           n == rings.next[t]
           r == IF wakeup_after_event[t] = scan_event
                THEN sched_runq_enq(sched_wakeupevq_del(rings, t), t) ELSE rings
       IN  /\ rings' = r
           /\ wakeup_after_event' =
                [wakeup_after_event EXCEPT ![t] = IF @ = scan_event THEN NoEvent ELSE @]
           /\ IF LoopAgain(r, "event", n)
              THEN scan' = n /\ UNCHANGED <<cpu, isr, scan_event>>
              ELSE /\ scan' = NULL /\ scan_event' = NoEvent
                   /\ EndOfInterrupt("kbd")
                   /\ cpu' = "task"
    /\ UNCHANGED <<current_task, task_switched, wakeup_after_msec,
                   global_counter, tr, asked, slept>>

----------------------------------------------------------------------------
(***************************************************************************)
(* wakeup_after_msec and wakeup_after_event: the calling task leaves the   *)
(* run queue for a wait queue and dummy_task stands in for it in           *)
(* schedule(), so that "next" is still the task after the caller.          *)
(***************************************************************************)
\* Mutant: dummy_task.next is left as it was.
DummyStale(r, t) == r

DummyFollows(r, t) ==
    IF r.next[t] # t THEN [r EXCEPT !.next[Dummy] = r.next[t]] ELSE r

BlockCurrent(q) ==
    LET t == current_task
        d == sched_runq_del(DummyFollows(rings, t), t)
        r == IF q = "wakeup" THEN sched_wakeupq_enq(d, t) ELSE sched_wakeupevq_enq(d, t)
    IN  /\ rings' = r
        /\ Schedule("syscall", r, Dummy, task_switched)

sys_wakeup_after_msec(ms) ==
    /\ cpu = "task" /\ tr \in Tasks
    /\ wakeup_after_msec' = [wakeup_after_msec EXCEPT ![current_task] = ms]
    /\ BlockCurrent("wakeup")
    /\ asked' = [asked EXCEPT ![current_task] = ms]
    /\ slept' = [slept EXCEPT ![current_task] = 0]
    /\ UNCHANGED <<wakeup_after_event, global_counter, cpu, scan, scan_event>>

sys_wakeup_after_event(ev) ==
    /\ cpu = "task" /\ tr \in Tasks
    /\ wakeup_after_event' = [wakeup_after_event EXCEPT ![current_task] = ev]
    /\ BlockCurrent("event")
    /\ UNCHANGED <<wakeup_after_msec, global_counter, cpu, scan, scan_event,
                   asked, slept>>

(***************************************************************************)
(* The exec system call as the scheduler sees it: task_init puts a new,    *)
(* zero-filled struct task on the run queue.                               *)
(***************************************************************************)
sys_exec(t) ==
    /\ cpu = "task" /\ tr \in Tasks
    /\ rings.loc[t] = "none"
    /\ rings' = sched_runq_enq(rings, t)
    /\ UNCHANGED <<current_task, task_switched, wakeup_after_msec,
                   wakeup_after_event, global_counter, tr, isr, cpu, scan,
                   scan_event, asked, slept>>

SchedNext ==
    \/ do_ir_timer
    \/ sched_update_wakeupq
    \/ schedule_timer
    \/ \E ev \in Events : do_ir_event(ev)
    \/ sched_update_wakeupevq
    \/ \E ms \in SleepMs : sys_wakeup_after_msec(ms)
    \/ \E ev \in Events : sys_wakeup_after_event(ev)
    \/ \E t \in Tasks : sys_exec(t)

SchedSpec == SchedInit /\ [][SchedNext]_schedVars

----------------------------------------------------------------------------
(***************************************************************************)
(* sched.c, the queue functions: a task is on one queue at most.  Between  *)
(* any two steps the head, len, prev and next fields of the three queues   *)
(* form exactly the rings of the tasks put on them, in order, although all *)
(* three share one pair of links per task and the walking loops unlink     *)
(* the element they stand on.                                              *)
(***************************************************************************)
QueuesOK == RingOK(rings)

(***************************************************************************)
(* schedule(): the task register agrees with current_task, the current     *)
(* task is on the run queue, and no far jump ever targeted the busy TSS.   *)
(***************************************************************************)
DispatchOK ==
    /\ tr = IF current_task = NULL THEN Kern ELSE current_task
    /\ current_task # NULL => rings.loc[current_task] = "run"

(***************************************************************************)
(* schedule(), do_ir_keyboard(): whatever path a handler takes, and        *)
(* whichever task it leaves the processor to, no interrupt is left in      *)
(* service when task code runs again (it would block all further ones).    *)
(***************************************************************************)
Acknowledged == cpu = "task" => isr = {}

(***************************************************************************)
(* sched_update_wakeupq(): a sleeper is never released before the ticks it *)
(* asked for have elapsed.                                                 *)
(***************************************************************************)
SleepNotEarly ==
    [][\A t \in Tasks : rings.loc[t] = "wakeup" /\ rings'.loc[t] = "run"
         => slept[t] >= asked[t]]_schedVars

(***************************************************************************)
(* sched_update_wakeupq() stops its walk when the head itself is released, *)
(* so the other sleepers lose that tick.  A sleeper loses at most one tick *)
(* for each other task: it is still asleep only while less than the time   *)
(* it asked for (one tick if that was 0) plus |Tasks| - 1 ticks passed.    *)
(***************************************************************************)
SleepBounded ==
    \A t \in Tasks : cpu = "task" /\ rings.loc[t] = "wakeup" =>
        slept[t] < (IF asked[t] = 0 THEN TickMs ELSE asked[t])
                     + TickMs * (Cardinality(Tasks) - 1)

(***************************************************************************)
(* The scheduler implements the abstract one.                              *)
(***************************************************************************)
Abs == INSTANCE AbsSched WITH place <- rings.loc, running <- tr
ImplementsAbsSched == Abs!Spec

(***************************************************************************)
(* Every runnable task gets the processor again and again (two user tasks, *)
(* the number the GDT has TSS slots for).                                  *)
(***************************************************************************)
NoStarvation == \A t \in Tasks : rings.loc[t] = "run" ~> tr = t

(***************************************************************************)
(* A task in wakeup_after_msec becomes runnable again, whatever the        *)
(* releases of other sleepers do to the walk over the wakeup queue.        *)
(***************************************************************************)
SleepersWake == \A t \in Tasks : rings.loc[t] = "wakeup" ~> rings.loc[t] = "run"
=============================================================================
