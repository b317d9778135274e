------------------------------- MODULE Kernel -------------------------------
(***************************************************************************)
(* The running system: the scheduler (Sched), the keyboard buffer          *)
(* (KeyQueue), the keyboard interrupt that feeds the second and wakes      *)
(* tasks of the first, and the system calls of the user tasks.             *)
(*                                                                         *)
(* A task that is switched out inside get_line() resumes there, still with *)
(* IF = 0, and asks the buffer again before it can be interrupted; cont    *)
(* records that continuation.                                              *)
(***************************************************************************)
EXTENDS Sched, KeyQueue

CONSTANTS KBD,       \* EVENT_TYPE_KBD
          BufSize    \* buf_size of the get_line system call

(***************************************************************************)
(* Keys are told apart as far as get_line does: a key release, backspace,  *)
(* return, and anything else.                                              *)
(***************************************************************************)
ASSUME KernelAssumption ==
    /\ Events = {KBD}
    /\ Keys \subseteq {"release", "bs", "enter", "char"}
    /\ BufSize \in Nat /\ BufSize > 1

VARIABLES cont,    \* "user" or "get_line", for every task
          line     \* i, the number of characters in the task's line buffer

taskVars == <<cont, line>>
vars == <<schedVars, keyVars, taskVars>>

KernelTypeOK ==
    /\ SchedTypeOK
    /\ KeyTypeOK
    /\ cont \in [Tasks -> {"user", "get_line"}]
    /\ line \in [Tasks -> 0 .. BufSize - 1]

Init == /\ SchedInit
        /\ con_init
        /\ cont = [t \in Tasks |-> "user"]
        /\ line = [t \in Tasks |-> 0]

\* EFLAGS.IF: handlers and system calls run with interrupts disabled.
InUser == cpu = "task" /\ tr \in Tasks /\ cont[tr] = "user"
InKernelCall == cpu = "task" /\ tr \in Tasks /\ cont[tr] = "get_line"
IF_bit == cpu = "task" /\ ~InKernelCall

----------------------------------------------------------------------------
timer_handler == IF_bit /\ do_ir_timer /\ UNCHANGED <<keyVars, taskVars>>

\* Mutant: nobody is woken for a key.
keyboardNoWakeup(k) ==
    /\ IF_bit /\ isr = {} /\ tr # Fault
    /\ IF k = NoKey THEN UNCHANGED keyVars ELSE enqueue(k)
    /\ UNCHANGED <<schedVars, taskVars>>

\* The controller's output buffer may be empty (NoKey) when the handler looks.
do_ir_keyboard(k) ==
    /\ IF_bit
    /\ IF k = NoKey THEN UNCHANGED keyVars ELSE enqueue(k)
    /\ do_ir_event(KBD)
    /\ UNCHANGED taskVars

\* The rest of the handlers: loops and the timer's schedule().
handler_step ==
    /\ sched_update_wakeupq \/ schedule_timer \/ sched_update_wakeupevq
    /\ UNCHANGED <<keyVars, taskVars>>

----------------------------------------------------------------------------
(***************************************************************************)
(* System calls.                                                           *)
(***************************************************************************)
sys_sleep(ms) ==
    /\ InUser
    /\ sys_wakeup_after_msec(ms)
    /\ UNCHANGED <<keyVars, taskVars>>

sys_task_init(t) ==
    /\ InUser
    /\ sys_exec(t)
    /\ UNCHANGED <<keyVars, taskVars>>

sys_get_line ==
    /\ InUser
    /\ cont' = [cont EXCEPT ![tr] = "get_line"]
    /\ line' = [line EXCEPT ![tr] = 0]
    /\ UNCHANGED <<schedVars, keyVars>>

\* Mutant: the line may take one character more than fits.
LineDoneLate(k, i) == k = "enter" \/ i = BufSize

LineDone(k, i) == k = "enter" \/ i = BufSize - 1

\* The line index after key k: releases are skipped by get_keycode_pressed,
\* backspace takes back a character, return ends the line.
Edit(k, i) == IF k = "char" THEN i + 1
              ELSE IF k = "bs" /\ i > 0 THEN i - 1 ELSE i

\* get_keydata found a key: one turn of the loops of get_line.
get_line_key ==
    /\ InKernelCall /\ ~IsEmpty
    /\ dequeue
    /\ line' = [line EXCEPT ![tr] = Edit(data', @)]
    /\ cont' = [cont EXCEPT ![tr] = IF LineDone(data', line'[tr])
                                    THEN "user" ELSE @]
    /\ UNCHANGED schedVars

\* Mutant: get_keydata returns after the wait instead of asking again.
get_line_wait_once ==
    /\ InKernelCall /\ IsEmpty
    /\ dequeue
    /\ sys_wakeup_after_event(KBD)
    /\ cont' = [cont EXCEPT ![tr] = "user"]
    /\ UNCHANGED line

\* get_keydata found none: error_status is set and the task waits.
get_line_wait ==
    /\ InKernelCall /\ IsEmpty
    /\ dequeue
    /\ sys_wakeup_after_event(KBD)
    /\ UNCHANGED taskVars

Next ==
    \/ timer_handler
    \/ \E k \in Keys \cup {NoKey} : do_ir_keyboard(k)
    \/ handler_step
    \/ \E ms \in SleepMs : sys_sleep(ms)
    \/ \E t \in Tasks : sys_task_init(t)
    \/ sys_get_line
    \/ get_line_key
    \/ get_line_wait

Spec == Init /\ [][Next]_vars

(***************************************************************************)
(* The PIC keeps a timer request latched until it is acknowledged and      *)
(* ranks it above every other line, so it is taken whenever IF = 1 again   *)
(* and again; a handler that has started runs to its end, and so does a    *)
(* system call.                                                            *)
(***************************************************************************)
FairSpec == /\ Spec
            /\ SF_vars(timer_handler)
            /\ WF_vars(handler_step)
            /\ WF_vars(get_line_key)
            /\ WF_vars(get_line_wait)

----------------------------------------------------------------------------
Waiters == On(rings, "event")
Readers == {t \in On(rings, "run") : cont[t] = "get_line"}

(***************************************************************************)
(* do_ir_keyboard wakes one waiter per interrupt (the walk of              *)
(* sched_update_wakeupevq stops when the head is released) and the woken   *)
(* task looks at the buffer only later, when another task may have emptied *)
(* it.  Still no wake-up is lost: while a task waits for a key, there are  *)
(* at least as many runnable tasks on their way to the buffer as keys.     *)
(***************************************************************************)
NoLostWakeup == Waiters # {} /\ cpu # "wakeupevq" => Count <= Cardinality(Readers)

(***************************************************************************)
(* Only tasks inside get_keydata() wait for the keyboard, and a task whose *)
(* kernel stack is in get_keydata() is either runnable or waiting there.   *)
(***************************************************************************)
WaitersAreReaders ==
    \A t \in Tasks : /\ t \in Waiters => /\ cont[t] = "get_line"
                                         /\ wakeup_after_event[t] = KBD
                     /\ cont[t] = "get_line" => rings.loc[t] \in {"run", "event"}

(***************************************************************************)
(* A key that is in the buffer while a task waits for one is read: the     *)
(* processor reaches a task that is inside get_keydata().                  *)
(***************************************************************************)
KeysAreRead == Waiters # {} /\ Count > 0 ~> InKernelCall \/ Count = 0
=============================================================================
