------------------------------- MODULE Timer -------------------------------
(***************************************************************************)
(* The busy-wait loops of kernel/timer.c against real time.                *)
(*                                                                         *)
(* global_counter is not a clock: it moves by TickMs when the processor    *)
(* takes the timer interrupt, which the programmable interval timer (an    *)
(* external device) raises every tick.  The interrupt controller keeps one *)
(* request per line, so a tick that arrives while system calls keep        *)
(* interrupts off is taken late, and a second one is lost.  Only the       *)
(* kernel task waits in these loops (kern_init, through the ATA driver);   *)
(* it runs with interrupts on and only while no user task is runnable.     *)
(***************************************************************************)
EXTENDS Integers

CONSTANTS TickMs,     \* TIMER_TICK_MS
          UsPerMs,    \* 1000
          MsPerSec,   \* 1000
          Mod,        \* 2^32: unsigned int and unsigned long
          Secs,       \* arguments of timer_wait_loop_sec
          Usecs,      \* arguments of timer_wait_loop_usec
          MaxWaited   \* bound: longer waits are not told apart

ASSUME TimerAssumption ==
    /\ TickMs \in Nat \ {0} /\ UsPerMs \in Nat \ {0} /\ MsPerSec \in Nat \ {0}
    /\ Mod \in Nat /\ Mod > TickMs
    /\ Secs \subseteq 0 .. Mod - 1 /\ Usecs \subseteq 0 .. Mod - 1
    /\ MaxWaited \in Nat

VARIABLES phase,           \* microseconds since the last pulse of the timer
          pending,         \* the timer's request bit in the controller
          global_counter,
          cpu,             \* who runs: "kern", "user", or "syscall" (IF = 0)
          waiting,         \* the kernel task is in a wait loop
          end,             \* the loop's local variable
          wrapped,         \* history: the sum for end did not fit in 32 bits
          least,           \* history: whole ticks asked for, in microseconds
          waited           \* history: microseconds since the call

timerVars == <<phase, pending, global_counter, cpu, waiting, end, wrapped,
               least, waited>>
call == <<waiting, end, wrapped, least>>

\* timer_init: the divisor makes the timer pulse once per TickMs.
TickUs == TickMs * UsPerMs

TypeOK ==
    /\ phase \in 0 .. TickUs - 1
    /\ pending \in BOOLEAN
    /\ global_counter \in 0 .. Mod - 1
    /\ cpu \in {"kern", "user", "syscall"}
    /\ waiting \in BOOLEAN
    /\ end \in 0 .. Mod - 1
    /\ wrapped \in BOOLEAN
    /\ least \in 0 .. MaxWaited
    /\ waited \in 0 .. MaxWaited

\* The state at kern_init's sti: the timer has been running since timer_init
\* and the controller may have latched a pulse.
Init ==
    /\ phase \in 0 .. TickUs - 1
    /\ pending \in BOOLEAN
    /\ global_counter = 0
    /\ cpu = "kern"
    /\ waiting = FALSE /\ end = 0
    /\ wrapped = FALSE /\ least = 0 /\ waited = 0

----------------------------------------------------------------------------
\* Time passes; a pulse that finds its predecessor still pending is lost.
Clock ==
    /\ phase' = (phase + 1) % TickUs
    /\ pending' = (pending \/ phase + 1 = TickUs)
    /\ waited' = IF waiting /\ waited < MaxWaited THEN waited + 1 ELSE waited
    /\ UNCHANGED <<global_counter, cpu, call>>

\* Mutant: the counter is wider than 32 bits.
CountWide(n) == n + TickMs

Count(n) == (n + TickMs) % Mod

\* schedule() leaves the processor to the kernel task or to a user task.
do_ir_timer ==
    /\ pending /\ cpu \in {"kern", "user"}
    /\ pending' = FALSE
    /\ global_counter' = Count(global_counter)
    /\ cpu' \in {"kern", "user"}
    /\ UNCHANGED <<phase, call, waited>>

\* A system call runs with interrupts off for any time; it ends in its
\* caller, in another user task or, when it blocks, in the kernel task.
int80 ==
    /\ cpu = "user" /\ ~pending
    /\ cpu' = "syscall"
    /\ UNCHANGED <<phase, pending, global_counter, call, waited>>

syscall_end ==
    /\ cpu = "syscall"
    /\ cpu' \in {"user", "kern"}
    /\ UNCHANGED <<phase, pending, global_counter, call, waited>>

----------------------------------------------------------------------------
\* The processor takes a pending interrupt before the next instruction.
KernelRuns == cpu = "kern" /\ ~pending

\* Mutant: the tick that is already running is not allowed for.
EndNoRound(ms) == global_counter + ms

EndOf(ms) == global_counter + ms + 1

\* A call that is to wait ms milliseconds for the us microseconds asked.
StartWait(ms, us) ==
    /\ KernelRuns /\ ~waiting
    /\ waiting' = TRUE
    /\ end' = EndOf(ms) % Mod
    /\ wrapped' = (EndOf(ms) >= Mod \/ ms < us \div UsPerMs)
    /\ least' = LET l == (us \div TickUs) * TickUs
                IN  IF l < MaxWaited THEN l ELSE MaxWaited
    /\ waited' = 0
    /\ UNCHANGED <<phase, pending, global_counter, cpu>>

\* sec * 1000 is an unsigned int product.
timer_wait_loop_sec(sec) ==
    StartWait((sec * MsPerSec) % Mod, sec * MsPerSec * UsPerMs)

timer_wait_loop_usec(usec) == StartWait(usec \div UsPerMs, usec)

\* Mutant: the loop waits for the exact value.
LoopUntilEqual == global_counter # end

LoopAgain == global_counter < end

wait_loop_end ==
    /\ KernelRuns /\ waiting /\ ~LoopAgain
    /\ waiting' = FALSE /\ end' = 0
    /\ wrapped' = FALSE /\ least' = 0 /\ waited' = 0
    /\ UNCHANGED <<phase, pending, global_counter, cpu>>

Next ==
    \/ Clock
    \/ do_ir_timer
    \/ int80
    \/ syscall_end
    \/ \E sec \in Secs : timer_wait_loop_sec(sec)
    \/ \E usec \in Usecs : timer_wait_loop_usec(usec)
    \/ wait_loop_end

Spec == Init /\ [][Next]_timerVars

(***************************************************************************)
(* Time passes, a task's own code takes interrupts, system calls end, and  *)
(* the kernel task goes on whenever it stays on the processor.             *)
(***************************************************************************)
FairSpec ==
    /\ Spec
    /\ WF_timerVars(Clock) /\ WF_timerVars(do_ir_timer)
    /\ WF_timerVars(syscall_end) /\ SF_timerVars(wait_loop_end)

----------------------------------------------------------------------------
(***************************************************************************)
(* timer_wait_loop_usec(), timer_wait_loop_sec(): a wait ends no earlier   *)
(* than the number of whole ticks it was asked for, however late the ticks *)
(* were taken and however many were lost, unless the sum for end or the    *)
(* product for the milliseconds wrapped around.  (The rest of the time, a  *)
(* part of a tick, may be cut off: a wait shorter than a tick ends with    *)
(* the tick that is already running.)                                      *)
(***************************************************************************)
WaitNotShort ==
    [][waiting /\ ~waiting' => wrapped \/ waited >= least]_timerVars

\* The values global_counter takes: it returns to 0 after some ticks.
Counts == {(k * TickMs) % Mod : k \in 0 .. Mod - 1}

(***************************************************************************)
(* timer_wait_loop_usec(), timer_wait_loop_sec(): a wait ends, even when   *)
(* end wrapped around and even when the kernel task was away while the     *)
(* counter passed end, provided that the kernel task keeps getting the     *)
(* processor at every value of the counter.  The only exception: an end    *)
(* that lies above all values the counter takes (with ticks of 10 ms and   *)
(* 32 bits, the odd value 2^32 - 1).                                       *)
(***************************************************************************)
WaitReturns ==
    (\A c \in Counts : []<>(KernelRuns /\ global_counter = c))
        => (waiting /\ (\E c \in Counts : c >= end) ~> ~waiting)
=============================================================================
