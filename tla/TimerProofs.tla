----------------------------- MODULE TimerProofs -----------------------------
(***************************************************************************)
(* The busy waits of kernel/timer.c are never short, for every tick        *)
(* length, width of the counter and set of arguments.                      *)
(***************************************************************************)
EXTENDS Timer, TLAPS

\* The length of a tick is a positive number of milliseconds and microseconds.
LEMMA TickFacts == /\ TickMs \in Nat /\ TickMs > 0 /\ UsPerMs \in Nat /\ UsPerMs > 0
                   /\ TickUs \in Nat /\ TickUs > 0 /\ Mod \in Nat /\ Mod > TickMs
                   /\ TickUs = TickMs * UsPerMs
<1>1. \A a, b \in Nat \ {0} : a * b \in Nat /\ a * b > 0
  OBVIOUS
<1> QED BY <1>1, TimerAssumption DEF TickUs

\* Remainders and quotients.
LEMMA DivMod ==
    ASSUME NEW n \in Nat, NEW m \in Nat, m > 0
    PROVE  /\ n % m \in 0 .. m - 1
           /\ n \div m \in Nat
           /\ (n \div m) * m <= n
           /\ n < (n \div m) * m + m
  OBVIOUS

----------------------------------------------------------------------------
(***************************************************************************)
(* Types.                                                                  *)
(***************************************************************************)
LEMMA TypeInit == Init => TypeOK
<1> SUFFICES ASSUME Init PROVE TypeOK
  OBVIOUS
<1>1. /\ phase \in 0 .. TickUs - 1 /\ global_counter \in 0 .. Mod - 1
      /\ end \in 0 .. Mod - 1 /\ least \in 0 .. MaxWaited /\ waited \in 0 .. MaxWaited
  BY TickFacts, TimerAssumption DEF Init
<1>2. pending \in BOOLEAN /\ waiting \in BOOLEAN /\ wrapped \in BOOLEAN
      /\ cpu \in {"kern", "user", "syscall"}
  BY DEF Init
<1> QED BY <1>1, <1>2 DEF TypeOK

\* What a call of either wait function is started with.
LEMMA StartArgs ==
    /\ \A sec \in Secs : /\ (sec * MsPerSec) % Mod \in Nat
                          /\ sec * MsPerSec * UsPerMs \in Nat
    /\ \A usec \in Usecs : usec \div UsPerMs \in Nat /\ usec \in Nat
<1>1. \A a, b \in Nat : a * b \in Nat
  OBVIOUS
<1>2. \A sec \in Secs : sec * MsPerSec \in Nat
  BY <1>1, TimerAssumption
<1>3. \A sec \in Secs : sec * MsPerSec * UsPerMs \in Nat
  BY <1>1, <1>2, TickFacts
<1>4. \A sec \in Secs : (sec * MsPerSec) % Mod \in Nat
  BY <1>2, DivMod, TickFacts
<1>5. \A usec \in Usecs : usec \div UsPerMs \in Nat /\ usec \in Nat
  BY DivMod, TickFacts, TimerAssumption
<1> QED BY <1>3, <1>4, <1>5

\* Every step keeps the types.
LEMMA TypeStep == TypeOK /\ [Next]_timerVars => TypeOK'
<1> SUFFICES ASSUME TypeOK, [Next]_timerVars PROVE TypeOK'
  OBVIOUS
<1> USE DEF TypeOK, call
<1>0. /\ TickUs \in Nat /\ TickUs > 0 /\ Mod \in Nat /\ Mod > 0 /\ MaxWaited \in Nat
      /\ TickMs \in Nat
  BY TickFacts, TimerAssumption
<1>1. CASE Clock
  <2>1. phase' \in 0 .. TickUs - 1
    BY <1>1, <1>0, DivMod DEF Clock
  <2>2. pending' \in BOOLEAN
    BY <1>1 DEF Clock
  <2>3. waited' \in 0 .. MaxWaited
    BY <1>1, <1>0 DEF Clock
  <2> QED BY <1>1, <2>1, <2>2, <2>3 DEF Clock
<1>2. CASE do_ir_timer
  <2>1. global_counter' \in 0 .. Mod - 1
    BY <1>2, <1>0, DivMod DEF do_ir_timer, Count
  <2> QED BY <1>2, <2>1 DEF do_ir_timer
<1>3. CASE int80
  BY <1>3 DEF int80
<1>4. CASE syscall_end
  BY <1>4 DEF syscall_end
<1>5. ASSUME NEW ms \in Nat, NEW us \in Nat, StartWait(ms, us) PROVE TypeOK'
  <2>1. end' \in 0 .. Mod - 1
    BY <1>5, <1>0, DivMod DEF StartWait, EndOf
  <2>2. least' \in 0 .. MaxWaited
    <3>1. (us \div TickUs) * TickUs \in Nat
      BY <1>0, DivMod
    <3> QED BY <1>5, <1>0, <3>1 DEF StartWait
  <2>3. wrapped' \in BOOLEAN
    BY <1>5 DEF StartWait
  <2> QED BY <1>5, <1>0, <2>1, <2>2, <2>3 DEF StartWait
<1>6. CASE wait_loop_end
  <2>1. end' \in 0 .. Mod - 1 /\ least' \in 0 .. MaxWaited /\ waited' \in 0 .. MaxWaited
    BY <1>6, <1>0 DEF wait_loop_end
  <2>2. waiting' \in BOOLEAN /\ wrapped' \in BOOLEAN
    BY <1>6 DEF wait_loop_end
  <2> QED BY <1>6, <2>1, <2>2 DEF wait_loop_end
<1>7. CASE UNCHANGED timerVars
  BY <1>7 DEF timerVars
<1> QED
  BY <1>1, <1>2, <1>3, <1>4, <1>5, <1>6, <1>7, StartArgs
     DEF Next, timer_wait_loop_sec, timer_wait_loop_usec

(***************************************************************************)
(* timer.c: the counter stays a 32-bit number and the history its range.   *)
(***************************************************************************)
THEOREM TimerTypes == Spec => []TypeOK
  BY TypeInit, TypeStep, PTL DEF Spec

----------------------------------------------------------------------------
(***************************************************************************)
(* Why no wait is short.  If k more ticks would take the counter to end,   *)
(* then k ticks more than has been waited are at least what was asked for, *)
(* and beyond that a whole tick if a pulse is pending (it was waited for   *)
(* and not counted) and the part of a tick that has passed since.  A lost  *)
(* pulse only adds to what has been waited.                                *)
(***************************************************************************)
WaitInv ==
    waiting /\ ~wrapped =>
        \A k \in Nat : global_counter + k * TickMs >= end =>
            \/ waited = MaxWaited
            \/ waited + k * TickUs
                 >= least + phase + (IF pending THEN TickUs ELSE 0)

\* k ticks that exceed ms milliseconds are a tick more than the whole ticks
\* in the us microseconds that ms was computed from.
LEMMA TicksCover ==
    ASSUME NEW ms \in Nat, NEW us \in Nat, ms >= us \div UsPerMs,
           NEW k \in Nat, k * TickMs >= ms + 1
    PROVE  k * TickUs >= (us \div TickUs) * TickUs + TickUs
<1> DEFINE q == us \div TickUs
<1>1. q \in Nat /\ q * TickUs <= us
  BY TickFacts, DivMod
<1> HIDE DEF q
<1>2. q * TickMs \in Nat /\ (q * TickMs) * UsPerMs = q * TickUs
  BY <1>1, TickFacts
<1>3. q * TickMs <= us \div UsPerMs
  <2> DEFINE d == us \div UsPerMs
             a == q * TickMs
  <2>1. d \in Nat /\ us < d * UsPerMs + UsPerMs
    BY TickFacts, DivMod
  <2>2. a \in Nat /\ a * UsPerMs <= us
    BY <1>1, <1>2
  <2> HIDE DEF d, a
  <2>3. ASSUME a >= d + 1 PROVE FALSE
    <3>1. a * UsPerMs >= (d + 1) * UsPerMs
      BY <2>1, <2>2, <2>3, TickFacts
    <3>2. (d + 1) * UsPerMs = d * UsPerMs + UsPerMs
      BY <2>1, TickFacts
    <3>3. d * UsPerMs \in Nat /\ a * UsPerMs \in Nat
      BY <2>1, <2>2, TickFacts
    <3> QED BY <3>1, <3>2, <3>3, <2>1, <2>2, TickFacts
  <2>4. a <= d
    BY <2>1, <2>2, <2>3
  <2> QED BY <2>4 DEF a, d
<1>4. k >= q + 1
  <2> SUFFICES ASSUME k <= q PROVE FALSE
    BY <1>1
  <2>1. k * TickMs <= q * TickMs
    BY <1>1, TickFacts
  <2>2. k * TickMs \in Nat /\ us \div UsPerMs \in Nat
    BY TickFacts, DivMod
  <2> QED BY <2>1, <2>2, <1>2, <1>3
<1>5. k * TickUs >= (q + 1) * TickUs
  BY <1>1, <1>4, TickFacts
<1>6. (q + 1) * TickUs = q * TickUs + TickUs
  BY <1>1, TickFacts
<1> QED BY <1>5, <1>6 DEF q

\* Every step keeps what a waiting call may rely on.
LEMMA WaitStep == TypeOK /\ WaitInv /\ [Next]_timerVars => WaitInv'
<1> SUFFICES ASSUME TypeOK, WaitInv, [Next]_timerVars, waiting', ~wrapped',
                    NEW k \in Nat, global_counter' + k * TickMs >= end'
             PROVE  \/ waited' = MaxWaited
                    \/ waited' + k * TickUs
                         >= least' + phase' + (IF pending' THEN TickUs ELSE 0)
  BY DEF WaitInv
<1> DEFINE kt == k * TickMs
           ku == k * TickUs
<1>0. /\ TickUs \in Nat /\ TickUs > 0 /\ Mod \in Nat /\ Mod > TickMs
      /\ MaxWaited \in Nat /\ TickMs \in Nat /\ kt \in Nat /\ ku \in Nat
      /\ (k + 1) * TickMs = kt + TickMs /\ (k + 1) * TickUs = ku + TickUs
      /\ global_counter' + kt >= end'
  BY TickFacts, TimerAssumption
<1>n. waiting /\ ~wrapped /\ global_counter + kt >= end =>
        \/ waited = MaxWaited
        \/ waited + ku >= least + phase + (IF pending THEN TickUs ELSE 0)
  BY DEF WaitInv
<1>m. waiting /\ ~wrapped /\ global_counter + (kt + TickMs) >= end =>
        \/ waited = MaxWaited
        \/ waited + (ku + TickUs) >= least + phase + (IF pending THEN TickUs ELSE 0)
  <2>1. k + 1 \in Nat
    OBVIOUS
  <2> QED BY <2>1, <1>0 DEF WaitInv
<1> SUFFICES \/ waited' = MaxWaited
             \/ waited' + ku >= least' + phase' + (IF pending' THEN TickUs ELSE 0)
  OBVIOUS
<1> HIDE DEF kt, ku
<1> USE DEF TypeOK, call
<1>1. CASE Clock
  <2>1. /\ waiting /\ ~wrapped /\ global_counter' = global_counter /\ end' = end
        /\ least' = least
        /\ waited' = IF waited < MaxWaited THEN waited + 1 ELSE waited
        /\ pending' = (pending \/ phase + 1 = TickUs)
        /\ phase' = (phase + 1) % TickUs
    BY <1>1 DEF Clock
  <2>2. phase' = IF phase + 1 = TickUs THEN 0 ELSE phase + 1
    BY <2>1, <1>0
  <2>3. \/ waited = MaxWaited
        \/ waited + ku >= least + phase + (IF pending THEN TickUs ELSE 0)
    BY <1>n, <1>0, <2>1
  <2>4. CASE waited = MaxWaited
    BY <2>1, <2>4, <1>0
  <2>5. CASE waited # MaxWaited /\ phase + 1 # TickUs
    BY <2>1, <2>2, <2>3, <2>5, <1>0
  <2>6. CASE waited # MaxWaited /\ phase + 1 = TickUs
    BY <2>1, <2>2, <2>3, <2>6, <1>0
  <2> QED BY <2>4, <2>5, <2>6
<1>2. CASE do_ir_timer
  <2>1. /\ waiting /\ ~wrapped /\ pending /\ ~pending' /\ end' = end
        /\ least' = least /\ waited' = waited /\ phase' = phase
        /\ global_counter' = (global_counter + TickMs) % Mod
    BY <1>2 DEF do_ir_timer, Count
  <2>2. global_counter' <= global_counter + TickMs
    BY <2>1, <1>0
  <2>3. global_counter + (kt + TickMs) >= end
    BY <2>1, <2>2, <1>0, TypeStep
  <2> QED BY <2>1, <2>3, <1>m, <1>0
<1>3. CASE int80
  BY <1>3, <1>n, <1>0 DEF int80
<1>4. CASE syscall_end
  BY <1>4, <1>n, <1>0 DEF syscall_end
<1>5. ASSUME NEW ms \in Nat, NEW us \in Nat, StartWait(ms, us)
      PROVE  waited' + ku >= least' + phase' + (IF pending' THEN TickUs ELSE 0)
  <2>1. /\ ~pending' /\ phase' = phase /\ waited' = 0
        /\ global_counter' = global_counter
        /\ EndOf(ms) < Mod /\ ms >= us \div UsPerMs
        /\ end' = EndOf(ms) % Mod
    <3>1. us \div UsPerMs \in Nat /\ EndOf(ms) \in Nat
      BY TickFacts, DivMod DEF EndOf
    <3>2. ~(EndOf(ms) >= Mod \/ ms < us \div UsPerMs)
      BY <1>5 DEF StartWait
    <3>3. EndOf(ms) < Mod /\ ms >= us \div UsPerMs
      BY <3>1, <3>2, <1>0
    <3> QED BY <1>5, <3>3 DEF StartWait, KernelRuns
  <2>2. end' = global_counter + ms + 1
    BY <2>1, <1>0 DEF EndOf
  <2>3. kt >= ms + 1
    BY <2>1, <2>2, <1>0
  <2> DEFINE whole == (us \div TickUs) * TickUs
  <2>4. ku >= whole + TickUs
    BY <2>1, <2>3, TicksCover DEF kt, ku
  <2>5. whole \in Nat
    BY <1>0, DivMod
  <2>6. least' = IF whole < MaxWaited THEN whole ELSE MaxWaited
    BY <1>5 DEF StartWait
  <2> HIDE DEF whole
  <2>7. least' <= whole /\ least' \in Nat
    BY <2>5, <2>6, <1>0
  <2>8. \A a, b, w, t, p \in Nat : a >= w + t /\ b <= w /\ p < t => a >= b + p
    OBVIOUS
  <2>9. phase \in Nat /\ phase < TickUs
    BY <1>0
  <2>10. ku >= least' + phase
    BY <2>4, <2>5, <2>7, <2>8, <2>9, <1>0
  <2>11. (IF pending' THEN TickUs ELSE 0) = 0 /\ phase' = phase /\ waited' + ku = ku
    BY <2>1, <1>0
  <2>12. least' + phase + 0 = least' + phase
    BY <2>7, <2>9
  <2> QED BY <2>10, <2>11, <2>12
<1>6. CASE wait_loop_end
  BY <1>6 DEF wait_loop_end
<1>7. CASE UNCHANGED timerVars
  BY <1>7, <1>n, <1>0 DEF timerVars
<1> QED
  BY <1>1, <1>2, <1>3, <1>4, <1>5, <1>6, <1>7, StartArgs
     DEF Next, timer_wait_loop_sec, timer_wait_loop_usec

(***************************************************************************)
(* timer_wait_loop_usec(), timer_wait_loop_sec(): a wait whose end did not *)
(* wrap around lasts at least the whole ticks it was asked for.            *)
(***************************************************************************)
THEOREM WaitNeverShort == Spec => WaitNotShort
<1>1. Init => WaitInv
  BY DEF Init, WaitInv
<1>2. TypeOK /\ WaitInv /\ [Next]_timerVars => WaitInv'
  BY WaitStep
<1>3. TypeOK /\ WaitInv /\ [Next]_timerVars =>
        [waiting /\ ~waiting' => wrapped \/ waited >= least]_timerVars
  <2> SUFFICES ASSUME TypeOK, WaitInv, Next, waiting, ~waiting', ~wrapped
               PROVE  waited >= least
    OBVIOUS
  <2>1. wait_loop_end
    BY DEF Next, Clock, do_ir_timer, int80, syscall_end, timer_wait_loop_sec,
           timer_wait_loop_usec, StartWait, call
  <2>2. ~pending /\ global_counter >= end
    BY <2>1 DEF wait_loop_end, KernelRuns, LoopAgain, TypeOK
  <2>3. 0 * TickMs = 0 /\ 0 * TickUs = 0
    BY TickFacts
  <2>4. waited = MaxWaited \/ waited >= least + phase
    BY <2>2, <2>3, TickFacts DEF WaitInv, TypeOK
  <2> QED BY <2>4, TickFacts, TimerAssumption DEF TypeOK
<1> QED BY <1>1, <1>2, <1>3, TimerTypes, PTL DEF Spec, WaitNotShort
=============================================================================
