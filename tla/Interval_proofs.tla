-------------------------- MODULE Interval_proofs ---------------------------
(***************************************************************************)
(* For a counter of any width, any period and any number of threads that   *)
(* pause: the alarms stay on the grid of the first one, whatever the       *)
(* interrupts' delays and the counter's wraps, and an interval at rest     *)
(* leaves no alarm and no interrupt behind.                                *)
(***************************************************************************)
EXTENDS Interval, Integers, TLAPS

\* The counter is armed by the last step of its start() and by no other.
CounterQuiet ==
    Counter /\ pc \in {"idle", "starting", "reading", "arming"} => ~armed /\ ~pending

\* A k_timer's start() that has failed is on its way out, and raises no interrupt of
\* the counter's.
KtimerQuiet ==
    /\ pc \in {"reading", "arming"} => Counter
    /\ ~Counter => ~pending
    /\ ~Counter /\ failed => pc \in {"idle", "cancel"}
    /\ ~Counter /\ failed /\ pc = "idle" => ~armed

\* A disposed interval has nobody inside it.
DeadQuiet ==
    ~alive => /\ pc = "idle" /\ ~armed /\ ~pending
              /\ \A p \in Pausers : pausing[p] = "out"

\* The target is still to come, at the end of the current period.
Coming == Ahead(next_alarm, now) = Period - phase

\* Where the alarm is, in steps of time: its interrupt is late by whole periods and what
\* has gone of the current one, or it is coming; and start() finds out which.
DriftInv ==
    /\ Counter /\ pending => Late(next_alarm) /\ phase = Ahead(now, next_alarm) % Period
    /\ Counter /\ armed /\ ~pending => Coming
    /\ pc = "arming" => Late(next_alarm) \/ Coming

AtRest == TypeOK /\ CounterQuiet /\ KtimerQuiet /\ DeadQuiet

IInv == AtRest /\ DriftInv

-----------------------------------------------------------------------------

(* Arithmetic modulo a number.                                             *)

\* What is reduced stays below the modulus.
LEMMA ModRange == ASSUME NEW m \in Nat \ {0}, NEW n \in Nat PROVE n % m \in 0 .. m - 1
    OBVIOUS

\* What is below the modulus is its own remainder.
LEMMA ModSmall == ASSUME NEW m \in Nat \ {0}, NEW n \in Nat, n < m PROVE n % m = n
    OBVIOUS

\* There is one way to write a number as a multiple and a remainder.
LEMMA ModUnique ==
    ASSUME NEW m \in Nat \ {0}, NEW q \in Int, NEW r \in 0 .. m - 1
    PROVE  (m * q + r) % m = r
    OBVIOUS

\* A whole modulus can be taken away.
LEMMA ModDown == ASSUME NEW m \in Nat \ {0}, NEW n \in Nat, m <= n PROVE (n - m) % m = n % m
<1> DEFINE q == n \div m
           r == n % m
<1>1. q \in Int /\ r \in 0 .. m - 1 /\ n = m * q + r
    OBVIOUS
<1> HIDE DEF q, r
<1>2. n - m = m * (q - 1) + r
    BY <1>1
<1>3. (m * (q - 1) + r) % m = r
    BY <1>1, ModUnique
<1> QED BY <1>2, <1>3 DEF r

\* The remainder of the next number.
LEMMA ModUp ==
    ASSUME NEW m \in Nat \ {0}, NEW n \in Nat
    PROVE  (n + 1) % m = IF (n % m) + 1 = m THEN 0 ELSE (n % m) + 1
<1> DEFINE q == n \div m
           r == n % m
<1>1. q \in Int /\ r \in 0 .. m - 1 /\ n = m * q + r
    OBVIOUS
<1> HIDE DEF q, r
<1>2. CASE r + 1 = m
    <2>1. n + 1 = m * (q + 1) + 0
        BY <1>1, <1>2
    <2>2. (m * (q + 1) + 0) % m = 0
        BY <1>1, ModUnique
    <2> QED BY <1>2, <2>1, <2>2 DEF r
<1>3. CASE r + 1 # m
    <2>1. n + 1 = m * q + (r + 1) /\ r + 1 \in 0 .. m - 1
        BY <1>1, <1>3
    <2>2. (m * q + (r + 1)) % m = r + 1
        BY <1>1, <2>1, ModUnique
    <2> QED BY <1>3, <2>1, <2>2 DEF r
<1> QED BY <1>2, <1>3

\* A number less its remainder is a multiple, and so is what is left of a larger one.
LEMMA ModBack ==
    ASSUME NEW m \in Nat \ {0}, NEW n \in Nat, NEW k \in Nat
    PROVE  ((n % m) + k * m - n) % m = 0
<1> DEFINE q == n \div m
           r == n % m
<1>1. q \in Int /\ r \in 0 .. m - 1 /\ n = m * q + r
    OBVIOUS
<1> HIDE DEF q, r
<1>2. r + k * m - n = m * (k - q) + 0
    BY <1>1
<1>3. (m * (k - q) + 0) % m = 0
    BY <1>1, ModUnique
<1> QED BY <1>2, <1>3 DEF r

\* Adding less than a turn to a value of the counter wraps at most once.
LEMMA Wrap ==
    ASSUME NEW a \in 0 .. Modulus - 1, NEW d \in 0 .. Modulus - 1
    PROVE  (a + d) % Modulus = IF a + d < Modulus THEN a + d ELSE a + d - Modulus
<1> USE IntervalAssumption
<1>1. CASE a + d < Modulus BY <1>1, ModSmall
<1>2. CASE a + d >= Modulus
    <2>1. (a + d - Modulus) % Modulus = (a + d) % Modulus
        <3> DEFINE n == a + d
        <3>1. Modulus \in Nat \ {0} /\ n \in Nat /\ Modulus <= n
            BY <1>2
        <3> HIDE DEF n
        <3>2. (n - Modulus) % Modulus = n % Modulus
            BY <3>1, ModDown
        <3> QED BY <3>2 DEF n
    <2>2. (a + d - Modulus) % Modulus = a + d - Modulus
        BY <1>2, ModSmall
    <2> QED BY <1>2, <2>1, <2>2
<1> QED BY <1>1, <1>2

\* The distance from b to a, around the counter.
LEMMA AheadIs ==
    ASSUME NEW a \in 0 .. Modulus - 1, NEW b \in 0 .. Modulus - 1
    PROVE  Ahead(a, b) = IF b <= a THEN a - b ELSE a + Modulus - b
<1> USE IntervalAssumption
<1>1. CASE b <= a
    <2>1. (a + Modulus - b - Modulus) % Modulus = (a + Modulus - b) % Modulus
        <3> DEFINE n == a + Modulus - b
        <3>1. Modulus \in Nat \ {0} /\ n \in Nat /\ Modulus <= n
            BY <1>1
        <3> HIDE DEF n
        <3>2. (n - Modulus) % Modulus = n % Modulus
            BY <3>1, ModDown
        <3> QED BY <3>2 DEF n
    <2>2. (a - b) % Modulus = a - b
        BY <1>1, ModSmall
    <2>3. a + Modulus - b - Modulus = a - b
        OBVIOUS
    <2> QED BY <1>1, <2>1, <2>2, <2>3 DEF Ahead
<1>2. CASE b > a BY <1>2, ModSmall DEF Ahead
<1> QED BY <1>1, <1>2

-----------------------------------------------------------------------------

\* An interval that is made satisfies the invariant.
LEMMA InitInv == Init => IInv
<1> SUFFICES ASSUME Init PROVE IInv
    OBVIOUS
<1> USE IntervalAssumption DEF Init
<1>1. TypeOK
    <2>1. 0 \in 0 .. Modulus - 1 /\ 0 \in 0 .. Period - 1
        OBVIOUS
    <2> QED BY <2>1, Zenon DEF TypeOK
<1>2. CounterQuiet /\ KtimerQuiet /\ DeadQuiet /\ DriftInv
    BY DEF CounterQuiet, KtimerQuiet, DeadQuiet, DriftInv, Counter
<1> QED BY <1>1, <1>2 DEF IInv, AtRest

\* Time and the interrupts.
LEMMA TimeStep ==
    ASSUME AtRest, Advance \/ Interrupts PROVE AtRest'
<1> USE IntervalAssumption DEF AtRest, TypeOK, CounterQuiet, KtimerQuiet, DeadQuiet, Counter,
        timeVars, loopVars, Give
<1>1. CASE Advance
    <2>1. now' \in 0 .. Modulus - 1
        BY <1>1, ModRange DEF Advance
    <2>2. phase' \in 0 .. Period - 1
        BY <1>1, ModRange DEF Advance
    <2>3. pending' = (pending \/ (armed /\ now' = next_alarm)) /\ Counter
        BY <1>1, Zenon DEF Advance
    <2>4. pending' \in BOOLEAN
        BY <2>3
    <2>5. UNCHANGED <<config, running, next_alarm, armed, tick_sem, loopVars, pausing, alive>>
        BY <1>1, Zenon DEF Advance
    <2> HIDE DEF Advance
    <2> QED BY <2>1, <2>2, <2>3, <2>4, <2>5
<1>2. CASE AlarmHandler
    <2>1. next_alarm' \in 0 .. Modulus - 1
        BY <1>2, ModRange DEF AlarmHandler
    <2>2. pending' \in BOOLEAN /\ pending /\ Counter
        BY <1>2 DEF AlarmHandler, Late
    <2>3. /\ UNCHANGED <<config, now, phase, running, armed, loopVars, pausing, alive>>
          /\ tick_sem' = TRUE
        BY <1>2, Zenon DEF AlarmHandler
    <2> QED BY <2>1, <2>2, <2>3
<1>3. CASE TimerExpiry BY <1>3 DEF TimerExpiry
<1> HIDE DEF AtRest
<1> QED BY <1>1, <1>2, <1>3 DEF Interrupts

\* The steps of start().
LEMMA StartStep ==
    ASSUME AtRest, CounterStart \/ CounterRefused \/ KtimerStart \/ Dispatch PROVE AtRest'
<1> USE IntervalAssumption DEF AtRest, TypeOK, CounterQuiet, KtimerQuiet, DeadQuiet, Counter,
        timeVars, loopVars, Give, StopTimer
<1>1. CASE CounterStart BY <1>1 DEF CounterStart
<1>2. CASE KtimerStart BY <1>2 DEF KtimerStart
<1>3. CASE CounterRuns BY <1>3 DEF CounterRuns
<1>4. CASE CounterRead
    <2>1. next_alarm' \in 0 .. Modulus - 1
        BY <1>4, ModRange DEF CounterRead
    <2>2. /\ phase' = 0 /\ pc = "reading" /\ pc' = "arming"
          /\ UNCHANGED <<config, now, running, armed, pending, tick_sem, should_pause,
                         asked, failed, pausing, alive>>
        BY <1>4, Zenon DEF CounterRead
    <2>3. phase' \in 0 .. Period - 1
        BY <2>2
    <2> QED BY <2>1, <2>2, <2>3
<1>5. CASE CounterArm BY <1>5 DEF CounterArm
<1>6. CASE KtimerArm BY <1>6 DEF KtimerArm
<1>7. CASE Test
    <2>1. /\ pc \in {"loop", "taken"} /\ pc' \in {"cancel", "taking", "callback"}
          /\ UNCHANGED <<config, timeVars, tick_sem, should_pause, asked, failed, pausing, alive>>
        BY <1>7, Zenon DEF Test
    <2> QED BY <2>1
<1>8. CASE Take BY <1>8 DEF Take
<1>9. CASE CallbackReturns
    <2>1. asked' \in BOOLEAN /\ failed' \in BOOLEAN /\ pc = "callback"
          /\ (pc' = "cancel" \/ (pc' = "storing" /\ UNCHANGED failed))
        BY <1>9, Zenon DEF CallbackReturns
    <2>2. UNCHANGED <<config, timeVars, tick_sem, should_pause, pausing, alive>>
        BY <1>9, Zenon DEF CallbackReturns
    <2> QED BY <2>1, <2>2
<1>10. CASE Store BY <1>10 DEF Store
<1>11. CASE CounterLeave BY <1>11 DEF CounterLeave
<1>12. CASE KtimerLeave BY <1>12 DEF KtimerLeave
<1>13. CASE CounterRefused BY <1>13 DEF CounterRefused
<1> HIDE DEF AtRest
<1> QED BY <1>1, <1>2, <1>3, <1>4, <1>5, <1>6, <1>7, <1>8, <1>9, <1>10, <1>11, <1>12,
        <1>13 DEF Dispatch

\* pause() in any thread, and dispose().
LEMMA PauseStep ==
    ASSUME AtRest, Dispose \/ \E p \in Pausers : PauseFlag(p) \/ PauseStop(p) \/ PauseGive(p)
    PROVE AtRest'
<1> USE IntervalAssumption DEF AtRest, TypeOK, CounterQuiet, KtimerQuiet, DeadQuiet, Counter,
        timeVars, loopVars, Give, StopTimer
<1>1. CASE Dispose BY <1>1 DEF Dispose
<1>2. ASSUME NEW p \in Pausers, PauseFlag(p) PROVE AtRest'
    BY <1>2 DEF PauseFlag
<1>3. ASSUME NEW p \in Pausers, PauseStop(p) PROVE AtRest'
    BY <1>3 DEF PauseStop
<1>4. ASSUME NEW p \in Pausers, PauseGive(p) PROVE AtRest'
    BY <1>4 DEF PauseGive
<1> HIDE DEF AtRest
<1> QED BY <1>1, <1>2, <1>3, <1>4

\* The counter moves on, at most to a target that is coming.
LEMMA AdvanceDrift ==
    ASSUME IInv, Advance PROVE DriftInv'
<1> USE IntervalAssumption
<1> DEFINE late == Ahead(now, next_alarm)
           left == Ahead(next_alarm, now)
<1>1. /\ now \in 0 .. Modulus - 1 /\ next_alarm \in 0 .. Modulus - 1 /\ next_alarm' = next_alarm
      /\ phase \in 0 .. Period - 1 /\ pending \in BOOLEAN /\ armed \in BOOLEAN
    BY DEF IInv, AtRest, TypeOK, Advance
<1>2. now' = IF now + 1 = Modulus THEN 0 ELSE now + 1
    <2>1. now' = (now + 1) % Modulus
        BY DEF Advance
    <2>2. (now + 1) % Modulus =
            IF now + 1 < Modulus THEN now + 1 ELSE now + 1 - Modulus
        <3>1. 1 \in 0 .. Modulus - 1
            OBVIOUS
        <3> QED BY <1>1, <3>1, Wrap
    <2> QED BY <1>1, <2>1, <2>2
<1>3. phase' = IF phase + 1 = Period THEN 0 ELSE phase + 1
    <2>1. phase' = (phase + 1) % Period
        BY DEF Advance
    <2>2. phase % Period = phase
        BY <1>1, ModSmall
    <2>3. (phase + 1) % Period =
            IF (phase % Period) + 1 = Period THEN 0 ELSE (phase % Period) + 1
        <3>1. Period \in Nat \ {0} /\ phase \in Nat
            BY <1>1
        <3> QED BY <3>1, ModUp, Zenon
    <2> QED BY <2>1, <2>2, <2>3, Zenon
<1>4. now' \in 0 .. Modulus - 1 /\ phase' \in 0 .. Period - 1
    BY <1>1, <1>2, <1>3
<1>5. /\ pending => late < MaxLate
      /\ pc = "arming" => late # MaxLate
      /\ pending' = (pending \/ (armed /\ now' = next_alarm))
      /\ armed' = armed /\ pc' = pc /\ Counter /\ (Counter' <=> Counter)
    BY DEF Advance, loopVars, Counter
<1>6. late = IF next_alarm <= now THEN now - next_alarm ELSE now + Modulus - next_alarm
    BY <1>1, AheadIs
<1>7. left = IF now <= next_alarm THEN next_alarm - now ELSE next_alarm + Modulus - now
    BY <1>1, AheadIs
<1>8. Ahead(now, next_alarm)' =
        IF next_alarm <= now' THEN now' - next_alarm ELSE now' + Modulus - next_alarm
    <2>1. Ahead(now, next_alarm)' = Ahead(now', next_alarm)
        BY <1>1 DEF Ahead
    <2> QED BY <1>1, <1>4, <2>1, AheadIs
<1>9. Ahead(next_alarm, now)' =
        IF now' <= next_alarm THEN next_alarm - now' ELSE next_alarm + Modulus - now'
    <2>1. Ahead(next_alarm, now)' = Ahead(next_alarm, now')
        BY <1>1 DEF Ahead
    <2> QED BY <1>1, <1>4, <2>1, AheadIs
<1>10. ASSUME late < MaxLate PROVE Ahead(now, next_alarm)' = late + 1
    BY <1>1, <1>2, <1>6, <1>8, <1>10
<1>11. ASSUME left = Period - phase, now' # next_alarm
       PROVE  Ahead(next_alarm, now)' = Period - phase'
    BY <1>1, <1>2, <1>3, <1>7, <1>9, <1>11
<1>12. ASSUME left = Period - phase, now' = next_alarm
       PROVE  phase' = 0 /\ Ahead(now, next_alarm)' = 0
    BY <1>1, <1>2, <1>3, <1>7, <1>8, <1>12
<1>13. late \in Nat
    BY <1>1, <1>6
<1>14. ASSUME phase = late % Period, late < MaxLate
       PROVE  phase' = Ahead(now, next_alarm)' % Period
    <2>1. (late + 1) % Period = IF (late % Period) + 1 = Period THEN 0 ELSE (late % Period) + 1
        BY <1>13, ModUp
    <2> QED BY <1>3, <1>10, <1>14, <2>1
<1>15. 0 % Period = 0
    BY ModSmall
<1> HIDE DEF late, left
<1>16. CASE pending
    <2>1. late < MaxLate /\ late <= MaxLate /\ phase = late % Period
        BY <1>5, <1>16 DEF IInv, DriftInv, Late, late
    <2>2. pending' /\ pc = pc'
        BY <1>5, <1>16
    <2>3. Late(next_alarm)' /\ phase' = Ahead(now, next_alarm)' % Period
        <3>1. late + 1 <= MaxLate
            BY <2>1, <1>13
        <3> QED BY <2>1, <1>10, <1>14, <3>1 DEF Late
    <2> QED BY <2>2, <2>3 DEF DriftInv
<1>17. CASE ~pending /\ armed
    <2>1. left = Period - phase /\ pc # "arming"
        BY <1>5, <1>17 DEF IInv, AtRest, CounterQuiet, DriftInv, Coming, left
    <2>2. CASE now' = next_alarm
        <3>1. phase' = 0 /\ Ahead(now, next_alarm)' = 0 /\ pending'
            BY <1>5, <1>12, <1>17, <2>1, <2>2
        <3>2. Late(next_alarm)'
            BY <3>1 DEF Late
        <3> QED BY <1>5, <1>15, <2>1, <3>1, <3>2 DEF DriftInv
    <2>3. CASE now' # next_alarm
        <3>1. Coming'
            BY <1>11, <2>1, <2>3 DEF Coming
        <3>2. ~pending' /\ pc' # "arming"
            BY <1>5, <1>17, <2>1, <2>3
        <3> QED BY <3>1, <3>2 DEF DriftInv
    <2> QED BY <2>2, <2>3
<1>18. CASE ~pending /\ ~armed
    <2>1. ~pending' /\ ~armed' /\ pc' = pc
        BY <1>5, <1>18
    <2>2. ASSUME pc = "arming" PROVE Late(next_alarm)' \/ Coming'
        <3>1. CASE late <= MaxLate
            <4>1. late < MaxLate
                BY <1>5, <1>13, <2>2, <3>1
            <4>2. late + 1 <= MaxLate
                BY <1>13, <4>1
            <4> QED BY <1>10, <4>1, <4>2 DEF Late
        <3>2. CASE left = Period - phase /\ now' = next_alarm
            <4>1. Ahead(now, next_alarm)' = 0
                BY <1>12, <3>2
            <4> QED BY <4>1 DEF Late
        <3>3. CASE left = Period - phase /\ now' # next_alarm
            BY <1>11, <3>3 DEF Coming
        <3> QED BY <2>2, <3>1, <3>2, <3>3 DEF IInv, DriftInv, Late, Coming, late, left
    <2> QED BY <2>1, <2>2 DEF DriftInv
<1> QED BY <1>1, <1>16, <1>17, <1>18

\* The next target: passed already, or the end of the current period.
LEMMA AlarmDrift ==
    ASSUME IInv, AlarmHandler PROVE DriftInv'
<1> USE IntervalAssumption
<1> DEFINE late == Ahead(now, next_alarm)
<1>1. /\ now \in 0 .. Modulus - 1 /\ next_alarm \in 0 .. Modulus - 1
      /\ phase \in 0 .. Period - 1
    BY DEF IInv, AtRest, TypeOK
<1>2. late <= MaxLate /\ phase = late % Period /\ pc # "arming" /\ Counter
    BY DEF IInv, AtRest, CounterQuiet, DriftInv, Late, AlarmHandler
<1>3. /\ pending' = Late(next_alarm')
      /\ UNCHANGED <<config, now, phase, running, armed, loopVars, pausing, alive>>
    BY DEF AlarmHandler
<1>4. next_alarm' =
        IF next_alarm + Period < Modulus THEN next_alarm + Period
                                         ELSE next_alarm + Period - Modulus
    <2>1. next_alarm' = (next_alarm + Period) % Modulus /\ Period \in 0 .. Modulus - 1
        BY DEF AlarmHandler
    <2> QED BY <1>1, <2>1, Wrap
<1>5. next_alarm' \in 0 .. Modulus - 1
    BY <1>1, <1>4
<1>6. late = IF next_alarm <= now THEN now - next_alarm ELSE now + Modulus - next_alarm
    BY <1>1, AheadIs
<1>7. late \in Nat
    BY <1>1, <1>6
<1>8. Ahead(now, next_alarm') =
        IF next_alarm' <= now THEN now - next_alarm' ELSE now + Modulus - next_alarm'
    BY <1>1, <1>5, AheadIs
<1>9. Ahead(next_alarm', now) =
        IF now <= next_alarm' THEN next_alarm' - now ELSE next_alarm' + Modulus - now
    BY <1>1, <1>5, AheadIs
<1>10. /\ Ahead(now, next_alarm)' = Ahead(now, next_alarm')
       /\ Ahead(next_alarm, now)' = Ahead(next_alarm', now)
       /\ Late(next_alarm)' <=> Ahead(now, next_alarm') <= MaxLate
       /\ Late(next_alarm') <=> Ahead(now, next_alarm') <= MaxLate
    BY <1>3 DEF Ahead, Late
<1>11. phase' = phase /\ pc' = pc
    BY <1>3 DEF loopVars
<1> HIDE DEF late
<1>12. CASE late >= Period
    <2>1. Ahead(now, next_alarm') = late - Period
        BY <1>1, <1>2, <1>4, <1>6, <1>8, <1>12
    <2>2. late - Period <= MaxLate
        BY <1>2, <1>7
    <2>3. (late - Period) % Period = late % Period
        BY <1>7, <1>12, ModDown
    <2>4. Late(next_alarm)' /\ pending' = TRUE
        BY <1>3, <1>10, <2>1, <2>2
    <2>5. phase' = Ahead(now, next_alarm)' % Period
        BY <1>2, <1>10, <1>11, <2>1, <2>3
    <2> QED BY <1>2, <1>11, <2>4, <2>5 DEF DriftInv
<1>13. CASE late < Period
    <2>1. phase = late
        BY <1>2, <1>7, <1>13, ModSmall
    <2>2. Ahead(now, next_alarm') = late + Modulus - Period
        BY <1>1, <1>2, <1>4, <1>6, <1>8, <1>13
    <2>3. ~(late + Modulus - Period <= MaxLate)
        BY <1>7
    <2>4. ~pending'
        BY <1>3, <1>10, <2>2, <2>3
    <2>5. Ahead(next_alarm', now) = Period - late
        BY <1>1, <1>2, <1>4, <1>6, <1>9, <1>13
    <2>6. Coming'
        BY <1>10, <1>11, <2>1, <2>5 DEF Coming
    <2> QED BY <1>2, <1>11, <2>4, <2>6 DEF DriftInv
<1> QED BY <1>7, <1>12, <1>13

\* start() reads the counter, and sets a first target that is still coming.
LEMMA ArmDrift ==
    ASSUME IInv, CounterRead \/ CounterArm PROVE DriftInv'
<1> USE IntervalAssumption
<1>1. /\ now \in 0 .. Modulus - 1 /\ next_alarm \in 0 .. Modulus - 1
      /\ Counter /\ ~armed /\ ~pending
    BY DEF IInv, AtRest, TypeOK, CounterQuiet, KtimerQuiet, CounterRead, CounterArm
<1>2. CASE CounterRead
    <2>1. next_alarm' = (now + Period) % Modulus /\ Period \in 0 .. Modulus - 1
        BY <1>2 DEF CounterRead
    <2>2. next_alarm' = IF now + Period < Modulus THEN now + Period ELSE now + Period - Modulus
        BY <1>1, <2>1, Wrap
    <2>3. next_alarm' \in 0 .. Modulus - 1
        BY <1>1, <2>2
    <2>4. Ahead(next_alarm', now) = Period
        BY <1>1, <2>2, <2>3, AheadIs
    <2>5. Ahead(next_alarm, now)' = Period - phase'
        BY <1>2, <2>4 DEF CounterRead, Ahead
    <2>6. ~armed' /\ ~pending'
        BY <1>1, <1>2 DEF CounterRead
    <2> QED BY <2>5, <2>6 DEF DriftInv, Coming
<1>3. CASE CounterArm
    <2>1. UNCHANGED <<config, now, phase, running, next_alarm, pending>> /\ pc' # "arming"
        BY <1>3 DEF CounterArm
    <2>2. pc = "arming" /\ (Late(next_alarm) => armed' = armed)
        BY <1>3, Zenon DEF CounterArm
    <2>3. Coming' <=> Coming
        BY <2>1 DEF Coming, Ahead
    <2>4. Coming \/ ~armed'
        BY <1>1, <2>2 DEF IInv, DriftInv
    <2> QED BY <1>1, <2>1, <2>3, <2>4 DEF DriftInv
<1> QED BY <1>2, <1>3

\* Every other step leaves the alarm as it is, or takes it away.
LEMMA DriftStep ==
    ASSUME IInv, Next PROVE DriftInv'
<1>1. ASSUME UNCHANGED <<config, timeVars>>, pc' = "arming" => pc = "arming" PROVE DriftInv'
    BY <1>1 DEF IInv, DriftInv, Coming, Late, Ahead, Counter, timeVars
<1>2. ASSUME StopTimer, pc' = "arming" => pc = "arming" PROVE DriftInv'
    BY <1>2 DEF StopTimer, IInv, DriftInv, Coming, Late, Ahead
<1>3. ASSUME ~Counter, UNCHANGED config, pc' # "arming" PROVE DriftInv'
    BY <1>3 DEF DriftInv, Counter
<1>4. ASSUME ~armed', ~pending', pc' # "arming" PROVE DriftInv'
    BY <1>4 DEF DriftInv
<1>5. CASE TimerExpiry BY <1>1, <1>5 DEF TimerExpiry, loopVars
<1>6. CASE CounterStart BY <1>1, <1>6 DEF CounterStart
<1>7. CASE KtimerStart BY <1>1, <1>7 DEF KtimerStart
<1>8. CASE CounterRuns
    BY <1>4, <1>8 DEF CounterRuns, IInv, AtRest, CounterQuiet
<1>9. CASE KtimerArm BY <1>3, <1>9 DEF KtimerArm
<1>10. CASE Test BY <1>1, <1>10 DEF Test
<1>11. CASE Take BY <1>1, <1>11 DEF Take
<1>12. CASE CallbackReturns BY <1>1, <1>12, Zenon DEF CallbackReturns
<1>13. CASE Store BY <1>1, <1>13 DEF Store
<1>14. CASE CounterLeave BY <1>2, <1>14 DEF CounterLeave
<1>15. CASE KtimerLeave BY <1>3, <1>15 DEF KtimerLeave
<1>16. CASE Dispose BY <1>2, <1>16 DEF Dispose, loopVars
<1>17. ASSUME NEW p \in Pausers, PauseFlag(p) \/ PauseStop(p) \/ PauseGive(p) PROVE DriftInv'
    <2>1. CASE PauseFlag(p) BY <1>1, <2>1 DEF PauseFlag
    <2>2. CASE PauseStop(p) BY <1>2, <2>2 DEF PauseStop, loopVars
    <2>3. CASE PauseGive(p) BY <1>1, <2>3 DEF PauseGive, loopVars
    <2> QED BY <1>17, <2>1, <2>2, <2>3
<1>18. CASE CounterRefused BY <1>1, <1>18 DEF CounterRefused
<1> QED BY AdvanceDrift, AlarmDrift, ArmDrift, <1>5, <1>6, <1>7, <1>8, <1>9, <1>10, <1>11,
        <1>12, <1>13, <1>14, <1>15, <1>16, <1>17, <1>18 DEF Next, Interrupts,
        Dispatch

\* The invariant holds in every state.
LEMMA IInvHolds == Spec => []IInv
<1>1. IInv /\ [Next]_vars => IInv'
    <2> SUFFICES ASSUME IInv, [Next]_vars PROVE IInv'
        OBVIOUS
    <2>1. CASE UNCHANGED vars
        BY <2>1 DEF vars, timeVars, loopVars, IInv, AtRest, TypeOK, CounterQuiet,
            KtimerQuiet, DeadQuiet, DriftInv, Coming, Late, Ahead, Counter
    <2>2. CASE Next
        <3>1. AtRest'
            BY <2>2, TimeStep, StartStep, PauseStep DEF Next, IInv
        <3> QED BY <2>2, <3>1, DriftStep DEF IInv
    <2> QED BY <2>1, <2>2
<1> QED BY InitInv, <1>1, PTL DEF Spec

\* Every state of an interval is well typed: _next_alarm keeps the counter's range.
THEOREM TypeCorrect == Spec => []TypeOK
<1>1. IInv => TypeOK
    BY DEF IInv, AtRest
<1> QED BY IInvHolds, <1>1, PTL

\* Whatever ends start(), and after dispose(), no alarm is left behind.
THEOREM AlwaysStopped == Spec => []StoppedOnReturn
<1>1. IInv => StoppedOnReturn
    BY DEF IInv, AtRest, CounterQuiet, KtimerQuiet, DeadQuiet, StoppedOnReturn
<1> QED BY IInvHolds, <1>1, PTL

\* However late the interrupts are, and however often the counter wraps, the alarms are
\* whole periods after the first one and none is skipped.
THEOREM NeverDrifts == Spec => []NoDrift
<1>1. IInv => NoDrift
    <2> SUFFICES ASSUME IInv, Counter, armed
                 PROVE  IF pending
                          THEN (phase + Modulus * Period - Ahead(now, next_alarm)) % Period = 0
                          ELSE /\ Ahead(next_alarm, now) \in 1 .. Period
                               /\ (phase + Ahead(next_alarm, now)) % Period = 0
        BY DEF NoDrift
    <2> USE IntervalAssumption
    <2>1. /\ now \in 0 .. Modulus - 1 /\ next_alarm \in 0 .. Modulus - 1
          /\ phase \in 0 .. Period - 1
        BY DEF IInv, AtRest, TypeOK
    <2>2. CASE pending
        <3>1. phase = Ahead(now, next_alarm) % Period
            BY <2>2 DEF IInv, DriftInv
        <3>2. Ahead(now, next_alarm) \in Nat
            BY <2>1, AheadIs
        <3>3. ((Ahead(now, next_alarm) % Period) + Modulus * Period - Ahead(now, next_alarm))
                % Period = 0
            BY <3>2, ModBack
        <3> QED BY <2>2, <3>1, <3>3
    <2>3. CASE ~pending
        <3>1. Ahead(next_alarm, now) = Period - phase
            BY <2>3 DEF IInv, DriftInv, Coming
        <3>2. Period = Period * 1 + 0 /\ (Period * 1 + 0) % Period = 0
            BY ModUnique
        <3>3. phase + Ahead(next_alarm, now) = Period
            BY <2>1, <3>1
        <3> QED BY <2>1, <2>3, <3>1, <3>2, <3>3
    <2> QED BY <2>2, <2>3
<1> QED BY IInvHolds, <1>1, PTL

=============================================================================
