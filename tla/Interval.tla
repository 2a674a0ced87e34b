------------------------------ MODULE Interval ------------------------------
(***************************************************************************)
(* dtinterval_zephyr_counter.c and dtinterval_zephyr_ktimer.c: start()     *)
(* arms a hardware alarm (a kernel timer) and dispatches its ticks to a    *)
(* callback until it is paused.  The interrupt handler and the threads     *)
(* that call pause() share _should_pause and tick_sem with it, unlocked.   *)
(* A counter has `Modulus' values and runs on while an interrupt is late.  *)
(***************************************************************************)
EXTENDS Naturals

CONSTANTS
    Kinds,   \* the backends to consider: a subset of {"counter", "ktimer"}
    Pausers, \* the threads that call pause()
    Modulus, \* the counter wraps at this value (2^32 in the code)
    Period,  \* _period_ticks
    MaxLate  \* bound: ticks by which an interrupt, or a preempted start(), is
             \* late; the driver tells a late target from a far one within it

ASSUME IntervalAssumption ==
    /\ Kinds \subseteq {"counter", "ktimer"}
    /\ Period \in Nat \ {0} /\ MaxLate \in Nat
    /\ Modulus \in Nat /\ Modulus > Period + MaxLate

VARIABLES
    config,       \* the backend, and whether a callback is set
    now,          \* the value of the counter
    phase,        \* true time since the alarms began, modulo the period
    running,      \* the counter counts (counter_start, counter_stop)
    next_alarm,   \* _next_alarm
    armed,        \* the channel alarm (the k_timer) is set
    pending,      \* the alarm's interrupt is raised and not yet served
    tick_sem,     \* the count of tick_sem, at most one
    should_pause, \* _should_pause
    asked,        \* what the callback stored in its should_pause argument
    pc,           \* where start() is
    failed,       \* start() is leaving, or has left, with an error
    pausing,      \* where each pause() is
    alive

timeVars == <<now, phase, running, next_alarm, armed, pending>>
loopVars == <<should_pause, asked, pc, failed>>
vars == <<config, timeVars, tick_sem, loopVars, pausing, alive>>

TypeOK ==
    /\ config \in [kind : Kinds, callback : BOOLEAN]
    /\ now \in 0 .. Modulus - 1 /\ next_alarm \in 0 .. Modulus - 1
    /\ phase \in 0 .. Period - 1
    /\ running \in BOOLEAN /\ armed \in BOOLEAN /\ pending \in BOOLEAN
    /\ tick_sem \in BOOLEAN
    /\ should_pause \in BOOLEAN /\ asked \in BOOLEAN /\ failed \in BOOLEAN
    /\ pc \in {"idle", "starting", "reading", "arming", "loop", "taking",
               "taken", "callback", "storing", "cancel"}
    /\ pausing \in [Pausers -> {"out", "flagged", "stopped"}]
    /\ alive \in BOOLEAN

Init ==
    /\ config \in [kind : Kinds, callback : BOOLEAN]
    /\ now = 0 /\ phase = 0 /\ running = FALSE /\ next_alarm = 0
    /\ armed = FALSE /\ pending = FALSE
    /\ tick_sem = FALSE
    /\ should_pause = FALSE /\ asked = FALSE /\ failed = FALSE
    /\ pc = "idle"
    /\ pausing = [p \in Pausers |-> "out"]
    /\ alive = TRUE

Counter == config.kind = "counter"

\* Distance from b to a, going forward.
Ahead(a, b) == (a + Modulus - b) % Modulus

\* k_sem_give on a semaphore whose limit is 1.
Give == tick_sem' = TRUE

\* counter_cancel_channel_alarm and counter_stop, or k_timer_stop.
StopTimer ==
    /\ armed' = FALSE /\ pending' = FALSE /\ running' = FALSE
    /\ UNCHANGED <<now, phase, next_alarm>>

-----------------------------------------------------------------------------
(* The counter peripheral and the two interrupt handlers.                  *)

\* Time passes.  No interrupt is later than MaxLate, and start() is not
\* preempted for longer than that past the target it is about to set.
Advance ==
    /\ Counter /\ running
    /\ pending => Ahead(now, next_alarm) < MaxLate
    /\ pc = "arming" => Ahead(now, next_alarm) # MaxLate
    /\ now' = (now + 1) % Modulus
    /\ phase' = (phase + 1) % Period
    /\ pending' = (pending \/ (armed /\ now' = next_alarm))
    /\ UNCHANGED <<config, running, next_alarm, armed, tick_sem, loopVars, pausing, alive>>

\* The driver finds that an absolute target has been reached already.
Late(target) == Ahead(now, target) <= MaxLate

\* Mutant of AlarmHandler: the next target is a period after this interrupt.
AlarmHandlerFromNow ==
    /\ Counter /\ pending
    /\ next_alarm' = (now + Period) % Modulus
    /\ pending' = FALSE
    /\ Give
    /\ UNCHANGED <<config, now, phase, running, armed, loopVars, pausing, alive>>

\* Mutant of AlarmHandler: the target is not kept in the counter's range.
AlarmHandlerUnwrapped ==
    /\ Counter /\ pending
    /\ next_alarm' = next_alarm + Period
    /\ pending' = Late(next_alarm')
    /\ Give
    /\ UNCHANGED <<config, now, phase, running, armed, loopVars, pausing, alive>>

\* _alarm_handler: one period further, and an interrupt at once when that is
\* already past (COUNTER_ALARM_CFG_EXPIRE_WHEN_LATE).
AlarmHandler ==
    /\ Counter /\ pending
    /\ next_alarm' = (next_alarm + Period) % Modulus
    /\ pending' = Late(next_alarm')
    /\ Give
    /\ UNCHANGED <<config, now, phase, running, armed, loopVars, pausing, alive>>

\* timer_expiry_fn; the kernel keeps the period of a k_timer.
TimerExpiry ==
    /\ ~Counter /\ armed
    /\ Give
    /\ UNCHANGED <<config, timeVars, loopVars, pausing, alive>>

-----------------------------------------------------------------------------
(* dtinterval_zephyr_counter_start: arming.                                *)

\* A tick left in the semaphore by an earlier start() stays there.
CounterStart ==
    /\ Counter /\ pc = "idle" /\ alive
    /\ should_pause' = FALSE
    /\ failed' = FALSE
    /\ pc' = "starting"
    /\ UNCHANGED <<config, timeVars, tick_sem, asked, pausing, alive>>

\* The counter has no frequency, or the interval comes to no tick of it: out by
\* the exit that every start() takes, before the flag is cleared.
CounterRefused ==
    /\ Counter /\ pc = "idle" /\ alive
    /\ failed' = TRUE
    /\ pc' = "cancel"
    /\ UNCHANGED <<config, timeVars, tick_sem, should_pause, asked, pausing, alive>>

\* counter_start, or its error.
CounterRuns ==
    /\ Counter /\ pc = "starting"
    /\ \/ running' = TRUE /\ pc' = "reading" /\ UNCHANGED failed
       \/ pc' = "cancel" /\ failed' = TRUE /\ UNCHANGED running
    /\ UNCHANGED <<config, now, phase, next_alarm, armed, pending, tick_sem,
                   should_pause, asked, pausing, alive>>

CounterRead ==
    /\ pc = "reading"
    /\ next_alarm' = (now + Period) % Modulus
    /\ phase' = 0
    /\ pc' = "arming"
    /\ UNCHANGED <<config, now, running, armed, pending, tick_sem, should_pause,
                   asked, failed, pausing, alive>>

\* The first alarm is absolute without EXPIRE_WHEN_LATE: late is an error.
CounterArm ==
    /\ pc = "arming"
    /\ IF Late(next_alarm)
         THEN /\ pc' = "cancel" /\ failed' = TRUE /\ UNCHANGED armed
         ELSE /\ pc' = IF config.callback THEN "loop" ELSE "cancel"
              /\ armed' = TRUE /\ UNCHANGED failed
    /\ UNCHANGED <<config, now, phase, running, next_alarm, pending, tick_sem,
                   should_pause, asked, pausing, alive>>

\* dtinterval_zephyr_ktimer_start: arming.
KtimerStart ==
    /\ ~Counter /\ pc = "idle" /\ alive
    /\ should_pause' = FALSE
    /\ failed' = FALSE
    /\ pc' = "starting"
    /\ UNCHANGED <<config, timeVars, tick_sem, asked, pausing, alive>>

KtimerArm ==
    /\ ~Counter /\ pc = "starting"
    /\ armed' = TRUE
    /\ pc' = IF config.callback THEN "loop" ELSE "idle"
    /\ UNCHANGED <<config, now, phase, running, next_alarm, pending, tick_sem,
                   should_pause, asked, failed, pausing, alive>>

-----------------------------------------------------------------------------
(* The dispatch loop, the same in both backends.                           *)

\* Both tests of _should_pause, before and after k_sem_take.
Test ==
    /\ pc \in {"loop", "taken"}
    /\ pc' = IF should_pause THEN "cancel"
             ELSE IF pc = "loop" THEN "taking" ELSE "callback"
    /\ UNCHANGED <<config, timeVars, tick_sem, should_pause, asked,
                   failed, pausing, alive>>

Take ==
    /\ pc = "taking" /\ tick_sem
    /\ tick_sem' = FALSE
    /\ pc' = "taken"
    /\ UNCHANGED <<config, timeVars, should_pause, asked, failed, pausing, alive>>

\* The callback returns an error, or says whether to pause.
CallbackReturns ==
    /\ pc = "callback"
    /\ \/ pc' = "cancel" /\ failed' = TRUE /\ UNCHANGED asked
       \/ pc' = "storing" /\ asked' \in BOOLEAN /\ UNCHANGED failed
    /\ UNCHANGED <<config, timeVars, tick_sem, should_pause, pausing, alive>>

\* _should_pause = (bool)should_pause.
Store ==
    /\ pc = "storing"
    /\ should_pause' = asked
    /\ asked' = FALSE
    /\ pc' = "loop"
    /\ UNCHANGED <<config, timeVars, tick_sem, failed, pausing, alive>>

\* Mutant of CounterLeave: the alarm is cancelled after an error only.
CounterLeaveOnError ==
    /\ Counter /\ pc = "cancel"
    /\ IF failed THEN StopTimer ELSE UNCHANGED timeVars
    /\ pc' = "idle"
    /\ UNCHANGED <<config, tick_sem, should_pause, asked, failed, pausing, alive>>

CounterLeave ==
    /\ Counter /\ pc = "cancel"
    /\ StopTimer
    /\ pc' = "idle"
    /\ UNCHANGED <<config, tick_sem, should_pause, asked, failed, pausing, alive>>

\* The k_timer is stopped after an error only.
KtimerLeave ==
    /\ ~Counter /\ pc = "cancel"
    /\ IF failed THEN StopTimer ELSE UNCHANGED timeVars
    /\ pc' = "idle"
    /\ UNCHANGED <<config, tick_sem, should_pause, asked, failed, pausing, alive>>

-----------------------------------------------------------------------------
(* pause(), called by any thread, and dispose().                           *)

PauseFlag(p) ==
    /\ pausing[p] = "out" /\ alive
    /\ should_pause' = TRUE
    /\ pausing' = [pausing EXCEPT ![p] = "flagged"]
    /\ UNCHANGED <<config, timeVars, tick_sem, asked, pc, failed, alive>>

PauseStop(p) ==
    /\ pausing[p] = "flagged"
    /\ StopTimer
    /\ pausing' = [pausing EXCEPT ![p] = "stopped"]
    /\ UNCHANGED <<config, tick_sem, loopVars, alive>>

\* Mutant of PauseGive: the waiting loop is not woken.
PauseQuietly(p) ==
    /\ pausing[p] = "stopped"
    /\ pausing' = [pausing EXCEPT ![p] = "out"]
    /\ UNCHANGED <<config, timeVars, tick_sem, loopVars, alive>>

PauseGive(p) ==
    /\ pausing[p] = "stopped"
    /\ Give
    /\ pausing' = [pausing EXCEPT ![p] = "out"]
    /\ UNCHANGED <<config, timeVars, loopVars, alive>>

\* Nobody disposes of an interval that is started or being paused.
Dispose ==
    /\ pc = "idle" /\ alive /\ \A p \in Pausers : pausing[p] = "out"
    /\ StopTimer
    /\ alive' = FALSE
    /\ UNCHANGED <<config, tick_sem, loopVars, pausing>>

-----------------------------------------------------------------------------

Interrupts == AlarmHandler \/ TimerExpiry

Dispatch ==
    \/ CounterRuns \/ CounterRead \/ CounterArm \/ KtimerArm
    \/ Test \/ Take \/ CallbackReturns \/ Store \/ CounterLeave \/ KtimerLeave

Next ==
    \/ Advance \/ Interrupts
    \/ CounterStart \/ CounterRefused \/ KtimerStart \/ Dispatch
    \/ \E p \in Pausers : PauseFlag(p) \/ PauseStop(p) \/ PauseGive(p)
    \/ Dispose

\* Time passes, interrupts are served, and a thread that is inside start() or
\* pause() gets to run; the callback returns.
Fairness ==
    /\ WF_vars(Advance) /\ WF_vars(Interrupts) /\ WF_vars(Dispatch)
    /\ \A p \in Pausers : WF_vars(PauseStop(p)) /\ WF_vars(PauseGive(p))

Spec == Init /\ [][Next]_vars

FairSpec == Spec /\ Fairness

-----------------------------------------------------------------------------
(* Properties.                                                             *)

\* The alarm that is set is for a whole number of periods after the first one,
\* and the next such time unless its interrupt is raised: however late an
\* interrupt is served, and across a wrap of the counter, nothing accumulates
\* and no period is skipped (dtinterval_zephyr_counter.h: "re-arming at an
\* absolute timestamp to eliminate cumulative drift").
NoDrift ==
    Counter /\ armed =>
        IF pending
          THEN (phase + Modulus * Period - Ahead(now, next_alarm)) % Period = 0
          ELSE /\ Ahead(next_alarm, now) \in 1 .. Period
               /\ (phase + Ahead(next_alarm, now)) % Period = 0

\* No alarm is left behind: a counter's start() that has returned and a
\* k_timer's start() that has failed, and dispose() of either, leave no
\* interrupt armed on an object whose owner believes it at rest.
StoppedOnReturn ==
    ~alive \/ (pc = "idle" /\ (Counter \/ failed)) => ~armed /\ ~pending

\* A pause() that reaches the dispatch loop outside the callback ends it, be
\* it about to wait, waiting, or just woken by a tick.
PauseSeen ==
    (should_pause /\ pc \in {"loop", "taking", "taken"}) ~> (pc = "idle")

\* A pause() that comes while the callback runs ends that start() too:
\* start() clears the flag and found it clear before it called back, so that
\* one that is set here was set meanwhile.
PauseEnds ==
    (should_pause /\ pc = "callback") ~> (pc = "idle")

=============================================================================
