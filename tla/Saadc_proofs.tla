---------------------------- MODULE Saadc_proofs ----------------------------
(***************************************************************************)
(* For any number of activations and rounds of waiting, whichever steps     *)
(* fail: no scan outlives the device or the tasker, and an ADC that is not  *)
(* active holds nothing.  Nobody activates an active ADC (~Rejects), and    *)
(* deactivate() waits until its reader has stopped or is stuck (Prompt).    *)
(***************************************************************************)
EXTENDS Saadc, TLAPS

\* Where a call holds the lock by its own doing.
Held == app \in {"opening", "arming", "creating", "launching", "starting", "failing",
                 "pausing", "looking"}

\* A deactivate() that ended its wait early has left the lock with its thread.
Retained == lock.owner = "app" /\ lock.depth > IF Held THEN 1 ELSE 0

\* There is a reader that has not been given up.
Serving == app \in {"starting", "pausing", "polling", "looking"} \/ (app = "idle" /\ is_active)

\* A reader that scans no more: it ends, or waits for a lock that will not come free
\* while there is one.
Stale(r) ==
    \/ reader[r] \in {"none", "exiting", "dead"}
    \/ reader[r] = "leaving" /\ Retained
    \/ reader[r] \in {"leaving", "publishing"} /\ app = "gone"

LockInv ==
    /\ Held => lock.owner = "app"
    /\ lock.owner = "app" /\ ~Held => lock.depth = 1
    /\ lock.owner \in {"viewer", "reader"} => lock.depth = 1
    /\ viewer = "has" <=> lock.owner = "viewer"
    /\ \A r \in Readers : reader[r] = "publishing" => lock.owner = "reader"
    /\ \A r, q \in Readers : reader[r] = "publishing" /\ reader[q] = "publishing" => r = q

\* What each step of activate() and deactivate() has done so far.
CallInv ==
    /\ app \in {"pausing", "polling", "looking", "closing", "relocking"} => is_active
    /\ is_active => app \in {"idle", "pausing", "polling", "looking", "closing", "relocking"}
    /\ app \in {"opening", "arming", "creating"} => started < MaxCycles /\ tasker = 0
    /\ app = "launching" => tasker = started + 1
    /\ Serving => tasker = started /\ tasker > 0 /\ adc_dev
    /\ app \in {"arming", "creating", "launching"} => adc_dev
    /\ app = "relocking" => tasker = 0 /\ ~adc_dev
    /\ app \in {"opening", "arming", "polling", "looking", "closing", "relocking"} => ~armed

\* Readers are made in order, and all but the last are through.
ReaderInv ==
    /\ \A r \in Readers : r > started => reader[r] = "none"
    /\ \A r \in Readers : r # tasker \/ ~Serving => Stale(r)

\* A status that says the reader has stopped is this reader's, and it could only say so
\* with a lock that nobody had kept.
StatusInv ==
    /\ app \in {"opening", "arming", "creating", "launching"} => status = "STARTING"
    /\ app = "starting" => reader[tasker] \notin {"publishing", "exiting", "dead"}
    /\ Serving /\ status \in {"STOPPED", "ERROR"} => reader[tasker] \in {"exiting", "dead"}
    /\ Serving /\ reader[tasker] \in {"publishing", "exiting", "dead"} => ~Retained

\* While deactivate() waits, its reader has a tick to wake it and a flag to stop it; and
\* what the last round finds is a reader that has stopped or that wants the lock.
WaitInv ==
    /\ app \in {"polling", "looking"} =>
         should_pause /\ (reader[tasker] = "waiting" => tick_sem)
    /\ Prompt /\ app = "looking" /\ LastRound =>
         status \in {"STOPPED", "ERROR"} \/ (reader[tasker] = "leaving" /\ Retained)

IInv == TypeOK /\ LockInv /\ CallInv /\ ReaderInv /\ StatusInv /\ WaitInv /\ AtRest

-----------------------------------------------------------------------------

\* An ADC that is made satisfies the invariant.
LEMMA InitInv == Init => IInv
<1> SUFFICES ASSUME Init PROVE IInv
    OBVIOUS
<1> USE SaadcAssumption DEF Init
<1>1. TypeOK
    <2>1. 0 \in 0 .. MaxCycles /\ 0 \in 0 .. Polls /\ 0 \in 0 .. 2
        OBVIOUS
    <2>2. lock \in [owner : {"nobody", "app", "viewer", "reader"}, depth : 0 .. 2]
        BY <2>1
    <2>3. lock.owner = "nobody" <=> lock.depth = 0
        OBVIOUS
    <2>4. reader \in [Readers -> Points] /\ failed \subseteq Readers
        BY Zenon DEF Points
    <2> QED BY <2>1, <2>2, <2>3, <2>4, Zenon DEF TypeOK
<1>2. LockInv /\ CallInv /\ ReaderInv /\ StatusInv /\ WaitInv /\ AtRest
    BY DEF LockInv, CallInv, ReaderInv, StatusInv, WaitInv, LastRound, AtRest, Outside, Held, Retained, Serving,
        Stale
<1> QED BY <1>1, <1>2 DEF IInv

\* The steps of activate().
LEMMA ActivateStep ==
    ASSUME ~Rejects, IInv,
           Activate \/ Open \/ Arm \/ Create \/ Launch \/ Activated \/ Fail \/ Teardown
    PROVE  IInv'
<1> USE SaadcAssumption DEF IInv, TypeOK, LockInv, CallInv, ReaderInv, StatusInv, WaitInv, LastRound, AtRest,
        Outside, Held, Retained, Serving, Stale, Points, Readers, clockVars, taskVars,
        readerVars, Acquire, Released, Release, Goto
<1>1. CASE Activate BY <1>1 DEF Activate
<1>2. CASE Open BY <1>2 DEF Open
<1>3. CASE Arm BY <1>3 DEF Arm
<1>4. CASE Create BY <1>4 DEF Create
<1>5. CASE Launch
    <2>1. CASE Goto("launching", "failing") /\ UNCHANGED <<started, readerVars>>
        BY <1>5, <2>1 DEF Launch
    <2>2. CASE /\ Goto("launching", "starting") /\ started' = tasker
               /\ reader' = [reader EXCEPT ![tasker] = "entry"]
               /\ ready' = FALSE /\ UNCHANGED failed
        <3>1. UNCHANGED <<lock, status, is_active, should_pause, clockVars, adc_dev, tasker,
                          round, viewer>>
            BY <1>5, Zenon DEF Launch
        <3>2. tasker \in Readers /\ tasker > started /\ reader[tasker] = "none"
            BY <2>2
        <3>3. TypeOK'
            BY <2>2, <3>1, <3>2
        <3>4. LockInv' /\ CallInv' /\ AtRest'
            BY <2>2, <3>1, <3>2
        <3>5. ReaderInv' /\ StatusInv' /\ WaitInv'
            BY <2>2, <3>1, <3>2
        <3> QED BY <3>3, <3>4, <3>5
    <2> QED BY <1>5, <2>1, <2>2, Zenon DEF Launch
<1>6. CASE Activated BY <1>6 DEF Activated
<1>7. CASE Fail BY <1>7 DEF Fail
<1>8. CASE Teardown
    <2>1. /\ app = "teardown" /\ app' = "idle"
          /\ armed' = FALSE /\ adc_dev' = FALSE /\ is_active' = FALSE /\ tasker' = 0
          /\ UNCHANGED <<lock, status, should_pause, tick_sem, started, readerVars, round,
                         viewer>>
        BY <1>8, Zenon DEF Teardown
    <2>2. TypeOK'
        <3>1. tasker' \in 0 .. MaxCycles /\ app' = "idle"
            BY <2>1
        <3>2. armed' \in BOOLEAN /\ adc_dev' \in BOOLEAN /\ is_active' \in BOOLEAN
            BY <2>1, Zenon
        <3>3. UNCHANGED <<lock, status, should_pause, tick_sem, started, readerVars, round,
                          viewer>>
            BY <2>1, Zenon
        <3> QED BY <3>1, <3>2, <3>3
    <2>3. LockInv' /\ CallInv' /\ AtRest'
        BY <2>1
    <2>4. ReaderInv' /\ StatusInv' /\ WaitInv'
        BY <2>1
    <2> QED BY <2>2, <2>3, <2>4
<1> HIDE DEF IInv
<1> QED BY <1>1, <1>2, <1>3, <1>4, <1>5, <1>6, <1>7, <1>8

\* The steps of deactivate().
LEMMA DeactivateStep ==
    ASSUME Prompt, IInv, Deactivate \/ Pause \/ Poll \/ Look \/ Close \/ Deactivated
    PROVE  IInv'
<1> USE SaadcAssumption DEF IInv, TypeOK, LockInv, CallInv, ReaderInv, StatusInv, WaitInv, LastRound, AtRest,
        Outside, Held, Retained, Serving, Stale, Points, Readers, clockVars, taskVars,
        readerVars, Acquire, Released, Release, Goto
<1>1. CASE Deactivate BY <1>1 DEF Deactivate
<1>2. CASE Pause
    <2>1. /\ app = "pausing" /\ app' = "polling"
          /\ armed' = FALSE /\ should_pause' = TRUE /\ tick_sem' = TRUE /\ round' = 0
          /\ lock' = IF lock.depth = 1 THEN [owner |-> "nobody", depth |-> 0]
                                       ELSE [lock EXCEPT !.depth = @ - 1]
          /\ UNCHANGED <<status, is_active, adc_dev, taskVars, readerVars, viewer>>
        BY <1>2, Zenon DEF Pause
    <2>2. TypeOK'
        <3>1. round' \in 0 .. Polls /\ app' = "polling"
            BY <2>1
        <3>2. armed' \in BOOLEAN /\ should_pause' \in BOOLEAN /\ tick_sem' \in BOOLEAN
            BY <2>1, Zenon
        <3>3. /\ lock' \in [owner : {"nobody", "app", "viewer", "reader"}, depth : 0 .. 2]
              /\ lock'.owner = "nobody" <=> lock'.depth = 0
            BY <2>1
        <3>4. UNCHANGED <<status, is_active, adc_dev, taskVars, readerVars, viewer>>
            BY <2>1, Zenon
        <3> QED BY <3>1, <3>2, <3>3, <3>4
    <2>3. LockInv' /\ CallInv' /\ AtRest'
        BY <2>1
    <2>4. ReaderInv' /\ StatusInv' /\ WaitInv'
        BY <2>1
    <2> QED BY <2>2, <2>3, <2>4
<1>3. CASE Poll BY <1>3 DEF Poll, Stuck
<1>4. CASE Look BY <1>4 DEF Look, LookFor
<1>5. CASE Close
    <2>1. /\ app = "closing" /\ app' = "relocking" /\ tasker' = 0 /\ adc_dev' = FALSE
          /\ UNCHANGED <<lock, status, is_active, should_pause, clockVars, started,
                         readerVars, round, viewer>>
        BY <1>5, Zenon DEF Close
    <2>2. TypeOK'
        <3>1. tasker' \in 0 .. MaxCycles /\ app' = "relocking"
            BY <2>1
        <3>2. adc_dev' \in BOOLEAN
            BY <2>1, Zenon
        <3>3. UNCHANGED <<lock, status, is_active, should_pause, clockVars, started,
                          readerVars, round, viewer>>
            BY <2>1, Zenon
        <3> QED BY <3>1, <3>2, <3>3
    <2>3. LockInv' /\ CallInv' /\ AtRest'
        BY <2>1
    <2>4. ReaderInv' /\ StatusInv' /\ WaitInv'
        BY <2>1
    <2> QED BY <2>2, <2>3, <2>4
<1>6. CASE Deactivated
    <2>1. /\ app = "relocking" /\ app' \in {"idle", "freeing"}
          /\ is_active' = FALSE /\ round' = 0
          /\ UNCHANGED <<lock, status, should_pause, clockVars, adc_dev, taskVars,
                         readerVars, viewer>>
        BY <1>6, Zenon DEF Deactivated
    <2>2. TypeOK'
        <3>1. round' \in 0 .. Polls /\ app' \in {"idle", "freeing"}
            BY <2>1
        <3>2. is_active' \in BOOLEAN
            BY <2>1, Zenon
        <3>3. UNCHANGED <<lock, status, should_pause, clockVars, adc_dev, taskVars,
                          readerVars, viewer>>
            BY <2>1, Zenon
        <3> QED BY <3>1, <3>2, <3>3
    <2>3. LockInv' /\ CallInv' /\ AtRest'
        BY <2>1
    <2>4. ReaderInv' /\ StatusInv' /\ WaitInv'
        BY <2>1
    <2> QED BY <2>2, <2>3, <2>4
<1> HIDE DEF IInv
<1> QED BY <1>1, <1>2, <1>3, <1>4, <1>5, <1>6

\* The steps of dispose().
LEMMA DisposeStep ==
    ASSUME IInv, Dispose \/ Free PROVE IInv'
<1> USE SaadcAssumption DEF IInv, TypeOK, LockInv, CallInv, ReaderInv, StatusInv, WaitInv, LastRound, AtRest,
        Outside, Held, Retained, Serving, Stale, Points, Readers, clockVars, taskVars,
        readerVars, Goto
<1>1. CASE Dispose BY <1>1 DEF Dispose
<1>2. CASE Free
    <2>1. /\ app = "freeing" /\ app' = "gone" /\ adc_dev' = FALSE /\ tasker' = 0
          /\ lock' = IF lock.owner = "app" THEN Released ELSE lock
          /\ UNCHANGED <<status, is_active, should_pause, clockVars, started,
                         readerVars, round, viewer>>
        BY <1>2, Zenon DEF Free
    <2>2. ~is_active /\ tasker = 0 /\ ~adc_dev
        BY <2>1
    <2>3. UNCHANGED <<tasker, adc_dev>>
        BY <2>1, <2>2, Zenon
    <2>4. CASE lock.owner # "app" BY <2>1, <2>2, <2>3, <2>4
    <2>5. CASE lock.owner = "app"
        <3>1. lock' = [owner |-> "nobody", depth |-> 0]
            BY <2>1, <2>5 DEF Released
        <3> QED BY <2>1, <2>2, <2>3, <2>5, <3>1
    <2> QED BY <2>4, <2>5
<1> HIDE DEF IInv
<1> QED BY <1>1, <1>2

\* get_status() in its thread, and the alarm.
LEMMA OtherStep ==
    ASSUME IInv, Ask \/ View \/ Viewed \/ Alarm PROVE IInv'
<1> USE SaadcAssumption DEF IInv, TypeOK, LockInv, CallInv, ReaderInv, StatusInv, WaitInv, LastRound, AtRest,
        Outside, Held, Retained, Serving, Stale, Points, Readers, clockVars, taskVars,
        readerVars, Acquire, Released, Release
<1>1. CASE Ask BY <1>1 DEF Ask
<1>2. CASE View BY <1>2 DEF View
<1>3. CASE Viewed BY <1>3 DEF Viewed
<1>4. CASE Alarm BY <1>4 DEF Alarm
<1> HIDE DEF IInv
<1> QED BY <1>1, <1>2, <1>3, <1>4

\* Where a reader is at work, until it leaves.
AtWork == {"ready", "loop", "waiting", "woken", "scanning", "callback"}

\* A reader that goes on with its work, or stops working, is the one that serves.
LEMMA WorkStep ==
    ASSUME IInv, NEW r \in Readers, NEW there \in AtWork \cup {"leaving"},
           reader[r] \in AtWork, reader' = [reader EXCEPT ![r] = there],
           tick_sem' \in BOOLEAN, failed' \subseteq Readers, ready' \in BOOLEAN,
           UNCHANGED <<lock, status, is_active, should_pause, armed, adc_dev, taskVars, app,
                       round, viewer>>,
           there = "waiting" => ~should_pause
    PROVE  IInv'
<1> USE SaadcAssumption DEF IInv, TypeOK, LockInv, CallInv, ReaderInv, StatusInv, WaitInv, LastRound, AtRest,
        Outside, Held, Retained, Serving, Stale, Points, Readers, taskVars, AtWork
<1>1. r = tasker /\ Serving
    OBVIOUS
<1>2. TypeOK'
    OBVIOUS
<1>3. LockInv' /\ CallInv' /\ AtRest'
    OBVIOUS
<1>4. ReaderInv' /\ StatusInv' /\ WaitInv'
    BY <1>1
<1> QED BY <1>2, <1>3, <1>4

\* The steps of a reader.
LEMMA ReaderStep ==
    ASSUME IInv, NEW r \in Readers, ReaderSteps(r) PROVE IInv'
<1> USE SaadcAssumption DEF IInv, TypeOK, LockInv, CallInv, ReaderInv, StatusInv, WaitInv, LastRound, AtRest,
        Outside, Held, Retained, Serving, Stale, Points, Readers, clockVars, taskVars,
        readerVars, Acquire, Released, Release, Going
<1>1. CASE Enter(r) BY <1>1 DEF Enter
<1>2. CASE Ready(r) \/ Test(r) \/ Take(r) \/ Scan(r) \/ CallbackReturns(r)
    <2>1. /\ reader[r] \in AtWork
          /\ UNCHANGED <<lock, status, is_active, should_pause, armed, adc_dev, taskVars, app,
                         round, viewer>>
        BY <1>2 DEF Ready, Test, Take, Scan, CallbackReturns, AtWork
    <2>2. tick_sem' \in BOOLEAN /\ failed' \subseteq Readers /\ ready' \in BOOLEAN
        BY <1>2 DEF Ready, Test, Take, Scan, CallbackReturns
    <2>3. \E there \in AtWork \cup {"leaving"} :
            /\ reader' = [reader EXCEPT ![r] = there]
            /\ there = "waiting" => ~should_pause
        BY <1>2 DEF Ready, Test, Take, Scan, CallbackReturns, AtWork
    <2> HIDE DEF IInv
    <2> QED BY <2>1, <2>2, <2>3, WorkStep
<1>3. CASE Leave(r) BY <1>3 DEF Leave
<1>4. CASE Publish(r)
    <2>1. /\ reader[r] = "publishing" /\ reader' = [reader EXCEPT ![r] = "exiting"]
          /\ status' \in {"ERROR", "STOPPED"}
          /\ UNCHANGED <<is_active, should_pause, clockVars, adc_dev, taskVars, app, round,
                         viewer, failed, ready>>
        BY <1>4 DEF Publish
    <2>2. lock.owner = "reader" /\ lock' = [owner |-> "nobody", depth |-> 0]
        BY <1>4, <2>1 DEF Publish
    <2>3. TypeOK'
        BY <2>1, <2>2
    <2>4. LockInv' /\ CallInv' /\ AtRest'
        BY <2>1, <2>2
    <2>5. (r = tasker /\ Serving) \/ app = "gone"
        BY <2>1, <2>2
    <2>6. ReaderInv' /\ StatusInv' /\ WaitInv'
        BY <2>1, <2>2, <2>5
    <2> QED BY <2>3, <2>4, <2>6
<1>5. CASE Exit(r) BY <1>5 DEF Exit
<1> HIDE DEF IInv
<1> QED BY <1>1, <1>2, <1>3, <1>4, <1>5 DEF ReaderSteps

\* The invariant holds in every state.
LEMMA IInvHolds == Prompt /\ ~Rejects => (Spec => []IInv)
<1> SUFFICES ASSUME Prompt, ~Rejects PROVE Spec => []IInv
    OBVIOUS
<1>1. IInv /\ [Next]_vars => IInv'
    <2> SUFFICES ASSUME IInv, [Next]_vars PROVE IInv'
        OBVIOUS
    <2>1. CASE UNCHANGED vars
        BY <2>1 DEF vars, clockVars, taskVars, readerVars, IInv, TypeOK, LockInv, CallInv,
            ReaderInv, StatusInv, WaitInv, LastRound, AtRest, Outside, Held, Retained, Serving, Stale
    <2> QED BY <2>1, ActivateStep, DeactivateStep, DisposeStep, OtherStep, ReaderStep
           DEF Next, AppSteps
<1> QED BY InitInv, <1>1, PTL DEF Spec

\* Every state of the ADC is well typed: the lock is never taken a third time.
THEOREM TypeCorrect == Prompt /\ ~Rejects => (Spec => []TypeOK)
<1>1. IInv => TypeOK
    BY DEF IInv
<1> QED BY IInvHolds, <1>1, PTL

\* A scan finds the ADC open and its tasker in place, and is over when deactivate()
\* returns.
THEOREM ScansAlwaysSafe == Prompt /\ ~Rejects => (Spec => []ScanSafe)
<1>1. IInv => ScanSafe
    BY DEF IInv, ReaderInv, CallInv, Serving, Stale, Outside, ScanSafe
<1> QED BY IInvHolds, <1>1, PTL

\* An ADC that is not active has no alarm set, no device open and no tasker.
THEOREM AlwaysAtRest == Prompt /\ ~Rejects => (Spec => []AtRest)
<1>1. IInv => AtRest
    BY DEF IInv
<1> QED BY IInvHolds, <1>1, PTL

=============================================================================
