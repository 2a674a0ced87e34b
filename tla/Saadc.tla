------------------------------- MODULE Saadc -------------------------------
(***************************************************************************)
(* dtadc_zephyr_saadc.c: a counter's interrupt wakes a reader task that    *)
(* scans the ADC and calls back.  One thread calls activate(), deactivate() *)
(* and dispose(); another thread asks for the status.  The lock is a       *)
(* k_mutex: its owner may take it again and must give it back as often.    *)
(* The reader's tasker is known here by what Tasker shows of it: start     *)
(* waits for READY, and dispose frees the thread's storage at once.        *)
(***************************************************************************)
EXTENDS Naturals

CONSTANTS
    MaxCycles, \* bound: readers that are started
    Polls,     \* the rounds deactivate() waits, 50 in the code
    Prompt,    \* its last sleep outlasts a reader that is not stuck
    InfoFails, \* the tasker's info callback may fail in dttasker_ready
    Rejects    \* activate() is called on an active ADC, too

ASSUME SaadcAssumption ==
    /\ MaxCycles \in Nat \ {0} /\ Polls \in Nat \ {0}
    /\ Prompt \in BOOLEAN /\ InfoFails \in BOOLEAN /\ Rejects \in BOOLEAN

VARIABLES
    lock,         \* who owns the k_mutex, and how many times
    status,       \* status.state
    is_active,
    should_pause,
    tick_sem,     \* the count of tick_sem, at most one
    armed,        \* the counter's alarm is set
    adc_dev,      \* the ADC device is open
    tasker,       \* reader_tasker_handle: the number of its reader, 0 for NULL
    started,      \* the number of readers started
    reader,       \* where each reader's thread is
    failed,       \* the readers that end with an error
    ready,        \* READY is posted for the last reader
    app,          \* where activate(), deactivate() or dispose() is
    round,        \* the rounds deactivate() has waited
    viewer        \* where get_status() of the other thread is

clockVars == <<tick_sem, armed>>
readerVars == <<reader, failed, ready>>
taskVars == <<tasker, started>>
vars == <<lock, status, is_active, should_pause, clockVars, adc_dev, taskVars,
          readerVars, app, round, viewer>>

Readers == 1 .. MaxCycles

Points == {"none", "entry", "ready", "loop", "waiting", "woken", "scanning",
           "callback", "leaving", "publishing", "exiting", "dead"}

TypeOK ==
    /\ lock \in [owner : {"nobody", "app", "viewer", "reader"},
                 depth : 0 .. 2]
    /\ lock.owner = "nobody" <=> lock.depth = 0
    /\ status \in {"IDLE", "STARTING", "ACTIVE", "STOPPED", "ERROR"}
    /\ is_active \in BOOLEAN /\ should_pause \in BOOLEAN
    /\ tick_sem \in BOOLEAN /\ armed \in BOOLEAN /\ adc_dev \in BOOLEAN
    /\ tasker \in 0 .. MaxCycles /\ started \in 0 .. MaxCycles
    /\ reader \in [Readers -> Points]
    /\ failed \subseteq Readers
    /\ ready \in BOOLEAN
    /\ app \in {"idle", "opening", "arming", "creating", "launching", "starting",
                "failing", "teardown", "pausing", "polling", "looking", "closing",
                "relocking", "freeing", "gone"}
    /\ round \in 0 .. Polls
    /\ viewer \in {"out", "wants", "has"}

Init ==
    /\ lock = [owner |-> "nobody", depth |-> 0]
    /\ status = "IDLE"
    /\ is_active = FALSE /\ should_pause = FALSE
    /\ tick_sem = FALSE /\ armed = FALSE /\ adc_dev = FALSE
    /\ tasker = 0 /\ started = 0
    /\ reader = [r \in Readers |-> "none"]
    /\ failed = {} /\ ready = FALSE
    /\ app = "idle" /\ round = 0
    /\ viewer = "out"

-----------------------------------------------------------------------------
(* dtlock_acquire and dtlock_release on the k_mutex.                       *)

Acquire(who) ==
    /\ lock.owner \in {"nobody", who}
    /\ lock' = [owner |-> who, depth |-> lock.depth + 1]

Released ==
    IF lock.depth = 1 THEN [owner |-> "nobody", depth |-> 0]
                      ELSE [lock EXCEPT !.depth = @ - 1]

Release == lock' = Released

Goto(here, there) == app = here /\ app' = there

-----------------------------------------------------------------------------
(* activate()                                                              *)

Activate ==
    /\ app = "idle" /\ started < MaxCycles /\ (is_active => Rejects)
    /\ Acquire("app")
    /\ app' = IF is_active THEN "failing" ELSE "opening"
    /\ status' = IF is_active THEN status ELSE "STARTING"
    /\ UNCHANGED <<is_active, should_pause, clockVars, adc_dev, taskVars, readerVars,
                   round, viewer>>

\* open_hardware
Open ==
    /\ \/ Goto("opening", "arming") /\ adc_dev' = TRUE
       \/ Goto("opening", "failing") /\ adc_dev' = FALSE
    /\ UNCHANGED <<lock, status, is_active, should_pause, clockVars, taskVars,
                   readerVars, round, viewer>>

\* The counter's frequency and the period are checked first; then the counter
\* is started and the first alarm set.
Arm ==
    /\ \/ Goto("arming", "failing") /\ UNCHANGED <<tick_sem, armed, should_pause>>
       \/ /\ app = "arming"
          /\ tick_sem' = FALSE /\ should_pause' = FALSE
          /\ armed' \in BOOLEAN
          /\ app' = IF armed' THEN "creating" ELSE "failing"
    /\ UNCHANGED <<lock, status, is_active, adc_dev, taskVars, readerVars, round, viewer>>

\* dttasker_create
Create ==
    /\ \/ Goto("creating", "failing") /\ UNCHANGED tasker
       \/ /\ Goto("creating", "launching")
          /\ tasker' = started + 1
    /\ UNCHANGED <<lock, status, is_active, should_pause, clockVars, adc_dev, started,
                   readerVars, round, viewer>>

\* dttasker_start creates the thread, or has no memory for its stack.
Launch ==
    /\ \/ Goto("launching", "failing") /\ UNCHANGED <<started, readerVars>>
       \/ /\ Goto("launching", "starting")
          /\ started' = tasker
          /\ reader' = [reader EXCEPT ![tasker] = "entry"]
          /\ ready' = FALSE /\ UNCHANGED failed
    /\ UNCHANGED <<lock, status, is_active, should_pause, clockVars, adc_dev, tasker,
                   round, viewer>>

\* dttasker_start has waited for READY, with the lock held.
Activated ==
    /\ ready /\ Goto("starting", "idle")
    /\ is_active' = TRUE
    /\ Release
    /\ UNCHANGED <<status, should_pause, clockVars, adc_dev, taskVars, readerVars,
                   round, viewer>>

\* The error path gives the lock back before it tears down.
Fail ==
    /\ Goto("failing", "teardown")
    /\ Release
    /\ UNCHANGED <<status, is_active, should_pause, clockVars, adc_dev, taskVars,
                   readerVars, round, viewer>>

\* Mutant of Teardown: the alarm is not cancelled.
TeardownArmed ==
    /\ Goto("teardown", "idle")
    /\ adc_dev' = FALSE /\ is_active' = FALSE
    /\ tasker' = 0
    /\ UNCHANGED <<lock, status, should_pause, clockVars, started, readerVars, round, viewer>>

Teardown ==
    /\ Goto("teardown", "idle")
    /\ armed' = FALSE
    /\ adc_dev' = FALSE /\ is_active' = FALSE
    /\ tasker' = 0
    /\ UNCHANGED <<lock, status, should_pause, tick_sem, started, readerVars, round, viewer>>

-----------------------------------------------------------------------------
(* deactivate()                                                            *)

Deactivate ==
    /\ app = "idle" /\ is_active
    /\ Acquire("app")
    /\ app' = "pausing"
    /\ UNCHANGED <<status, is_active, should_pause, clockVars, adc_dev, taskVars,
                   readerVars, round, viewer>>

Pause ==
    /\ Goto("pausing", "polling")
    /\ armed' = FALSE /\ should_pause' = TRUE /\ tick_sem' = TRUE
    /\ round' = 0
    /\ Release
    /\ UNCHANGED <<status, is_active, adc_dev, taskVars, readerVars, viewer>>

LastRound == round + 1 >= Polls

\* The reader waits for a lock or for a tick that will not come.
Stuck ==
    \/ reader[tasker] = "leaving" /\ lock.owner = "app"
    \/ reader[tasker] = "waiting" /\ ~tick_sem

\* After a sleep of 10 ms.
Poll ==
    /\ app = "polling"
    /\ Prompt /\ LastRound => status \in {"STOPPED", "ERROR"} \/ Stuck
    /\ Acquire("app")
    /\ app' = "looking"
    /\ UNCHANGED <<status, is_active, should_pause, clockVars, adc_dev, taskVars,
                   readerVars, round, viewer>>

\* The loop ends with its lock when it sees the reader's last word, and
\* without it after the last round.
LookFor(states) ==
    /\ app = "looking"
    /\ IF status \in states
         THEN app' = "closing" /\ UNCHANGED <<lock, round>>
         ELSE /\ Release
              /\ app' = IF LastRound THEN "closing" ELSE "polling"
              /\ round' = IF LastRound THEN 0 ELSE round + 1
    /\ UNCHANGED <<status, is_active, should_pause, clockVars, adc_dev, taskVars,
                   readerVars, viewer>>

\* Mutant of Look: a reader that has started counts as one that has stopped.
LookStarted == LookFor({"ACTIVE", "STOPPED", "ERROR"})

Look == LookFor({"STOPPED", "ERROR"})

\* The tasker is disposed, without a join, and the hardware closed.
Close ==
    /\ Goto("closing", "relocking")
    /\ tasker' = 0
    /\ adc_dev' = FALSE
    /\ UNCHANGED <<lock, status, is_active, should_pause, clockVars, started,
                   readerVars, round, viewer>>

\* Mutant of Deactivated: the lock is taken and not given back.
DeactivatedLocked ==
    /\ Acquire("app")
    /\ \/ Goto("relocking", "idle")
       \/ viewer = "out" /\ Goto("relocking", "freeing")
    /\ is_active' = FALSE /\ round' = 0
    /\ UNCHANGED <<status, should_pause, clockVars, adc_dev, taskVars, readerVars, viewer>>

\* The lock is taken (again, after an early end of the loop) and given back.  A
\* deactivate() that dispose() has called goes on there.
Deactivated ==
    /\ lock.owner \in {"nobody", "app"} /\ UNCHANGED lock
    /\ \/ Goto("relocking", "idle")
       \/ viewer = "out" /\ Goto("relocking", "freeing")
    /\ is_active' = FALSE /\ round' = 0
    /\ UNCHANGED <<status, should_pause, clockVars, adc_dev, taskVars, readerVars, viewer>>

-----------------------------------------------------------------------------
(* dispose(), when nobody is in get_status() or calls it any more.         *)

\* One that is active is deactivated first.
Dispose ==
    /\ viewer = "out" /\ ~is_active /\ Goto("idle", "freeing")
    /\ UNCHANGED <<lock, status, is_active, should_pause, clockVars, adc_dev, taskVars,
                   readerVars, round, viewer>>

\* dtlock_dispose unlocks once, which only the owner can, and frees the lock.  A
\* reader that was waiting for it goes on as if it and the ADC were still there.
Free ==
    /\ Goto("freeing", "gone")
    /\ adc_dev' = FALSE
    /\ tasker' = 0
    /\ lock' = IF lock.owner = "app" THEN Released ELSE lock
    /\ UNCHANGED <<status, is_active, should_pause, clockVars, started, readerVars,
                   round, viewer>>

-----------------------------------------------------------------------------
(* get_status(), in a thread of its own.                                   *)

Ask ==
    /\ viewer = "out" /\ app \notin {"freeing", "gone"}
    /\ viewer' = "wants"
    /\ UNCHANGED <<lock, status, is_active, should_pause, clockVars, adc_dev, taskVars,
                   readerVars, app, round>>

View ==
    /\ viewer = "wants"
    /\ Acquire("viewer")
    /\ viewer' = "has"
    /\ UNCHANGED <<status, is_active, should_pause, clockVars, adc_dev, taskVars,
                   readerVars, app, round>>

Viewed ==
    /\ viewer = "has"
    /\ Release
    /\ viewer' = "out"
    /\ UNCHANGED <<status, is_active, should_pause, clockVars, adc_dev, taskVars,
                   readerVars, app, round>>

-----------------------------------------------------------------------------
(* _alarm_handler                                                          *)

\* The alarm is set again; the semaphore keeps one tick at most.
Alarm ==
    /\ armed
    /\ tick_sem' = TRUE
    /\ UNCHANGED <<lock, status, is_active, should_pause, armed, adc_dev, taskVars,
                   readerVars, app, round, viewer>>

-----------------------------------------------------------------------------
(* dtadc_zephyr_saadc__reader_task_entry and __on_tick.                    *)

Going(r, here, there) ==
    /\ reader[r] = here
    /\ reader' = [reader EXCEPT ![r] = there]
    /\ UNCHANGED <<is_active, should_pause, armed, adc_dev, taskVars, app, round, viewer>>

\* Mutant of Enter: the state is set under the lock, as the last one is.
EnterLocked(r) ==
    /\ lock.owner = "nobody"
    /\ Going(r, "entry", "ready")
    /\ status' = "ACTIVE"
    /\ UNCHANGED <<lock, tick_sem, failed, ready>>

\* The state is set without the lock, which activate() holds.
Enter(r) ==
    /\ Going(r, "entry", "ready")
    /\ status' = "ACTIVE"
    /\ UNCHANGED <<lock, tick_sem, failed, ready>>

Ready(r) ==
    /\ \/ Going(r, "ready", "loop") /\ ready' = TRUE /\ UNCHANGED failed
       \/ /\ InfoFails
          /\ Going(r, "ready", "leaving")
          /\ failed' = failed \cup {r} /\ UNCHANGED ready
    /\ UNCHANGED <<lock, status, tick_sem>>

\* The two tests of should_pause, before and after k_sem_take.
Test(r) ==
    /\ \/ Going(r, "loop", IF should_pause THEN "leaving" ELSE "waiting")
       \/ Going(r, "woken", IF should_pause THEN "leaving" ELSE "scanning")
    /\ UNCHANGED <<lock, status, tick_sem, failed, ready>>

Take(r) ==
    /\ tick_sem
    /\ Going(r, "waiting", "woken")
    /\ tick_sem' = FALSE
    /\ UNCHANGED <<lock, status, failed, ready>>

\* The channels are read, or one of them fails.
Scan(r) ==
    /\ \/ Going(r, "scanning", "callback") /\ UNCHANGED failed
       \/ Going(r, "scanning", "leaving") /\ failed' = failed \cup {r}
    /\ UNCHANGED <<lock, status, tick_sem, ready>>

CallbackReturns(r) ==
    /\ \/ Going(r, "callback", "loop") /\ UNCHANGED failed
       \/ Going(r, "callback", "leaving") /\ failed' = failed \cup {r}
    /\ UNCHANGED <<lock, status, tick_sem, ready>>

\* No reader takes the lock twice, and there is none to share it with.
Leave(r) ==
    /\ lock.owner = "nobody" /\ Acquire("reader")
    /\ Going(r, "leaving", "publishing")
    /\ UNCHANGED <<status, tick_sem, failed, ready>>

Publish(r) ==
    /\ Going(r, "publishing", "exiting")
    /\ status' = IF r \in failed THEN "ERROR" ELSE "STOPPED"
    /\ Release
    /\ UNCHANGED <<tick_sem, failed, ready>>

\* The rest of the thread is dttasker's: it uses the tasker to the end.
Exit(r) ==
    /\ Going(r, "exiting", "dead")
    /\ ready' = (ready \/ r \in failed)
    /\ UNCHANGED <<lock, status, tick_sem, failed>>

-----------------------------------------------------------------------------

AppSteps ==
    \/ Open \/ Arm \/ Create \/ Launch \/ Activated \/ Fail \/ Teardown
    \/ Pause \/ Poll \/ Look \/ Close \/ Deactivated \/ Free

ReaderSteps(r) ==
    \/ Enter(r) \/ Ready(r) \/ Test(r) \/ Take(r) \/ Scan(r) \/ CallbackReturns(r)
    \/ Leave(r) \/ Publish(r) \/ Exit(r)

Next ==
    \/ Activate \/ Deactivate \/ Dispose \/ AppSteps
    \/ Ask \/ View \/ Viewed
    \/ Alarm
    \/ \E r \in Readers : ReaderSteps(r)

\* Every thread runs; the kernel hands a k_mutex that is given back to a thread
\* that waits for it; a running counter raises its alarm.
Fairness ==
    /\ SF_vars(AppSteps) /\ WF_vars(Alarm)
    /\ SF_vars(View) /\ WF_vars(Viewed)
    /\ \A r \in Readers : WF_vars(ReaderSteps(r)) /\ SF_vars(Leave(r))

Spec == Init /\ [][Next]_vars

FairSpec == Spec /\ Fairness

-----------------------------------------------------------------------------
(* Properties.                                                             *)

\* The thread that calls is in no call, or in the end of the last one.
Outside == {"idle", "freeing", "gone"}

\* A scan, and the callback it ends with, finds the ADC open and its tasker in
\* place, and is over when deactivate() or dispose() returns.
ScanSafe ==
    \A r \in Readers : reader[r] \in {"scanning", "callback"} =>
        adc_dev /\ tasker = r /\ (app \in Outside => is_active)

\* Whatever step of activate() fails, and whatever deactivate() finds, an ADC
\* that is not active has no alarm set, no device open and no tasker.
AtRest == app \in Outside /\ ~is_active => ~armed /\ ~adc_dev /\ tasker = 0

\* activate() waits with the lock for a reader whose info callback has failed, and which
\* wants the lock before it says so: neither moves again.
Wedged == app = "starting" /\ ~ready /\ reader[tasker] = "leaving"

\* activate(), deactivate() and dispose() return, although each waits for the reader:
\* all but the one activate() whose reader could not report that it was ready.
CallsReturn == (app \notin {"idle", "gone"}) ~> (app \in {"idle", "gone"} \/ Wedged)

\* get_status() returns.
StatusReturns == (viewer = "wants") ~> (viewer = "out")

=============================================================================
