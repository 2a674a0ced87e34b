------------------------------- MODULE Tasker -------------------------------
(***************************************************************************)
(* dttasker_zephyr.c: one tasker object, the Zephyr thread it runs, the    *)
(* thread that owns it (start, join, dispose) and any other thread (stop). *)
(* The module splits each routine wherever another thread can run between  *)
(* two of its accesses to the fields they share.  Runs of the entry point  *)
(* are numbered, because the object keeps ONE k_thread structure that a    *)
(* restart reuses.                                                         *)
(***************************************************************************)
EXTENDS Naturals, Sequences

CONSTANTS
    MaxRuns,    \* bound: how many times the owner starts the task
    JoinsFirst, \* the owner restarts or disposes only after a join succeeded
    Outcomes    \* what an entry point may do before ready(): a subset of
                \* {"ready", "fails", "silent"}; "silent" returns no error

ASSUME TaskerAssumption ==
    /\ MaxRuns \in Nat \ {0}
    /\ JoinsFirst \in BOOLEAN
    /\ Outcomes \subseteq {"ready", "fails", "silent"}

VARIABLES
    flag,    \* the four atomics of dttasker_t
    event,   \* the bits set in the k_event
    info,    \* info.status
    run,     \* the number of the thread in thread_data, 0 before the first
    thread,  \* where each run's thread is in the inception function
    failed,  \* the dterr of each run's inception function is not NULL
    stacks,  \* the runs whose k_malloc'ed stack is not freed
    area,    \* the run whose stack stack_area points to, 0 for NULL
    alive,   \* the object is not disposed
    pc,      \* where the owner is
    cleared, \* how many of start()'s resets are done
    timed,   \* the join under way has a finite timeout
    owed     \* the owner's own record: started and not yet joined

vars == <<flag, event, info, run, thread, failed, stacks, area, alive,
          pc, cleared, timed, owed>>
threadVars == <<run, thread, failed, stacks, area, alive>>
ownerVars == <<pc, cleared, timed, owed>>

Runs == 1 .. MaxRuns
Flags == {"stop_requested", "task_exited", "task_created", "task_joined"}
Bits == {"READY", "EXITED"}

\* The points of dttasker__thread_inception_function, in order.
Points == {"none", "entry", "signal", "serving", "returned", "wake",
           "exiting", "posting", "ending", "dead"}

Live(r) == thread[r] \notin {"none", "dead"}

TypeOK ==
    /\ flag \in [Flags -> BOOLEAN]
    /\ event \subseteq Bits
    /\ info \in {"INITIALIZED", "RUNNING", "STOPPED"}
    /\ run \in 0 .. MaxRuns
    /\ thread \in [Runs -> Points]
    /\ failed \in [Runs -> BOOLEAN]
    /\ stacks \subseteq Runs
    /\ area \in 0 .. MaxRuns
    /\ alive \in BOOLEAN
    /\ pc \in {"idle", "clear", "create", "created", "starting", "checking",
               "waiting", "reap", "joined", "forget"}
    /\ cleared \in 0 .. 4
    /\ timed \in BOOLEAN
    /\ owed \in BOOLEAN

Init ==
    /\ flag = [f \in Flags |-> FALSE]
    /\ event = {}
    /\ info = "INITIALIZED"
    /\ run = 0
    /\ thread = [r \in Runs |-> "none"]
    /\ failed = [r \in Runs |-> FALSE]
    /\ stacks = {}
    /\ area = 0
    /\ alive = TRUE
    /\ pc = "idle"
    /\ cleared = 0
    /\ timed = FALSE
    /\ owed = FALSE

-----------------------------------------------------------------------------
(* dttasker_start, called by the owner.                                    *)

\* What the owner keeps to: an object that is there and, if it is one that joins, no
\* start() or dispose() before it has joined.  The code's own guard is in StartCheck.
CanReuse == alive /\ (JoinsFirst => ~owed)

\* The refusal at the top of start() lets the call through when no thread
\* was created or the last one has set task_exited.
StartCheck ==
    /\ pc = "idle" /\ CanReuse /\ run < MaxRuns
    /\ flag["task_created"] => flag["task_exited"]
    /\ pc' = "clear"
    /\ cleared' = 0
    /\ UNCHANGED <<flag, event, info, threadVars, timed, owed>>

\* k_event_set(0), then one atomic store after another.
ClearOrder == <<"stop_requested", "task_exited", "task_joined", "task_created">>

\* Mutant of StartClearEvent: the bits of the earlier run stay set.
StartKeepEvent ==
    /\ pc = "clear" /\ cleared = 0
    /\ cleared' = 1
    /\ UNCHANGED <<flag, event, info, threadVars, pc, timed, owed>>

StartClearEvent ==
    /\ pc = "clear" /\ cleared = 0
    /\ event' = {}
    /\ cleared' = 1
    /\ UNCHANGED <<flag, info, threadVars, pc, timed, owed>>

StartClearFlag ==
    /\ pc = "clear" /\ cleared \in DOMAIN ClearOrder
    /\ flag' = [flag EXCEPT ![ClearOrder[cleared]] = FALSE]
    /\ cleared' = (cleared + 1) % (Len(ClearOrder) + 1)
    /\ pc' = IF cleared = Len(ClearOrder) THEN "create" ELSE "clear"
    /\ UNCHANGED <<event, info, threadVars, timed, owed>>

\* k_malloc fails: start() returns DTERR_NOMEM with stack_area NULL.
StartNoMemory ==
    /\ pc = "create"
    /\ area' = 0
    /\ pc' = "idle"
    /\ UNCHANGED <<flag, event, info, run, thread, failed, stacks, alive,
                   cleared, timed, owed>>

\* The stack is allocated and k_thread_create reinitialises thread_data.
StartCreate ==
    /\ pc = "create"
    /\ run' = run + 1
    /\ thread' = [thread EXCEPT ![run + 1] = "entry"]
    /\ stacks' = stacks \cup {run + 1}
    /\ area' = run + 1
    /\ pc' = "created"
    /\ UNCHANGED <<flag, event, info, failed, alive, cleared, timed, owed>>

\* Mutant of StartMarkCreated: the stop flag is reset with the thread running.
StartMarkAndReset ==
    /\ pc = "created"
    /\ flag' = [flag EXCEPT !["task_created"] = TRUE, !["stop_requested"] = FALSE]
    /\ pc' = "starting"
    /\ UNCHANGED <<event, info, threadVars, cleared, timed, owed>>

StartMarkCreated ==
    /\ pc = "created"
    /\ flag' = [flag EXCEPT !["task_created"] = TRUE]
    /\ pc' = "starting"
    /\ UNCHANGED <<event, info, threadVars, cleared, timed, owed>>

\* k_event_wait(READY, K_FOREVER) is over and start() returns.
StartReturn ==
    /\ pc = "starting" /\ "READY" \in event
    /\ pc' = "idle"
    /\ owed' = TRUE
    /\ UNCHANGED <<flag, event, info, threadVars, cleared, timed>>

-----------------------------------------------------------------------------
(* dttasker_stop, called by any thread while the object exists.            *)

Stop ==
    /\ alive
    /\ flag' = [flag EXCEPT !["stop_requested"] = TRUE]
    /\ UNCHANGED <<event, info, threadVars, ownerVars>>

-----------------------------------------------------------------------------
(* dttasker_join, called by the owner.                                     *)

JoinNothing ==
    /\ pc = "idle" /\ alive
    /\ ~flag["task_created"] \/ flag["task_joined"]
    /\ owed' = FALSE
    /\ UNCHANGED <<flag, event, info, threadVars, pc, cleared, timed>>

JoinCheck ==
    /\ pc = "idle" /\ alive
    /\ flag["task_created"] /\ ~flag["task_joined"]
    /\ timed' \in BOOLEAN
    /\ pc' = "checking"
    /\ UNCHANGED <<flag, event, info, threadVars, cleared, owed>>

\* The fast path when task_exited is set, the event otherwise.
JoinExited ==
    /\ pc = "checking"
    /\ pc' = IF flag["task_exited"] THEN "reap" ELSE "waiting"
    /\ UNCHANGED <<flag, event, info, threadVars, cleared, timed, owed>>

JoinSeesExit ==
    /\ pc = "waiting" /\ "EXITED" \in event
    /\ pc' = "reap"
    /\ UNCHANGED <<flag, event, info, threadVars, cleared, timed, owed>>

\* Mutant of JoinTimeout: the timeout is reported as success.
JoinTimeoutAsSuccess ==
    /\ pc = "waiting" /\ timed
    /\ pc' = "idle"
    /\ owed' = FALSE
    /\ UNCHANGED <<flag, event, info, threadVars, cleared, timed>>

JoinTimeout ==
    /\ pc = "waiting" /\ timed
    /\ pc' = "idle"
    /\ UNCHANGED <<flag, event, info, threadVars, cleared, timed, owed>>

\* Mutant of JoinReap: returns without k_thread_join.
JoinReapUnwaited ==
    /\ pc = "reap"
    /\ pc' = "joined"
    /\ UNCHANGED <<flag, event, info, threadVars, cleared, timed, owed>>

\* k_thread_join(thread_id, K_FOREVER).
JoinReap ==
    /\ pc = "reap" /\ ~Live(run)
    /\ pc' = "joined"
    /\ UNCHANGED <<flag, event, info, threadVars, cleared, timed, owed>>

JoinMark ==
    /\ pc = "joined"
    /\ flag' = [flag EXCEPT !["task_joined"] = TRUE]
    /\ pc' = "forget"
    /\ UNCHANGED <<event, info, threadVars, cleared, timed, owed>>

JoinReturn ==
    /\ pc = "forget"
    /\ flag' = [flag EXCEPT !["task_created"] = FALSE]
    /\ pc' = "idle"
    /\ owed' = FALSE
    /\ UNCHANGED <<event, info, threadVars, cleared, timed>>

-----------------------------------------------------------------------------
(* dttasker_dispose: frees the current stack and the object, k_thread and  *)
(* k_event included, whatever the thread is doing.                         *)

Dispose ==
    /\ pc = "idle" /\ CanReuse
    /\ stacks' = stacks \ {area}
    /\ alive' = FALSE
    /\ UNCHANGED <<flag, event, info, run, thread, failed, area, ownerVars>>

-----------------------------------------------------------------------------
(* dttasker__thread_inception_function and, inside the entry point, ready()*)
(* and poll().  Going(r, from, to) moves run r's thread from one point to  *)
(* the next.                                                               *)

Going(r, from, to) ==
    /\ thread[r] = from
    /\ thread' = [thread EXCEPT ![r] = to]
    /\ UNCHANGED <<run, stacks, area, alive, ownerVars>>

\* dttasker_ready: set_info(RUNNING), then the event.  The info callback may
\* return an error, and then ready() returns it without posting READY.
Ready(r) ==
    /\ "ready" \in Outcomes
    /\ info' = "RUNNING"
    /\ \/ Going(r, "entry", "signal") /\ UNCHANGED failed
       \/ Going(r, "entry", "returned") /\ failed' = [failed EXCEPT ![r] = TRUE]
    /\ UNCHANGED <<flag, event>>

PostReady(r) ==
    /\ Going(r, "signal", "serving")
    /\ event' = event \cup {"READY"}
    /\ UNCHANGED <<flag, info, failed>>

\* The entry point returns before it has called ready().
ReturnEarly(r) ==
    /\ Going(r, "entry", "returned")
    /\ \E e \in BOOLEAN :
          /\ (IF e THEN "fails" ELSE "silent") \in Outcomes
          /\ failed' = [failed EXCEPT ![r] = e]
    /\ UNCHANGED <<flag, event, info>>

\* The entry point polls and leaves when a stop was requested.
Poll(r) ==
    /\ flag["stop_requested"]
    /\ Going(r, "serving", "returned")
    /\ UNCHANGED <<flag, event, info, failed>>

\* The entry point leaves on its own account, with or without an error.
Return(r) ==
    /\ Going(r, "serving", "returned")
    /\ \E e \in BOOLEAN : failed' = [failed EXCEPT ![r] = e]
    /\ UNCHANGED <<flag, event, info>>

\* Mutant of SetStopped: nobody wakes a start() that waits for a failed task.
SetStoppedQuietly(r) ==
    /\ info' = "STOPPED"
    /\ Going(r, "returned", "exiting")
    /\ UNCHANGED <<flag, event, failed>>

\* set_info(STOPPED), whose own error is dropped here.
SetStopped(r) ==
    /\ info' = "STOPPED"
    /\ Going(r, "returned", IF failed[r] THEN "wake" ELSE "exiting")
    /\ UNCHANGED <<flag, event, failed>>

\* Mutant of WakeStarter: a bit of its own, which start() does not wait for.
WakeWithOtherBit(r) ==
    /\ Going(r, "wake", "exiting")
    /\ event' = event \cup {"FAILED"}
    /\ UNCHANGED <<flag, info, failed>>

\* READY is posted for a start() still waiting, if ready() did not do it.
WakeStarter(r) ==
    /\ Going(r, "wake", "exiting")
    /\ event' = event \cup {"READY"}
    /\ UNCHANGED <<flag, info, failed>>

SetExited(r) ==
    /\ Going(r, "exiting", "posting")
    /\ flag' = [flag EXCEPT !["task_exited"] = TRUE]
    /\ UNCHANGED <<event, info, failed>>

PostExited(r) ==
    /\ Going(r, "posting", "ending")
    /\ event' = event \cup {"EXITED"}
    /\ UNCHANGED <<flag, info, failed>>

\* The kernel takes the thread off its lists.
Terminate(r) ==
    /\ Going(r, "ending", "dead")
    /\ UNCHANGED <<flag, event, info, failed>>

-----------------------------------------------------------------------------

StartSteps ==
    \/ StartClearEvent \/ StartClearFlag \/ StartNoMemory
    \/ StartCreate \/ StartMarkCreated \/ StartReturn

JoinSteps ==
    JoinExited \/ JoinSeesExit \/ JoinTimeout \/ JoinReap \/ JoinMark \/ JoinReturn

ThreadSteps(r) ==
    \/ Ready(r) \/ PostReady(r) \/ ReturnEarly(r) \/ Poll(r) \/ Return(r)
    \/ SetStopped(r) \/ WakeStarter(r) \/ SetExited(r) \/ PostExited(r)
    \/ Terminate(r)

Next ==
    \/ StartCheck \/ StartSteps
    \/ Stop
    \/ JoinNothing \/ JoinCheck \/ JoinSteps
    \/ Dispose
    \/ \E r \in Runs : ThreadSteps(r)

Spec == Init /\ [][Next]_vars

\* Every thread the kernel can run is run in the end, a timeout expires, and
\* an entry point that is serving polls again.  Nobody has to stop, restart
\* or join the task, and its entry point need not return by itself.
ThreadFairness(r) ==
    /\ WF_vars(Ready(r) \/ ReturnEarly(r))
    /\ WF_vars(PostReady(r)) /\ WF_vars(Poll(r)) /\ WF_vars(SetStopped(r))
    /\ WF_vars(WakeStarter(r)) /\ WF_vars(SetExited(r))
    /\ WF_vars(PostExited(r)) /\ WF_vars(Terminate(r))

Fairness ==
    /\ WF_vars(StartSteps) /\ WF_vars(JoinSteps)
    /\ \A r \in Runs : ThreadFairness(r)

FairSpec == Spec /\ Fairness

-----------------------------------------------------------------------------
(* Properties.                                                             *)

\* A thread that is running finds its object, its k_event and its stack in
\* place: neither dispose() nor a restart takes them away.
StorageSafe ==
    \A r \in Runs : Live(r) => r = run /\ area = r /\ r \in stacks /\ alive

\* The bits in the event are those of the current run, never a leftover of an
\* earlier one that would let start() or join() return too soon.
FreshEvents ==
    /\ "READY" \in event =>
          run > 0 /\ (failed[run] \/ thread[run] \notin {"entry", "signal"})
    /\ "EXITED" \in event => run > 0 /\ thread[run] \in {"ending", "dead"}

\* start() returns, whether the entry point calls ready() or fails before it; and a
\* join with a timeout returns although the task may never end: past the event, the
\* wait for the kernel's thread is not bounded by the timeout.
CallsReturn ==
    (pc = "starting" \/ (pc = "checking" /\ timed)) ~> (pc = "idle")

\* A stop() made once the thread is created is not lost: the task ends.
StopEnds ==
    \A r \in Runs : (run = r /\ Live(r) /\ flag["stop_requested"]) ~> ~Live(r)

\* The tasker as its owner sees it.  A join has not succeeded until it returns.
Owner ==
    IF ~alive THEN "disposed"
    ELSE IF pc \in {"clear", "create", "created", "starting"} THEN "starting"
    ELSE IF owed THEN "holding" ELSE "free"

Task ==
    IF ~owed /\ pc \notin {"created", "starting"} THEN "none"
    ELSE IF thread[run] = "dead" THEN "finished"
    ELSE IF "READY" \in event THEN "up" ELSE "launched"

Contract == INSTANCE TaskerContract WITH owner <- Owner, task <- Task

\* The tasker keeps the contract as long as the owner joins before it starts
\* again and every entry point calls ready() or returns an error.
KeepsContract == Contract!ContractSpec

=============================================================================
