--------------------------- MODULE Tasker_proofs ---------------------------
(***************************************************************************)
(* For an owner that joins before it starts again or disposes, and for any *)
(* number of runs: the storage a thread uses outlives it, and the event    *)
(* bits are never those of an earlier run.                                 *)
(***************************************************************************)
EXTENDS Tasker, TLAPS

\* Nothing runs but in a window that start() opens and a join closes.
Quiet == \A r \in Runs : ~Live(r)

\* What the owner's own record (owed) says of the flags and of the threads.
OwedInv ==
    /\ pc \in {"idle", "checking", "waiting", "reap", "joined", "forget"} =>
          (flag["task_created"] <=> owed)
    /\ pc \in {"checking", "waiting", "reap", "joined", "forget"} => owed
    /\ owed => run > 0 /\ (flag["task_joined"] => pc = "forget")
    /\ pc \in {"clear", "create", "created", "starting"} => ~owed
    /\ pc \in {"created", "starting"} => run > 0
    /\ ~alive => pc = "idle" /\ ~owed

\* start() has reset the flags it will report with, one after another.
ClearInv ==
    /\ pc = "clear" => cleared \in 0 .. 4
    /\ pc = "clear" /\ cleared > 3 => ~flag["task_joined"]
    /\ pc \in {"create", "created", "starting"} => ~flag["task_joined"]
    /\ pc = "create" => ~flag["task_created"] /\ run < MaxRuns
    /\ pc = "clear" => run < MaxRuns
    /\ pc = "starting" => flag["task_created"]

QuietInv ==
    /\ ~owed /\ pc \notin {"created", "starting"} => Quiet
    /\ pc \in {"joined", "forget"} => Quiet

\* The reset of the event is over, and with every thread gone it stays.
EventInv ==
    /\ pc = "create" => event = {}
    /\ pc = "clear" /\ cleared > 0 => event = {}

\* The current run has a thread.  Past ready() the bit is set; short of it, a
\* thread on its way out has failed.
SignalInv ==
    /\ run > 0 => thread[run] # "none"
    /\ \A r \in Runs :
          /\ thread[r] \in {"serving", "exiting", "posting", "ending"} =>
                "READY" \in event
          /\ thread[r] = "returned" => failed[r] \/ "READY" \in event

WakeInv == \A r \in Runs : thread[r] = "wake" => failed[r]

IInv ==
    /\ TypeOK /\ StorageSafe /\ FreshEvents
    /\ OwedInv /\ ClearInv /\ QuietInv /\ EventInv /\ WakeInv

-----------------------------------------------------------------------------

LEMMA MaxRunsNat == MaxRuns \in Nat /\ MaxRuns > 0
BY TaskerAssumption

LEMMA NextCount == ASSUME NEW c \in 1 .. 4 PROVE (c + 1) % 5 \in 0 .. 4
OBVIOUS

LEMMA InitIInv == Init => IInv
<1> SUFFICES ASSUME Init
             PROVE  IInv
    OBVIOUS
<1>1. flag \in [Flags -> BOOLEAN] /\ event \subseteq Bits
      /\ info \in {"INITIALIZED", "RUNNING", "STOPPED"}
    BY DEF Init, Bits
<1>2. run \in 0 .. MaxRuns /\ thread \in [Runs -> Points]
      /\ failed \in [Runs -> BOOLEAN] /\ stacks \subseteq Runs
      /\ area \in 0 .. MaxRuns
    BY MaxRunsNat DEF Init, Points, Runs
<1>3. pc = "idle" /\ cleared = 0 /\ alive /\ ~timed /\ ~owed
    BY DEF Init
<1>4. TypeOK
    <2>1. alive \in BOOLEAN /\ timed \in BOOLEAN /\ owed \in BOOLEAN
        BY DEF Init
    <2>. QED
        BY <1>1, <1>2, <1>3, <2>1 DEF TypeOK
<1>5. Quiet /\ WakeInv
    BY DEF Init, Quiet, WakeInv, Live
<1>7. StorageSafe /\ FreshEvents /\ QuietInv
    BY <1>5 DEF Init, StorageSafe, FreshEvents, QuietInv, Quiet
<1>6. OwedInv /\ ClearInv /\ EventInv
    BY DEF Init, OwedInv, ClearInv, EventInv, Flags
<1>. QED
    BY <1>4, <1>5, <1>6, <1>7 DEF IInv

LEMMA TypeStep == TypeOK /\ ClearInv /\ [Next]_vars => TypeOK'
<1> SUFFICES ASSUME TypeOK, ClearInv, [Next]_vars
             PROVE  TypeOK'
    OBVIOUS
<1> USE MaxRunsNat DEF TypeOK, threadVars, ownerVars
<1>1. CASE StartCheck
    BY <1>1 DEF StartCheck
<1>2. CASE StartClearEvent
    BY <1>2 DEF StartClearEvent
<1>3. CASE StartNoMemory
    BY <1>3 DEF StartNoMemory
<1>4. CASE StartCreate
    BY <1>4 DEF StartCreate, ClearInv, Runs, Points
<1>5. CASE StartMarkCreated
    BY <1>5 DEF StartMarkCreated, Flags
<1>6. CASE StartReturn
    BY <1>6 DEF StartReturn
<1>7. CASE Stop
    BY <1>7 DEF Stop, Flags
<1>8. CASE JoinNothing
    BY <1>8 DEF JoinNothing
<1>9. CASE JoinCheck
    BY <1>9 DEF JoinCheck
<1>10. CASE JoinExited
    BY <1>10 DEF JoinExited
<1>11. CASE JoinSeesExit
    BY <1>11 DEF JoinSeesExit
<1>12. CASE JoinTimeout
    BY <1>12 DEF JoinTimeout
<1>13. CASE JoinReap
    BY <1>13 DEF JoinReap
<1>14. CASE JoinMark
    BY <1>14 DEF JoinMark, Flags
<1>15. CASE JoinReturn
    BY <1>15 DEF JoinReturn, Flags
<1>16. CASE Dispose
    BY <1>16 DEF Dispose
<1>17. CASE StartClearFlag
    <2>1. cleared \in 1 .. 4 /\ Len(ClearOrder) = 4
        BY <1>17 DEF StartClearFlag, ClearOrder
    <2>2. cleared' \in 0 .. 4
        <3>1. cleared' = (cleared + 1) % 5
            BY <1>17, <2>1 DEF StartClearFlag
        <3>. QED
            BY <2>1, <3>1, NextCount
    <2>3. flag' \in [Flags -> BOOLEAN]
        BY <1>17 DEF StartClearFlag
    <2>. QED
        BY <1>17, <2>2, <2>3 DEF StartClearFlag
<1>18. ASSUME NEW r \in Runs, Ready(r)
      PROVE  TypeOK'
    BY <1>18 DEF Ready, Going, Points
<1>19. ASSUME NEW r \in Runs, PostReady(r)
      PROVE  TypeOK'
    BY <1>19 DEF PostReady, Going, Points, Bits
<1>20. ASSUME NEW r \in Runs, ReturnEarly(r)
      PROVE  TypeOK'
    BY <1>20 DEF ReturnEarly, Going, Points
<1>21. ASSUME NEW r \in Runs, Poll(r)
      PROVE  TypeOK'
    BY <1>21 DEF Poll, Going, Points
<1>22. ASSUME NEW r \in Runs, Return(r)
      PROVE  TypeOK'
    BY <1>22 DEF Return, Going, Points
<1>23. ASSUME NEW r \in Runs, SetStopped(r)
      PROVE  TypeOK'
    BY <1>23 DEF SetStopped, Going, Points
<1>24. ASSUME NEW r \in Runs, WakeStarter(r)
      PROVE  TypeOK'
    BY <1>24 DEF WakeStarter, Going, Points, Bits
<1>25. ASSUME NEW r \in Runs, SetExited(r)
      PROVE  TypeOK'
    BY <1>25 DEF SetExited, Going, Points, Flags
<1>26. ASSUME NEW r \in Runs, PostExited(r)
      PROVE  TypeOK'
    BY <1>26 DEF PostExited, Going, Points, Bits
<1>27. ASSUME NEW r \in Runs, Terminate(r)
      PROVE  TypeOK'
    BY <1>27 DEF Terminate, Going, Points
<1>28. CASE UNCHANGED vars
    BY <1>28 DEF vars
<1>. QED
    BY <1>1, <1>2, <1>3, <1>4, <1>5, <1>6, <1>7, <1>8, <1>9, <1>10, <1>11, <1>12, <1>13, <1>14, <1>15, <1>16, <1>17, <1>18, <1>19, <1>20, <1>21, <1>22, <1>23, <1>24, <1>25, <1>26, <1>27, <1>28 DEF Next, StartSteps, JoinSteps, ThreadSteps

LEMMA OwedStep == JoinsFirst /\ IInv /\ [Next]_vars => (OwedInv /\ ClearInv)'
<1> SUFFICES ASSUME JoinsFirst, IInv, [Next]_vars
             PROVE  (OwedInv /\ ClearInv)'
    OBVIOUS
<1> USE MaxRunsNat DEF IInv, OwedInv, ClearInv, threadVars, ownerVars
<1>1. CASE StartCheck
    BY <1>1 DEF StartCheck, CanReuse
<1>2. CASE StartClearEvent
    BY <1>2 DEF StartClearEvent
<1>3. CASE StartNoMemory
    BY <1>3 DEF StartNoMemory
<1>4. CASE StartCreate
    BY <1>4 DEF StartCreate, TypeOK
<1>5. CASE StartMarkCreated
    BY <1>5 DEF StartMarkCreated, TypeOK, Flags
<1>6. CASE StartReturn
    BY <1>6 DEF StartReturn
<1>7. CASE Stop
    BY <1>7 DEF Stop, TypeOK, Flags
<1>8. CASE JoinNothing
    BY <1>8 DEF JoinNothing
<1>9. CASE JoinCheck
    BY <1>9 DEF JoinCheck
<1>10. CASE JoinExited
    BY <1>10 DEF JoinExited
<1>11. CASE JoinSeesExit
    BY <1>11 DEF JoinSeesExit
<1>12. CASE JoinTimeout
    BY <1>12 DEF JoinTimeout
<1>13. CASE JoinReap
    BY <1>13 DEF JoinReap
<1>14. CASE JoinMark
    BY <1>14 DEF JoinMark, TypeOK, Flags
<1>15. CASE JoinReturn
    BY <1>15 DEF JoinReturn, TypeOK, Flags
<1>16. CASE Dispose
    BY <1>16 DEF Dispose, CanReuse
<1>17. CASE StartClearFlag
    BY <1>17 DEF StartClearFlag, ClearOrder, TypeOK, Flags
<1>18. ASSUME NEW r \in Runs, Ready(r)
      PROVE  (OwedInv /\ ClearInv)'
    BY <1>18 DEF Ready, Going
<1>19. ASSUME NEW r \in Runs, PostReady(r)
      PROVE  (OwedInv /\ ClearInv)'
    BY <1>19 DEF PostReady, Going
<1>20. ASSUME NEW r \in Runs, ReturnEarly(r)
      PROVE  (OwedInv /\ ClearInv)'
    BY <1>20 DEF ReturnEarly, Going
<1>21. ASSUME NEW r \in Runs, Poll(r)
      PROVE  (OwedInv /\ ClearInv)'
    BY <1>21 DEF Poll, Going
<1>22. ASSUME NEW r \in Runs, Return(r)
      PROVE  (OwedInv /\ ClearInv)'
    BY <1>22 DEF Return, Going
<1>23. ASSUME NEW r \in Runs, SetStopped(r)
      PROVE  (OwedInv /\ ClearInv)'
    BY <1>23 DEF SetStopped, Going
<1>24. ASSUME NEW r \in Runs, WakeStarter(r)
      PROVE  (OwedInv /\ ClearInv)'
    BY <1>24 DEF WakeStarter, Going
<1>25. ASSUME NEW r \in Runs, SetExited(r)
      PROVE  (OwedInv /\ ClearInv)'
    BY <1>25 DEF SetExited, Going, TypeOK, Flags
<1>26. ASSUME NEW r \in Runs, PostExited(r)
      PROVE  (OwedInv /\ ClearInv)'
    BY <1>26 DEF PostExited, Going
<1>27. ASSUME NEW r \in Runs, Terminate(r)
      PROVE  (OwedInv /\ ClearInv)'
    BY <1>27 DEF Terminate, Going
<1>28. CASE UNCHANGED vars
    BY <1>28 DEF vars
<1>. QED
    BY <1>1, <1>2, <1>3, <1>4, <1>5, <1>6, <1>7, <1>8, <1>9, <1>10, <1>11, <1>12, <1>13, <1>14, <1>15, <1>16, <1>17, <1>18, <1>19, <1>20, <1>21, <1>22, <1>23, <1>24, <1>25, <1>26, <1>27, <1>28 DEF Next, StartSteps, JoinSteps, ThreadSteps

LEMMA QuietStep == JoinsFirst /\ IInv /\ [Next]_vars => (StorageSafe /\ QuietInv)'
<1> SUFFICES ASSUME JoinsFirst, IInv, [Next]_vars
             PROVE  (StorageSafe /\ QuietInv)'
    OBVIOUS
<1> USE MaxRunsNat DEF IInv, StorageSafe, QuietInv, Quiet, Live, OwedInv, TypeOK, threadVars, ownerVars
<1>1. CASE StartCheck
    BY <1>1 DEF StartCheck, CanReuse
<1>2. CASE StartClearEvent
    BY <1>2 DEF StartClearEvent
<1>3. CASE StartNoMemory
    BY <1>3 DEF StartNoMemory
<1>4. CASE StartCreate
    BY <1>4 DEF StartCreate, TypeOK, ClearInv, Points
<1>5. CASE StartMarkCreated
    BY <1>5 DEF StartMarkCreated
<1>6. CASE StartReturn
    BY <1>6 DEF StartReturn
<1>7. CASE Stop
    BY <1>7 DEF Stop
<1>8. CASE JoinNothing
    BY <1>8 DEF JoinNothing
<1>9. CASE JoinCheck
    BY <1>9 DEF JoinCheck
<1>10. CASE JoinExited
    BY <1>10 DEF JoinExited
<1>11. CASE JoinSeesExit
    BY <1>11 DEF JoinSeesExit
<1>12. CASE JoinTimeout
    BY <1>12 DEF JoinTimeout
<1>13. CASE JoinReap
    BY <1>13 DEF JoinReap
<1>14. CASE JoinMark
    BY <1>14 DEF JoinMark
<1>15. CASE JoinReturn
    BY <1>15 DEF JoinReturn
<1>16. CASE Dispose
    BY <1>16 DEF Dispose, CanReuse
<1>17. CASE StartClearFlag
    BY <1>17 DEF StartClearFlag
<1>18. ASSUME NEW r \in Runs, Ready(r)
      PROVE  (StorageSafe /\ QuietInv)'
    BY <1>18 DEF Ready, Going
<1>19. ASSUME NEW r \in Runs, PostReady(r)
      PROVE  (StorageSafe /\ QuietInv)'
    BY <1>19 DEF PostReady, Going
<1>20. ASSUME NEW r \in Runs, ReturnEarly(r)
      PROVE  (StorageSafe /\ QuietInv)'
    BY <1>20 DEF ReturnEarly, Going
<1>21. ASSUME NEW r \in Runs, Poll(r)
      PROVE  (StorageSafe /\ QuietInv)'
    BY <1>21 DEF Poll, Going
<1>22. ASSUME NEW r \in Runs, Return(r)
      PROVE  (StorageSafe /\ QuietInv)'
    BY <1>22 DEF Return, Going
<1>23. ASSUME NEW r \in Runs, SetStopped(r)
      PROVE  (StorageSafe /\ QuietInv)'
    BY <1>23 DEF SetStopped, Going
<1>24. ASSUME NEW r \in Runs, WakeStarter(r)
      PROVE  (StorageSafe /\ QuietInv)'
    BY <1>24 DEF WakeStarter, Going
<1>25. ASSUME NEW r \in Runs, SetExited(r)
      PROVE  (StorageSafe /\ QuietInv)'
    BY <1>25 DEF SetExited, Going
<1>26. ASSUME NEW r \in Runs, PostExited(r)
      PROVE  (StorageSafe /\ QuietInv)'
    BY <1>26 DEF PostExited, Going
<1>27. ASSUME NEW r \in Runs, Terminate(r)
      PROVE  (StorageSafe /\ QuietInv)'
    BY <1>27 DEF Terminate, Going
<1>28. CASE UNCHANGED vars
    BY <1>28 DEF vars
<1>. QED
    BY <1>1, <1>2, <1>3, <1>4, <1>5, <1>6, <1>7, <1>8, <1>9, <1>10, <1>11, <1>12, <1>13, <1>14, <1>15, <1>16, <1>17, <1>18, <1>19, <1>20, <1>21, <1>22, <1>23, <1>24, <1>25, <1>26, <1>27, <1>28 DEF Next, StartSteps, JoinSteps, ThreadSteps

LEMMA EventStep == JoinsFirst /\ IInv /\ [Next]_vars => (FreshEvents /\ EventInv /\ WakeInv)'
<1> SUFFICES ASSUME JoinsFirst, IInv, [Next]_vars
             PROVE  (FreshEvents /\ EventInv /\ WakeInv)'
    OBVIOUS
<1> USE MaxRunsNat DEF IInv, FreshEvents, EventInv, WakeInv, StorageSafe, QuietInv, Quiet, Live, OwedInv, ClearInv, TypeOK, threadVars, ownerVars
<1>1. CASE StartCheck
    BY <1>1 DEF StartCheck
<1>2. CASE StartClearEvent
    BY <1>2 DEF StartClearEvent
<1>3. CASE StartNoMemory
    BY <1>3 DEF StartNoMemory
<1>4. CASE StartCreate
    BY <1>4 DEF StartCreate, Points
<1>5. CASE StartMarkCreated
    BY <1>5 DEF StartMarkCreated
<1>6. CASE StartReturn
    BY <1>6 DEF StartReturn
<1>7. CASE Stop
    BY <1>7 DEF Stop
<1>8. CASE JoinNothing
    BY <1>8 DEF JoinNothing
<1>9. CASE JoinCheck
    BY <1>9 DEF JoinCheck
<1>10. CASE JoinExited
    BY <1>10 DEF JoinExited
<1>11. CASE JoinSeesExit
    BY <1>11 DEF JoinSeesExit
<1>12. CASE JoinTimeout
    BY <1>12 DEF JoinTimeout
<1>13. CASE JoinReap
    BY <1>13 DEF JoinReap
<1>14. CASE JoinMark
    BY <1>14 DEF JoinMark
<1>15. CASE JoinReturn
    BY <1>15 DEF JoinReturn
<1>16. CASE Dispose
    BY <1>16 DEF Dispose
<1>17. CASE StartClearFlag
    BY <1>17 DEF StartClearFlag, ClearOrder
<1>18. ASSUME NEW r \in Runs, Ready(r)
      PROVE  (FreshEvents /\ EventInv /\ WakeInv)'
    BY <1>18 DEF Ready, Going
<1>19. ASSUME NEW r \in Runs, PostReady(r)
      PROVE  (FreshEvents /\ EventInv /\ WakeInv)'
    BY <1>19 DEF PostReady, Going
<1>20. ASSUME NEW r \in Runs, ReturnEarly(r)
      PROVE  (FreshEvents /\ EventInv /\ WakeInv)'
    BY <1>20 DEF ReturnEarly, Going
<1>21. ASSUME NEW r \in Runs, Poll(r)
      PROVE  (FreshEvents /\ EventInv /\ WakeInv)'
    BY <1>21 DEF Poll, Going
<1>22. ASSUME NEW r \in Runs, Return(r)
      PROVE  (FreshEvents /\ EventInv /\ WakeInv)'
    BY <1>22 DEF Return, Going
<1>23. ASSUME NEW r \in Runs, SetStopped(r)
      PROVE  (FreshEvents /\ EventInv /\ WakeInv)'
    BY <1>23 DEF SetStopped, Going
<1>24. ASSUME NEW r \in Runs, WakeStarter(r)
      PROVE  (FreshEvents /\ EventInv /\ WakeInv)'
    BY <1>24 DEF WakeStarter, Going
<1>25. ASSUME NEW r \in Runs, SetExited(r)
      PROVE  (FreshEvents /\ EventInv /\ WakeInv)'
    BY <1>25 DEF SetExited, Going
<1>26. ASSUME NEW r \in Runs, PostExited(r)
      PROVE  (FreshEvents /\ EventInv /\ WakeInv)'
    BY <1>26 DEF PostExited, Going
<1>27. ASSUME NEW r \in Runs, Terminate(r)
      PROVE  (FreshEvents /\ EventInv /\ WakeInv)'
    BY <1>27 DEF Terminate, Going
<1>28. CASE UNCHANGED vars
    BY <1>28 DEF vars
<1>. QED
    BY <1>1, <1>2, <1>3, <1>4, <1>5, <1>6, <1>7, <1>8, <1>9, <1>10, <1>11, <1>12, <1>13, <1>14, <1>15, <1>16, <1>17, <1>18, <1>19, <1>20, <1>21, <1>22, <1>23, <1>24, <1>25, <1>26, <1>27, <1>28 DEF Next, StartSteps, JoinSteps, ThreadSteps

THEOREM IInvHolds == ASSUME JoinsFirst PROVE Spec => []IInv
<1>1. IInv /\ [Next]_vars => IInv'
    BY JoinsFirst, TypeStep, OwedStep, QuietStep, EventStep DEF IInv
<1>. QED
    BY InitIInv, <1>1, PTL DEF Spec

\* Every field has a value of its type (dttasker_t and the owner's progress).
THEOREM TypeCorrect == ASSUME JoinsFirst PROVE Spec => []TypeOK
<1>1. IInv => TypeOK
    BY DEF IInv
<1>. QED
    BY IInvHolds, <1>1, PTL

\* A thread never runs on a k_thread, stack or event that a restart or a
\* disposal has taken away, however many runs there are.
THEOREM StorageAlwaysSafe == ASSUME JoinsFirst PROVE Spec => []StorageSafe
<1>1. IInv => StorageSafe
    BY DEF IInv
<1>. QED
    BY IInvHolds, <1>1, PTL

\* start() and join() never act on an event bit left by an earlier run.
THEOREM EventsAlwaysFresh == ASSUME JoinsFirst PROVE Spec => []FreshEvents
<1>1. IInv => FreshEvents
    BY DEF IInv
<1>. QED
    BY IInvHolds, <1>1, PTL

-----------------------------------------------------------------------------
(* The refinement of TaskerContract, when no entry point returns silently.  *)

LEMMA SignalStep ==
    ASSUME "silent" \notin Outcomes, IInv, SignalInv, [Next]_vars
    PROVE  SignalInv'
<1> USE MaxRunsNat DEF IInv, SignalInv, StorageSafe, QuietInv, Quiet, Live, OwedInv, ClearInv, WakeInv, TypeOK, threadVars, ownerVars
<1>1. CASE StartCheck
    BY <1>1 DEF StartCheck
<1>2. CASE StartClearEvent
    BY <1>2 DEF StartClearEvent
<1>3. CASE StartNoMemory
    BY <1>3 DEF StartNoMemory
<1>4. CASE StartCreate
    <2>1. run + 1 \in Runs /\ thread' = [thread EXCEPT ![run + 1] = "entry"]
          /\ run' = run + 1
        BY <1>4 DEF StartCreate, Runs
    <2>2. \A r \in Runs : thread'[r] \in {"none", "dead", "entry"}
        BY <1>4, <2>1 DEF StartCreate, Points
    <2>3. thread'[run'] = "entry"
        BY <2>1
    <2>. QED
        BY <2>2, <2>3
<1>5. CASE StartMarkCreated
    BY <1>5 DEF StartMarkCreated
<1>6. CASE StartReturn
    BY <1>6 DEF StartReturn
<1>7. CASE Stop
    BY <1>7 DEF Stop
<1>8. CASE JoinNothing
    BY <1>8 DEF JoinNothing
<1>9. CASE JoinCheck
    BY <1>9 DEF JoinCheck
<1>10. CASE JoinExited
    BY <1>10 DEF JoinExited
<1>11. CASE JoinSeesExit
    BY <1>11 DEF JoinSeesExit
<1>12. CASE JoinTimeout
    BY <1>12 DEF JoinTimeout
<1>13. CASE JoinReap
    BY <1>13 DEF JoinReap
<1>14. CASE JoinMark
    BY <1>14 DEF JoinMark
<1>15. CASE JoinReturn
    BY <1>15 DEF JoinReturn
<1>16. CASE Dispose
    BY <1>16 DEF Dispose
<1>17. CASE StartClearFlag
    BY <1>17 DEF StartClearFlag, ClearOrder
<1>18. ASSUME NEW r \in Runs, Ready(r)
      PROVE  SignalInv'
    BY <1>18 DEF Ready, Going
<1>19. ASSUME NEW r \in Runs, PostReady(r)
      PROVE  SignalInv'
    BY <1>19 DEF PostReady, Going
<1>20. ASSUME NEW r \in Runs, ReturnEarly(r)
      PROVE  SignalInv'
    BY <1>20 DEF ReturnEarly, Going
<1>21. ASSUME NEW r \in Runs, Poll(r)
      PROVE  SignalInv'
    BY <1>21 DEF Poll, Going
<1>22. ASSUME NEW r \in Runs, Return(r)
      PROVE  SignalInv'
    BY <1>22 DEF Return, Going
<1>23. ASSUME NEW r \in Runs, SetStopped(r)
      PROVE  SignalInv'
    BY <1>23 DEF SetStopped, Going
<1>24. ASSUME NEW r \in Runs, WakeStarter(r)
      PROVE  SignalInv'
    BY <1>24 DEF WakeStarter, Going
<1>25. ASSUME NEW r \in Runs, SetExited(r)
      PROVE  SignalInv'
    BY <1>25 DEF SetExited, Going
<1>26. ASSUME NEW r \in Runs, PostExited(r)
      PROVE  SignalInv'
    BY <1>26 DEF PostExited, Going
<1>27. ASSUME NEW r \in Runs, Terminate(r)
      PROVE  SignalInv'
    BY <1>27 DEF Terminate, Going
<1>28. CASE UNCHANGED vars
    BY <1>28 DEF vars
<1>. QED
    BY <1>1, <1>2, <1>3, <1>4, <1>5, <1>6, <1>7, <1>8, <1>9, <1>10, <1>11, <1>12, <1>13, <1>14, <1>15, <1>16, <1>17, <1>18, <1>19, <1>20, <1>21, <1>22, <1>23, <1>24, <1>25, <1>26, <1>27, <1>28 DEF Next, StartSteps, JoinSteps, ThreadSteps

LEMMA ContractStep ==
    ASSUME JoinsFirst, "silent" \notin Outcomes, IInv, SignalInv, [Next]_vars
    PROVE  [Contract!ContractNext]_(Contract!contractVars)
<1> USE MaxRunsNat DEF IInv, Owner, Task, Contract!ContractNext, Contract!contractVars, Contract!Begin, Contract!Abandon, Contract!Launch, Contract!Signal, Contract!Finish, Contract!Started, Contract!Join, Contract!Discard,
        StorageSafe, FreshEvents, QuietInv, Quiet, Live, OwedInv, ClearInv, TypeOK, SignalInv, threadVars, ownerVars
<1>1. CASE StartCheck
    BY <1>1 DEF StartCheck, CanReuse
<1>2. CASE StartClearEvent
    BY <1>2 DEF StartClearEvent
<1>3. CASE StartNoMemory
    BY <1>3 DEF StartNoMemory
<1>4. CASE StartCreate
    <2>1. Owner = "starting" /\ Task = "none"
        BY <1>4 DEF StartCreate
    <2>2. Owner' = "starting"
        BY <1>4 DEF StartCreate
    <2>3. thread'[run'] = "entry" /\ event' = {}
        <3>1. run + 1 \in Runs /\ thread' = [thread EXCEPT ![run + 1] = "entry"]
              /\ run' = run + 1
            BY <1>4 DEF StartCreate, Runs
        <3>2. event' = {}
            BY <1>4 DEF StartCreate, EventInv
        <3>. QED
            BY <3>1, <3>2
    <2>4. Task' = "launched"
        <3>1. pc' = "created" /\ "READY" \notin event'
            BY <1>4, <2>3 DEF StartCreate
        <3>. QED
            BY <2>3, <3>1 DEF Task
    <2>. QED
        BY <2>1, <2>2, <2>4
<1>5. CASE StartMarkCreated
    BY <1>5 DEF StartMarkCreated
<1>6. CASE StartReturn
    BY <1>6 DEF StartReturn
<1>7. CASE Stop
    BY <1>7 DEF Stop
<1>8. CASE JoinNothing
    BY <1>8 DEF JoinNothing
<1>9. CASE JoinCheck
    BY <1>9 DEF JoinCheck
<1>10. CASE JoinExited
    BY <1>10 DEF JoinExited
<1>11. CASE JoinSeesExit
    BY <1>11 DEF JoinSeesExit
<1>12. CASE JoinTimeout
    BY <1>12 DEF JoinTimeout
<1>13. CASE JoinReap
    BY <1>13 DEF JoinReap
<1>14. CASE JoinMark
    BY <1>14 DEF JoinMark
<1>15. CASE JoinReturn
    <2>1. thread[run] = "dead"
        BY <1>15 DEF JoinReturn, Runs, Points
    <2>2. Owner = "holding" /\ Task = "finished"
        BY <1>15, <2>1 DEF JoinReturn
    <2>3. Owner' = "free" /\ Task' = "none"
        BY <1>15 DEF JoinReturn
    <2>. QED
        BY <2>2, <2>3
<1>16. CASE Dispose
    BY <1>16 DEF Dispose, CanReuse
<1>17. CASE StartClearFlag
    BY <1>17 DEF StartClearFlag
<1>18. ASSUME NEW r \in Runs, Ready(r)
      PROVE  [Contract!ContractNext]_(Contract!contractVars)
    BY <1>18 DEF Ready, Going
<1>19. ASSUME NEW r \in Runs, PostReady(r)
      PROVE  [Contract!ContractNext]_(Contract!contractVars)
    BY <1>19 DEF PostReady, Going
<1>20. ASSUME NEW r \in Runs, ReturnEarly(r)
      PROVE  [Contract!ContractNext]_(Contract!contractVars)
    BY <1>20 DEF ReturnEarly, Going
<1>21. ASSUME NEW r \in Runs, Poll(r)
      PROVE  [Contract!ContractNext]_(Contract!contractVars)
    BY <1>21 DEF Poll, Going
<1>22. ASSUME NEW r \in Runs, Return(r)
      PROVE  [Contract!ContractNext]_(Contract!contractVars)
    BY <1>22 DEF Return, Going
<1>23. ASSUME NEW r \in Runs, SetStopped(r)
      PROVE  [Contract!ContractNext]_(Contract!contractVars)
    BY <1>23 DEF SetStopped, Going
<1>24. ASSUME NEW r \in Runs, WakeStarter(r)
      PROVE  [Contract!ContractNext]_(Contract!contractVars)
    BY <1>24 DEF WakeStarter, Going
<1>25. ASSUME NEW r \in Runs, SetExited(r)
      PROVE  [Contract!ContractNext]_(Contract!contractVars)
    BY <1>25 DEF SetExited, Going
<1>26. ASSUME NEW r \in Runs, PostExited(r)
      PROVE  [Contract!ContractNext]_(Contract!contractVars)
    BY <1>26 DEF PostExited, Going
<1>27. ASSUME NEW r \in Runs, Terminate(r)
      PROVE  [Contract!ContractNext]_(Contract!contractVars)
    BY <1>27 DEF Terminate, Going
<1>28. CASE UNCHANGED vars
    BY <1>28 DEF vars
<1>. QED
    BY <1>1, <1>2, <1>3, <1>4, <1>5, <1>6, <1>7, <1>8, <1>9, <1>10, <1>11, <1>12, <1>13, <1>14, <1>15, <1>16, <1>17, <1>18, <1>19, <1>20, <1>21, <1>22, <1>23, <1>24, <1>25, <1>26, <1>27, <1>28 DEF Next, StartSteps, JoinSteps, ThreadSteps

\* The tasker implements its contract: one thread at a time, no start that
\* returns before the task is up or has failed, no join of a living thread.
THEOREM ContractKept ==
    ASSUME JoinsFirst, "silent" \notin Outcomes
    PROVE  Spec => KeepsContract
<1>1. Init => Contract!ContractInit
    BY DEF Init, Contract!ContractInit, Owner, Task
<1>2. Init => SignalInv
    BY MaxRunsNat DEF Init, SignalInv
<1>3. IInv /\ SignalInv /\ [Next]_vars => SignalInv'
    BY SignalStep
<1>4. IInv /\ SignalInv /\ [Next]_vars
      => [Contract!ContractNext]_(Contract!contractVars)
    BY ContractStep
<1>. QED
    BY IInvHolds, <1>1, <1>2, <1>3, <1>4, PTL
    DEF Spec, KeepsContract, Contract!ContractSpec

=============================================================================
