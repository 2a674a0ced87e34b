------------------------- MODULE NetPortals_proofs --------------------------
(***************************************************************************)
(* The two network portals, each on its own.  Bluetooth: for any number of  *)
(* connection objects and tries, and a host whose callbacks come paired,    *)
(* conn is the connection, and the advertiser stays.  CoAP: for any number  *)
(* of buffers and polls, whichever calls fail, the handler has its object   *)
(* unless dispose() was refused the mutex, and the pool is accounted for.  *)
(***************************************************************************)
EXTENDS BtlePortal, CoapPortal, TLAPS

-----------------------------------------------------------------------------
(* The Bluetooth portal.                                                   *)

\* The connection objects are taken one at a time.
Single == \A c, d \in Conns : link[c] # "free" /\ link[d] # "free" => c = d

\* Advertising starts when all of them are free and no restart is due.
Resting ==
    task \in {"none", "trying", "dead"} =>
        restart = 0 /\ \A c \in Conns : link[c] = "free"

\* A restart is due only when the connection is over.
Due == restart = 1 => \A c \in Conns : link[c] \in {"free", "told"}

\* An advertiser that has advertised once has a radio, and is there.
Radio ==
    /\ task \in {"started", "waiting"} => bt = "ready"
    /\ ready => bt = "ready" /\ task \in {"trying", "started", "waiting"}
    /\ caller \in {"new", "enabling", "registering", "launching"} => task = "none"
    /\ caller = "launching" => registered

BtleIInv == BtleTypeOK /\ Single /\ Resting /\ Due /\ Radio /\ ConnIsLink

\* A portal that is made satisfies the invariant.
LEMMA BtleInitInv == BtleInit => BtleIInv
<1> SUFFICES ASSUME BtleInit PROVE BtleIInv
    OBVIOUS
<1> USE BtleAssumption DEF BtleInit
<1>1. BtleTypeOK
    <2>1. tries \in 0 .. MaxTries - 1
        OBVIOUS
    <2>2. link \in [Conns -> Links]
        BY Zenon DEF Links
    <2>3. /\ global \in BOOLEAN /\ registered \in BOOLEAN /\ dterr_pile \in BOOLEAN
          /\ ready \in BOOLEAN /\ bt_init_ok \in {0, 1} /\ restart \in {0, 1}
        BY Zenon
    <2> QED BY <2>1, <2>2, <2>3, Zenon DEF BtleTypeOK, BtleCalls, Places
<1>2. Single /\ Resting /\ Due /\ Radio /\ ConnIsLink
    BY DEF Single, Resting, Due, Radio, ConnIsLink
<1> QED BY <1>1, <1>2 DEF BtleIInv

\* The steps of activate() and publish().
LEMMA CallStep ==
    ASSUME BtleIInv, BtleActivate \/ BtlePublish PROVE BtleIInv'
<1> USE BtleAssumption DEF BtleIInv, BtleTypeOK, BtleCalls, Places, Links, Single, Resting, Due, Radio,
        ConnIsLink, portalVars, threadVars
<1>1. ASSUME NEW err \in BOOLEAN, Enable(err) PROVE BtleIInv'
    BY <1>1 DEF Enable
<1>2. ASSUME NEW err \in BOOLEAN, Register(err) PROVE BtleIInv'
    <2>1. CASE dterr_pile \/ err
        <3>1. caller' = "failed" /\ registered' = registered /\ caller = "registering"
            BY <1>2, <2>1, Zenon DEF Register
        <3>2. UNCHANGED <<global, bt_init_ok, dterr_pile, conn, restart, pub, task, tries,
                          ready, bt, link>>
            BY <1>2, Zenon DEF Register
        <3> QED BY <3>1, <3>2
    <2>2. CASE ~(dterr_pile \/ err)
        <3>1. caller' = "launching" /\ registered' = TRUE /\ caller = "registering"
            BY <1>2, <2>2, Zenon DEF Register
        <3>2. UNCHANGED <<global, bt_init_ok, dterr_pile, conn, restart, pub, task, tries,
                          ready, bt, link>>
            BY <1>2, Zenon DEF Register
        <3> QED BY <3>1, <3>2
    <2> QED BY <2>1, <2>2
<1>3. CASE TakeInitOk BY <1>3 DEF TakeInitOk
<1>4. CASE StartTasker
    <2>1. caller = "launching" /\ UNCHANGED <<portalVars, pub, ready, bt, link>>
        BY <1>4, Zenon DEF StartTasker
    <2>2. CASE caller' = "starting" /\ task' = "trying" /\ tries' = 0
        <3>1. tries' \in 0 .. MaxTries - 1
            BY <2>2
        <3> QED BY <2>1, <2>2, <3>1
    <2>3. CASE caller' = "failed" /\ UNCHANGED <<task, tries>>
        BY <2>1, <2>3
    <2> QED BY <1>4, <2>2, <2>3, Zenon DEF StartTasker
<1>5. CASE StartReturns BY <1>5 DEF StartReturns
<1>6. CASE PublishTest BY <1>6 DEF PublishTest
<1>7. CASE PublishNotify BY <1>7 DEF PublishNotify
<1> HIDE DEF BtleIInv
<1> QED BY <1>1, <1>2, <1>3, <1>4, <1>5, <1>6, <1>7 DEF BtleActivate, BtlePublish

\* The steps of the advertiser.
LEMMA AdvertiserStep ==
    ASSUME Paired, BtleIInv, Advertiser PROVE BtleIInv'
<1> USE BtleAssumption DEF BtleIInv, BtleTypeOK, BtleCalls, Places, Links, Single, Resting, Due, Radio,
        ConnIsLink, portalVars, threadVars
<1>1. ASSUME NEW c \in Conns, AdvStart(c) PROVE BtleIInv'
    BY <1>1 DEF AdvStart
<1>2. CASE AdvFails
    <2>1. ready => tries + 1 < MaxTries
        BY <1>2 DEF AdvFails, FailUpTo, AdvRefused
    <2>2. tries' \in 0 .. MaxTries - 1 /\ task' \in {"trying", "dead"} /\ task # "none"
        BY <1>2 DEF AdvFails, FailUpTo
    <2>3. ready => task' = "trying"
        BY <1>2, <2>1 DEF AdvFails, FailUpTo
    <2>4. task = "trying" /\ UNCHANGED <<portalVars, caller, pub, ready, bt, link>>
        BY <1>2, Zenon DEF AdvFails, FailUpTo
    <2> QED BY <2>2, <2>3, <2>4
<1>3. CASE SayReady BY <1>3 DEF SayReady
<1>4. CASE TakeRestart BY <1>4 DEF TakeRestart, Take
<1> HIDE DEF BtleIInv
<1> QED BY <1>1, <1>2, <1>3, <1>4 DEF Advertiser

\* The host and its callbacks.
LEMMA HostStep ==
    ASSUME BtleIInv, Host PROVE BtleIInv'
<1> USE BtleAssumption DEF BtleIInv, BtleTypeOK, BtleCalls, Places, Links, Single, Resting, Due, Radio,
        ConnIsLink, portalVars, threadVars
<1>1. ASSUME NEW err \in BOOLEAN, BtEnabled(err) PROVE BtleIInv'
    BY <1>1 DEF BtEnabled
<1>2. ASSUME NEW c \in Conns, Connected(c) PROVE BtleIInv'
    BY <1>2 DEF Connected
<1>3. ASSUME NEW c \in Conns, ConnectFails(c) PROVE BtleIInv'
    BY <1>3 DEF ConnectFails, End
<1>4. ASSUME NEW c \in Conns, LinkLost(c) PROVE BtleIInv'
    BY <1>4 DEF LinkLost
<1>5. ASSUME NEW c \in Conns, Disconnected(c) PROVE BtleIInv'
    BY <1>5 DEF Disconnected, End
<1>6. ASSUME NEW c \in Conns, Recycled(c) PROVE BtleIInv'
    BY <1>6 DEF Recycled, Recycle
<1> HIDE DEF BtleIInv
<1> QED BY <1>1, <1>2, <1>3, <1>4, <1>5, <1>6 DEF Host

\* The invariant holds in every state.
LEMMA BtleIInvHolds == Paired => (BtleSpec => []BtleIInv)
<1> SUFFICES ASSUME Paired PROVE BtleSpec => []BtleIInv
    OBVIOUS
<1>1. BtleIInv /\ [BtleNext]_btleVars => BtleIInv'
    <2> SUFFICES ASSUME BtleIInv, [BtleNext]_btleVars PROVE BtleIInv'
        OBVIOUS
    <2>1. CASE UNCHANGED btleVars
        BY <2>1 DEF btleVars, portalVars, threadVars, BtleIInv, BtleTypeOK, Single, Resting, Due, Radio,
            ConnIsLink
    <2> QED BY <2>1, CallStep, AdvertiserStep, HostStep DEF BtleNext
<1> QED BY BtleInitInv, <1>1, PTL DEF BtleSpec

\* Every state of the portal is well typed.
THEOREM BtleTypeCorrect == Paired => (BtleSpec => []BtleTypeOK)
<1>1. BtleIInv => BtleTypeOK
    BY DEF BtleIInv
<1> QED BY BtleIInvHolds, <1>1, PTL

\* conn is the connection while there is one, on whichever connection object.
THEOREM ConnAlwaysLink == Paired => (BtleSpec => []ConnIsLink)
<1>1. BtleIInv => ConnIsLink
    BY DEF BtleIInv
<1> QED BY BtleIInvHolds, <1>1, PTL

\* The advertiser of an active portal never uses up its tries.
THEOREM AdvertiserAlwaysLives == Paired => (BtleSpec => []AdvertiserLives)
<1>1. BtleIInv => AdvertiserLives
    BY DEF BtleIInv, Radio, AdvertiserLives
<1> QED BY BtleIInvHolds, <1>1, PTL

-----------------------------------------------------------------------------
(* The CoAP portal.                                                        *)

\* Where activate() and publish() are, the portal is there and uses OpenThread.
CallInv ==
    /\ app \notin {"idle", "freeing"} => alive /\ ot_instance
    /\ app = "freeing" => alive

\* What OpenThread has of a portal that does not know its instance.
Unused == ~ot_instance => ~resource /\ ~coap /\ ot \notin Handling

\* A portal that dispose() is through with, or has freed, is not in the handler.
Gone ==
    ~missed /\ (app = "freeing" \/ ~alive) => ~resource /\ ot \notin Handling

MsgInv ==
    /\ msg => app \in {"composing", "finishing"}
    /\ app = "composing" => msg

CoapIInv == CoapTypeOK /\ CallInv /\ Unused /\ Gone /\ MsgInv /\ PoolWhole

\* A portal that is made satisfies the invariant.
LEMMA CoapInitInv == CoapInit => CoapIInv
<1> SUFFICES ASSUME CoapInit PROVE CoapIInv
    OBVIOUS
<1> USE CoapAssumption DEF CoapInit
<1>1. CoapTypeOK
    <2>1. polls \in 0 .. Polls - 1 /\ free \in 0 .. Buffers
        OBVIOUS
    <2>2. sending \in 0 .. Buffers /\ refused \in 0 .. Buffers
        OBVIOUS
    <2> QED BY <2>1, <2>2, Zenon DEF CoapTypeOK, CoapCalls, Handling, Kinds
<1>2. CallInv /\ Unused /\ Gone /\ MsgInv /\ PoolWhole
    BY DEF CallInv, Unused, Gone, MsgInv, PoolWhole, Handling
<1> QED BY <1>1, <1>2 DEF CoapIInv

\* The steps of activate().
LEMMA ActivateStep ==
    ASSUME CoapIInv, CoapActivate PROVE CoapIInv'
<1> USE CoapAssumption DEF CoapIInv, CoapTypeOK, CallInv, Unused, Gone, MsgInv, PoolWhole,
        CoapCalls, Handling, Kinds, netVars, poolVars, Lock, Unlock
<1>1. ASSUME NEW instance \in BOOLEAN, StartFails(instance) PROVE CoapIInv'
    BY <1>1 DEF StartFails
<1>2. CASE StartThread BY <1>2 DEF StartThread
<1>3. CASE Poll BY <1>3 DEF Poll, LookAtMost
<1>4. CASE ServeCoap BY <1>4 DEF ServeCoap
<1>5. CASE ServeFails BY <1>5 DEF ServeFails, Refuse
<1>6. CASE ActivateFails BY <1>6 DEF ActivateFails, ReturnError
<1>7. ASSUME NEW got \in {"none", "host", "service"}, SrpRegister(got) PROVE CoapIInv'
    BY <1>7 DEF SrpRegister
<1> HIDE DEF CoapIInv
<1> QED BY <1>1, <1>2, <1>3, <1>4, <1>5, <1>6, <1>7 DEF CoapActivate

\* The steps of publish() and dispose().
LEMMA UseStep ==
    ASSUME CoapIInv, CoapPublish \/ Dispose PROVE CoapIInv'
<1> USE CoapAssumption DEF CoapIInv, CoapTypeOK, CallInv, Unused, Gone, MsgInv, PoolWhole,
        CoapCalls, Handling, Kinds, netVars, poolVars, Lock, Unlock
<1>1. CASE PublishNew
    <2>1. CASE free > 0
        <3>1. free' = free - 1 /\ msg' = TRUE /\ app' = "composing"
            BY <1>1, <2>1, Zenon DEF PublishNew
        <3>2. /\ app = "publishing" /\ alive /\ ot_instance /\ holder = "none" /\ holder' = "app"
              /\ UNCHANGED <<alive, ot_instance, role, coap, resource, srp, ot, request,
                             sending, refused, polls, missed>>
            BY <1>1, Zenon DEF PublishNew
        <3>3. ~msg
            BY <3>2
        <3>4. PoolWhole' /\ free' \in 0 .. Buffers
            BY <2>1, <3>1, <3>2, <3>3
        <3> QED BY <3>1, <3>2, <3>4
    <2>2. CASE ~(free > 0)
        <3>1. free' = free /\ msg' = FALSE /\ app' = "finishing"
            BY <1>1, <2>2, Zenon DEF PublishNew
        <3>2. /\ app = "publishing" /\ alive /\ ot_instance /\ holder = "none" /\ holder' = "app"
              /\ UNCHANGED <<alive, ot_instance, role, coap, resource, srp, ot, request,
                             sending, refused, polls, missed>>
            BY <1>1, Zenon DEF PublishNew
        <3> QED BY <3>1, <3>2
    <2> QED BY <2>1, <2>2
<1>2. ASSUME NEW sent \in BOOLEAN, PublishSend(sent) PROVE CoapIInv'
    <2>1. /\ app = "composing" /\ app' = "finishing" /\ msg' = ~sent
          /\ sending' = IF sent THEN sending + 1 ELSE sending
          /\ UNCHANGED <<alive, ot_instance, netVars, free, refused, polls, missed>>
        BY <1>2, Zenon DEF PublishSend
    <2>2. msg
        BY <2>1
    <2>3. CASE sent
        <3>1. ~msg' /\ sending' = sending + 1
            BY <2>1, <2>3, Zenon
        <3>2. PoolWhole' /\ sending' \in 0 .. Buffers
            BY <2>1, <2>2, <3>1
        <3> QED BY <2>1, <3>1, <3>2
    <2>4. CASE ~sent
        <3>1. msg' /\ sending' = sending
            BY <2>1, <2>4, Zenon
        <3>2. PoolWhole'
            BY <2>1, <2>2, <3>1
        <3>3. msg' \in BOOLEAN
            BY <2>1, <1>2, Zenon
        <3> QED BY <2>1, <3>1, <3>2, <3>3
    <2> QED BY <2>3, <2>4
<1>3. CASE PublishFinish
    <2>1. /\ app = "finishing" /\ Unlock /\ msg' = FALSE
          /\ free' = IF msg THEN free + 1 ELSE free
          /\ UNCHANGED <<alive, ot_instance, role, coap, resource, srp, ot, request, sending,
                         refused, polls, missed>>
        BY <1>3, Zenon DEF PublishFinish, Finish
    <2>2. PoolWhole' /\ free' \in 0 .. Buffers
        BY <2>1
    <2> QED BY <2>1, <2>2
<1>4. CASE DisposeLocked BY <1>4 DEF DisposeLocked, DisposeUnhook, Leave
<1>5. CASE DisposeRefused BY <1>5 DEF DisposeRefused
<1>6. CASE DisposeUnused BY <1>6 DEF DisposeUnused
<1>7. CASE DisposeFree
    <2>1. /\ app = "freeing" /\ app' = "idle" /\ ~alive'
          /\ UNCHANGED <<ot_instance, netVars, poolVars, polls, msg, missed>>
        BY <1>7, Zenon DEF DisposeFree
    <2>2. ~msg /\ alive' \in BOOLEAN
        BY <2>1, <1>7 DEF DisposeFree
    <2>3. CoapTypeOK'
        BY <2>1, <2>2
    <2>4. Unused' /\ Gone' /\ CallInv' /\ MsgInv' /\ PoolWhole'
        BY <2>1, <2>2
    <2> QED BY <2>3, <2>4
<1>8. CASE PublishCall BY <1>8 DEF PublishCall
<1> HIDE DEF CoapIInv
<1> QED BY <1>1, <1>2, <1>3, <1>4, <1>5, <1>6, <1>7, <1>8 DEF CoapPublish, Dispose

\* The steps of OpenThread's thread, the handler's among them.
LEMMA OpenThreadStep ==
    ASSUME CoapIInv, OpenThread PROVE CoapIInv'
<1> USE CoapAssumption DEF CoapIInv, CoapTypeOK, CallInv, Unused, Gone, MsgInv, PoolWhole,
        CoapCalls, Handling, Kinds, netVars, poolVars
<1>1. ASSUME NEW kind \in Kinds, Arrive(kind) PROVE CoapIInv'
    BY <1>1 DEF Arrive
<1>2. CASE OtRun BY <1>2 DEF OtRun
<1>3. CASE OtRest BY <1>3 DEF OtRest
<1>4. ASSUME NEW new \in {"detached", "attached"}, Attach(new) PROVE CoapIInv'
    BY <1>4 DEF Attach
<1>5. CASE Transmitted
    <2>1. /\ sending > 0 /\ sending' = sending - 1 /\ free' = free + 1
          /\ UNCHANGED <<alive, ot_instance, netVars, refused, app, polls, msg, missed>>
        BY <1>5, Zenon DEF Transmitted
    <2>2. PoolWhole' /\ free' \in 0 .. Buffers /\ sending' \in 0 .. Buffers
        BY <2>1
    <2> QED BY <2>1, <2>2
<1>6. CASE Deliver BY <1>6 DEF Deliver
<1>7. CASE Unserved BY <1>7 DEF Unserved
<1>8. CASE HandleIngress BY <1>8 DEF HandleIngress
<1>9. ASSUME NEW taken \in BOOLEAN, Answer(taken) PROVE CoapIInv'
    BY <1>9 DEF Answer
<1> HIDE DEF CoapIInv
<1> QED BY <1>1, <1>2, <1>3, <1>4, <1>5, <1>6, <1>7, <1>8, <1>9 DEF OpenThread, Serve

\* The invariant holds in every state.
LEMMA CoapIInvHolds == CoapSpec => []CoapIInv
<1>1. CoapIInv /\ [CoapNext]_coapVars => CoapIInv'
    <2> SUFFICES ASSUME CoapIInv, [CoapNext]_coapVars PROVE CoapIInv'
        OBVIOUS
    <2>1. CASE UNCHANGED coapVars
        BY <2>1 DEF coapVars, netVars, poolVars, CoapIInv, CoapTypeOK, CallInv, Unused, Gone, MsgInv,
            PoolWhole
    <2> QED BY <2>1, ActivateStep, UseStep, OpenThreadStep DEF CoapNext
<1> QED BY CoapInitInv, <1>1, PTL DEF CoapSpec

\* Every state of the portal and of OpenThread is well typed.
THEOREM CoapTypeCorrect == CoapSpec => []CoapTypeOK
<1>1. CoapIInv => CoapTypeOK
    BY DEF CoapIInv
<1> QED BY CoapIInvHolds, <1>1, PTL

\* Only a refused mutex leaves OpenThread with an object that is gone.
THEOREM HandlerAlwaysSafe == CoapSpec => []HandlerSafe
<1>1. CoapIInv => HandlerSafe
    BY DEF CoapIInv, CoapTypeOK, Gone, HandlerSafe
<1> QED BY CoapIInvHolds, <1>1, PTL

\* publish() loses no buffer and frees none twice.
THEOREM PoolAlwaysWhole == CoapSpec => []PoolWhole
<1>1. CoapIInv => PoolWhole
    BY DEF CoapIInv
<1> QED BY CoapIInvHolds, <1>1, PTL

=============================================================================
