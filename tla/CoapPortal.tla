----------------------------- MODULE CoapPortal -----------------------------
(***************************************************************************)
(* dtnetportal_coap: a thread that activates, uses and disposes a portal,   *)
(* and OpenThread's thread, which attaches to the mesh and hands requests   *)
(* to the portal's ingress handler.  OpenThread is used under one mutex;    *)
(* only the first part of activate() does without it.                      *)
(***************************************************************************)
EXTENDS Naturals

CONSTANTS
    Buffers,    \* OpenThread's message buffers
    Polls       \* looks at the role before activate() gives up (600 in the source)

ASSUME CoapAssumption ==
    /\ Buffers \in Nat \ {0}
    /\ Polls \in Nat \ {0}

VARIABLES
    \* the portal
    alive,
    ot_instance,    \* it is not NULL
    \* OpenThread
    holder,         \* of its mutex
    role,
    coap,           \* the server is started
    resource,       \* the portal's resource is registered
    srp,            \* what the SRP client has of the portal
    free,           \* buffers
    sending,        \* buffers of messages on their way out
    request,        \* a request to the resource that has arrived
    ot,             \* what OpenThread's thread does
    \* the application's thread
    app,
    polls,
    msg,            \* publish() has a message that is its to free
    \* history
    missed,         \* dispose() was refused the mutex
    refused         \* answers that OpenThread would not send

netVars == <<holder, role, coap, resource, srp, ot, request>>
poolVars == <<free, sending, refused>>
coapVars == <<alive, ot_instance, netVars, poolVars, app, polls, msg, missed>>

CoapCalls == {"idle", "polling", "serving", "announcing", "publishing", "composing",
              "finishing", "failing", "freeing"}
Handling == {"handling", "answering"}
Kinds == {"con", "non"}     \* confirmable or not

CoapTypeOK ==
    /\ alive \in BOOLEAN /\ ot_instance \in BOOLEAN /\ coap \in BOOLEAN
    /\ resource \in BOOLEAN /\ missed \in BOOLEAN /\ msg \in BOOLEAN
    /\ holder \in {"none", "app", "ot"}
    /\ role \in {"disabled", "detached", "attached"}
    /\ srp \in {"none", "host", "service"}
    /\ free \in 0 .. Buffers /\ sending \in 0 .. Buffers /\ refused \in 0 .. Buffers
    /\ request \in Kinds \cup {"none"}
    /\ ot \in {"resting", "busy"} \cup Handling /\ (ot # "resting" <=> holder = "ot")
    /\ app \in CoapCalls
    /\ app \in {"announcing", "composing", "finishing", "failing"} => holder = "app"
    /\ polls \in 0 .. Polls - 1

\* A portal that has been made and configured.
CoapInit ==
    /\ alive = TRUE /\ ot_instance = FALSE
    /\ holder = "none" /\ role = "disabled"
    /\ coap = FALSE /\ resource = FALSE /\ srp = "none"
    /\ free = Buffers /\ sending = 0 /\ refused = 0
    /\ request = "none" /\ ot = "resting"
    /\ app = "idle" /\ polls = 0 /\ msg = FALSE
    /\ missed = FALSE

Lock == holder = "none" /\ holder' = "app"
Unlock == holder' = "none" /\ app' = "idle"

-----------------------------------------------------------------------------
(* activate()                                                              *)

\* start_thread: a bad data set, no instance, or any of OpenThread's calls may end it.
\* The stored settings can be erased only as long as Thread is disabled.
StartFails(instance) ==
    /\ app = "idle" /\ alive
    /\ ot_instance' = (ot_instance \/ instance)
    /\ UNCHANGED <<alive, netVars, poolVars, app, polls, msg, missed>>

StartThread ==
    /\ app = "idle" /\ alive /\ role = "disabled"
    /\ ot_instance' = TRUE /\ role' = "detached"
    /\ app' = "polling" /\ polls' = 0
    /\ UNCHANGED <<alive, holder, coap, resource, srp, ot, request, poolVars, msg, missed>>

LookAtMost(most) ==
    /\ app = "polling"
    /\ IF role = "attached"
         THEN app' = "serving" /\ polls' = 0
         ELSE IF polls + 1 < most THEN polls' = polls + 1 /\ app' = app
         ELSE polls' = 0 /\ app' = "idle"
    /\ UNCHANGED <<alive, ot_instance, netVars, poolVars, msg, missed>>

\* Mutant of Poll: the deadline is forgotten.
PollForever ==
    /\ app = "polling" /\ role = "attached"
    /\ app' = "serving" /\ polls' = 0
    /\ UNCHANGED <<alive, ot_instance, netVars, poolVars, msg, missed>>

\* Mutant of Poll: it looks once more when the time is up.
PollOnceMore == LookAtMost(Polls + 1)

\* The role is looked at every 100 ms; after the time-out Thread stays enabled.
Poll == LookAtMost(Polls)

ServeCoap ==
    /\ app = "serving" /\ Lock
    /\ coap' = TRUE /\ resource' = TRUE /\ app' = "announcing"
    /\ UNCHANGED <<alive, ot_instance, role, srp, ot, request, poolVars, polls, msg, missed>>

Refuse(then) ==
    /\ app = "serving" /\ Lock
    /\ app' = then
    /\ UNCHANGED <<alive, ot_instance, role, coap, resource, srp, ot, request, poolVars,
                   polls, msg, missed>>

ServeFails == Refuse("failing")

\* srp_register: the host name may be refused, the automatic address and the service too.
SrpRegister(got) ==
    /\ app = "announcing" /\ Unlock
    /\ srp' = got
    /\ UNCHANGED <<alive, ot_instance, role, coap, resource, ot, request, poolVars, polls,
                   msg, missed>>

ReturnError(unlocks) ==
    /\ app = "failing"
    /\ IF unlocks THEN Unlock ELSE app' = "idle" /\ holder' = holder
    /\ UNCHANGED <<alive, ot_instance, role, coap, resource, srp, ot, request, poolVars,
                   polls, msg, missed>>

\* Mutant of ActivateFails: the error path forgets the mutex.
ActivateFailsLocked == ReturnError(FALSE)

ActivateFails == ReturnError(TRUE)

-----------------------------------------------------------------------------
(* publish()                                                               *)

\* publish() waits for the mutex, for ever if need be.
PublishCall ==
    /\ app = "idle" /\ alive /\ ot_instance
    /\ app' = "publishing"
    /\ UNCHANGED <<alive, ot_instance, netVars, poolVars, polls, msg, missed>>

PublishNew ==
    /\ app = "publishing" /\ Lock
    /\ IF free > 0 THEN free' = free - 1 /\ msg' = TRUE /\ app' = "composing"
                   ELSE free' = free /\ msg' = FALSE /\ app' = "finishing"
    /\ UNCHANGED <<alive, ot_instance, role, coap, resource, srp, ot, request, sending,
                   refused, polls, missed>>

\* Any option, the payload or the address may fail; a message that is sent is OpenThread's.
PublishSend(sent) ==
    /\ app = "composing" /\ app' = "finishing"
    /\ sent => coap
    /\ msg' = ~sent
    /\ sending' = IF sent THEN sending + 1 ELSE sending
    /\ UNCHANGED <<alive, ot_instance, netVars, free, refused, polls, missed>>

Finish(frees) ==
    /\ app = "finishing" /\ Unlock
    /\ free' = IF frees THEN free + 1 ELSE free
    /\ msg' = FALSE
    /\ UNCHANGED <<alive, ot_instance, role, coap, resource, srp, ot, request, sending,
                   refused, polls, missed>>

\* Mutant of PublishFinish: a message that could not be sent is forgotten.
PublishFinishLeaks == Finish(FALSE)

PublishFinish == Finish(msg)

-----------------------------------------------------------------------------
(* dispose()                                                               *)

Leave(unhooks) ==
    /\ resource' = (resource /\ ~unhooks) /\ coap' = FALSE
    /\ role' = "disabled"
    /\ ot_instance' = FALSE

DisposeUnhook(unhooks) ==
    /\ app = "idle" /\ alive /\ ot_instance
    /\ holder = "none"
    /\ Leave(unhooks)
    /\ app' = "freeing"
    /\ UNCHANGED <<alive, holder, srp, ot, request, poolVars, polls, msg, missed>>

\* Mutant of DisposeLocked: the server is stopped with the resource in its list.
DisposeLockedKeeps == DisposeUnhook(FALSE)

\* openthread_mutex_try_lock succeeds; the mutex is given back before the object goes.
DisposeLocked == DisposeUnhook(TRUE)

\* It is refused, which is logged and nothing else.
DisposeRefused ==
    /\ app = "idle" /\ alive /\ ot_instance
    /\ holder = "ot"
    /\ missed' = TRUE /\ app' = "freeing"
    /\ UNCHANGED <<alive, ot_instance, netVars, poolVars, polls, msg>>

DisposeUnused ==
    /\ app = "idle" /\ alive /\ ~ot_instance
    /\ app' = "freeing"
    /\ UNCHANGED <<alive, ot_instance, netVars, poolVars, polls, msg, missed>>

DisposeFree ==
    /\ app = "freeing" /\ app' = "idle"
    /\ alive' = FALSE
    /\ UNCHANGED <<ot_instance, netVars, poolVars, polls, msg, missed>>

-----------------------------------------------------------------------------
(* OpenThread's thread, under its mutex.                                   *)

Arrive(kind) ==
    /\ request = "none" /\ role = "attached"
    /\ request' = kind
    /\ UNCHANGED <<alive, ot_instance, holder, role, coap, resource, srp, ot, poolVars, app,
                   polls, msg, missed>>

OtRun ==
    /\ ot = "resting" /\ holder = "none"
    /\ ot' = "busy" /\ holder' = "ot"
    /\ UNCHANGED <<alive, ot_instance, role, coap, resource, srp, request, poolVars, app,
                   polls, msg, missed>>

OtRest ==
    /\ ot = "busy" /\ request = "none"
    /\ ot' = "resting" /\ holder' = "none"
    /\ UNCHANGED <<alive, ot_instance, role, coap, resource, srp, request, poolVars, app,
                   polls, msg, missed>>

Attach(new) ==
    /\ ot = "busy" /\ role # "disabled" /\ new # role
    /\ role' = new
    /\ UNCHANGED <<alive, ot_instance, holder, coap, resource, srp, ot, request, poolVars,
                   app, polls, msg, missed>>

Transmitted ==
    /\ ot = "busy" /\ sending > 0
    /\ sending' = sending - 1 /\ free' = free + 1
    /\ UNCHANGED <<alive, ot_instance, netVars, refused, app, polls, msg, missed>>

\* The handler is called with the object it was registered for, which a dispose() that
\* was refused the mutex has freed: it then goes on as if the object were there, one of
\* the outcomes of that.
Deliver ==
    /\ ot = "busy" /\ request # "none"
    /\ coap /\ resource
    /\ ot' = "handling"
    /\ UNCHANGED <<alive, ot_instance, holder, role, coap, resource, srp, request, poolVars,
                   app, polls, msg, missed>>

\* Without the resource OpenThread answers by itself.
Unserved ==
    /\ ot = "busy" /\ request # "none"
    /\ ~(coap /\ resource)
    /\ request' = "none"
    /\ UNCHANGED <<alive, ot_instance, holder, role, coap, resource, srp, ot, poolVars, app,
                   polls, msg, missed>>

\* handle_ingress: whether the topic and the payload are found and published or not, a
\* confirmable request is to be answered and another is not.
HandleIngress ==
    /\ ot = "handling"
    /\ IF request = "con" THEN ot' = "answering" /\ request' = request
                          ELSE ot' = "busy" /\ request' = "none"
    /\ UNCHANGED <<alive, ot_instance, holder, role, coap, resource, srp, poolVars, app,
                   polls, msg, missed>>

\* An answer that OpenThread does not send is nobody's to free any more.
Answer(taken) ==
    /\ ot = "answering" /\ ot' = "busy" /\ request' = "none"
    /\ IF free = 0 THEN UNCHANGED poolVars
       ELSE /\ free' = free - 1
            /\ sending' = IF taken THEN sending + 1 ELSE sending
            /\ refused' = IF taken THEN refused ELSE refused + 1
    /\ UNCHANGED <<alive, ot_instance, holder, role, coap, resource, srp, app, polls, msg,
                   missed>>

-----------------------------------------------------------------------------

CoapActivate ==
    \/ \E instance \in BOOLEAN : StartFails(instance)
    \/ StartThread \/ Poll \/ ServeCoap \/ ServeFails \/ ActivateFails
    \/ \E got \in {"none", "host", "service"} : SrpRegister(got)

CoapPublish ==
    \/ PublishCall \/ PublishNew \/ (\E sent \in BOOLEAN : PublishSend(sent)) \/ PublishFinish

Dispose == DisposeLocked \/ DisposeRefused \/ DisposeUnused \/ DisposeFree

Serve == Deliver \/ Unserved \/ HandleIngress \/ (\E taken \in BOOLEAN : Answer(taken))

OpenThread ==
    \/ \E kind \in Kinds : Arrive(kind)
    \/ OtRun \/ OtRest \/ (\E new \in {"detached", "attached"} : Attach(new))
    \/ Transmitted \/ Serve

CoapNext == CoapActivate \/ CoapPublish \/ Dispose \/ OpenThread

Holding == app \in {"announcing", "failing", "composing", "finishing"}

\* The application's thread runs, and OpenThread's gives the mutex back when it has done
\* what there is to do and serves what has arrived.  A k_mutex goes to a thread that
\* waits for it, so that each of the two gets it in its turn.
CoapFairness ==
    /\ WF_coapVars(Holding /\ (CoapActivate \/ CoapPublish))
    /\ WF_coapVars(Poll) /\ WF_coapVars(DisposeFree)
    /\ SF_coapVars(ServeCoap \/ ServeFails) /\ SF_coapVars(PublishNew)
    /\ SF_coapVars(OtRun) /\ SF_coapVars(OtRest) /\ WF_coapVars(Serve)

CoapSpec == CoapInit /\ [][CoapNext]_coapVars /\ CoapFairness

-----------------------------------------------------------------------------
(* Properties.                                                             *)

\* Whichever step of activate() failed, and in whatever state dispose() finds the
\* portal, OpenThread keeps no resource of an object that is gone and is not in its
\* handler; except when dispose() was refused the mutex.
HandlerSafe == resource \/ ot \in Handling => alive \/ missed

\* On every path through publish() a message is freed once or is OpenThread's: all that
\* the pool ever loses are answers of the ingress handler that could not be sent.
PoolWhole == free + sending + refused + (IF msg THEN 1 ELSE 0) = Buffers

\* No call keeps OpenThread from a request that has arrived.
RequestsServed == (request # "none") ~> (request = "none")

\* activate(), publish() and dispose() return: although the mesh may stay away or come and
\* go while activate() looks for it, and requests keep OpenThread's thread in the mutex
\* that activate() and publish() wait for without a time-out.
PortalCallsReturn == (app # "idle") ~> (app = "idle")

=============================================================================
