----------------------------- MODULE BtlePortal -----------------------------
(***************************************************************************)
(* dtnetportal_btle: a thread that activates the portal and publishes, the  *)
(* advertiser task, and the Bluetooth host, which brings the radio up and   *)
(* calls back on connections.  The controller stops advertising when a      *)
(* central connects; the host's callbacks tell the advertiser through a     *)
(* semaphore to start it again.                                            *)
(***************************************************************************)
EXTENDS Naturals

CONSTANTS
    Conns,      \* the host's connection objects
    NoConn,     \* NULL
    MaxTries,   \* of bt_le_adv_start (10 in the source)
    Paired      \* when a connection ends, the host calls disconnected and recycled
                \* before the advertiser runs

ASSUME BtleAssumption ==
    /\ NoConn \notin Conns /\ Conns # {}
    /\ MaxTries \in Nat \ {0}
    /\ Paired \in BOOLEAN

VARIABLES
    \* dtnetportal_btle_t
    global,     \* dtnetportal_btle_global is not NULL
    bt_init_ok,
    dterr_pile, \* it is not NULL
    conn,
    restart,    \* the count of advertiser_restart_semaphore
    registered, \* connection_callbacks
    \* the threads
    caller,     \* where activate() is
    pub,        \* where publish() is
    task,       \* where the advertiser is
    tries,
    ready,      \* the tasker's READY
    \* the host
    bt,
    link        \* of each connection object

portalVars == <<global, bt_init_ok, dterr_pile, conn, restart, registered>>
threadVars == <<caller, pub, task, tries, ready>>
btleVars == <<portalVars, threadVars, bt, link>>

BtleCalls == {"new", "enabling", "registering", "launching", "starting", "active", "failed"}
Places == {"none", "trying", "started", "waiting", "dead"}
Links == {"free", "advertising", "up", "lost", "told"}

BtleTypeOK ==
    /\ global \in BOOLEAN /\ registered \in BOOLEAN
    /\ bt_init_ok \in {0, 1} /\ restart \in {0, 1}
    /\ dterr_pile \in BOOLEAN
    /\ conn \in Conns \cup {NoConn}
    /\ caller \in BtleCalls /\ (caller # "new" => global)
    /\ pub \in {"out", "notifying"}
    /\ task \in Places /\ (task # "none" => registered)
    /\ tries \in 0 .. MaxTries - 1 /\ ready \in BOOLEAN
    /\ bt \in {"off", "enabling", "ready", "broken"}
    /\ link \in [Conns -> Links]

\* bt_init_ok starts with its one token.
BtleInit ==
    /\ global = FALSE /\ registered = FALSE
    /\ bt_init_ok = 1 /\ restart = 0
    /\ dterr_pile = FALSE
    /\ conn = NoConn
    /\ caller = "new" /\ pub = "out"
    /\ task = "none" /\ tries = 0 /\ ready = FALSE
    /\ bt = "off"
    /\ link = [c \in Conns |-> "free"]

-----------------------------------------------------------------------------
(* activate().  When it fails dtnetportal_btle_global stays set, and every  *)
(* later call is refused.                                                  *)

Enable(err) ==
    /\ caller = "new" /\ ~global
    /\ global' = TRUE
    /\ IF err THEN caller' = "failed" /\ bt' = bt
              ELSE caller' = "enabling" /\ bt' = "enabling"
    /\ UNCHANGED <<bt_init_ok, dterr_pile, conn, restart, registered, pub, task, tries,
                   ready, link>>

TakeInitOk ==
    /\ caller = "enabling" /\ bt_init_ok = 1
    /\ bt_init_ok' = 0
    /\ caller' = "registering"
    /\ UNCHANGED <<global, dterr_pile, conn, restart, registered, pub, task, tries, ready,
                   bt, link>>

Register(err) ==
    /\ caller = "registering"
    /\ IF dterr_pile \/ err THEN caller' = "failed" /\ registered' = registered
                            ELSE caller' = "launching" /\ registered' = TRUE
    /\ UNCHANGED <<global, bt_init_ok, dterr_pile, conn, restart, pub, task, tries, ready,
                   bt, link>>

\* There may be no memory for the task's stack.
StartTasker ==
    /\ caller = "launching"
    /\ \/ caller' = "starting" /\ task' = "trying" /\ tries' = 0
       \/ caller' = "failed" /\ UNCHANGED <<task, tries>>
    /\ UNCHANGED <<portalVars, pub, ready, bt, link>>

\* dttasker_start returns when the task says ready() or has left, and does not tell
\* the one from the other.
StartReturns ==
    /\ caller = "starting" /\ (ready \/ task = "dead")
    /\ caller' = "active"
    /\ UNCHANGED <<portalVars, pub, task, tries, ready, bt, link>>

-----------------------------------------------------------------------------
(* publish() looks at conn twice.                                          *)

PublishTest ==
    /\ caller = "active" /\ pub = "out"
    /\ conn # NoConn
    /\ pub' = "notifying"
    /\ UNCHANGED <<portalVars, caller, task, tries, ready, bt, link>>

\* bt_gatt_notify answers with an error where the connection is lost, or gone.
PublishNotify ==
    /\ pub = "notifying" /\ pub' = "out"
    /\ UNCHANGED <<portalVars, caller, task, tries, ready, bt, link>>

-----------------------------------------------------------------------------
(* The advertiser task.                                                    *)

\* bt_le_adv_start takes a connection object for the central to come.
AdvStart(c) ==
    /\ task = "trying" /\ bt = "ready"
    /\ \A d \in Conns : link[d] # "advertising"
    /\ link[c] = "free"
    /\ link' = [link EXCEPT ![c] = "advertising"]
    /\ task' = "started" /\ tries' = 0
    /\ UNCHANGED <<portalVars, caller, pub, ready, bt>>

\* A try may also fail for reasons of the radio's own, though not the last one.
AdvRefused ==
    \/ bt # "ready"
    \/ \E d \in Conns : link[d] = "advertising"
    \/ \A d \in Conns : link[d] # "free"
    \/ tries + 1 < MaxTries

FailUpTo(most) ==
    /\ task = "trying" /\ AdvRefused
    /\ IF tries + 1 < most THEN tries' = tries + 1 /\ task' = task
                           ELSE tries' = 0 /\ task' = "dead"
    /\ UNCHANGED <<portalVars, caller, pub, ready, bt, link>>

\* Mutant of AdvFails: the last try is not counted.
AdvFailsOnceMore == FailUpTo(MaxTries + 1)

AdvFails == FailUpTo(MaxTries)

SayReady ==
    /\ task = "started" /\ task' = "waiting"
    /\ ready' = TRUE
    /\ UNCHANGED <<portalVars, caller, pub, tries, bt, link>>

Take(left) ==
    /\ task = "waiting" /\ restart = 1
    /\ Paired => \A c \in Conns : link[c] # "told"
    /\ restart' = left /\ task' = "trying"
    /\ UNCHANGED <<global, bt_init_ok, dterr_pile, conn, registered, caller, pub, tries, ready,
                   bt, link>>

\* Mutant of TakeRestart: the semaphore is tested and not taken.
TakeRestartPeeks == Take(1)

TakeRestart == Take(0)

-----------------------------------------------------------------------------
(* The host and its callbacks.  A give to a semaphore that has its one      *)
(* token is lost.                                                          *)

BtEnabled(err) ==
    /\ bt = "enabling"
    /\ bt' = IF err THEN "broken" ELSE "ready"
    /\ dterr_pile' = (dterr_pile \/ err)
    /\ bt_init_ok' = 1
    /\ UNCHANGED <<global, conn, restart, registered, threadVars, link>>

\* The portal is told that a connection, or the attempt at one, has ended.
End(c, pointer, count) ==
    /\ link' = [link EXCEPT ![c] = "told"]
    /\ conn' = pointer
    /\ restart' = count
    /\ UNCHANGED <<global, bt_init_ok, dterr_pile, registered, threadVars, bt>>

Connected(c) ==
    /\ link[c] = "advertising"
    /\ link' = [link EXCEPT ![c] = "up"]
    /\ conn' = c
    /\ UNCHANGED <<global, bt_init_ok, dterr_pile, restart, registered, threadVars, bt>>

\* connected_callback with an error: only recycled will restart the advertising.
ConnectFails(c) == link[c] = "advertising" /\ End(c, NoConn, restart)

LinkLost(c) ==
    /\ link[c] = "up"
    /\ link' = [link EXCEPT ![c] = "lost"]
    /\ UNCHANGED <<portalVars, threadVars, bt>>

\* Mutant of Disconnected: the pointer to the connection is kept.
DisconnectedKeeps(c) == link[c] = "lost" /\ End(c, conn, 1)

Disconnected(c) == link[c] = "lost" /\ End(c, NoConn, 1)

Recycle(c, count) ==
    /\ link[c] = "told"
    /\ link' = [link EXCEPT ![c] = "free"]
    /\ restart' = count
    /\ UNCHANGED <<global, bt_init_ok, dterr_pile, conn, registered, threadVars, bt>>

\* Mutant of Recycled: the advertiser is left to disconnected_callback.
RecycledSilent(c) == Recycle(c, restart)

Recycled(c) == Recycle(c, 1)

-----------------------------------------------------------------------------

BtleActivate ==
    (\E err \in BOOLEAN : Enable(err) \/ Register(err))
    \/ TakeInitOk \/ StartTasker \/ StartReturns

Advertiser == (\E c \in Conns : AdvStart(c)) \/ AdvFails \/ SayReady \/ TakeRestart

BtlePublish == PublishTest \/ PublishNotify

Host ==
    \/ \E err \in BOOLEAN : BtEnabled(err)
    \/ \E c \in Conns : Connected(c) \/ ConnectFails(c) \/ LinkLost(c)
                        \/ Disconnected(c) \/ Recycled(c)

BtleNext == BtleActivate \/ Advertiser \/ BtlePublish \/ Host

\* The advertiser runs, and the host calls back; no central has to come or go.
BtleFairness ==
    /\ WF_btleVars(Advertiser)
    /\ \A c \in Conns : WF_btleVars(Disconnected(c) \/ Recycled(c))

BtleSpec == BtleInit /\ [][BtleNext]_btleVars /\ BtleFairness

-----------------------------------------------------------------------------
(* Properties, of a host whose callbacks come paired.                      *)

\* publish() finds a connection exactly when there is one: through connections that come,
\* fail and break, on whatever connection object the host takes next, conn is not left
\* behind by one that is over nor missing for one that is up.
ConnIsLink == \A c \in Conns : conn = c <=> link[c] \in {"up", "lost"}

\* An advertiser that has started once stays: no restart is signalled twice or at a
\* time when advertising cannot start, which would use up its tries.
AdvertiserLives == ready => task # "dead"

Invisible == \A c \in Conns : link[c] \notin {"advertising", "up"}

\* A portal that has advertised and is not connected can be found again: whatever
\* ended the last connection, the advertiser is told and starts
\* (dtnetportal_btle_callbacks.c: "signal the advertiser task to start advertising").
AdvertisedAgain == (ready /\ Invisible) ~> ~Invisible

=============================================================================
