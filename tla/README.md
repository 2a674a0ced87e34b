# TLA+ models of dtmc_zephyr

`dtmc_zephyr_library` implements the portable "dtmc" device interfaces (tasks, intervals,
byte streams, ADC scans, pins, network portals) on Zephyr. Its hard parts are a few hundred
lines each in which threads, interrupt handlers and driver callbacks share the fields of one
object with little or no locking. This directory models those parts in TLA+, checks them with
TLC on small instances and proves with TLAPS the safety properties that TLC checks for instances of
any size.

All paths below are relative to `src/dtmc_zephyr_library/src/`. The interfaces the library
implements (`dtmc_base`, `dtcore`: ring fifo, errors, manifold) live in other repositories, and
so do Zephyr's kernel and drivers; where a module needs them it models them from the way this
library uses them, and `PROJECT.json` marks these definitions external.

## Inventory

| component | state it keeps | operations | shared with | correct when |
|---|---|---|---|---|
| `dttasker_zephyr.c` | four atomics, a `k_event`, one `k_thread`, one stack pointer, `info` | create, start, ready, poll, stop, join, dispose | owner thread, task thread, any thread that stops it | start and join return when they should and not before; nothing is freed or reused under a live thread; no stale event |
| `dtinterval_zephyr_counter.c`, `dtinterval_zephyr_ktimer.c` | `_should_pause`, `tick_sem`, `_next_alarm` | set_callback, start (blocks), pause, dispose | dispatching thread, alarm interrupt, pausing threads | alarms do not drift; a pause ends start; nothing is left armed |
| `dtiox_zephyr_modbus_slave*.c` | shadow registers both ways, rx ring, one staged blob, `_is_callback_processing_enabled` | attach, detach, enable, read, write, register callbacks | application, Modbus server thread, the master on the line | byte stream and blobs arrive in order, whole, once; losses are reported; a waiting reader is woken |
| `dtadc_zephyr_saadc.c` | `status`, `is_active`, `should_pause`, `tick_sem`, a lock, a tasker | activate, deactivate, get_status, dispose, alarm, reader task | application threads, reader thread, alarm interrupt | a failed or finished activation leaves nothing running; scans only while open; errors are told; no call blocks for ever |
| `dtiox_zephyr_uartirq*.c` | two ring fifos without lock, counters | attach, enable, read, write, interrupt callback | reading thread, writing thread, interrupt | nothing lost without being counted, order kept, reader woken, tx drained |
| `dtlock_zephyr.c` | a `k_mutex` | acquire, release | every component above | owner releases as often as it acquires |
| `dtgpiopin_zephyr.c` | per port: one callback, owners of 32 pins; per pin: `irq_enabled`, `cb` | configure, attach, enable, read, write, dispose, port interrupt | threads, interrupt, pins of one port | an interrupt reaches the owner of its pin and nobody else |
| `dtiox_zephyr_canbus*.c` | rx ring without lock, overflow flag, tx error, bus state | attach, detach, enable, read, write with retries, rx/tx/state callbacks | threads, driver callbacks | a gap is reported before it is passed; a write sends each byte once; write returns; reader woken |
| `dtnetportal_btle*.c` | connection, advertiser task, restart semaphore, a global | activate, publish, subscribe, connection callbacks | Bluetooth thread, advertiser, application | advertising again after each disconnection |
| `dtnetportal_coap*.c` | OpenThread instance, CoAP resources, manifold | activate, publish, subscribe, request handler | OpenThread thread, application | OpenThread is called with its lock; nothing used after dispose |
| `dtsemaphore`, `dtbufferqueue`, `dtruntime`, `dtcpu`, `dtlightsensor`, `*_object.c` | one kernel object or none | thin wrappers, arithmetic, formatting | - | as the kernel call |

Interactions: the ADC runs its reader on a tasker and guards its status with a dtlock; both
byte streams wake their reader with a dtsemaphore; network portals are built on byte streams,
taskers and buffer queues; interval and ADC share the pattern "absolute counter alarm, interrupt
gives a semaphore of limit one, thread dispatches".

What is hard: multi-step updates of fields that another thread reads between the steps
(dttasker, modbus enable); flags that a callback's return value overwrites (interval); a mutex
whose recursion hides an unbalanced release (saadc); ring fifos between an interrupt and two
threads (uartirq); lost requests and replies (modbus); failures in the middle of a sequence of
acquisitions (saadc activate). `PROJECT.json` lists the hazards at their lines.

## Plan

Order, most important behaviour first. Done: 1-8. Each module has its `_proofs` module beside it;
the two portals share `NetPortals_proofs`.

1. `Tasker` (everything else runs on it), with the abstract `TaskerContract` it implements.
2. `Interval`.
3. `ModbusSlave`. Left: an abstract pair of queues that it refines.
4. `Saadc`. Left: the composition with `Tasker` in place of what `Saadc` assumes of it.
5. `UartIrq`.
6. `CanBus`.
7. `GpioPin`.
8. `BtlePortal` and `CoapPortal`.

## Modules and the code

State carries the names of the C fields where there is one. An action is one step between two
points at which another thread or interrupt can see or change shared fields; `Next` is the
disjunction of the actions of all actors. Definitions marked "Mutant of X" are deliberately wrong
variants of X: with X replaced by the variant, TLC finds the property violated.

**`Tasker`** (`dttasker_zephyr.c`). `pc` is the owner's place in `start` or `join`; `thread[r]`
the place of the r-th thread in `dttasker__thread_inception_function`. `start` is `StartCheck`
(refusal), `StartClearEvent` and `StartClearFlag` (the event and the four atomics, one store at a
time), `StartNoMemory | StartCreate`, `StartMarkCreated`, `StartReturn` (waits for READY). `join`
is `JoinNothing | JoinCheck`, `JoinExited` (fast path), `JoinSeesExit | JoinTimeout`, `JoinReap`
(`k_thread_join`), `JoinMark`, `JoinReturn`. `Stop` is enabled at any time in any other thread.
`run` is the run whose thread occupies the single `k_thread`, `area` what `stack_area` points to.
`JoinsFirst` says that the owner restarts and disposes only after a join; `Outcomes` what entry
points may do before they call `ready()`.

**`TaskerContract`**: what the owner may rely on, without flags, events or storage. `Tasker`
implements it (`KeepsContract`) with `owner` and `task` computed from its state.

**`Interval`**: both backends in one module, chosen by `config`. The counter is
modular and keeps running while an interrupt is late (`Advance`), `AlarmHandler` adds the period
to the absolute target, and the driver raises at once an alarm whose target has passed
(`EXPIRE_WHEN_LATE`). `start` is split at each access to `_should_pause`, the semaphore and the
hardware; `PauseFlag`, `PauseStop`, `PauseGive` are the three statements of `pause`.

**`ModbusSlave`**: application (`Attach`, `EnableFlag`/`EnableReset`, `Read`, `Write`), the server
thread's register callbacks, one action per register (`WriteCmd`, `WriteLen`, `WriteData`,
`ReadStatus`, `ReadLen`, `ReadData`) and the locked second half of two of them (`StageReply`,
`Consume`), and the master, which is external. The enabled flag is tested before the lock is
taken. A blob is a number and a length; register contents are that number, so a torn blob shows.

**`Saadc`**: `activate` (`Activate`, `Open`, `Arm`, `Create`, `Launch`, `Activated`, or `Fail` and
`Teardown` from any of them), `deactivate` (`Deactivate`, `Pause`, `Poll`, `Look`, `Close`,
`Deactivated`), `dispose` (`Dispose`, or that of an active ADC from `Deactivated` on, and `Free`),
`get_status` in another thread (`Ask`, `View`, `Viewed`), `Alarm`, and the reader from `Enter` to
`Exit`. `lock` is a recursive mutex with owner and depth.

**`UartIrq`**: `read` is `ReadCheck`, `ReadPop`; `write` is `WriteCheck`, `WritePush`,
`WriteArm`; the interrupt is `Rx`, `RxError`, `TxNothing`, `TxError`, `TxFill`, each atomic,
between any two of those steps. Bytes are numbered, so that order and gaps show.

**`CanBus`**: `attach` and `detach` are one action each, for an object whose other threads are
between calls; `enable(true)` is `EnableFlag`, `EnableEmpty`, `EnableClear`, its three stores that a
frame can come between. `read` is `ReadCheck` and then `ReadOverflow` or `ReadPop`; `write` is
`WriteBegin` and, for each attempt, `WriteCheck`, `WriteSend | WriteRefused`, `WriteJudge`.
`RxCallback`, `TxCallback` and `StateChangeCallback` are the driver's three callbacks, each atomic:
the MCP2515 driver calls them from a cooperative thread, which application threads do not interrupt.
`untold` holds the bytes that were dropped and of which no DTERR_OVERFLOW has spoken yet.

**`GpioPin`**: the statics of one port, the hardware (`armed`, `level`, `pending`) and the objects.
`enable` is `EnableHw`, `EnableMask`, `EnableFlag`; `dispose` is `DisposeHw`, `DisposeOwner`,
`DisposeFree`; the other calls touch the interrupt handler's data at one point and are one action
each. `ZephyrPortIsr(p)` is the handler for one pin, between any two of them. `known` is what the
application that reads the pin and follows its callback believes the level to be.

**`BtlePortal`**: `activate` is `Enable` (the global and `bt_enable`), `TakeInitOk`, `Register`
(the pile of errors is looked at, the callbacks are registered), `StartTasker` and `StartReturns`;
`publish` is its two reads of `conn`, `PublishTest` and `PublishNotify`. The advertiser task is
`AdvStart | AdvFails` (one try of `bt_le_adv_start`), `SayReady`, `TakeRestart`. The Bluetooth host
is external but for the portal's callbacks, which are part of its actions: `BtEnabled`,
`Connected | ConnectFails`, `LinkLost`, `Disconnected`, `Recycled`. `link[c]` is the life of the
connection object `c`: taken for advertising, up, lost, told to the portal, free again.

**`CoapPortal`**: `activate` is `StartThread | StartFails`, `Poll` (every 100 ms, until attached or
out of time), `ServeCoap | ServeFails` with the OpenThread mutex, `SrpRegister`, and `ActivateFails`
which gives the mutex back; `publish` is `PublishCall`, `PublishNew` (with the mutex), `PublishSend`,
`PublishFinish`; `dispose` is
`DisposeLocked | DisposeRefused | DisposeUnused` and `DisposeFree`. OpenThread's thread takes the
mutex (`OtRun`, `OtRest`), attaches and detaches, transmits, and hands a request to the portal's
handler (`Deliver`, `HandleIngress`, `Answer`) or answers it itself (`Unserved`). `free`, `sending`,
`refused` and `msg` account for the message buffers.

## Runs

| run | bounds | shows |
|---|---|---|
| `tasker` | 3 runs | storage, events, return of start and of join, stop not lost, contract |
| `interval` | 2 pausing threads, counter of 9 values, period 2, interrupts up to 3 ticks late | no drift over wraps, pauses that reach the loop end it, nothing left armed |
| `interval_pause` (violation) | 1 pausing thread | a pause that comes while the callback runs is lost |
| `modbus` | blobs of up to 5 bytes, ring of 4, announced lengths 3 and 7, 4 calls, lossy line | order, no loss, no lost wake-up |
| `saadc` | 3 activations, 2 rounds of waiting, all failures of activation, `ready()`, scan and callback | rest state, scans only while open, calls return but in one named deadlock |
| `saadc_lock` (violation) | 1 activation | get_status blocked for ever |
| `uartirq` | fifos of 2 and 3 bytes, bursts of 3, chunks of 2, 4 bytes each way, 2 enables, driver errors | order, accounting, wake-up, draining |
| `canbus` | ring of 2 bytes, frames in of 1 and 3 bytes, 4 bytes in, reads of 1 and 3, 2 writes of 3 bytes in frames of 2, 2 attempts, 1 mailbox, 3 calls of attach and enable | gaps told before they are passed, writes whole and once |
| `canbus_overflow` (violation) | the same receive side, no writes | overflow forgotten by `enable` |
| `gpiopin` | 2 objects and 2 pins of one port, any number of calls, edges and interrupts | owners valid, enabled pins heard, levels known |
| `btle` | 2 connection objects, 3 tries, any number of connections | `conn` is the connection, the advertiser stays and starts again |
| `coap` | 2 buffers, 2 looks at the role, any number of calls and requests | handler and object live together, no buffer lost, mutex given back, calls return |

Why the bounds are enough. Runs, activations and enables: state carries over from one cycle to the
next only through the fields, and each field's leftover shows in the second cycle; one more is
allowed where it is cheap. Ring capacities are below, at and above the sizes of a read, a write and
a burst, so empty, full and overflow occur, and blobs above the blob limit are announced. The
counter wraps within five periods at both parities. Lengths are odd and even, so a register that is
half used occurs.

With two connection objects the next central may come on the other one (the host of the run takes
them one at a time);
three tries leave a first, a middle and a last one. Two buffers run dry with one message on its way
and one in hand, and of two looks at the role the last one differs.

The tasker, interval, saadc, uartirq, canbus and btle configurations say `CHECK_DEADLOCK FALSE`:
those systems do stop, after disposal, when the bounded number of calls is used up, where
`activate` has failed for good (btle), or (saadc) when the lock was kept or the reader failed before it
was ready. The modbus, gpiopin and
coap runs check for deadlock.

### Fairness

Weak fairness of a thread's steps is Zephyr's scheduling of ready threads (the models have no
priorities, and the code no busy-waiting). Weak fairness of interrupt actions is that an enabled
interrupt is served. Callbacks and entry points that are serving are assumed to come back to the
library (they poll, they return). The application owes nothing: no fairness on start, stop, join,
pause, activate, enable, write. Of the Bluetooth host it is assumed that it calls `disconnected` and
`recycled` for a connection that is over, of the radio that not all ten tries fail for reasons of its
own (`AdvRefused`); no central has to come or go. Strong fairness appears where a thread waits for
a resource that others take in turn: `k_mutex` hands itself to a waiter (`Saadc`; in `CoapPortal`
OpenThread's thread, and `activate` and `publish`, which wait for it without a time-out). OpenThread's
thread gives it back when it has done what there is to do, however often more arrives meanwhile
(`OtRest`); the mesh owes nothing, so `activate` returns because of its deadline.

### What the violations show

* `interval_pause`: `_should_pause` is overwritten by the callback's answer after each callback. A
  pause during the callback stops the hardware; the loop forgets it, takes the token it gave, calls
  back once more and waits for a tick that cannot come. The property starts from a flag that is set
  while the callback runs; `start` clears it and finds it clear before each callback, so a `pause`
  during the callback has set it. The run is of the counter; `dtinterval_zephyr_ktimer.c:158` is the same.
* `saadc_lock`: `deactivate` leaves its wait with the lock, takes it a second time and releases it
  once. The thread that deactivated keeps it; others block, from the second activation on the reader
  too, which `deactivate` then gives up after its 50 rounds and which is still queued on the lock when
  `dispose` frees it. The `saadc` run has a viewer that is
  blocked so, which is why it does not state that `get_status` returns.
* `canbus_overflow`: the comment at `dtiox_zephyr_canbus.c:7` latches every overflow until a read;
  `enable` clears the flag after frames can already have filled the ring it has just emptied.

The `saadc` run passes with one exception written into `CallsReturn`: `activate` holds the lock while it
waits for its reader's READY (348), and a reader whose information callback fails in `ready()` wants the
lock (639) before its end wakes the waiter. `Wedged` is that state, neither thread leaves it, and the run
shows that no call hangs in any other.

What the models do not need a run for, because it can be read off the code:

* The comment at `dttasker_zephyr.c:173` refuses a restart until the task is joined; the guard only
  asks for `task_exited`, which the thread sets before its last steps. An owner that relies on the
  guard may put two threads into one `k_thread`; `JoinsFirst` is the assumption that it does not.
* `deactivate` disposes of the reader's tasker (`dtadc_zephyr_saadc.c:413`) when the reader has
  published STOPPED, without a join: the reader still has to return through dttasker's inception
  function, in the thread, event and stack that are freed. `activate` of an active ADC (278) fails,
  and its error path tears the running one down.
* `dtnetportal_btle.c:239` names a field `advertising_tasker` that `dtnetportal_btle_private.h:58`
  calls `advertiser_tasker`: the file does not compile as it is. The model takes the two for one.
* `bt_init_ok` is made with one token (228), so the wait for Bluetooth announced at 331 does not wait:
  `activate` may register and launch while the radio comes up, and a failure of the radio goes unseen.
  As `dttasker_start` does not tell a task that said `ready()` from one that has left, `activate` may
  return success with an advertiser that has given up. `dtnetportal_btle_global` stays set when
  `activate` fails, so every retry is refused; `dispose` undoes none of it (567).
* A BT_RPC build never calls `recycled` (TODO at `dtnetportal_btle_callbacks.c:84`); after a
  connection that failed nothing starts the advertising again in such a build.
* `start_thread` calls OpenThread without its mutex; a second `activate` after a time-out fails,
  because the settings can be erased only while Thread is disabled; `dispose` leaves the SRP service
  behind and, when the mutex is refused, the resource with its handler.

Comments the code does not follow: `dtiox_zephyr_canbus.c:11-12`, `320`
and `370` ask for ERROR_ACTIVE and zero error counters, `check_error_state` also lets ERROR_PASSIVE
pass (but not ERROR_WARNING, the state between the two) and has the test of the counters commented
out; `:368` says K_FOREVER where `:414` gives up after 5 times 100 ms; `:469` says that the rx callback
does not post the semaphore, which `dtiox_zephyr_canbus_callbacks.c:72` does. The models follow the code.

## Proofs

`Tasker_proofs`, for any number of runs:

* `IInvHolds`: the inductive invariant `IInv`. The properties are not inductive by themselves: that
  no live thread loses its storage rests on the owner's record of what it has started and not joined
  (`OwedInv`), on the order in which `start` clears the flags and what it has not yet cleared
  (`ClearInv`), on no thread being alive outside that window (`QuietInv`), and on the event staying
  empty from its reset to the creation of the thread (`EventInv`, `WakeInv`). One lemma per group
  (`TypeStep`, `OwedStep`, `QuietStep`, `EventStep`), one step per action.
* `TypeCorrect`, `StorageAlwaysSafe`, `EventsAlwaysFresh` follow.
* `ContractKept`: `Spec => KeepsContract`, by the refinement mapping `Owner`, `Task` and one more
  invariant (`SignalInv`: a thread past `ready()` has set READY, one that failed short of it will).

Assumptions: `TaskerAssumption` on the constants and `JoinsFirst` (the owner joins before it starts
again or disposes); `ContractKept` also assumes that no entry point returns success without calling
`ready()`. Without `JoinsFirst` the storage property is false (TLC finds a restart during the last
steps of the thread before).

`GpioPin_proofs`, for any number of objects and pins of an application that is not careless:

* `IInvHolds`: `OwnerTrue` needs to know that no two objects hold one pin (`Exclusive`), how far the
  object of the running call is (`CallInv`) and that an attached object owns its pin until `dispose`
  gives it up (`OwnsInv`). `EnabledHeard` needs what `enable` has done before it sets `irq_enabled`
  (`OnInv`) and that an object enabled before stays covered meanwhile (`StillInv`); `LevelKnown` needs
  the same of the level told in the middle of `enable` (`ToldInv`). One lemma per group, one step per
  action.
* `TypeCorrect`, `OwnerAlwaysTrue`, `EnabledAlwaysHeard`, `LevelAlwaysKnown` follow.

`NetPortals_proofs`, first for `BtlePortal`, for any number of connection objects and tries, of a
host that is `Paired`:

* `BtleIInvHolds`: `ConnIsLink` needs to know that connection objects are taken one at a time (`Single`),
  `AdvertiserLives` that a restart is signalled only when the connection is over (`Due`), that the
  advertiser tries only when no signal is left and every object is free (`Resting`), and that it has
  a radio once it has advertised (`Radio`).
* `BtleTypeCorrect`, `ConnAlwaysLink`, `AdvertiserAlwaysLives` follow.

then for `CoapPortal`, for any number of buffers and any time-out, with no assumption on which calls
fail:

* `CoapIInvHolds`: `HandlerSafe` needs what `activate` has done by the time it holds the
  mutex (`CallInv`), what OpenThread can have of a portal without an instance (`Unused`), and that a
  portal `dispose` has finished with is out of OpenThread (`Gone`); `PoolWhole` needs to know where a
  message may be in hand (`MsgInv`).
* `CoapTypeCorrect`, `HandlerAlwaysSafe`, `PoolAlwaysWhole` follow.

`Interval_proofs`, for a counter of any width, any period, any lateness of its interrupts and any
number of pausing threads:

* `IInvHolds`: `StoppedOnReturn` needs to know that the alarm is set by the last step of a counter's
  `start` only (`CounterQuiet`), what a k_timer's `start` that failed still does (`KtimerQuiet`), and
  that a disposed interval has nobody inside (`DeadQuiet`). `NoDrift` speaks of an alarm that is set;
  it is kept by what is known of an alarm that rang or is about to be set (`DriftInv`): it is late by
  whole periods and what has gone of the current one, or still to come at the period's end. The
  lemmas before it are arithmetic modulo a number (`ModUnique`, `ModDown`, `ModUp`, `ModBack`, `Wrap`).
* `TypeCorrect`, `AlwaysStopped`, `NeverDrifts` follow, from `IntervalAssumption` alone.

`Saadc_proofs`, for any number of activations and rounds of waiting and all failures, assuming
`Prompt` and `~Rejects` (see below; `InfoFails` may be either):

* `IInvHolds`: `ScanSafe` and `AtRest` need to know who holds the lock and how deep (`LockInv`), what
  each step of the running call has done (`CallInv`), that all readers but the last are through or
  wait for a lock that never comes free (`ReaderInv`), and that a status that says "stopped" is the
  current reader's (`StatusInv`), which is why `deactivate` may dispose of the tasker when it has
  seen that status. When it has not, after the last round, `WaitInv` says why it still may: the reader
  has a flag to stop it and a tick to wake it, so that what is left is one that waits for a kept lock.
* `TypeCorrect`, `ScansAlwaysSafe`, `AlwaysAtRest` follow.

`CanBus_proofs`, for a ring, frames and reads of any size and any number of calls:

* `IInvHolds`: `OverflowTold` needs to know that what is in the ring has arrived before what is still
  to come (`Arrived`), that the flag is up for a dropped byte unless `enable` is just about to reset
  the ring (`Flagged`), and that a `read` between its check and its pop can miss only bytes dropped
  by a ring that was full, which are all behind those it pops (`Popping`).
* `OverflowAlwaysTold` follows.
* `WriteInv`: `WholeWrites` speaks of the frames given to the driver and of what writes have reported
  (`Given`, `Reports`); it is kept because a write under way has given exactly its first `total` bytes
  and nobody has given anything since (`Progress`), and a write to come has reported nothing
  (`Unreported`). That the last frame ends where the write does is in the types: `WritePlace` says how
  far a write can be at each of its steps. `WritesAlwaysWhole` and `TypeCorrect` follow.

The only assumption is `CanAssumption`.

`UartIrq_proofs`, for rings, bursts, chunks and reads of any size and any number of bytes:

* `IInvHolds`: `RxInOrder` and `TxAccounted` are about sequences without gaps; the invariant says which
  numbers they are made of. The bytes the reader has got, those in the ring and those the UART holds are
  runs of consecutive numbers; as long as nothing was dropped each continues the one before, and for a
  reader between its check and its pop the first two still do, because a byte dropped since then found
  the ring full (`RxInv`). `TxInv` says the same of wire and transmit ring. `RunSplit` and `RunJoin` are
  the lemmas on cutting and joining runs.
* `RxAlwaysInOrder`, `TxAlwaysAccounted`, `WakeupNeverLost` follow, from `UartAssumption` alone.
* `TypeCorrect` is proved apart (`TypeInv`: `Queues`, `Budget`, `Control`): it bounds every number by
  the constants, of which the other properties need nothing.

`ModbusSlave_proofs`, for blobs, rings, buffers and reads of any size and any number of calls, lost
requests and lost replies included:

* `TypeInvHolds`: `TypeOK` in parts, with which transactions have a number or a length (`Kinds`).
  `TypeCorrect` follows, and `NeverLostWakeup`, which is inductive with the types: a put that finds no
  room for its bytes finds others in the ring, and somebody has posted for those (`ConsumeWakes`).
* `ControlHolds`: an exchange is a sequence of frames, one register each, which an `enable` can meet
  anywhere and whose last answer may be lost. `Control` says of one that met no `enable` (`clean`) what
  the registers hold of it at each step: `PutSoFar`, `PollSoFar` and `FetchSoFar`; `AfterReset` says that no
  answer is on its way, and no delivered put unacknowledged, between the first store of an `enable` and
  its last.
* `BlobInvHolds`: `InOrder` rests on the numbers of the blobs, which grow from what the master has got to
  what the reply registers hold to the staged one (`Numbered`), and on the registers holding a blob
  whole (`Answer`, `Holds`). `AlwaysInOrder` follows, lost answers or not.
* `AlwaysNothingLost`: `NothingLost` adds the queues up; the invariant also says that the reply registers
  hold nothing the master does not have unless it is polling or fetching (`Fetched`), so that staging a
  reply overwrites no blob.
* `PutsAlwaysArrive`: `Sums` strengthens `PutsArrive` in the middle of a put, where the ring has been given
  bytes of which the master does not know yet (`Owed`).

`Same` and the lemmas `NoBlobMoves` and `NoByteMoves` say which steps change nothing that a property
counts; the others have a lemma each. The only assumption is `ModbusAssumption`.

Model-checked only: liveness (`CallsReturn`, `StopEnds`, `PauseSeen`, `TxDrains`, `AdvertisedAgain`,
`RequestsServed`, `PortalCallsReturn`), which is out of the prover's reach, and the three violations. Every invariant of
the other runs, and the refinement, is a theorem.

## Assumptions and what is not modelled

* Tasker: one owner. Two threads starting one tasker at once are not modelled. The stack of a run
  that was not joined is leaked by a restart; memory use is not a property.
* Interval: atomic operations on one core; the driver tells a late target from a far one within
  `MaxLate`; a counter of the full 32-bit width (`Modulus`), as the TIMER the headers recommend. On a
  narrower counter `_next_alarm` leaves the counter's range. What a pause before `start` means is not
  specified by the code.
* Modbus: a `GIVE_ME` whose answer is lost has already dropped the staged blob; the retry is told
  NO_DATA. `NothingLost` and `PutsArrive` exclude exchanges that lost an answer and those an
  `enable()` met; `InOrder` does not exclude lost answers. A put of length zero is never consumed.
* Saadc: `Prompt` says that the last of the 50 sleeps of `deactivate` ends when the reader has stopped, or
  is stuck on the lock or without a tick: no reader takes half a second for one scan and callback. The
  rounds are bounded either way. `Rejects = FALSE`: nobody activates an active ADC. `InfoFails` is TRUE in
  the `saadc` run and FALSE in `saadc_lock`, so that its trace is about the lock. An `activate` of an ADC
  that was never configured is left out: its error path (356-359) gives the counter driver the NULL
  `counter_dev` that the refusal at 269 was to keep out. Nobody is in `get_status` when `dispose` frees
  the object, or calls it later; a reader still queued on the lock is let go by the unlock in
  `dtlock_dispose` and goes on as if the object were there. Timestamps and samples are data.
* UartIrq: interrupts that no thread interrupts (for a USB CDC-ACM port the callback is a thread, and
  the empty pop and the tx disable in `dtiox_zephyr_uartirq__callbacks.c:39-43` can be separated by a
  write); `enable` is not called while another thread is inside `read` or `write`. An interrupt whose
  `uart_irq_update` fails (113-117) is counted and changes nothing else, so it has no action.
* CanBus: the ring's own push, pop and reset are atomic to each other (it is code of `dtcore`); the
  application attaches an object that is new or detached, and detaches it when no write is under way. A
  second attach of a started controller would fail and stop it, and one more would add a second filter.
  A write that fails half way reports that nothing was written although frames have left, so an
  application that repeats it sends them twice; `last_tx_error` is of whichever frame was acknowledged
  last, so a time-out after an old error ends the write at once. Both are in the model.
* GpioPin: one thread makes the calls (two that enable pins of one port at once can lose a bit of the
  shared mask). `Careless = FALSE`: no two objects on a pin, no `configure` after `attach`, no use or
  disposal of an object that was never configured. The code checks none of these, and with
  `Careless = TRUE` TLC finds both invariants violated: `dispose` turns off the interrupt of the pin
  number it finds in the object, which is pin 0 in one whose `configure` never succeeded, and a pin
  number changed after `attach` leaves the table with a pointer to a freed object. A device that is not
  ready is refused by the first `attach` only, because `dev` is set before the test (216-221). An
  `enable` whose `gpio_pin_interrupt_configure` fails (258-259) changes nothing and has no action.
* BtlePortal: `Paired` says that the host calls `disconnected` and `recycled` of one connection
  before the advertiser, which the first of them wakes, runs; the code relies on it without saying so.
  With `Paired = FALSE` TLC finds `AdvertiserLives` and `AdvertisedAgain` violated with one connection
  object (the second signal starts an advertising that is under way, until the tries are used up) and
  `ConnIsLink` with two. One activation: the global is never cleared. Topics, `subscribe` and the write
  callback pass data through dtmanifold, which is not here.
* CoapPortal: one life of a portal; `publish` after `activate` has found the instance (before, it is a
  null pointer). Each call of `start_thread` into OpenThread is one step although it runs without the
  mutex. After a `dispose` that was refused the mutex OpenThread calls the handler with a freed object;
  the model lets it go on as if the memory were still there, one of the outcomes. `dispose` withdraws no
  SRP service (361-373), so other nodes go on finding one that nothing serves, and the SRP client keeps
  pointers into the freed object (`dtnetportal_coap__helpers.c:545-563`); `srp` records it, no property
  speaks of it, because nothing in the repository says what `dispose` undoes. `subscribe` and the manifold,
  `get_info` and address printing are data.
* Not modelled at all: the components listed so in `PROJECT.json` with the reason; applications and
  tests, which call the library as the models' environments do.
