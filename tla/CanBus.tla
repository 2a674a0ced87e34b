------------------------------- MODULE CanBus -------------------------------
(***************************************************************************)
(* dtiox_zephyr_canbus: a thread that attaches, enables and reads, a thread *)
(* that writes, and the CAN driver's callbacks, which run to their end     *)
(* between any two steps of the threads.  Bytes that arrive are numbered;  *)
(* the k-th byte of the w-th write is <<w, k>>.  An object is attached when *)
(* it is new or detached, and detached when no write() is under way.       *)
(***************************************************************************)
EXTENDS Naturals, Sequences

CONSTANTS
    RxCapacity, \* rx_ring_capacity
    FrameSizes, \* the bytes in a frame that arrives, at most 8 in CAN
    ReadSizes,  \* the buffer lengths the application reads with
    Chunk,      \* the bytes in a frame that is sent, 8 in the code
    WriteSizes, \* the lengths the application writes
    Retries,    \* tx_retry_count
    Mailboxes,  \* the frames the driver holds
    MaxBytes,   \* bound: the bytes that arrive
    MaxWrites,  \* bound: the writes
    MaxCalls    \* bound: calls of attach() and enable()

ASSUME CanAssumption ==
    /\ {RxCapacity, Chunk, Retries, Mailboxes} \subseteq Nat \ {0}
    /\ FrameSizes \subseteq Nat /\ ReadSizes \subseteq Nat \ {0}
    /\ WriteSizes \subseteq Nat \ {0}
    /\ {MaxBytes, MaxWrites, MaxCalls} \subseteq Nat

VARIABLES
    started,       \* dev_started, with the rx filter installed
    cur_state,
    rx_enabled,
    rx_fifo,
    rx_overflow,   \* rx_overflow_flag
    posted,        \* rx_semaphore has a count
    reader,        \* where the reading thread is
    writer,        \* where write() is
    total,         \* total_written
    attempt,
    ret,           \* what can_send returned
    last_tx_error, \* it is not 0
    mailbox,       \* the number of frames the driver holds
    calls,
    arrived,       \* the number of bytes that have arrived
    \* What was said to the application, kept for the properties.
    log,           \* the bytes read since the last enable(true)
    untold,        \* the bytes dropped since then and since the last DTERR_OVERFLOW
    met,           \* those of them dropped while that enable(true) was at work
    sizes,         \* the length of each write
    reported,      \* *out_written of each write
    handed         \* the bytes given to the driver

rxVars == <<rx_enabled, rx_fifo, rx_overflow, posted, reader, arrived, log, untold,
            met>>
txVars == <<writer, total, attempt, ret, sizes, reported, handed>>
driverVars == <<last_tx_error, mailbox>>
vars == <<started, cur_state, calls, rxVars, txVars, driverVars>>

Smaller(m, n) == IF m < n THEN m ELSE n

Bytes == 1 .. MaxBytes
Written == (1 .. MaxWrites) \X Nat

States == {"ERROR_ACTIVE", "ERROR_WARNING", "ERROR_PASSIVE", "BUS_OFF", "STOPPED"}

TypeOK ==
    /\ started \in BOOLEAN /\ cur_state \in States
    /\ rx_enabled \in BOOLEAN /\ (rx_enabled => started)
    /\ rx_fifo \in Seq(Bytes) /\ Len(rx_fifo) <= RxCapacity
    /\ rx_overflow \in BOOLEAN /\ posted \in BOOLEAN
    /\ reader \in {"waiting", "reading", "reporting", "popping", "emptying", "clearing"}
    /\ writer \in {"out", "checking", "sending", "judging"}
    /\ total \in Nat /\ attempt \in 0 .. Retries - 1
    /\ ret \in {"ok", "EAGAIN", "error"}
    /\ last_tx_error \in BOOLEAN
    /\ mailbox \in 0 .. Mailboxes
    /\ calls \in 0 .. MaxCalls /\ arrived \in 0 .. MaxBytes
    /\ log \in Seq(Bytes) /\ untold \subseteq Bytes /\ met \subseteq untold
    /\ sizes \in Seq(WriteSizes) /\ Len(sizes) <= MaxWrites
    /\ reported \in [1 .. MaxWrites -> {0} \cup WriteSizes]
    /\ handed \in Seq(Written)
    /\ writer # "out" => total < sizes[Len(sizes)]

Init ==
    /\ started = FALSE /\ cur_state = "ERROR_ACTIVE"
    /\ rx_enabled = FALSE /\ rx_fifo = <<>> /\ rx_overflow = FALSE /\ posted = FALSE
    /\ reader = "waiting" /\ writer = "out"
    /\ total = 0 /\ attempt = 0 /\ ret = "ok" /\ last_tx_error = FALSE
    /\ mailbox = 0
    /\ calls = 0 /\ arrived = 0
    /\ log = <<>> /\ untold = {} /\ met = {}
    /\ sizes = <<>> /\ reported = [w \in 1 .. MaxWrites |-> 0] /\ handed = <<>>

\* check_error_state lets ERROR_PASSIVE pass and does not look at the counters.
Working == started /\ cur_state \in {"ERROR_ACTIVE", "ERROR_PASSIVE"}

-----------------------------------------------------------------------------
(* attach(), detach() and enable().                                        *)

\* Whichever step of attach() fails, the controller is stopped again.
Attach ==
    /\ ~started /\ reader = "waiting" /\ calls < MaxCalls
    /\ calls' = calls + 1
    /\ started' \in BOOLEAN
    /\ cur_state' \in States
    /\ rx_overflow' = (rx_overflow /\ ~started')
    /\ UNCHANGED <<rx_enabled, rx_fifo, posted, reader, arrived, log, untold, met,
                   txVars, driverVars>>

\* The frames the driver still holds are dropped.
Detach ==
    /\ started /\ reader \in {"waiting", "reading"} /\ writer = "out"
    /\ started' = FALSE /\ reader' = "waiting"
    /\ rx_enabled' = FALSE /\ rx_fifo' = <<>> /\ rx_overflow' = FALSE
    /\ last_tx_error' = FALSE /\ mailbox' = 0
    /\ log' = <<>> /\ untold' = {} /\ met' = {}
    /\ UNCHANGED <<cur_state, calls, posted, arrived, txVars>>

EnableFlag(on) ==
    /\ started /\ reader = "waiting" /\ calls < MaxCalls
    /\ calls' = calls + 1
    /\ rx_enabled' = on
    /\ reader' = IF on THEN "emptying" ELSE "waiting"
    /\ UNCHANGED <<started, cur_state, rx_fifo, rx_overflow, posted, arrived, log, untold,
                   met, txVars, driverVars>>

\* The ring is reset first ...
EnableEmpty ==
    /\ reader = "emptying" /\ reader' = "clearing"
    /\ rx_fifo' = <<>>
    /\ log' = <<>> /\ untold' = {} /\ met' = {}
    /\ UNCHANGED <<started, cur_state, calls, rx_enabled, rx_overflow, posted, arrived,
                   txVars, driverVars>>

\* ... and then the overflow flag.
EnableClear ==
    /\ reader = "clearing" /\ reader' = "waiting"
    /\ rx_overflow' = FALSE
    /\ UNCHANGED <<started, cur_state, calls, rx_enabled, rx_fifo, posted, arrived, log,
                   untold, met, txVars, driverVars>>

-----------------------------------------------------------------------------
(* read(), by a thread that takes the semaphore and reads until it gets    *)
(* nothing.  A read() that check_error_state refuses changes nothing.      *)

Wake ==
    /\ reader = "waiting" /\ posted
    /\ posted' = FALSE
    /\ reader' = "reading"
    /\ UNCHANGED <<started, cur_state, calls, rx_enabled, rx_fifo, rx_overflow, arrived,
                   log, untold, met, txVars, driverVars>>

ReadCheck ==
    /\ reader = "reading" /\ Working
    /\ reader' = IF rx_overflow THEN "reporting" ELSE "popping"
    /\ UNCHANGED <<started, cur_state, calls, rx_enabled, rx_fifo, rx_overflow, posted,
                   arrived, log, untold, met, txVars, driverVars>>

\* DTERR_OVERFLOW
ReadOverflow ==
    /\ reader = "reporting" /\ reader' = "reading"
    /\ rx_overflow' = FALSE
    /\ untold' = {} /\ met' = {}
    /\ UNCHANGED <<started, cur_state, calls, rx_enabled, rx_fifo, posted, arrived, log,
                   txVars, driverVars>>

ReadPop(size) ==
    /\ reader = "popping"
    /\ LET n == Smaller(size, Len(rx_fifo)) IN
          /\ log' = log \o SubSeq(rx_fifo, 1, n)
          /\ rx_fifo' = SubSeq(rx_fifo, n + 1, Len(rx_fifo))
          /\ reader' = IF n = 0 THEN "waiting" ELSE "reading"
    /\ UNCHANGED <<started, cur_state, calls, rx_enabled, rx_overflow, posted, arrived,
                   untold, met, txVars, driverVars>>

-----------------------------------------------------------------------------
(* write(): one frame after another, each tried a number of times.         *)

InWrite(here) ==
    /\ writer = here
    /\ UNCHANGED <<started, cur_state, calls, rxVars, last_tx_error, sizes>>

Returning(n) ==
    /\ writer' = "out" /\ total' = 0 /\ attempt' = 0 /\ ret' = "ok"
    /\ reported' = [reported EXCEPT ![Len(sizes)] = n]

WriteBegin(len) ==
    /\ writer = "out" /\ started /\ Len(sizes) < MaxWrites
    /\ sizes' = Append(sizes, len)
    /\ writer' = "checking"
    /\ UNCHANGED <<started, cur_state, calls, rxVars, total, attempt, ret, reported, handed,
                   driverVars>>

\* check_error_state
WriteCheck ==
    /\ InWrite("checking")
    /\ IF Working
         THEN writer' = "sending" /\ UNCHANGED <<total, attempt, ret, reported>>
         ELSE Returning(0)
    /\ UNCHANGED <<handed, mailbox>>

TheSize == sizes[Len(sizes)]

\* can_send takes the frame when a mailbox is free.
Send(n) ==
    /\ InWrite("sending") /\ mailbox < Mailboxes
    /\ mailbox' = mailbox + 1
    /\ handed' = handed \o [k \in 1 .. n |-> <<Len(sizes), total + k>>]
    /\ IF total + n = TheSize
         THEN Returning(TheSize)
         ELSE /\ total' = total + n /\ attempt' = 0
              /\ writer' = "checking"
              /\ UNCHANGED <<ret, reported>>

\* Mutant of WriteSend: the last frame is as long as the others.
WriteSendPast == Send(Chunk)

WriteSend == Send(Smaller(Chunk, TheSize - total))

\* It times out when none is, and fails at once when the bus is off.
WriteRefused ==
    /\ InWrite("sending")
    /\ \/ mailbox = Mailboxes /\ ret' = "EAGAIN"
       \/ cur_state = "BUS_OFF" /\ ret' = "error"
    /\ writer' = "judging"
    /\ UNCHANGED <<total, attempt, reported, handed, mailbox>>

\* Mutant of WriteJudge: the last time-out is not reported.
WriteJudgeGoesOn ==
    /\ InWrite("judging")
    /\ IF last_tx_error \/ ret = "error" THEN Returning(0)
       ELSE IF attempt + 1 < Retries
         THEN /\ writer' = "checking" /\ attempt' = attempt + 1
              /\ UNCHANGED <<total, ret, reported>>
         ELSE Returning(TheSize)
    /\ UNCHANGED <<handed, mailbox>>

\* An error that the transmit callback has left, of whichever frame, ends the
\* write(); a time-out is tried again; the last one is reported.
WriteJudge ==
    /\ InWrite("judging")
    /\ IF last_tx_error \/ ret = "error" \/ attempt + 1 = Retries
         THEN Returning(0)
         ELSE /\ writer' = "checking" /\ attempt' = attempt + 1
              /\ UNCHANGED <<total, ret, reported>>
    /\ UNCHANGED <<handed, mailbox>>

-----------------------------------------------------------------------------
(* The driver and its callbacks.                                           *)

Fit(n) == Smaller(n, RxCapacity - Len(rx_fifo))

Push(n, flagged) ==
    LET kept == Fit(n)
        dropped == arrived + kept + 1 .. arrived + n
    IN /\ rx_fifo' = rx_fifo \o [k \in 1 .. kept |-> arrived + k]
       /\ rx_overflow' = (rx_overflow \/ flagged)
       /\ untold' = untold \cup dropped
       /\ met' = IF reader = "clearing" THEN met \cup dropped ELSE met

Receive(n, flagged) ==
    /\ started /\ arrived + n <= MaxBytes
    /\ arrived' = arrived + n
    /\ IF rx_enabled /\ n > 0
         THEN Push(n, flagged) /\ posted' = TRUE
         ELSE UNCHANGED <<rx_fifo, rx_overflow, untold, met, posted>>
    /\ UNCHANGED <<started, cur_state, calls, rx_enabled, reader, log, txVars, driverVars>>

\* Mutant of RxCallback: only a frame that is dropped whole is an overflow.
RxCallbackWhole(n) == Receive(n, Fit(n) = 0)

\* rx_callback: what does not fit is dropped, and the flag says so.
RxCallback(n) == Receive(n, Fit(n) < n)

TxCallback ==
    /\ mailbox > 0
    /\ mailbox' = mailbox - 1
    /\ last_tx_error' \in BOOLEAN
    /\ UNCHANGED <<started, cur_state, calls, rxVars, txVars>>

StateChangeCallback ==
    /\ started
    /\ cur_state' \in States \ {cur_state}
    /\ UNCHANGED <<started, calls, rxVars, txVars, driverVars>>

-----------------------------------------------------------------------------

ReaderSteps ==
    \/ EnableEmpty \/ EnableClear
    \/ Wake \/ ReadCheck \/ ReadOverflow \/ \E size \in ReadSizes : ReadPop(size)

WriterSteps == WriteCheck \/ WriteSend \/ WriteRefused \/ WriteJudge

Next ==
    \/ Attach \/ Detach \/ \E on \in BOOLEAN : EnableFlag(on)
    \/ ReaderSteps
    \/ WriterSteps \/ \E len \in WriteSizes : WriteBegin(len)
    \/ \E n \in FrameSizes : RxCallback(n)
    \/ TxCallback \/ StateChangeCallback

Spec == Init /\ [][Next]_vars

-----------------------------------------------------------------------------
(* Properties.                                                             *)

\* A reader that reads on past a byte that was dropped has got DTERR_OVERFLOW
\* between the two, although frames arrive between read()'s look at the flag, its
\* reset and the pop; unless that byte was dropped in the middle of an enable().
OverflowTold == \A b \in untold \ met : \A i \in DOMAIN log : log[i] < b

\* The documented rule without that exception (dtiox_zephyr_canbus.c:7: "RX FIFO
\* overflow is latched and returned as DTERR_OVERFLOW on next read()").
OverflowLatched ==
    untold # {} /\ reader \notin {"emptying", "clearing"} => rx_overflow

\* Byte i of those given to the driver goes on with the write of the byte before it,
\* or begins a later one.
InTurn(i) ==
    IF i > 1 /\ handed[i - 1][1] = handed[i][1]
      THEN handed[i][2] = handed[i - 1][2] + 1
      ELSE handed[i][2] = 1 /\ (i > 1 => handed[i - 1][1] < handed[i][1])

\* However often a frame is tried again and whichever step of write() fails, the
\* driver has been given a prefix of each write, no byte twice, one write after
\* the other, and *out_written is the whole length only if it was given it all.
WholeWrites ==
    /\ \A i \in DOMAIN handed :
         /\ InTurn(i)
         /\ handed[i][1] \in DOMAIN sizes /\ handed[i][2] <= sizes[handed[i][1]]
    /\ \A w \in DOMAIN sizes : reported[w] # 0 =>
         /\ reported[w] = sizes[w]
         /\ \E i \in DOMAIN handed : handed[i] = <<w, sizes[w]>>

=============================================================================
