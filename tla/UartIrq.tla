------------------------------ MODULE UartIrq ------------------------------
(***************************************************************************)
(* dtiox_zephyr_uartirq: a thread that reads (and enables), a thread that  *)
(* writes, and the UART's interrupt between them, over two ring fifos that *)
(* no lock protects.  Interrupts run to their end; a thread can be         *)
(* interrupted between any two of the steps below.  The bytes on the line  *)
(* and the bytes written are numbered, so that a lost one is seen.         *)
(***************************************************************************)
EXTENDS Naturals, Sequences

CONSTANTS
    RxCapacity, \* the capacity of rx_fifo
    TxCapacity, \* the capacity of tx_fifo
    HwRx,       \* the bytes the UART holds, at most the 64 that __rx reads at once
    HwTx,       \* the most bytes uart_fifo_fill takes
    TxChunk,    \* the bytes __tx takes at once, 32 in the code
    WriteSizes, \* the lengths the application writes
    ReadSizes,  \* the buffer lengths it reads with
    MaxBytes,   \* bound: the bytes arriving, and the bytes written, in all
    MaxEnables, \* bound: calls of enable()
    Faults      \* the driver may report errors

ASSUME UartAssumption ==
    /\ {RxCapacity, TxCapacity, HwRx, HwTx, TxChunk} \subseteq Nat \ {0}
    /\ WriteSizes \subseteq Nat /\ ReadSizes \subseteq Nat \ {0}
    /\ MaxBytes \in Nat /\ MaxEnables \in Nat /\ Faults \in BOOLEAN

VARIABLES
    enabled,
    irqs,     \* the interrupts enabled: a subset of {"tx", "rx"}
    hardware, \* the bytes the UART holds
    rx_fifo,
    tx_fifo,
    stats,    \* rx_error, tx_error (as flags), rx_dropped and tx_dropped
    posted,   \* rx_semaphore has a count
    reader,   \* the reader waits, reads, has passed rx_check, or has failed
    writer,   \* the writer is out, has passed tx_check, or has pushed
    enables,
    arrived,  \* the number of bytes that have arrived on the line
    accepted, \* the number of bytes write() has accepted
    log,      \* what read() has returned since enable()
    wire,     \* what the driver has taken since enable()
    base      \* accepted, at the last enable()

rxVars == <<hardware, rx_fifo, posted, reader, arrived, log>>
txVars == <<tx_fifo, writer, accepted, wire, base>>
vars == <<enabled, irqs, stats, enables, rxVars, txVars>>

Bytes == 1 .. MaxBytes

NoStats == [rx_error |-> FALSE, tx_error |-> FALSE, rx_dropped |-> 0, tx_dropped |-> 0]

TypeOK ==
    /\ enabled \in BOOLEAN
    /\ irqs \subseteq {"tx", "rx"} /\ (irqs # {} => enabled)
    /\ hardware \in Seq(Bytes) /\ Len(hardware) <= HwRx
    /\ rx_fifo \in Seq(Bytes) /\ Len(rx_fifo) <= RxCapacity
    /\ tx_fifo \in Seq(Bytes) /\ Len(tx_fifo) <= TxCapacity
    /\ stats \in [rx_error : BOOLEAN, tx_error : BOOLEAN,
                  rx_dropped : 0 .. MaxBytes, tx_dropped : 0 .. MaxBytes]
    /\ posted \in BOOLEAN
    /\ reader \in {"waiting", "reading", "checked", "failed"}
    /\ writer \in {"out", "checked", "pushed"}
    /\ enables \in 0 .. MaxEnables
    /\ arrived \in 0 .. MaxBytes /\ accepted \in 0 .. MaxBytes /\ base \in 0 .. accepted
    /\ log \in Seq(Bytes) /\ wire \in Seq(Bytes)

Init ==
    /\ enabled = FALSE /\ irqs = {}
    /\ hardware = <<>> /\ rx_fifo = <<>> /\ tx_fifo = <<>>
    /\ stats = NoStats
    /\ posted = FALSE /\ reader = "waiting" /\ writer = "out"
    /\ enables = 0 /\ arrived = 0 /\ accepted = 0 /\ base = 0
    /\ log = <<>> /\ wire = <<>>

Smaller(m, n) == IF m < n THEN m ELSE n

First(s, n) == SubSeq(s, 1, n)
Rest(s, n) == SubSeq(s, n + 1, Len(s))

-----------------------------------------------------------------------------
(* The application.                                                        *)

\* Mutant of Enable: the transmit interrupt stays as it is.
EnableKeepingTx(on) ==
    /\ enables < MaxEnables
    /\ writer = "out" /\ reader # "checked"
    /\ enables' = enables + 1
    /\ enabled' = on
    /\ irqs' = IF on THEN irqs \cup {"rx"} ELSE irqs \ {"rx"}
    /\ rx_fifo' = <<>> /\ tx_fifo' = <<>>
    /\ stats' = NoStats
    /\ reader' = "waiting"
    /\ log' = <<>> /\ wire' = <<>> /\ base' = accepted
    /\ UNCHANGED <<hardware, posted, arrived, writer, accepted>>

\* Interrupts are disabled, both fifos and the statistics are cleared, and
\* then the receive interrupt is enabled.  Nobody is in read() or write().
Enable(on) ==
    /\ enables < MaxEnables
    /\ writer = "out" /\ reader # "checked"
    /\ enables' = enables + 1
    /\ enabled' = on
    /\ irqs' = IF on THEN {"rx"} ELSE {}
    /\ rx_fifo' = <<>> /\ tx_fifo' = <<>>
    /\ stats' = NoStats
    /\ reader' = "waiting"
    /\ log' = <<>> /\ wire' = <<>> /\ base' = accepted
    /\ UNCHANGED <<hardware, posted, arrived, writer, accepted>>

Wake ==
    /\ reader = "waiting" /\ posted
    /\ posted' = FALSE
    /\ reader' = "reading"
    /\ UNCHANGED <<enabled, irqs, stats, enables, hardware, rx_fifo, arrived, log, txVars>>

\* Mutant of ReadCheck: dropped bytes are not looked at.
ReadCheckErrors ==
    /\ reader = "reading"
    /\ reader' = IF enabled /\ ~stats.rx_error THEN "checked" ELSE "failed"
    /\ UNCHANGED <<enabled, irqs, stats, enables, hardware, rx_fifo, posted, arrived,
                   log, txVars>>

\* rx_check: an error or a loss is reported by every read() from now on.
ReadCheck ==
    /\ reader = "reading"
    /\ reader' = IF enabled /\ ~stats.rx_error /\ stats.rx_dropped = 0
                   THEN "checked" ELSE "failed"
    /\ UNCHANGED <<enabled, irqs, stats, enables, hardware, rx_fifo, posted, arrived,
                   log, txVars>>

\* The reader reads on until a read() gives it nothing.
ReadPop(size) ==
    /\ reader = "checked"
    /\ LET n == Smaller(size, Len(rx_fifo)) IN
          /\ log' = log \o First(rx_fifo, n)
          /\ rx_fifo' = Rest(rx_fifo, n)
          /\ reader' = IF n = 0 THEN "waiting" ELSE "reading"
    /\ UNCHANGED <<enabled, irqs, stats, enables, hardware, posted, arrived, txVars>>

\* tx_check, passed; a write() that fails changes nothing.
WriteCheck ==
    /\ writer = "out" /\ enabled /\ ~stats.tx_error /\ stats.tx_dropped = 0
    /\ writer' = "checked"
    /\ UNCHANGED <<enabled, irqs, stats, enables, rxVars, tx_fifo, accepted, wire, base>>

WritePush(len) ==
    /\ writer = "checked" /\ accepted + len <= MaxBytes
    /\ LET n == Smaller(len, TxCapacity - Len(tx_fifo)) IN
          /\ tx_fifo' = tx_fifo \o [k \in 1 .. n |-> accepted + k]
          /\ accepted' = accepted + n
          /\ writer' = IF n > 0 THEN "pushed" ELSE "out"
    /\ UNCHANGED <<enabled, irqs, stats, enables, rxVars, wire, base>>

\* uart_irq_tx_enable
WriteArm ==
    /\ writer = "pushed"
    /\ irqs' = irqs \cup {"tx"}
    /\ writer' = "out"
    /\ UNCHANGED <<enabled, stats, enables, rxVars, tx_fifo, accepted, wire, base>>

-----------------------------------------------------------------------------
(* The UART and its interrupt.                                             *)

\* Bytes that arrive faster than the interrupt is served are the driver's loss.
Arrive ==
    /\ arrived < MaxBytes /\ Len(hardware) < HwRx
    /\ arrived' = arrived + 1
    /\ hardware' = Append(hardware, arrived + 1)
    /\ UNCHANGED <<enabled, irqs, stats, enables, rx_fifo, posted, reader, log, txVars>>

\* An interrupt whose uart_irq_update fails is counted and returns; it changes nothing
\* that is modelled, and the interrupt comes again.

\* __rx finds an error; it stops there.
RxError ==
    /\ Faults /\ "rx" \in irqs /\ hardware # <<>>
    /\ stats' = [stats EXCEPT !.rx_error = TRUE]
    /\ UNCHANGED <<enabled, irqs, enables, rxVars, txVars>>

\* Mutant of Rx: it returns from a full fifo without a post.
RxPostWhole ==
    /\ "rx" \in irqs /\ hardware # <<>>
    /\ LET n == Smaller(Len(hardware), RxCapacity - Len(rx_fifo)) IN
          /\ rx_fifo' = rx_fifo \o First(hardware, n)
          /\ stats' = [stats EXCEPT !.rx_dropped = @ + (Len(hardware) - n)]
          /\ posted' = (posted \/ n = Len(hardware))
    /\ hardware' = <<>>
    /\ UNCHANGED <<enabled, irqs, enables, reader, arrived, log, txVars>>

\* __rx takes what the UART holds, and drops what does not fit.
Rx ==
    /\ "rx" \in irqs /\ hardware # <<>>
    /\ LET n == Smaller(Len(hardware), RxCapacity - Len(rx_fifo)) IN
          /\ rx_fifo' = rx_fifo \o First(hardware, n)
          /\ stats' = [stats EXCEPT !.rx_dropped = @ + (Len(hardware) - n)]
    /\ posted' = TRUE
    /\ hardware' = <<>>
    /\ UNCHANGED <<enabled, irqs, enables, reader, arrived, log, txVars>>

\* __tx finds the fifo empty.
TxNothing ==
    /\ "tx" \in irqs /\ tx_fifo = <<>>
    /\ irqs' = irqs \ {"tx"}
    /\ UNCHANGED <<enabled, stats, enables, rxVars, txVars>>

Popped == Smaller(TxChunk, Len(tx_fifo))

\* uart_fifo_fill fails: what was popped is gone.
TxError ==
    /\ Faults /\ "tx" \in irqs /\ tx_fifo # <<>>
    /\ tx_fifo' = Rest(tx_fifo, Popped)
    /\ stats' = [stats EXCEPT !.tx_error = TRUE]
    /\ irqs' = irqs \ {"tx"}
    /\ UNCHANGED <<enabled, enables, rxVars, writer, accepted, wire, base>>

\* Mutant of TxFill: the interrupt is disabled after every fill.
TxFillOnce(taken) ==
    /\ "tx" \in irqs /\ tx_fifo # <<>> /\ taken <= Popped
    /\ tx_fifo' = Rest(tx_fifo, Popped)
    /\ wire' = wire \o First(tx_fifo, taken)
    /\ stats' = [stats EXCEPT !.tx_dropped = @ + (Popped - taken)]
    /\ irqs' = irqs \ {"tx"}
    /\ UNCHANGED <<enabled, enables, rxVars, writer, accepted, base>>

\* Mutant of TxFill: what the driver did not take is not counted.
TxFillUncounted(taken) ==
    /\ "tx" \in irqs /\ tx_fifo # <<>> /\ taken <= Popped
    /\ tx_fifo' = Rest(tx_fifo, Popped)
    /\ wire' = wire \o First(tx_fifo, taken)
    /\ irqs' = IF taken < Popped THEN irqs \ {"tx"} ELSE irqs
    /\ UNCHANGED <<enabled, stats, enables, rxVars, writer, accepted, base>>

\* The driver takes some of what was popped, and the rest is dropped.
TxFill(taken) ==
    /\ "tx" \in irqs /\ tx_fifo # <<>> /\ taken <= Popped
    /\ tx_fifo' = Rest(tx_fifo, Popped)
    /\ wire' = wire \o First(tx_fifo, taken)
    /\ stats' = [stats EXCEPT !.tx_dropped = @ + (Popped - taken)]
    /\ irqs' = IF taken < Popped THEN irqs \ {"tx"} ELSE irqs
    /\ UNCHANGED <<enabled, enables, rxVars, writer, accepted, base>>

-----------------------------------------------------------------------------

ReaderSteps == Wake \/ ReadCheck \/ \E size \in ReadSizes : ReadPop(size)

TxInterrupt == TxNothing \/ TxError \/ \E taken \in 0 .. HwTx : TxFill(taken)

Next ==
    \/ \E on \in BOOLEAN : Enable(on)
    \/ ReaderSteps
    \/ WriteCheck \/ WriteArm \/ \E len \in WriteSizes : WritePush(len)
    \/ Arrive \/ Rx \/ RxError
    \/ TxInterrupt

\* An interrupt that is enabled and due is served, and the threads run.
Fairness ==
    /\ WF_vars(TxInterrupt) /\ WF_vars(Rx)
    /\ WF_vars(ReaderSteps) /\ WF_vars(WriteArm)

Spec == Init /\ [][Next]_vars

FairSpec == Spec /\ Fairness

-----------------------------------------------------------------------------
(* Properties.                                                             *)

Consecutive(s) == \A i \in 1 .. Len(s) - 1 : s[i + 1] = s[i] + 1

\* read() never returns a byte from behind a lost one, even when the loss
\* happens between its check and its pop; and a gap in the fifo is counted.
RxInOrder ==
    /\ Consecutive(log)
    /\ stats.rx_dropped = 0 => Consecutive(log \o rx_fifo)

\* The bytes write() has accepted are taken by the driver in order, wait in
\* the fifo, or are counted as dropped, as long as the driver had no error.
TxAccounted ==
    ~stats.tx_error =>
        /\ Len(wire) + Len(tx_fifo) + stats.tx_dropped = accepted - base
        /\ stats.tx_dropped = 0 => Consecutive(wire \o tx_fifo)

\* The reader does not wait while there are bytes for it.
NoLostWakeup == reader = "waiting" /\ rx_fifo # <<>> => posted

\* What is written is sent, unless the port fails or is enabled anew.
TxDrains ==
    (tx_fifo # <<>>) ~>
        (tx_fifo = <<>> \/ stats.tx_error \/ stats.tx_dropped > 0)

=============================================================================
