---------------------------- MODULE UartIrq_proofs --------------------------
(***************************************************************************)
(* For fifos, chunks, reads and writes of any size and any number of bytes: *)
(* read() returns runs of consecutive bytes, write()'s bytes are accounted  *)
(* for, no reader sleeps on bytes it was not told of, and every queue and   *)
(* count stays within its bounds.                                           *)
(***************************************************************************)
EXTENDS UartIrq, Integers, TLAPS

\* The numbers after k, in order.
Run(s, k) == \A i \in 1 .. Len(s) : s[i] = k + i

Stats == [rx_error : BOOLEAN, tx_error : BOOLEAN, rx_dropped : Nat, tx_dropped : Nat]

Types ==
    /\ hardware \in Seq(Nat) /\ rx_fifo \in Seq(Nat) /\ log \in Seq(Nat)
    /\ tx_fifo \in Seq(Nat) /\ wire \in Seq(Nat)
    /\ stats \in Stats
    /\ arrived \in Nat /\ accepted \in Nat /\ base \in Nat
    /\ Len(rx_fifo) <= RxCapacity /\ Len(tx_fifo) <= TxCapacity

\* What the reader has got runs on in the ring ...
Linked(k) == Run(log, k) /\ Run(rx_fifo, k + Len(log))

\* ... as long as nothing was dropped, up to what the UART holds; and for a reader that
\* saw nothing dropped, until it pops: what was dropped since then found the ring full.
RxInv ==
    /\ Run(hardware, arrived - Len(hardware))
    /\ \E k \in Int : Run(log, k)
    /\ stats.rx_dropped = 0 =>
         \E k \in Int : /\ Linked(k)
                        /\ k + Len(log) + Len(rx_fifo) + Len(hardware) = arrived
    /\ reader = "checked" =>
         /\ \E k \in Int : Linked(k)
         /\ stats.rx_dropped = 0 \/ Len(rx_fifo) = RxCapacity

\* Every byte write() accepted is on the wire, in the ring, or counted.
TxInv ==
    ~stats.tx_error =>
        /\ Len(wire) + Len(tx_fifo) + stats.tx_dropped = accepted - base
        /\ stats.tx_dropped = 0 => Run(wire, base) /\ Run(tx_fifo, base + Len(wire))

IInv == Types /\ RxInv /\ TxInv /\ NoLostWakeup

-----------------------------------------------------------------------------
(* Runs.                                                                   *)

\* A run that is cut.
LEMMA RunSplit ==
    ASSUME NEW s \in Seq(Nat), NEW n \in 0 .. Len(s)
    PROVE  /\ First(s, n) \in Seq(Nat) /\ Len(First(s, n)) = n
           /\ Rest(s, n) \in Seq(Nat) /\ Len(Rest(s, n)) = Len(s) - n
           /\ \A k \in Int : Run(s, k) => Run(First(s, n), k) /\ Run(Rest(s, n), k + n)
<1>1. /\ First(s, n) \in Seq(Nat) /\ Len(First(s, n)) = n
      /\ \A i \in 1 .. n : First(s, n)[i] = s[i]
    BY DEF First
<1>2. /\ Rest(s, n) \in Seq(Nat) /\ Len(Rest(s, n)) = Len(s) - n
      /\ \A i \in 1 .. Len(s) - n : Rest(s, n)[i] = s[n + i]
    BY DEF Rest
<1>3. ASSUME NEW k \in Int, Run(s, k) PROVE Run(First(s, n), k) /\ Run(Rest(s, n), k + n)
    <2>1. ASSUME NEW i \in 1 .. n PROVE First(s, n)[i] = k + i
        <3>1. i \in 1 .. Len(s)
            OBVIOUS
        <3>2. s[i] = k + i
            BY <1>3, <3>1 DEF Run
        <3> QED BY <1>1, <3>2
    <2>2. ASSUME NEW i \in 1 .. Len(s) - n PROVE Rest(s, n)[i] = (k + n) + i
        <3>1. n + i \in 1 .. Len(s) /\ k + (n + i) = (k + n) + i
            OBVIOUS
        <3>2. s[n + i] = k + (n + i)
            BY <1>3, <3>1 DEF Run
        <3> QED BY <1>2, <3>1, <3>2
    <2> QED BY <1>1, <1>2, <2>1, <2>2 DEF Run
<1> QED BY <1>1, <1>2, <1>3

\* A run that is continued.
LEMMA RunJoin ==
    ASSUME NEW s \in Seq(Nat), NEW t \in Seq(Nat)
    PROVE  /\ s \o t \in Seq(Nat) /\ Len(s \o t) = Len(s) + Len(t)
           /\ \A k \in Int : Run(s, k) /\ Run(t, k + Len(s)) => Run(s \o t, k)
<1>1. /\ s \o t \in Seq(Nat) /\ Len(s \o t) = Len(s) + Len(t)
      /\ \A i \in 1 .. Len(s) : (s \o t)[i] = s[i]
      /\ \A i \in 1 .. Len(t) : (s \o t)[Len(s) + i] = t[i]
    OBVIOUS
<1>2. ASSUME NEW k \in Int, Run(s, k), Run(t, k + Len(s)) PROVE Run(s \o t, k)
    <2> SUFFICES ASSUME NEW i \in 1 .. Len(s) + Len(t) PROVE (s \o t)[i] = k + i
        BY <1>1 DEF Run
    <2>1. CASE i \in 1 .. Len(s)
        BY <1>1, <1>2, <2>1 DEF Run
    <2>2. CASE i \notin 1 .. Len(s)
        <3>1. i - Len(s) \in 1 .. Len(t) /\ Len(s) + (i - Len(s)) = i
            BY <2>2
        <3>2. (s \o t)[i] = t[i - Len(s)]
            BY <1>1, <3>1
        <3>3. t[i - Len(s)] = k + Len(s) + (i - Len(s))
            BY <1>2, <3>1 DEF Run
        <3> QED BY <3>2, <3>3
    <2> QED BY <2>1, <2>2
<1> QED BY <1>1, <1>2

\* The bytes of one write.
LEMMA RunNew ==
    ASSUME NEW a \in Nat, NEW n \in Nat
    PROVE  LET s == [k \in 1 .. n |-> a + k] IN s \in Seq(Nat) /\ Len(s) = n /\ Run(s, a)
    BY DEF Run

\* One more byte on the line.
LEMMA RunAppend ==
    ASSUME NEW s \in Seq(Nat), NEW a \in Nat, Run(s, a - Len(s))
    PROVE  LET t == Append(s, a + 1)
           IN  t \in Seq(Nat) /\ Len(t) = Len(s) + 1 /\ Run(t, a + 1 - Len(t))
    BY DEF Run

\* Runs have no gap.
LEMMA RunConsecutive ==
    ASSUME NEW s \in Seq(Nat), NEW k \in Int, Run(s, k) PROVE Consecutive(s)
<1> SUFFICES ASSUME NEW i \in 1 .. Len(s) - 1 PROVE s[i + 1] = s[i] + 1
    BY DEF Consecutive
<1>1. i \in 1 .. Len(s) /\ i + 1 \in 1 .. Len(s)
    OBVIOUS
<1>2. s[i] = k + i /\ s[i + 1] = k + (i + 1)
    BY <1>1 DEF Run
<1> QED BY <1>2

\* Nothing is a run.
LEMMA RunEmpty == \A k : Run(<<>>, k)
    BY DEF Run

\* A sequence without elements.
LEMMA NoElement == ASSUME NEW s \in Seq(Nat), Len(s) = 0 PROVE s = <<>>
    OBVIOUS

-----------------------------------------------------------------------------
(* Statistics.                                                             *)

\* Dropped bytes are added to what was dropped.
LEMMA Counted ==
    ASSUME NEW s \in Stats, NEW n \in Nat
    PROVE  LET r == [s EXCEPT !.rx_dropped = s.rx_dropped + n]
               t == [s EXCEPT !.tx_dropped = s.tx_dropped + n]
               e == [s EXCEPT !.tx_error = TRUE]
           IN  /\ r \in Stats /\ r.rx_dropped = s.rx_dropped + n
               /\ r.tx_dropped = s.tx_dropped /\ r.tx_error = s.tx_error
               /\ t \in Stats /\ t.tx_dropped = s.tx_dropped + n
               /\ t.rx_dropped = s.rx_dropped /\ t.tx_error = s.tx_error
               /\ e \in Stats /\ e.tx_error /\ e.rx_dropped = s.rx_dropped
<1>1. s.rx_dropped + n \in Nat /\ s.tx_dropped + n \in Nat
    BY DEF Stats
<1> QED BY <1>1 DEF Stats

\* The numbers of a state.
Numbered ==
    /\ Len(hardware) \in Nat /\ Len(rx_fifo) \in Nat /\ Len(log) \in Nat
    /\ Len(tx_fifo) \in Nat /\ Len(wire) \in Nat
    /\ arrived \in Nat /\ accepted \in Nat /\ base \in Nat
    /\ stats.rx_dropped \in Nat /\ stats.tx_dropped \in Nat
    /\ RxCapacity \in Nat /\ TxCapacity \in Nat /\ TxChunk \in Nat /\ HwTx \in Nat
    /\ Len(rx_fifo) <= RxCapacity /\ Len(tx_fifo) <= TxCapacity

\* They are numbers, and the rings hold no more than they can.
LEMMA Numbers == IInv => Numbered
    BY UartAssumption DEF IInv, Types, Stats, Numbered

-----------------------------------------------------------------------------

\* A port that is made satisfies the invariant.
LEMMA InitInv == Init => IInv
<1> SUFFICES ASSUME Init PROVE IInv
    OBVIOUS
<1>1. Types
    BY UartAssumption DEF Init, Types, NoStats, Stats
<1>2. RxInv
    <2>1. Linked(0) /\ Run(hardware, arrived - Len(hardware))
        BY RunEmpty DEF Init, Linked
    <2> QED BY <2>1 DEF Init, RxInv, Linked
<1>3. TxInv
    BY RunEmpty DEF Init, TxInv, NoStats
<1> QED BY <1>1, <1>2, <1>3 DEF IInv, NoLostWakeup, Init

\* enable() begins anew.
LEMMA EnableStep ==
    ASSUME IInv, NEW on \in BOOLEAN, Enable(on) PROVE IInv'
<1>1. /\ rx_fifo' = <<>> /\ tx_fifo' = <<>> /\ log' = <<>> /\ wire' = <<>>
      /\ stats' = NoStats /\ base' = accepted /\ reader' = "waiting"
      /\ UNCHANGED <<hardware, posted, arrived, writer, accepted>>
    BY DEF Enable
<1>2. Types'
    BY <1>1, UartAssumption DEF IInv, Types, NoStats, Stats
<1>3. RxInv'
    <2>1. Run(hardware, arrived - Len(hardware))'
        BY <1>1 DEF IInv, RxInv
    <2> DEFINE k == arrived - Len(hardware)
    <2>2. k \in Int /\ k + Len(log') + Len(rx_fifo') + Len(hardware') = arrived'
        BY <1>1 DEF IInv, Types
    <2>3. Run(log', k) /\ Run(rx_fifo', k + Len(log'))
        BY <1>1, RunEmpty
    <2> HIDE DEF k
    <2> QED BY <1>1, <2>1, <2>2, <2>3 DEF RxInv, Linked
<1>4. TxInv'
    <2>1. Run(wire', base') /\ Run(tx_fifo', base' + Len(wire'))
        BY <1>1, RunEmpty
    <2>2. stats'.tx_dropped = 0 /\ Len(wire') = 0 /\ Len(tx_fifo') = 0
        BY <1>1 DEF NoStats
    <2> QED BY <1>1, <2>1, <2>2 DEF TxInv, IInv, Types
<1>5. NoLostWakeup'
    BY <1>1 DEF NoLostWakeup
<1> QED BY <1>2, <1>3, <1>4, <1>5 DEF IInv

\* Steps that move no byte and change no statistics of the receiving side.
LEMMA QuietStep ==
    ASSUME IInv,
           Wake \/ ReadCheck \/ WriteCheck \/ WriteArm \/ RxError \/ TxNothing
    PROVE  IInv'
<1>1. /\ UNCHANGED <<hardware, rx_fifo, log, arrived, tx_fifo, wire, accepted, base>>
      /\ stats'.rx_dropped = stats.rx_dropped /\ stats'.tx_dropped = stats.tx_dropped
      /\ stats'.tx_error = stats.tx_error
    BY DEF Wake, ReadCheck, WriteCheck, WriteArm, RxError, TxNothing, rxVars, txVars, IInv, Types, Stats
<1>2. stats' \in Stats
    BY DEF Wake, ReadCheck, WriteCheck, WriteArm, RxError, TxNothing, IInv, Types, Stats
<1>3. reader' = "checked" => reader = "checked" \/ stats.rx_dropped = 0
    BY DEF Wake, ReadCheck, WriteCheck, WriteArm, RxError, TxNothing, rxVars
<1>4. Types'
    BY <1>1, <1>2 DEF IInv, Types
<1>5. RxInv'
    BY <1>1, <1>3 DEF IInv, RxInv, Linked
<1>6. TxInv'
    BY <1>1 DEF IInv, TxInv
<1>7. NoLostWakeup'
    BY DEF Wake, ReadCheck, WriteCheck, WriteArm, RxError, TxNothing, rxVars, IInv, NoLostWakeup
<1> QED BY <1>4, <1>5, <1>6, <1>7 DEF IInv

\* The reader takes bytes from the ring.
LEMMA PopStep ==
    ASSUME IInv, NEW size \in ReadSizes, ReadPop(size) PROVE IInv'
<1>0. Numbered
    BY Numbers
<1> DEFINE n == Smaller(size, Len(rx_fifo))
           first == First(rx_fifo, n)
           rest == Rest(rx_fifo, n)
<1>1. n \in 0 .. Len(rx_fifo) /\ (n = 0 => Len(rx_fifo) = 0)
    BY UartAssumption, <1>0 DEF Numbered, Smaller
<1>2. /\ reader = "checked" /\ log' = log \o first /\ rx_fifo' = rest
      /\ reader' = IF n = 0 THEN "waiting" ELSE "reading"
      /\ UNCHANGED <<stats, hardware, arrived, txVars>>
    BY DEF ReadPop
<1> HIDE DEF n
<1>3. /\ first \in Seq(Nat) /\ Len(first) = n
      /\ rest \in Seq(Nat) /\ Len(rest) = Len(rx_fifo) - n
      /\ \A k \in Int : Run(rx_fifo, k) => Run(first, k) /\ Run(rest, k + n)
    BY <1>1, RunSplit DEF IInv, Types
<1> HIDE DEF first, rest
<1>4. /\ log' \in Seq(Nat) /\ Len(log') = Len(log) + n
      /\ \A k \in Int : Run(log, k) /\ Run(first, k + Len(log)) => Run(log', k)
    BY <1>2, <1>3, RunJoin DEF IInv, Types
<1>5. Types'
    <2>1. Len(rx_fifo') <= RxCapacity
        BY <1>1, <1>2, <1>3, <1>0 DEF Numbered
    <2>2. log' \in Seq(Nat) /\ rx_fifo' \in Seq(Nat)
        BY <1>2, <1>3, <1>4
    <2> QED BY <1>2, <2>1, <2>2 DEF IInv, Types, txVars
<1>6. ASSUME NEW k \in Int, Linked(k) PROVE Linked(k)'
    <2>1. k + Len(log) \in Int /\ k + Len(log) + n = k + Len(log')
        BY <1>1, <1>4, <1>0 DEF Numbered
    <2>2. Run(first, k + Len(log)) /\ Run(rest, k + Len(log) + n)
        BY <1>3, <1>6, <2>1 DEF Linked
    <2> QED BY <1>2, <1>4, <1>6, <2>1, <2>2 DEF Linked
<1>7. /\ Len(log') + Len(rx_fifo') = Len(log) + Len(rx_fifo)
      /\ Len(log') \in Nat /\ Len(rx_fifo') \in Nat
    BY <1>1, <1>2, <1>3, <1>4, <1>0 DEF Numbered
<1>8. RxInv'
    <2>1. \E k \in Int : Run(log, k)'
        BY <1>2, <1>6 DEF IInv, RxInv, Linked
    <2>2. ASSUME stats.rx_dropped = 0
          PROVE  \E k \in Int :
                   /\ Linked(k)'
                   /\ k + Len(log') + Len(rx_fifo') + Len(hardware) = arrived
        <3>1. PICK k \in Int : /\ Linked(k)
                               /\ k + Len(log) + Len(rx_fifo) + Len(hardware) = arrived
            BY <2>2 DEF IInv, RxInv
        <3>2. k + Len(log') + Len(rx_fifo') + Len(hardware) = arrived
            <4>1. /\ k + (Len(log) + Len(rx_fifo)) + Len(hardware) = arrived
                  /\ k + Len(log') + Len(rx_fifo') + Len(hardware)
                       = k + (Len(log') + Len(rx_fifo')) + Len(hardware)
                BY <1>7, <3>1, <1>0 DEF Numbered
            <4> QED BY <1>7, <4>1, Zenon
        <3> QED BY <1>6, <3>1, <3>2
    <2>3. reader' # "checked"
        BY <1>2
    <2> QED BY <1>2, <2>1, <2>2, <2>3 DEF IInv, RxInv
<1>9. TxInv'
    BY <1>2 DEF IInv, TxInv, txVars
<1>10. NoLostWakeup'
    <2>1. n = 0 => Len(rx_fifo') = 0 /\ rx_fifo' \in Seq(Nat)
        BY <1>1, <1>2, <1>3
    <2>2. n = 0 => rx_fifo' = <<>>
        BY <2>1, NoElement
    <2> QED BY <1>2, <2>2 DEF NoLostWakeup
<1> QED BY <1>5, <1>8, <1>9, <1>10 DEF IInv

\* A byte on the line.
LEMMA ArriveStep ==
    ASSUME IInv, Arrive PROVE IInv'
<1>0. Numbered
    BY Numbers
<1>1. /\ arrived' = arrived + 1 /\ hardware' = Append(hardware, arrived + 1)
      /\ UNCHANGED <<stats, rx_fifo, posted, reader, log, txVars>>
    BY DEF Arrive
<1>2. /\ hardware' \in Seq(Nat) /\ Len(hardware') = Len(hardware) + 1
      /\ Run(hardware', arrived' - Len(hardware'))
    BY <1>1, RunAppend DEF IInv, Types, RxInv
<1>3. Types'
    BY <1>1, <1>2 DEF IInv, Types, txVars
<1>4. ASSUME NEW k \in Int, k + Len(log) + Len(rx_fifo) + Len(hardware) = arrived
      PROVE  k + Len(log') + Len(rx_fifo') + Len(hardware') = arrived'
    <2>1. k + Len(log) + Len(rx_fifo) + (Len(hardware) + 1) = arrived + 1
        BY <1>4, <1>0 DEF Numbered
    <2>2. /\ log' = log /\ rx_fifo' = rx_fifo /\ arrived' = arrived + 1
          /\ Len(hardware') = Len(hardware) + 1
        BY <1>1, <1>2
    <2> QED BY <2>1, <2>2, Zenon
<1>5. RxInv'
    BY <1>1, <1>2, <1>4 DEF IInv, RxInv, Linked
<1>6. TxInv'
    BY <1>1 DEF IInv, TxInv, txVars
<1>7. NoLostWakeup'
    BY <1>1 DEF IInv, NoLostWakeup
<1> QED BY <1>3, <1>5, <1>6, <1>7 DEF IInv

\* The receive interrupt.
LEMMA RxStep ==
    ASSUME IInv, Rx PROVE IInv'
<1>0. Numbered
    BY Numbers
<1> DEFINE n == Smaller(Len(hardware), RxCapacity - Len(rx_fifo))
           first == First(hardware, n)
<1>1. /\ n \in 0 .. Len(hardware) /\ n <= RxCapacity - Len(rx_fifo)
      /\ (n < Len(hardware) => n = RxCapacity - Len(rx_fifo))
    BY <1>0 DEF Numbered, Smaller
<1>2. /\ rx_fifo' = rx_fifo \o first /\ hardware' = <<>> /\ posted' = TRUE
      /\ stats' = [stats EXCEPT !.rx_dropped = stats.rx_dropped + (Len(hardware) - n)]
      /\ UNCHANGED <<reader, arrived, log, txVars>>
    BY DEF Rx
<1> HIDE DEF n
<1>3. /\ first \in Seq(Nat) /\ Len(first) = n
      /\ \A k \in Int : Run(hardware, k) => Run(first, k)
    BY <1>1, RunSplit DEF IInv, Types
<1> HIDE DEF first
<1>4. /\ rx_fifo' \in Seq(Nat) /\ Len(rx_fifo') = Len(rx_fifo) + n
      /\ \A k \in Int : Run(rx_fifo, k) /\ Run(first, k + Len(rx_fifo)) => Run(rx_fifo', k)
    BY <1>2, <1>3, RunJoin DEF IInv, Types
<1>5. /\ stats' \in Stats
      /\ stats'.rx_dropped = stats.rx_dropped + (Len(hardware) - n)
      /\ stats'.tx_dropped = stats.tx_dropped /\ stats'.tx_error = stats.tx_error
    <2>1. Len(hardware) - n \in Nat
        BY <1>1, <1>0 DEF Numbered
    <2> QED BY <1>2, <2>1, Counted DEF IInv, Types
<1>6. Types'
    <2>1. hardware' \in Seq(Nat)
        BY <1>2
    <2>2. Len(rx_fifo') <= RxCapacity
        BY <1>1, <1>4, <1>0 DEF Numbered
    <2> QED BY <1>2, <1>4, <1>5, <2>1, <2>2 DEF IInv, Types, txVars
<1>7. ASSUME NEW k \in Int, Linked(k),
             k + Len(log) + Len(rx_fifo) + Len(hardware) = arrived
      PROVE  Linked(k)' /\ k + Len(log) + Len(rx_fifo') + (Len(hardware) - n) = arrived
    <2>1. k + Len(log) \in Int /\ arrived - Len(hardware) = k + Len(log) + Len(rx_fifo)
          /\ arrived - Len(hardware) \in Int
        BY <1>7, <1>0 DEF Numbered
    <2>2. Run(first, k + Len(log) + Len(rx_fifo))
        BY <1>3, <2>1 DEF IInv, RxInv
    <2>3. Run(rx_fifo', k + Len(log))
        BY <1>4, <1>7, <2>1, <2>2 DEF Linked
    <2>4. k + Len(log) + Len(rx_fifo') + (Len(hardware) - n) = arrived
        <3>1. k + Len(log) + (Len(rx_fifo) + n) + (Len(hardware) - n) = arrived
            BY <1>1, <1>7, <1>0 DEF Numbered
        <3> QED BY <1>4, <3>1, Zenon
    <2> QED BY <1>2, <1>7, <2>3, <2>4 DEF Linked
<1>8. ASSUME n = 0 PROVE rx_fifo' = rx_fifo
    <2>1. first = <<>>
        BY <1>3, <1>8, NoElement
    <2> QED BY <1>2, <2>1 DEF IInv, Types
<1>9. RxInv'
    <2>1. Run(hardware, arrived - Len(hardware))'
        BY <1>2, RunEmpty
    <2>2. \E k \in Int : Run(log, k)'
        BY <1>2 DEF IInv, RxInv
    <2>3. ASSUME stats'.rx_dropped = 0
          PROVE  \E k \in Int :
                   /\ Linked(k)'
                   /\ k + Len(log') + Len(rx_fifo') + Len(hardware') = arrived'
        <3>1. stats.rx_dropped = 0 /\ n = Len(hardware)
            BY <1>1, <1>5, <2>3, <1>0 DEF Numbered
        <3>2. PICK k \in Int : /\ Linked(k)
                               /\ k + Len(log) + Len(rx_fifo) + Len(hardware) = arrived
            BY <3>1 DEF IInv, RxInv
        <3>3. Linked(k)' /\ k + Len(log) + Len(rx_fifo') + (Len(hardware) - n) = arrived
            BY <1>7, <3>2
        <3>4. k + Len(log') + Len(rx_fifo') + Len(hardware') = arrived'
            <4>1. Len(hardware') = 0 /\ log' = log /\ arrived' = arrived
                BY <1>2
            <4>2. Len(rx_fifo') \in Nat /\ Len(hardware) - n = 0
                BY <1>1, <1>4, <3>1, <1>0 DEF Numbered
            <4>3. k + Len(log) + Len(rx_fifo') + 0 = arrived
                BY <3>3, <4>2
            <4> QED BY <4>1, <4>3
        <3> QED BY <3>3, <3>4
    <2>4. ASSUME reader' = "checked"
          PROVE  /\ \E k \in Int : Linked(k)'
                 /\ stats'.rx_dropped = 0 \/ Len(rx_fifo') = RxCapacity
        <3>1. reader = "checked"
            BY <1>2, <2>4
        <3>2. CASE stats.rx_dropped = 0
            <4>1. \E k \in Int : Linked(k)'
                BY <1>7, <3>2 DEF IInv, RxInv
            <4>2. n < Len(hardware) => Len(rx_fifo') = RxCapacity
                BY <1>1, <1>4, <1>0 DEF Numbered
            <4>3. ~(n < Len(hardware)) => stats'.rx_dropped = 0
                BY <1>1, <1>5, <3>2, <1>0 DEF Numbered
            <4> QED BY <4>1, <4>2, <4>3
        <3>3. CASE stats.rx_dropped # 0
            <4>1. Len(rx_fifo) = RxCapacity /\ (\E k \in Int : Linked(k))
                BY <3>1, <3>3 DEF IInv, RxInv
            <4>2. n = 0
                BY <1>1, <4>1, <1>0 DEF Numbered
            <4>3. rx_fifo' = rx_fifo /\ log' = log
                BY <1>2, <1>8, <4>2
            <4> QED BY <4>1, <4>3 DEF Linked
        <3> QED BY <3>2, <3>3
    <2> QED BY <2>1, <2>2, <2>3, <2>4 DEF RxInv
<1>10. TxInv'
    BY <1>2, <1>5 DEF IInv, TxInv, txVars
<1>11. NoLostWakeup'
    BY <1>2 DEF NoLostWakeup
<1> QED BY <1>6, <1>9, <1>10, <1>11 DEF IInv

\* What changes on the sending side only keeps the receiving side's invariant.
LEMMA RxKept ==
    ASSUME IInv, UNCHANGED rxVars, stats'.rx_dropped = stats.rx_dropped
    PROVE  RxInv' /\ NoLostWakeup'
    BY DEF rxVars, IInv, RxInv, Linked, NoLostWakeup

\* write() puts bytes into the ring.
LEMMA PushStep ==
    ASSUME IInv, NEW len \in WriteSizes, WritePush(len) PROVE IInv'
<1>0. Numbered
    BY Numbers
<1> DEFINE n == Smaller(len, TxCapacity - Len(tx_fifo))
           new == [k \in 1 .. n |-> accepted + k]
<1>1. n \in Nat /\ n <= TxCapacity - Len(tx_fifo)
    BY UartAssumption, <1>0 DEF Numbered, Smaller
<1>2. /\ tx_fifo' = tx_fifo \o new /\ accepted' = accepted + n
      /\ UNCHANGED <<stats, rxVars, wire, base>>
    BY DEF WritePush
<1> HIDE DEF n
<1>3. new \in Seq(Nat) /\ Len(new) = n /\ Run(new, accepted)
    BY <1>1, RunNew DEF IInv, Types
<1> HIDE DEF new
<1>4. /\ tx_fifo' \in Seq(Nat) /\ Len(tx_fifo') = Len(tx_fifo) + n
      /\ \A k \in Int : Run(tx_fifo, k) /\ Run(new, k + Len(tx_fifo)) => Run(tx_fifo', k)
    BY <1>2, <1>3, RunJoin DEF IInv, Types
<1>5. Types'
    <2>1. accepted' \in Nat /\ Len(tx_fifo') <= TxCapacity
        <3>1. accepted + n \in Nat /\ Len(tx_fifo) + n <= TxCapacity
            BY <1>1, <1>0 DEF Numbered
        <3>2. Len(tx_fifo') = Len(tx_fifo) + n /\ accepted' = accepted + n
            BY <1>2, <1>4
        <3> QED BY <3>1, <3>2, Zenon
    <2> QED BY <1>2, <1>4, <2>1 DEF IInv, Types, rxVars
<1>6. TxInv'
    <2> SUFFICES ASSUME ~stats.tx_error
                 PROVE  /\ Len(wire) + Len(tx_fifo') + stats.tx_dropped = accepted' - base
                        /\ stats.tx_dropped = 0 => Run(wire, base)
                                                   /\ Run(tx_fifo', base + Len(wire))
        BY <1>2 DEF TxInv
    <2>1. Len(wire) + Len(tx_fifo) + stats.tx_dropped = accepted - base
        BY DEF IInv, TxInv
    <2>2. Len(wire) + Len(tx_fifo') + stats.tx_dropped = accepted' - base
        <3>1. Len(wire) + (Len(tx_fifo) + n) + stats.tx_dropped = (accepted + n) - base
            <4>1. /\ Len(wire) \in Nat /\ Len(tx_fifo) \in Nat /\ stats.tx_dropped \in Nat
                  /\ accepted \in Nat /\ base \in Nat
                BY <1>0, Zenon DEF Numbered
            <4> QED BY <1>1, <2>1, <4>1
        <3>2. Len(tx_fifo') = Len(tx_fifo) + n /\ accepted' = accepted + n
            BY <1>2, <1>4
        <3> QED BY <3>1, <3>2, Zenon
    <2>3. ASSUME stats.tx_dropped = 0
          PROVE  Run(wire, base) /\ Run(tx_fifo', base + Len(wire))
        <3>1. Run(wire, base) /\ Run(tx_fifo, base + Len(wire))
            BY <2>3 DEF IInv, TxInv
        <3>2. base + Len(wire) \in Int /\ base + Len(wire) + Len(tx_fifo) = accepted
            BY <2>1, <2>3, <1>0 DEF Numbered
        <3> QED BY <1>3, <1>4, <3>1, <3>2
    <2> QED BY <2>2, <2>3
<1> QED BY <1>2, <1>5, <1>6, RxKept DEF IInv

\* The transmit interrupt.
LEMMA FillStep ==
    ASSUME IInv, TxError \/ \E taken \in 0 .. HwTx : TxFill(taken) PROVE IInv'
<1>0. Numbered
    BY Numbers
<1> DEFINE rest == Rest(tx_fifo, Popped)
<1>1. Popped \in 0 .. Len(tx_fifo)
    BY <1>0 DEF Numbered, Popped, Smaller
<1>2. /\ rest \in Seq(Nat) /\ Len(rest) = Len(tx_fifo) - Popped
      /\ \A k \in Int : Run(tx_fifo, k) => Run(rest, k + Popped)
    BY <1>1, RunSplit DEF IInv, Types
<1> HIDE DEF rest
<1>3. CASE TxError
    <2>1. /\ tx_fifo' = rest /\ stats' = [stats EXCEPT !.tx_error = TRUE]
          /\ UNCHANGED <<rxVars, accepted, wire, base>>
        BY <1>3 DEF TxError, rest
    <2>2. stats' \in Stats /\ stats'.rx_dropped = stats.rx_dropped /\ stats'.tx_error
        BY <2>1, Counted DEF IInv, Types
    <2>3. Types'
        <3>1. Len(tx_fifo') <= TxCapacity
            BY <1>1, <1>2, <2>1, <1>0 DEF Numbered
        <3> QED BY <1>2, <2>1, <2>2, <3>1 DEF IInv, Types, rxVars
    <2>4. TxInv'
        BY <2>2 DEF TxInv
    <2> QED BY <2>1, <2>2, <2>3, <2>4, RxKept DEF IInv
<1>4. ASSUME NEW taken \in 0 .. HwTx, TxFill(taken) PROVE IInv'
    <2> DEFINE first == First(tx_fifo, taken)
    <2>1. /\ taken <= Popped /\ tx_fifo' = rest /\ wire' = wire \o first
          /\ stats' = [stats EXCEPT !.tx_dropped = stats.tx_dropped + (Popped - taken)]
          /\ UNCHANGED <<rxVars, accepted, base>>
        BY <1>4 DEF TxFill, rest
    <2>2. taken \in 0 .. Len(tx_fifo) /\ Popped - taken \in Nat
        <3>1. Popped \in Nat /\ Popped <= Len(tx_fifo) /\ taken \in Nat /\ taken <= Popped
            BY <1>1, <2>1, <1>0 DEF Numbered
        <3> QED BY <3>1, <1>0 DEF Numbered
    <2>3. /\ first \in Seq(Nat) /\ Len(first) = taken
          /\ \A k \in Int : Run(tx_fifo, k) => Run(first, k)
        BY <2>2, RunSplit DEF IInv, Types
    <2> HIDE DEF first
    <2>4. /\ wire' \in Seq(Nat) /\ Len(wire') = Len(wire) + taken
          /\ \A k \in Int : Run(wire, k) /\ Run(first, k + Len(wire)) => Run(wire', k)
        BY <2>1, <2>3, RunJoin DEF IInv, Types
    <2>5. /\ stats' \in Stats
          /\ stats'.rx_dropped = stats.rx_dropped /\ stats'.tx_error = stats.tx_error
          /\ stats'.tx_dropped = stats.tx_dropped + (Popped - taken)
        BY <2>1, <2>2, Counted DEF IInv, Types
    <2>6. Types'
        <3>1. Len(tx_fifo') <= TxCapacity
            <4>1. Len(tx_fifo) \in Nat /\ TxCapacity \in Nat /\ Len(tx_fifo) <= TxCapacity
                BY <1>0, Zenon DEF Numbered
            <4> QED BY <1>1, <1>2, <2>1, <4>1
        <3> QED BY <1>2, <2>1, <2>4, <2>5, <3>1 DEF IInv, Types, rxVars
    <2>7. TxInv'
        <3> SUFFICES ASSUME ~stats.tx_error
                     PROVE  /\ Len(wire') + Len(tx_fifo') + stats'.tx_dropped = accepted - base
                            /\ stats'.tx_dropped = 0 =>
                                 Run(wire', base) /\ Run(tx_fifo', base + Len(wire'))
            BY <2>1, <2>5 DEF TxInv
        <3>1. Len(wire) + Len(tx_fifo) + stats.tx_dropped = accepted - base
            BY DEF IInv, TxInv
        <3>2. Len(wire') + Len(tx_fifo') + stats'.tx_dropped = accepted - base
            <4>1. /\ Len(tx_fifo') = Len(tx_fifo) - Popped /\ Len(wire') = Len(wire) + taken
                  /\ stats'.tx_dropped = stats.tx_dropped + (Popped - taken)
                BY <1>2, <2>1, <2>4, <2>5
            <4>2. taken \in Nat /\ Popped \in Nat
                BY <1>1, <2>2, <1>0 DEF Numbered
            <4>3. (Len(wire) + taken) + (Len(tx_fifo) - Popped)
                    + (stats.tx_dropped + (Popped - taken)) = accepted - base
                BY <3>1, <4>2, <1>0 DEF Numbered
            <4> QED BY <4>1, <4>3, Zenon
        <3>3. ASSUME stats'.tx_dropped = 0
              PROVE  Run(wire', base) /\ Run(tx_fifo', base + Len(wire'))
            <4>1. stats.tx_dropped = 0 /\ taken = Popped
                BY <1>1, <2>2, <2>5, <3>3, <1>0 DEF Numbered
            <4>2. Run(wire, base) /\ Run(tx_fifo, base + Len(wire))
                BY <4>1 DEF IInv, TxInv
            <4>3. /\ base \in Int /\ base + Len(wire) \in Int
                  /\ base + Len(wire) + Popped = base + Len(wire')
                BY <1>1, <2>4, <4>1, <1>0 DEF Numbered
            <4>4. Run(first, base + Len(wire)) /\ Run(rest, base + Len(wire) + Popped)
                BY <1>2, <2>3, <4>2, <4>3
            <4> QED BY <2>1, <2>4, <4>2, <4>3, <4>4
        <3> QED BY <3>2, <3>3
    <2> QED BY <2>1, <2>5, <2>6, <2>7, RxKept DEF IInv
<1> QED BY <1>3, <1>4

\* The invariant holds in every state.
LEMMA IInvHolds == Spec => []IInv
<1>1. IInv /\ [Next]_vars => IInv'
    <2> SUFFICES ASSUME IInv, [Next]_vars PROVE IInv'
        OBVIOUS
    <2>1. CASE UNCHANGED vars
        BY <2>1 DEF vars, rxVars, txVars, IInv, Types, RxInv, Linked, TxInv, NoLostWakeup
    <2> QED BY <2>1, EnableStep, QuietStep, PopStep, ArriveStep, RxStep, PushStep, FillStep
            DEF Next, ReaderSteps, TxInterrupt
<1> QED BY InitInv, <1>1, PTL DEF Spec

\* Bytes are read without a gap, and as long as none was dropped the ring continues them.
THEOREM RxAlwaysInOrder == Spec => []RxInOrder
<1>1. IInv => RxInOrder
    <2> SUFFICES ASSUME IInv PROVE RxInOrder
        OBVIOUS
    <2>1. Consecutive(log)
        BY RunConsecutive DEF IInv, RxInv, Types
    <2>2. ASSUME stats.rx_dropped = 0 PROVE Consecutive(log \o rx_fifo)
        <3>1. PICK k \in Int : Linked(k)
            BY <2>2 DEF IInv, RxInv
        <3>2. log \o rx_fifo \in Seq(Nat) /\ Run(log \o rx_fifo, k)
            BY <3>1, RunJoin DEF IInv, Types, Linked
        <3> QED BY <3>2, RunConsecutive
    <2> QED BY <2>1, <2>2 DEF RxInOrder
<1> QED BY IInvHolds, <1>1, PTL

\* What write() has accepted is on the wire, in the ring, or counted, unless the driver
\* had an error.
THEOREM TxAlwaysAccounted == Spec => []TxAccounted
<1>1. IInv => TxAccounted
    <2> SUFFICES ASSUME IInv, ~stats.tx_error
                 PROVE  /\ Len(wire) + Len(tx_fifo) + stats.tx_dropped = accepted - base
                        /\ stats.tx_dropped = 0 => Consecutive(wire \o tx_fifo)
        BY DEF TxAccounted
    <2>1. Len(wire) + Len(tx_fifo) + stats.tx_dropped = accepted - base
        BY DEF IInv, TxInv
    <2>2. ASSUME stats.tx_dropped = 0 PROVE Consecutive(wire \o tx_fifo)
        <3>1. base \in Int /\ Run(wire, base) /\ Run(tx_fifo, base + Len(wire))
            BY <2>2 DEF IInv, TxInv, Types
        <3>2. wire \o tx_fifo \in Seq(Nat) /\ Run(wire \o tx_fifo, base)
            BY <3>1, RunJoin DEF IInv, Types
        <3> QED BY <3>1, <3>2, RunConsecutive
    <2> QED BY <2>1, <2>2
<1> QED BY IInvHolds, <1>1, PTL

\* The reader is told of what it has not read.
THEOREM WakeupNeverLost == Spec => []NoLostWakeup
<1>1. IInv => NoLostWakeup
    BY DEF IInv
<1> QED BY IInvHolds, <1>1, PTL

-----------------------------------------------------------------------------
(* Types.                                                                  *)

Queues ==
    /\ hardware \in Seq(Bytes) /\ Len(hardware) <= HwRx
    /\ rx_fifo \in Seq(Bytes) /\ Len(rx_fifo) <= RxCapacity
    /\ tx_fifo \in Seq(Bytes) /\ Len(tx_fifo) <= TxCapacity
    /\ log \in Seq(Bytes) /\ wire \in Seq(Bytes)

\* Each byte that has arrived, or was accepted, is in one place at most.
Budget ==
    /\ stats \in Stats
    /\ arrived \in 0 .. MaxBytes /\ accepted \in 0 .. MaxBytes /\ base \in Nat
    /\ Len(log) + Len(rx_fifo) + Len(hardware) + stats.rx_dropped <= arrived
    /\ base + Len(wire) + Len(tx_fifo) + stats.tx_dropped <= accepted

\* An interrupt is enabled, or a write() is under way, only while the port is enabled.
Control ==
    /\ enabled \in BOOLEAN
    /\ irqs \subseteq {"tx", "rx"} /\ (irqs # {} => enabled)
    /\ posted \in BOOLEAN
    /\ reader \in {"waiting", "reading", "checked", "failed"}
    /\ writer \in {"out", "checked", "pushed"} /\ (writer # "out" => enabled)
    /\ enables \in 0 .. MaxEnables

TypeInv == Queues /\ Budget /\ Control

\* A queue that is cut ...
LEMMA Cut ==
    ASSUME NEW s \in Seq(Bytes), NEW n \in 0 .. Len(s)
    PROVE  /\ First(s, n) \in Seq(Bytes) /\ Len(First(s, n)) = n
           /\ Rest(s, n) \in Seq(Bytes) /\ Len(Rest(s, n)) = Len(s) - n
    BY DEF First, Rest

\* ... and one that is continued.
LEMMA Continued ==
    ASSUME NEW s \in Seq(Bytes), NEW t \in Seq(Bytes)
    PROVE  s \o t \in Seq(Bytes) /\ Len(s \o t) = Len(s) + Len(t)
    OBVIOUS

\* The numbers of a state, as Numbered gives them for IInv.
Counts ==
    /\ Len(hardware) \in Nat /\ Len(rx_fifo) \in Nat /\ Len(log) \in Nat
    /\ Len(tx_fifo) \in Nat /\ Len(wire) \in Nat
    /\ arrived \in Nat /\ accepted \in Nat /\ base \in Nat
    /\ stats.rx_dropped \in Nat /\ stats.tx_dropped \in Nat
    /\ RxCapacity \in Nat /\ TxCapacity \in Nat /\ TxChunk \in Nat /\ HwTx \in Nat
    /\ HwRx \in Nat /\ MaxBytes \in Nat
    /\ Len(rx_fifo) <= RxCapacity /\ Len(tx_fifo) <= TxCapacity /\ Len(hardware) <= HwRx
    /\ arrived <= MaxBytes /\ accepted <= MaxBytes
    /\ Len(log) + Len(rx_fifo) + Len(hardware) + stats.rx_dropped <= arrived
    /\ base + Len(wire) + Len(tx_fifo) + stats.tx_dropped <= accepted

LEMMA CountsHold == TypeInv => Counts
<1> SUFFICES ASSUME TypeInv PROVE Counts
    OBVIOUS
<1>1. /\ Len(hardware) \in Nat /\ Len(rx_fifo) \in Nat /\ Len(log) \in Nat
      /\ Len(tx_fifo) \in Nat /\ Len(wire) \in Nat
      /\ Len(rx_fifo) <= RxCapacity /\ Len(tx_fifo) <= TxCapacity /\ Len(hardware) <= HwRx
    BY DEF TypeInv, Queues
<1>2. /\ RxCapacity \in Nat /\ TxCapacity \in Nat /\ TxChunk \in Nat /\ HwTx \in Nat
      /\ HwRx \in Nat /\ MaxBytes \in Nat
    BY UartAssumption
<1>3. stats.rx_dropped \in Nat /\ stats.tx_dropped \in Nat
    BY DEF TypeInv, Budget, Stats
<1>4. /\ arrived \in Nat /\ accepted \in Nat /\ base \in Nat
      /\ arrived <= MaxBytes /\ accepted <= MaxBytes
    BY <1>2 DEF TypeInv, Budget
<1> QED BY <1>1, <1>2, <1>3, <1>4, Zenon DEF TypeInv, Budget, Counts

\* Every step keeps the control state in order.
LEMMA ControlStep ==
    ASSUME Control, Next PROVE Control'
<1> USE DEF Control
<1>1. ASSUME NEW on \in BOOLEAN, Enable(on) PROVE Control'
    <2>1. enables' \in 0 .. MaxEnables
        BY <1>1, UartAssumption DEF Enable
    <2>2. /\ enabled' = on /\ irqs' = (IF on THEN {"rx"} ELSE {})
          /\ reader' = "waiting" /\ writer = "out" /\ writer' = writer /\ posted' = posted
        BY <1>1, Zenon DEF Enable
    <2> QED BY <2>1, <2>2
<1>2. CASE Wake
    <2>1. posted' \in BOOLEAN
        BY <1>2, Zenon DEF Wake
    <2> QED BY <1>2, <2>1 DEF Wake, txVars
<1>3. CASE ReadCheck BY <1>3 DEF ReadCheck, txVars
<1>4. ASSUME NEW size \in ReadSizes, ReadPop(size) PROVE Control'
    <2>1. reader' \in {"waiting", "reading"}
          /\ UNCHANGED <<enabled, irqs, enables, posted, writer>>
        BY <1>4 DEF ReadPop, txVars
    <2> QED BY <2>1
<1>5. CASE WriteCheck BY <1>5 DEF WriteCheck, rxVars
<1>6. CASE WriteArm BY <1>6 DEF WriteArm, rxVars
<1>7. ASSUME NEW len \in WriteSizes, WritePush(len) PROVE Control'
    <2>1. writer = "checked" /\ writer' \in {"pushed", "out"}
          /\ UNCHANGED <<enabled, irqs, enables, posted, reader>>
        BY <1>7 DEF WritePush, rxVars
    <2> QED BY <2>1
<1>8. CASE Arrive BY <1>8 DEF Arrive, txVars
<1>9. CASE Rx
    <2>1. posted' \in BOOLEAN
        BY <1>9, Zenon DEF Rx
    <2>2. UNCHANGED <<enabled, irqs, enables, reader, writer>>
        BY <1>9, Zenon DEF Rx, txVars
    <2> QED BY <2>1, <2>2
<1>10. CASE RxError BY <1>10 DEF RxError, rxVars, txVars
<1>11. CASE TxNothing BY <1>11 DEF TxNothing, rxVars, txVars
<1>12. CASE TxError BY <1>12 DEF TxError, rxVars
<1>13. ASSUME NEW taken \in 0 .. HwTx, TxFill(taken) PROVE Control'
    <2>1. irqs' \subseteq irqs /\ UNCHANGED <<enabled, enables, posted, reader, writer>>
        BY <1>13 DEF TxFill, rxVars
    <2> QED BY <2>1
<1> QED BY <1>1, <1>2, <1>3, <1>4, <1>5, <1>6, <1>7, <1>8, <1>9, <1>10, <1>11, <1>12, <1>13
        DEF Next, ReaderSteps, TxInterrupt

\* enable(), the reader and the bytes that arrive keep the queues and the budget ...
LEMMA ReadTypes ==
    ASSUME TypeInv,
           \/ \E on \in BOOLEAN : Enable(on)
           \/ \E size \in ReadSizes : ReadPop(size)
           \/ Arrive \/ Rx
    PROVE  Queues' /\ Budget'
<1>0. Counts
    BY CountsHold
<1>1. ASSUME NEW on \in BOOLEAN, Enable(on) PROVE Queues' /\ Budget'
    <2>1. /\ rx_fifo' = <<>> /\ tx_fifo' = <<>> /\ log' = <<>> /\ wire' = <<>>
          /\ stats' = NoStats /\ base' = accepted
          /\ UNCHANGED <<hardware, arrived, accepted>>
        BY <1>1 DEF Enable
    <2>2. stats' \in Stats /\ stats'.rx_dropped = 0 /\ stats'.tx_dropped = 0
        BY <2>1 DEF NoStats, Stats
    <2>3. Len(hardware) <= arrived
        BY <1>0 DEF Counts
    <2> QED BY <1>0, <2>1, <2>2, <2>3 DEF TypeInv, Queues, Budget, Counts
<1>2. ASSUME NEW size \in ReadSizes, ReadPop(size) PROVE Queues' /\ Budget'
    <2> DEFINE n == Smaller(size, Len(rx_fifo))
               first == First(rx_fifo, n)
               rest == Rest(rx_fifo, n)
    <2>1. n \in 0 .. Len(rx_fifo)
        BY <1>0, UartAssumption DEF Counts, Smaller
    <2>2. /\ log' = log \o first /\ rx_fifo' = rest
          /\ UNCHANGED <<stats, hardware, arrived, txVars>>
        BY <1>2 DEF ReadPop
    <2> HIDE DEF n
    <2>3. /\ first \in Seq(Bytes) /\ Len(first) = n
          /\ rest \in Seq(Bytes) /\ Len(rest) = Len(rx_fifo) - n
        BY <2>1, Cut DEF TypeInv, Queues
    <2> HIDE DEF first, rest
    <2>4. log' \in Seq(Bytes) /\ Len(log') = Len(log) + n
        BY <2>2, <2>3, Continued DEF TypeInv, Queues
    <2>5. Queues'
        <3>1. Len(rx_fifo') <= RxCapacity
            BY <1>0, <2>1, <2>2, <2>3 DEF Counts
        <3> QED BY <2>2, <2>3, <2>4, <3>1 DEF TypeInv, Queues, txVars
    <2>6. Len(log') + Len(rx_fifo') + Len(hardware) + stats.rx_dropped <= arrived
        <3>1. (Len(log) + n) + (Len(rx_fifo) - n) + Len(hardware) + stats.rx_dropped <= arrived
            BY <1>0, <2>1 DEF Counts
        <3> QED BY <2>2, <2>3, <2>4, <3>1, Zenon
    <2> QED BY <2>2, <2>5, <2>6 DEF TypeInv, Budget, txVars
<1>3. CASE Arrive
    <2>1. /\ arrived < MaxBytes /\ Len(hardware) < HwRx
          /\ arrived' = arrived + 1 /\ hardware' = Append(hardware, arrived + 1)
          /\ UNCHANGED <<stats, rx_fifo, log, txVars>>
        BY <1>3 DEF Arrive
    <2>2. arrived + 1 \in Bytes /\ arrived' \in 0 .. MaxBytes
        BY <1>0, <2>1 DEF Counts, Bytes
    <2>3. hardware' \in Seq(Bytes) /\ Len(hardware') = Len(hardware) + 1
        BY <2>1, <2>2 DEF TypeInv, Queues
    <2>4. Len(hardware') <= HwRx
        BY <1>0, <2>1, <2>3 DEF Counts
    <2>5. Len(log) + Len(rx_fifo) + Len(hardware') + stats.rx_dropped <= arrived'
        <3>1. Len(log) + Len(rx_fifo) + (Len(hardware) + 1) + stats.rx_dropped <= arrived + 1
            <4>1. /\ Len(hardware) \in Nat /\ Len(rx_fifo) \in Nat /\ Len(log) \in Nat
                  /\ arrived \in Nat /\ stats.rx_dropped \in Nat
                  /\ Len(log) + Len(rx_fifo) + Len(hardware) + stats.rx_dropped <= arrived
                BY <1>0, Zenon DEF Counts
            <4> QED BY <4>1
        <3>2. arrived' = arrived + 1 /\ log' = log /\ rx_fifo' = rx_fifo /\ stats' = stats
            BY <2>1
        <3> QED BY <2>3, <3>1, <3>2
    <2> QED BY <2>1, <2>2, <2>3, <2>4, <2>5 DEF TypeInv, Queues, Budget, txVars
<1>4. CASE Rx
    <2> DEFINE n == Smaller(Len(hardware), RxCapacity - Len(rx_fifo))
               first == First(hardware, n)
    <2>1. n \in 0 .. Len(hardware) /\ n <= RxCapacity - Len(rx_fifo)
        <3>1. /\ Len(hardware) \in Nat /\ Len(rx_fifo) \in Nat /\ RxCapacity \in Nat
              /\ Len(rx_fifo) <= RxCapacity
            BY <1>0, Zenon DEF Counts
        <3> QED BY <3>1 DEF Smaller
    <2>2. /\ rx_fifo' = rx_fifo \o first /\ hardware' = <<>>
          /\ stats' = [stats EXCEPT !.rx_dropped = stats.rx_dropped + (Len(hardware) - n)]
          /\ UNCHANGED <<arrived, log, txVars>>
        BY <1>4 DEF Rx
    <2> HIDE DEF n
    <2>3. first \in Seq(Bytes) /\ Len(first) = n
        BY <2>1, Cut DEF TypeInv, Queues
    <2> HIDE DEF first
    <2>4. rx_fifo' \in Seq(Bytes) /\ Len(rx_fifo') = Len(rx_fifo) + n
        BY <2>2, <2>3, Continued DEF TypeInv, Queues
    <2>5. /\ stats' \in Stats
          /\ stats'.rx_dropped = stats.rx_dropped + (Len(hardware) - n)
          /\ stats'.tx_dropped = stats.tx_dropped
        <3>1. Len(hardware) - n \in Nat
            BY <1>0, <2>1 DEF Counts
        <3> QED BY <2>2, <3>1, Counted DEF TypeInv, Budget
    <2>6. Queues'
        <3>1. Len(rx_fifo') <= RxCapacity
            BY <1>0, <2>1, <2>4 DEF Counts
        <3>2. hardware' \in Seq(Bytes) /\ Len(hardware') = 0 /\ Len(hardware') <= HwRx
            BY <1>0, <2>2 DEF Counts
        <3> QED BY <2>2, <2>4, <3>1, <3>2 DEF TypeInv, Queues, txVars
    <2>7. Len(log) + Len(rx_fifo') + Len(hardware') + stats'.rx_dropped <= arrived
        <3>1. Len(log) + (Len(rx_fifo) + n) + 0 + (stats.rx_dropped + (Len(hardware) - n))
                <= arrived
            <4>1. /\ Len(hardware) \in Nat /\ Len(rx_fifo) \in Nat /\ Len(log) \in Nat
                  /\ arrived \in Nat /\ stats.rx_dropped \in Nat
                  /\ Len(log) + Len(rx_fifo) + Len(hardware) + stats.rx_dropped <= arrived
                BY <1>0, Zenon DEF Counts
            <4>2. n \in Nat
                BY <2>1, <4>1
            <4> QED BY <4>1, <4>2
        <3>2. Len(hardware') = 0
            BY <2>2
        <3> QED BY <2>4, <2>5, <3>1, <3>2, Zenon
    <2> QED BY <2>2, <2>5, <2>6, <2>7 DEF TypeInv, Budget, txVars
<1> QED BY <1>1, <1>2, <1>3, <1>4

\* ... and so do write() and the transmit interrupt.
LEMMA WriteTypes ==
    ASSUME TypeInv,
           \/ \E len \in WriteSizes : WritePush(len)
           \/ TxError \/ \E taken \in 0 .. HwTx : TxFill(taken)
    PROVE  Queues' /\ Budget'
<1>0. Counts
    BY CountsHold
<1>fits. /\ Len(tx_fifo) \in Nat /\ Len(wire) \in Nat
         /\ accepted \in Nat /\ base \in Nat /\ stats.tx_dropped \in Nat
         /\ TxCapacity \in Nat /\ TxChunk \in Nat
         /\ Len(tx_fifo) <= TxCapacity /\ MaxBytes \in Nat
         /\ base + Len(wire) + Len(tx_fifo) + stats.tx_dropped <= accepted
    BY <1>0, Zenon DEF Counts
<1> DEFINE rest == Rest(tx_fifo, Popped)
<1>1. Popped \in 0 .. Len(tx_fifo)
    BY <1>fits DEF Popped, Smaller
<1>2. rest \in Seq(Bytes) /\ Len(rest) = Len(tx_fifo) - Popped
    BY <1>1, Cut DEF TypeInv, Queues
<1>3. Len(rest) <= TxCapacity
    BY <1>1, <1>2, <1>fits
<1> HIDE DEF rest
<1>4. ASSUME NEW len \in WriteSizes, WritePush(len) PROVE Queues' /\ Budget'
    <2> DEFINE n == Smaller(len, TxCapacity - Len(tx_fifo))
               new == [k \in 1 .. n |-> accepted + k]
    <2>1. n \in Nat /\ n <= TxCapacity - Len(tx_fifo) /\ accepted + n <= MaxBytes
        <3>1. len \in Nat /\ accepted + len <= MaxBytes
            BY <1>4, UartAssumption DEF WritePush
        <3> QED BY <1>fits, <3>1 DEF Smaller
    <2>2. /\ tx_fifo' = tx_fifo \o new /\ accepted' = accepted + n
          /\ UNCHANGED <<stats, rxVars, wire, base>>
        BY <1>4 DEF WritePush
    <2> HIDE DEF n
    <2>3. new \in Seq(Bytes) /\ Len(new) = n
        <3>1. \A k \in 1 .. n : accepted + k \in Bytes
            BY <1>fits, <2>1 DEF Bytes
        <3>2. new \in [1 .. n -> Bytes]
            BY <3>1
        <3> QED BY <2>1, <3>2
    <2> HIDE DEF new
    <2>4. tx_fifo' \in Seq(Bytes) /\ Len(tx_fifo') = Len(tx_fifo) + n
        BY <2>2, <2>3, Continued DEF TypeInv, Queues
    <2>5. Len(tx_fifo') <= TxCapacity /\ accepted' \in 0 .. MaxBytes
        BY <1>fits, <2>1, <2>2, <2>4
    <2>6. base + Len(wire) + Len(tx_fifo') + stats.tx_dropped <= accepted'
        <3>1. base + Len(wire) + (Len(tx_fifo) + n) + stats.tx_dropped <= accepted + n
            BY <1>fits, <2>1
        <3> QED BY <2>2, <2>4, <3>1
    <2> QED BY <2>2, <2>4, <2>5, <2>6 DEF TypeInv, Queues, Budget, rxVars
<1>5. CASE TxError
    <2>1. /\ tx_fifo' = rest /\ stats' = [stats EXCEPT !.tx_error = TRUE]
          /\ UNCHANGED <<rxVars, accepted, wire, base>>
        BY <1>5 DEF TxError, rest
    <2>2. /\ stats' \in Stats /\ stats'.rx_dropped = stats.rx_dropped
          /\ stats'.tx_dropped = stats.tx_dropped
        BY <2>1 DEF TypeInv, Budget, Stats
    <2>3. base + Len(wire) + Len(tx_fifo') + stats'.tx_dropped <= accepted
        <3>1. base + Len(wire) + (Len(tx_fifo) - Popped) + stats.tx_dropped <= accepted
            BY <1>1, <1>fits
        <3> QED BY <1>2, <2>1, <2>2, <3>1
    <2> QED BY <1>2, <1>3, <2>1, <2>2, <2>3 DEF TypeInv, Queues, Budget, rxVars
<1>6. ASSUME NEW taken \in 0 .. HwTx, TxFill(taken) PROVE Queues' /\ Budget'
    <2> DEFINE first == First(tx_fifo, taken)
    <2>1. /\ taken <= Popped /\ tx_fifo' = rest /\ wire' = wire \o first
          /\ stats' = [stats EXCEPT !.tx_dropped = stats.tx_dropped + (Popped - taken)]
          /\ UNCHANGED <<rxVars, accepted, base>>
        BY <1>6 DEF TxFill, rest
    <2>2. taken \in 0 .. Len(tx_fifo) /\ Popped - taken \in Nat
        <3>1. taken \in Nat /\ Popped \in Nat /\ Popped <= Len(tx_fifo)
            BY <1>0, <1>1, <1>fits DEF Counts
        <3> QED BY <1>fits, <2>1, <3>1
    <2>3. first \in Seq(Bytes) /\ Len(first) = taken
        BY <2>2, Cut DEF TypeInv, Queues
    <2> HIDE DEF first
    <2>4. wire' \in Seq(Bytes) /\ Len(wire') = Len(wire) + taken
        BY <2>1, <2>3, Continued DEF TypeInv, Queues
    <2>5. /\ stats' \in Stats /\ stats'.rx_dropped = stats.rx_dropped
          /\ stats'.tx_dropped = stats.tx_dropped + (Popped - taken)
        BY <2>1, <2>2, Counted DEF TypeInv, Budget
    <2>6. base + Len(wire') + Len(tx_fifo') + stats'.tx_dropped <= accepted
        <3>1. base + (Len(wire) + taken) + (Len(tx_fifo) - Popped)
                + (stats.tx_dropped + (Popped - taken)) <= accepted
            <4>1. taken \in Nat /\ Popped \in Nat
                BY <1>1, <1>fits, <2>2
            <4> QED BY <1>fits, <4>1
        <3>2. Len(tx_fifo') = Len(tx_fifo) - Popped
            BY <1>2, <2>1
        <3> QED BY <2>4, <2>5, <3>1, <3>2, Zenon
    <2> QED BY <1>2, <1>3, <2>1, <2>4, <2>5, <2>6 DEF TypeInv, Queues, Budget, rxVars
<1> QED BY <1>4, <1>5, <1>6

\* The other steps move nothing.
LEMMA QuietTypes ==
    ASSUME TypeInv, Wake \/ ReadCheck \/ WriteCheck \/ WriteArm \/ RxError \/ TxNothing
    PROVE  Queues' /\ Budget'
<1>1. /\ UNCHANGED <<hardware, rx_fifo, log, arrived, tx_fifo, wire, accepted, base>>
      /\ stats' \in Stats
      /\ stats'.rx_dropped = stats.rx_dropped /\ stats'.tx_dropped = stats.tx_dropped
    BY DEF Wake, ReadCheck, WriteCheck, WriteArm, RxError, TxNothing, rxVars, txVars,
        TypeInv, Budget, Stats
<1> QED BY <1>1 DEF TypeInv, Queues, Budget

\* For any sizes: no queue outgrows its capacity, no count its bound, no byte is held
\* twice, and interrupts are enabled only while the port is.
THEOREM TypeCorrect == Spec => []TypeOK
<1>1. Init => TypeInv
    <2> SUFFICES ASSUME Init PROVE TypeInv
        OBVIOUS
    <2>1. Queues
        BY UartAssumption DEF Init, Queues
    <2>2. stats \in Stats /\ stats.rx_dropped = 0 /\ stats.tx_dropped = 0
        BY DEF Init, NoStats, Stats
    <2>3. Budget
        BY <2>2, UartAssumption DEF Init, Budget
    <2>4. Control
        <3>1. enabled \in BOOLEAN /\ posted \in BOOLEAN
            BY Zenon DEF Init
        <3> QED BY <3>1, UartAssumption DEF Init, Control
    <2> QED BY <2>1, <2>3, <2>4 DEF TypeInv
<1>2. TypeInv /\ [Next]_vars => TypeInv'
    <2> SUFFICES ASSUME TypeInv, [Next]_vars PROVE TypeInv'
        OBVIOUS
    <2>1. CASE UNCHANGED vars
        BY <2>1 DEF vars, rxVars, txVars, TypeInv, Queues, Budget, Control
    <2>2. CASE Next
        <3>1. Control'
            BY <2>2, ControlStep DEF TypeInv
        <3>2. Queues' /\ Budget'
            BY <2>2, ReadTypes, WriteTypes, QuietTypes DEF Next, ReaderSteps, TxInterrupt
        <3> QED BY <3>1, <3>2 DEF TypeInv
    <2> QED BY <2>1, <2>2
<1>3. TypeInv => TypeOK
    <2> SUFFICES ASSUME TypeInv PROVE TypeOK
        OBVIOUS
    <2>0. Counts
        BY CountsHold
    <2>1. stats.rx_dropped \in 0 .. MaxBytes /\ stats.tx_dropped \in 0 .. MaxBytes
          /\ base \in 0 .. accepted
        <3>1. /\ Len(log) \in Nat /\ Len(rx_fifo) \in Nat /\ Len(hardware) \in Nat
              /\ Len(tx_fifo) \in Nat /\ Len(wire) \in Nat /\ base \in Nat
              /\ stats.rx_dropped \in Nat /\ stats.tx_dropped \in Nat
              /\ arrived \in Nat /\ accepted \in Nat /\ MaxBytes \in Nat
              /\ arrived <= MaxBytes /\ accepted <= MaxBytes
            BY <2>0, Zenon DEF Counts
        <3>2. /\ Len(log) + Len(rx_fifo) + Len(hardware) + stats.rx_dropped <= arrived
              /\ base + Len(wire) + Len(tx_fifo) + stats.tx_dropped <= accepted
            BY <2>0, Zenon DEF Counts
        <3>3. stats.rx_dropped <= arrived /\ stats.tx_dropped <= accepted /\ base <= accepted
            BY <3>1, <3>2
        <3> QED BY <3>1, <3>3
    <2>2. stats \in [rx_error : BOOLEAN, tx_error : BOOLEAN,
                     rx_dropped : 0 .. MaxBytes, tx_dropped : 0 .. MaxBytes]
        BY <2>1 DEF TypeInv, Budget, Stats
    <2> QED BY <2>1, <2>2, Zenon DEF TypeInv, Queues, Budget, Control, TypeOK
<1> QED BY <1>1, <1>2, <1>3, PTL DEF Spec

=============================================================================
