---------------------------- MODULE CanBus_proofs ---------------------------
(***************************************************************************)
(* For a ring, frames, reads and writes of any size, and any number of      *)
(* calls: the receiving side never passes a dropped byte without having     *)
(* said so, and what is sent is a prefix of each write, reported in whole   *)
(* only when it was given in whole.                                         *)
(***************************************************************************)
EXTENDS CanBus, TLAPS

\* The receiving side is well typed.
RxType ==
    /\ rx_fifo \in Seq(Nat) /\ Len(rx_fifo) <= RxCapacity
    /\ log \in Seq(Nat)
    /\ arrived \in Nat
    /\ untold \subseteq Nat

\* What is in the ring, or was read or dropped, has arrived.
Arrived ==
    /\ \A i \in 1 .. Len(rx_fifo) : rx_fifo[i] <= arrived
    /\ \A i \in 1 .. Len(log) : log[i] <= arrived
    /\ \A b \in untold : b <= arrived

\* The flag speaks for every byte that was dropped outside enable(), but while enable()
\* has still to reset the ring.
Flagged ==
    /\ ~started => untold = {}
    /\ reader = "clearing" => untold \subseteq met
    /\ untold \subseteq met \/ rx_overflow \/ reader = "emptying"

\* A read() that saw no overflow may pop what is in the ring: a byte dropped since then
\* comes after it, and found the ring full.
Popping ==
    reader = "popping" /\ ~(untold \subseteq met) =>
        /\ Len(rx_fifo) = RxCapacity
        /\ \A b \in untold \ met : \A i \in 1 .. Len(rx_fifo) : rx_fifo[i] < b

\* OverflowTold, with the domain of log written out.
Told == \A b \in untold \ met : \A i \in 1 .. Len(log) : log[i] < b

IInv == RxType /\ Arrived /\ Flagged /\ Popping /\ Told

-----------------------------------------------------------------------------

\* The elements of a sequence of numbers.
LEMMA Elements == ASSUME NEW s \in Seq(Nat) PROVE \A i \in 1 .. Len(s) : s[i] \in Nat
    OBVIOUS

\* Numbers that are at most a are at most, or below, what is larger.
LEMMA Later ==
    ASSUME NEW s \in Seq(Nat), NEW a \in Nat, NEW b \in Nat,
           \A i \in 1 .. Len(s) : s[i] <= a
    PROVE  /\ a <= b => \A i \in 1 .. Len(s) : s[i] <= b
           /\ a < b => \A i \in 1 .. Len(s) : s[i] < b
<1>1. \A i \in 1 .. Len(s) : s[i] \in Nat
    BY Elements
<1>2. ASSUME NEW i \in 1 .. Len(s) PROVE (a <= b => s[i] <= b) /\ (a < b => s[i] < b)
    BY <1>1, <1>2
<1> QED BY <1>2

\* The first and the remaining elements of a sequence of numbers.
LEMMA Split ==
    ASSUME NEW s \in Seq(Nat), NEW n \in 0 .. Len(s)
    PROVE  /\ SubSeq(s, 1, n) \in Seq(Nat) /\ Len(SubSeq(s, 1, n)) = n
           /\ \A i \in 1 .. n : SubSeq(s, 1, n)[i] = s[i]
           /\ SubSeq(s, n + 1, Len(s)) \in Seq(Nat)
           /\ Len(SubSeq(s, n + 1, Len(s))) = Len(s) - n
           /\ \A i \in 1 .. Len(s) - n : SubSeq(s, n + 1, Len(s))[i] = s[n + i]
    OBVIOUS

\* A sequence put behind another.
LEMMA Joined ==
    ASSUME NEW s \in Seq(Nat), NEW t \in Seq(Nat)
    PROVE  /\ s \o t \in Seq(Nat) /\ Len(s \o t) = Len(s) + Len(t)
           /\ \A i \in 1 .. Len(s) : (s \o t)[i] = s[i]
           /\ \A i \in 1 .. Len(t) : (s \o t)[Len(s) + i] = t[i]
    OBVIOUS

\* The bytes of a frame, or what is kept of it.
LEMMA Numbered ==
    ASSUME NEW a \in Nat, NEW n \in Nat
    PROVE  LET s == [k \in 1 .. n |-> a + k]
           IN  s \in Seq(Nat) /\ Len(s) = n /\ \A k \in 1 .. n : s[k] = a + k
    OBVIOUS

\* A bus that is made satisfies the invariant.
LEMMA InitInv == Init => IInv
    BY CanAssumption DEF Init, IInv, RxType, Arrived, Flagged, Popping, Told

\* attach(), detach() and enable().
LEMMA CallStep ==
    ASSUME IInv,
           Attach \/ Detach \/ EnableEmpty \/ EnableClear \/ \E on \in BOOLEAN : EnableFlag(on)
    PROVE  IInv'
<1> USE CanAssumption DEF IInv, RxType, Arrived, Flagged, Popping, Told
<1>1. CASE Attach BY <1>1 DEF Attach
<1>2. CASE Detach BY <1>2 DEF Detach
<1>3. CASE EnableEmpty BY <1>3 DEF EnableEmpty
<1>4. CASE EnableClear BY <1>4 DEF EnableClear
<1>5. ASSUME NEW on \in BOOLEAN, EnableFlag(on) PROVE IInv'
    BY <1>5 DEF EnableFlag
<1> HIDE DEF IInv
<1> QED BY <1>1, <1>2, <1>3, <1>4, <1>5

\* read().
LEMMA ReadStep ==
    ASSUME IInv, Wake \/ ReadCheck \/ ReadOverflow \/ \E size \in ReadSizes : ReadPop(size)
    PROVE  IInv'
<1> USE CanAssumption DEF IInv, RxType, Arrived, Flagged, Popping, Told
<1>1. CASE Wake BY <1>1 DEF Wake
<1>2. CASE ReadCheck BY <1>2 DEF ReadCheck
<1>3. CASE ReadOverflow BY <1>3 DEF ReadOverflow
<1>4. ASSUME NEW size \in ReadSizes, ReadPop(size) PROVE IInv'
    <2> DEFINE n == Smaller(size, Len(rx_fifo))
               first == SubSeq(rx_fifo, 1, n)
               rest == SubSeq(rx_fifo, n + 1, Len(rx_fifo))
    <2>1. n \in 0 .. Len(rx_fifo)
        BY DEF Smaller
    <2>2. /\ reader = "popping" /\ reader' \in {"waiting", "reading"}
          /\ log' = log \o first /\ rx_fifo' = rest
          /\ UNCHANGED <<started, rx_overflow, arrived, untold, met>>
        BY <1>4 DEF ReadPop
    <2> HIDE DEF n
    <2>3. /\ first \in Seq(Nat) /\ Len(first) = n
          /\ \A i \in 1 .. n : first[i] = rx_fifo[i]
          /\ rest \in Seq(Nat) /\ Len(rest) = Len(rx_fifo) - n
          /\ \A i \in 1 .. Len(rx_fifo) - n : rest[i] = rx_fifo[n + i]
        BY <2>1, Split
    <2> HIDE DEF first, rest
    <2>4. /\ log' \in Seq(Nat) /\ Len(log') = Len(log) + n
          /\ \A i \in 1 .. Len(log) : log'[i] = log[i]
          /\ \A i \in 1 .. n : log'[Len(log) + i] = rx_fifo[i]
        <3>1. log \in Seq(Nat)
            OBVIOUS
        <3>2. /\ log \o first \in Seq(Nat) /\ Len(log \o first) = Len(log) + Len(first)
              /\ \A i \in 1 .. Len(log) : (log \o first)[i] = log[i]
              /\ \A i \in 1 .. Len(first) : (log \o first)[Len(log) + i] = first[i]
            BY <2>3, <3>1, Joined, Zenon
        <3> QED BY <2>2, <2>3, <3>2, Zenon
    <2>5. \A i \in 1 .. Len(log') :
            \/ i \in 1 .. Len(log) /\ log'[i] = log[i]
            \/ \E k \in 1 .. Len(rx_fifo) : log'[i] = rx_fifo[k]
        <3> SUFFICES ASSUME NEW i \in 1 .. Len(log'), i \notin 1 .. Len(log)
                     PROVE  \E k \in 1 .. Len(rx_fifo) : log'[i] = rx_fifo[k]
            BY <2>4
        <3>1. i - Len(log) \in 1 .. n /\ Len(log) + (i - Len(log)) = i
            BY <2>1, <2>4
        <3>2. log'[i] = rx_fifo[i - Len(log)]
            BY <2>4, <3>1
        <3> QED BY <2>1, <3>1, <3>2
    <2>6. RxType'
        BY <2>1, <2>2, <2>3, <2>4
    <2>7. Arrived'
        <3>1. \A i \in 1 .. Len(log') : log'[i] <= arrived
            BY <2>5
        <3>2. \A i \in 1 .. Len(rx_fifo') : rx_fifo'[i] <= arrived
            <4> SUFFICES ASSUME NEW i \in 1 .. Len(rx_fifo') PROVE rx_fifo'[i] <= arrived
                OBVIOUS
            <4>1. i \in 1 .. Len(rx_fifo) - n /\ n + i \in 1 .. Len(rx_fifo)
                BY <2>1, <2>2, <2>3
            <4> QED BY <2>2, <2>3, <4>1
        <3> QED BY <2>2, <3>1, <3>2
    <2>8. Told'
        BY <2>2, <2>5
    <2> QED BY <2>2, <2>6, <2>7, <2>8
<1> HIDE DEF IInv
<1> QED BY <1>1, <1>2, <1>3, <1>4

\* The receive callback.
LEMMA ReceiveStep ==
    ASSUME IInv, NEW n \in FrameSizes, RxCallback(n) PROVE IInv'
<1> USE CanAssumption DEF IInv, RxType, Arrived, Flagged, Popping, Told
<1> DEFINE kept == Fit(n)
           new == [k \in 1 .. kept |-> arrived + k]
           dropped == arrived + kept + 1 .. arrived + n
<1>1. n \in Nat /\ kept \in 0 .. n /\ kept <= RxCapacity - Len(rx_fifo)
      /\ (kept < n => kept = RxCapacity - Len(rx_fifo))
    BY DEF Fit, Smaller
<1>2. CASE ~(rx_enabled /\ n > 0)
    <2>1. UNCHANGED <<started, reader, rx_fifo, rx_overflow, untold, met, log>>
          /\ arrived' = arrived + n
        BY <1>2 DEF RxCallback, Receive
    <2>2. arrived \in Nat /\ arrived' \in Nat /\ arrived <= arrived'
        BY <1>1, <2>1
    <2>3. Arrived'
        <3>1. \A i \in 1 .. Len(rx_fifo) : rx_fifo[i] <= arrived'
            BY <2>2, Later
        <3>2. \A i \in 1 .. Len(log) : log[i] <= arrived'
            BY <2>2, Later
        <3>3. \A b \in untold : b <= arrived'
            BY <2>2
        <3> QED BY <2>1, <3>1, <3>2, <3>3
    <2>4. RxType'
        BY <1>1, <2>1
    <2> QED BY <2>1, <2>3, <2>4
<1>3. CASE rx_enabled /\ n > 0
    <2>1. /\ started /\ UNCHANGED <<started, reader, log>>
          /\ arrived' = arrived + n
          /\ rx_fifo' = rx_fifo \o new
          /\ rx_overflow' = (rx_overflow \/ kept < n)
          /\ untold' = untold \cup dropped
          /\ met' = IF reader = "clearing" THEN met \cup dropped ELSE met
        BY <1>3, Zenon DEF RxCallback, Receive, Push
    <2>2. new \in Seq(Nat) /\ Len(new) = kept /\ \A k \in 1 .. kept : new[k] = arrived + k
        <3>1. kept \in Nat /\ arrived \in Nat
            BY <1>1
        <3> HIDE DEF kept
        <3> QED BY <3>1, Numbered, Zenon
    <2> HIDE DEF kept, new
    <2>3. /\ rx_fifo' \in Seq(Nat) /\ Len(rx_fifo') = Len(rx_fifo) + kept
          /\ \A i \in 1 .. Len(rx_fifo) : rx_fifo'[i] = rx_fifo[i]
          /\ \A k \in 1 .. kept : rx_fifo'[Len(rx_fifo) + k] = arrived + k
        <3>1. rx_fifo \in Seq(Nat)
            OBVIOUS
        <3>2. /\ rx_fifo \o new \in Seq(Nat) /\ Len(rx_fifo \o new) = Len(rx_fifo) + Len(new)
              /\ \A i \in 1 .. Len(rx_fifo) : (rx_fifo \o new)[i] = rx_fifo[i]
              /\ \A i \in 1 .. Len(new) : (rx_fifo \o new)[Len(rx_fifo) + i] = new[i]
            BY <2>2, <3>1, Joined, Zenon
        <3> QED BY <2>1, <2>2, <3>2, Zenon
    <2>now. arrived \in Nat /\ arrived' \in Nat /\ arrived <= arrived'
        BY <1>1, <2>1
    <2>fits. kept \in Nat /\ arrived + kept <= arrived'
        BY <1>1, <2>1, <2>now
    <2>4. \A i \in 1 .. Len(rx_fifo') :
            \/ i \in 1 .. Len(rx_fifo) /\ rx_fifo'[i] = rx_fifo[i]
            \/ rx_fifo'[i] \in arrived + 1 .. arrived + kept
        <3> SUFFICES ASSUME NEW i \in 1 .. Len(rx_fifo'), i \notin 1 .. Len(rx_fifo)
                     PROVE  rx_fifo'[i] \in arrived + 1 .. arrived + kept
            BY <2>3
        <3>1. i - Len(rx_fifo) \in 1 .. kept /\ Len(rx_fifo) + (i - Len(rx_fifo)) = i
            BY <1>1, <2>3
        <3>2. rx_fifo'[i] = arrived + (i - Len(rx_fifo))
            BY <2>3, <3>1
        <3>3. arrived \in Nat /\ kept \in Nat
            BY <1>1
        <3> QED BY <3>1, <3>2, <3>3
    <2>5. \A b \in dropped : b \in Nat /\ b > arrived + kept /\ b <= arrived + n
        BY <1>1
    <2>6. dropped # {} => kept < n
        BY <1>1, <2>5
    <2> HIDE DEF dropped
    <2>7. RxType'
        <3>1. untold' \subseteq Nat
            BY <2>1, <2>5
        <3>2. Len(rx_fifo) \in Nat /\ Len(rx_fifo) + kept <= RxCapacity
            BY <1>1
        <3>3. arrived' \in Nat
            BY <1>1, <2>1
        <3> QED BY <2>1, <2>3, <3>1, <3>2, <3>3
    <2>8. Arrived'
        <3>1. \A i \in 1 .. Len(rx_fifo') : rx_fifo'[i] <= arrived'
            <4> SUFFICES ASSUME NEW i \in 1 .. Len(rx_fifo') PROVE rx_fifo'[i] <= arrived'
                OBVIOUS
            <4>1. CASE i \in 1 .. Len(rx_fifo) /\ rx_fifo'[i] = rx_fifo[i]
                BY <2>now, <4>1, Later
            <4>2. CASE rx_fifo'[i] \in arrived + 1 .. arrived + kept
                BY <2>now, <2>fits, <4>2
            <4> QED BY <2>4, <4>1, <4>2
        <3>2. \A i \in 1 .. Len(log) : log[i] <= arrived'
            BY <2>now, Later
        <3>3. \A b \in untold' : b <= arrived'
            BY <1>1, <2>1, <2>5
        <3> QED BY <2>1, <3>1, <3>2, <3>3
    <2>9. Flagged'
        BY <2>1, <2>6
    <2>10. \A b \in untold' \ met' : b \in untold \ met \/ (b \in dropped /\ reader # "clearing")
        BY <2>1
    <2>11. Told'
        <3>1. \A b \in dropped : \A i \in 1 .. Len(log) : log[i] < b
            <4> SUFFICES ASSUME NEW b \in dropped PROVE \A i \in 1 .. Len(log) : log[i] < b
                OBVIOUS
            <4>1. b \in Nat /\ arrived < b
                BY <1>1, <2>now, <2>5
            <4> QED BY <2>now, <4>1, Later
        <3>2. log' = log
            BY <2>1
        <3> QED BY <2>10, <3>1, <3>2
    <2>12. Popping'
        <3> SUFFICES ASSUME reader = "popping", ~(untold' \subseteq met')
                     PROVE  /\ Len(rx_fifo') = RxCapacity
                            /\ \A b \in untold' \ met' :
                                 \A i \in 1 .. Len(rx_fifo') : rx_fifo'[i] < b
            BY <2>1
        <3>1. CASE untold \subseteq met
            <4>1. untold' \ met' \subseteq dropped /\ kept < n
                BY <2>1, <2>6, <3>1
            <4>2. Len(rx_fifo') = RxCapacity
                BY <1>1, <2>3, <4>1
            <4>3. \A b \in dropped : \A i \in 1 .. Len(rx_fifo') : rx_fifo'[i] < b
                <5> SUFFICES ASSUME NEW b \in dropped, NEW i \in 1 .. Len(rx_fifo')
                             PROVE  rx_fifo'[i] < b
                    OBVIOUS
                <5>1. b \in Nat /\ arrived + kept < b /\ arrived < b
                    BY <2>now, <2>fits, <2>5
                <5>2. CASE i \in 1 .. Len(rx_fifo) /\ rx_fifo'[i] = rx_fifo[i]
                    BY <2>now, <5>1, <5>2, Later
                <5>3. CASE rx_fifo'[i] \in arrived + 1 .. arrived + kept
                    <6> HIDE DEF IInv, RxType, Arrived, Flagged, Popping, Told
                    <6>1. \A e \in arrived + 1 .. arrived + kept : e < b
                        BY <2>now, <2>fits, <5>1, SMT
                    <6> QED BY <5>3, <6>1, Zenon
                <5> QED BY <2>4, <5>2, <5>3
            <4> QED BY <4>1, <4>2, <4>3
        <3>2. CASE ~(untold \subseteq met)
            <4>1. Len(rx_fifo) = RxCapacity /\ kept = 0
                BY <1>1, <3>2
            <4>2. Len(rx_fifo') = RxCapacity
                  /\ \A i \in 1 .. Len(rx_fifo') : rx_fifo'[i] = rx_fifo[i]
                BY <2>3, <4>1
            <4>3. \A b \in dropped : \A i \in 1 .. Len(rx_fifo) : rx_fifo[i] < b
                BY <1>1, <2>5, <4>1
            <4>4. \A b \in untold \ met : \A i \in 1 .. Len(rx_fifo) : rx_fifo[i] < b
                BY <3>2
            <4> QED BY <2>10, <4>1, <4>2, <4>3, <4>4
        <3> QED BY <3>1, <3>2
    <2> QED BY <2>7, <2>8, <2>9, <2>11, <2>12
<1> QED BY <1>2, <1>3

\* write() and the other callbacks leave the receiving side alone.
LEMMA WriteStep ==
    ASSUME IInv,
           \/ WriterSteps \/ \E len \in WriteSizes : WriteBegin(len)
           \/ TxCallback \/ StateChangeCallback
    PROVE  IInv'
<1>1. UNCHANGED <<started, rxVars>>
    <2>1. CASE WriterSteps
        BY <2>1, Zenon DEF WriterSteps, WriteCheck, WriteSend, Send, WriteRefused, WriteJudge,
            InWrite
    <2>2. ASSUME NEW len \in WriteSizes, WriteBegin(len) PROVE UNCHANGED <<started, rxVars>>
        BY <2>2, Zenon DEF WriteBegin
    <2>3. CASE TxCallback BY <2>3, Zenon DEF TxCallback
    <2>4. CASE StateChangeCallback BY <2>4, Zenon DEF StateChangeCallback
    <2> QED BY <2>1, <2>2, <2>3, <2>4
<1> QED BY <1>1 DEF rxVars, IInv, RxType, Arrived, Flagged, Popping, Told

\* The invariant holds in every state.
LEMMA IInvHolds == Spec => []IInv
<1>1. IInv /\ [Next]_vars => IInv'
    <2> SUFFICES ASSUME IInv, [Next]_vars PROVE IInv'
        OBVIOUS
    <2>1. CASE UNCHANGED vars
        BY <2>1 DEF vars, rxVars, IInv, RxType, Arrived, Flagged, Popping, Told
    <2> QED BY <2>1, CallStep, ReadStep, ReceiveStep, WriteStep DEF Next, ReaderSteps
<1> QED BY InitInv, <1>1, PTL DEF Spec

\* However frames, checks, resets and pops interleave, no reader passes a dropped byte
\* that no DTERR_OVERFLOW has told it of, unless it was dropped in the middle of enable().
THEOREM OverflowAlwaysTold == Spec => []OverflowTold
<1>1. IInv => OverflowTold
    <2> SUFFICES ASSUME IInv PROVE OverflowTold
        OBVIOUS
    <2>1. DOMAIN log = 1 .. Len(log)
        BY DEF IInv, RxType
    <2> QED BY <2>1, Zenon DEF IInv, Told, OverflowTold
<1> QED BY IInvHolds, <1>1, PTL

-----------------------------------------------------------------------------
(* Types.                                                                  *)

\* total_written is 0 between two writes, and a write() under way is the last one.
WritePlace ==
    /\ writer = "out" => total = 0
    /\ writer # "out" => Len(sizes) > 0

TypeInv == TypeOK /\ WritePlace

\* Parts of a sequence are sequences of the same elements ...
LEMMA Parts ==
    ASSUME NEW S, NEW s \in Seq(S), NEW n \in 0 .. Len(s)
    PROVE  /\ SubSeq(s, 1, n) \in Seq(S)
           /\ SubSeq(s, n + 1, Len(s)) \in Seq(S)
           /\ Len(SubSeq(s, n + 1, Len(s))) = Len(s) - n
    OBVIOUS

\* ... and so are two put together.
LEMMA Together ==
    ASSUME NEW S, NEW s \in Seq(S), NEW t \in Seq(S)
    PROVE  /\ s \o t \in Seq(S) /\ Len(s \o t) = Len(s) + Len(t)
           /\ \A i \in 1 .. Len(s) : (s \o t)[i] = s[i]
           /\ \A i \in 1 .. Len(t) : (s \o t)[Len(s) + i] = t[i]
    OBVIOUS

\* The last element after Append, and those before it.
LEMMA Appended ==
    ASSUME NEW S, NEW s \in Seq(S), NEW e \in S
    PROVE  /\ Append(s, e) \in Seq(S) /\ Len(Append(s, e)) = Len(s) + 1
           /\ \A i \in 1 .. Len(s) : Append(s, e)[i] = s[i]
           /\ Append(s, e)[Len(s) + 1] = e
    OBVIOUS

\* The types on the sending side, which what changes on the receiving side keeps.
TxTypes ==
    /\ writer \in {"out", "checking", "sending", "judging"}
    /\ total \in Nat /\ attempt \in 0 .. Retries - 1
    /\ ret \in {"ok", "EAGAIN", "error"}
    /\ last_tx_error \in BOOLEAN
    /\ mailbox \in 0 .. Mailboxes
    /\ sizes \in Seq(WriteSizes) /\ Len(sizes) <= MaxWrites
    /\ reported \in [1 .. MaxWrites -> {0} \cup WriteSizes]
    /\ handed \in Seq(Written)
    /\ writer # "out" => total < sizes[Len(sizes)]
    /\ WritePlace

LEMMA TxTypesKept ==
    ASSUME TypeInv, UNCHANGED <<txVars, driverVars>> PROVE TxTypes'
    BY DEF TxTypes, TypeInv, TypeOK, WritePlace, txVars, driverVars

\* attach(), detach() and enable().
LEMMA CallTypes ==
    ASSUME TypeInv,
           Attach \/ Detach \/ EnableEmpty \/ EnableClear \/ \E on \in BOOLEAN : EnableFlag(on)
    PROVE  TypeInv'
<1> USE CanAssumption DEF TypeInv, TypeOK, WritePlace, txVars, driverVars
<1>1. CASE Attach
    <2>1. /\ started' \in BOOLEAN /\ cur_state' \in States /\ calls' \in 0 .. MaxCalls
          /\ rx_overflow' \in BOOLEAN /\ ~rx_enabled
        <3>1. rx_overflow' = (rx_overflow /\ ~started')
            BY <1>1, Zenon DEF Attach
        <3>2. rx_overflow' \in BOOLEAN
            BY <3>1, Zenon
        <3> QED BY <1>1, <3>2 DEF Attach
    <2>2. UNCHANGED <<rx_enabled, rx_fifo, posted, reader, arrived, log, untold, met,
                      txVars, driverVars>>
        BY <1>1, Zenon DEF Attach
    <2> QED BY <2>1, <2>2
<1>2. CASE Detach
    <2>1. /\ started' \in BOOLEAN /\ rx_enabled' \in BOOLEAN /\ ~rx_enabled'
          /\ rx_overflow' \in BOOLEAN /\ last_tx_error' \in BOOLEAN
        BY <1>2, Zenon DEF Detach
    <2>2. /\ reader' = "waiting" /\ rx_fifo' = <<>> /\ mailbox' = 0
          /\ log' = <<>> /\ untold' = {} /\ met' = {}
          /\ UNCHANGED <<cur_state, calls, posted, arrived, txVars>>
        BY <1>2, Zenon DEF Detach
    <2> QED BY <2>1, <2>2
<1>3. CASE EnableEmpty BY <1>3 DEF EnableEmpty
<1>4. CASE EnableClear BY <1>4 DEF EnableClear
<1>5. ASSUME NEW on \in BOOLEAN, EnableFlag(on) PROVE TypeInv'
    BY <1>5 DEF EnableFlag
<1> HIDE DEF TypeInv
<1> QED BY <1>1, <1>2, <1>3, <1>4, <1>5

\* read().
LEMMA ReadTypes ==
    ASSUME TypeInv, Wake \/ ReadCheck \/ ReadOverflow \/ \E size \in ReadSizes : ReadPop(size)
    PROVE  TypeInv'
<1> USE CanAssumption DEF TypeInv, TypeOK, WritePlace
<1> USE DEF txVars, driverVars
<1>1. CASE Wake BY <1>1 DEF Wake
<1>2. CASE ReadCheck BY <1>2 DEF ReadCheck
<1>3. CASE ReadOverflow BY <1>3 DEF ReadOverflow
<1>4. ASSUME NEW size \in ReadSizes, ReadPop(size) PROVE TypeInv'
    <2> HIDE DEF txVars, driverVars
    <2> DEFINE n == Smaller(size, Len(rx_fifo))
               first == SubSeq(rx_fifo, 1, n)
               rest == SubSeq(rx_fifo, n + 1, Len(rx_fifo))
    <2>1. n \in 0 .. Len(rx_fifo)
        <3>1. size \in Nat /\ Len(rx_fifo) \in Nat
            OBVIOUS
        <3> QED BY <3>1, SMT DEF Smaller
    <2>2. /\ reader' \in {"waiting", "reading"}
          /\ log' = log \o first /\ rx_fifo' = rest
          /\ UNCHANGED <<started, cur_state, calls, rx_enabled, rx_overflow, posted, arrived,
                         untold, met, txVars, driverVars>>
        BY <1>4 DEF ReadPop
    <2> HIDE DEF n
    <2>3. first \in Seq(Bytes) /\ rest \in Seq(Bytes) /\ Len(rest) = Len(rx_fifo) - n
        BY <2>1, Parts
    <2> HIDE DEF first, rest
    <2>4. log' \in Seq(Bytes)
        BY <2>2, <2>3, Together
    <2>5. rx_fifo' \in Seq(Bytes) /\ Len(rx_fifo') <= RxCapacity
        <3>1. Len(rx_fifo) - n <= RxCapacity
            BY <2>1
        <3> QED BY <2>2, <2>3, <3>1
    <2>6. TxTypes'
        BY <2>2, TxTypesKept
    <2> QED BY <2>2, <2>4, <2>5, <2>6 DEF TxTypes
<1> HIDE DEF TypeInv
<1> QED BY <1>1, <1>2, <1>3, <1>4

\* The receive callback.
LEMMA ReceiveTypes ==
    ASSUME TypeInv, NEW n \in FrameSizes, RxCallback(n) PROVE TypeInv'
<1> USE CanAssumption DEF TypeInv, TypeOK, WritePlace
<1> DEFINE kept == Fit(n)
           new == [k \in 1 .. kept |-> arrived + k]
           dropped == arrived + kept + 1 .. arrived + n
<1>1. /\ n \in Nat /\ kept \in 0 .. n /\ kept <= RxCapacity - Len(rx_fifo)
      /\ arrived \in Nat /\ MaxBytes \in Nat
    <2>1. /\ n \in Nat /\ Len(rx_fifo) \in Nat /\ RxCapacity \in Nat
          /\ Len(rx_fifo) <= RxCapacity /\ arrived \in Nat /\ MaxBytes \in Nat
        OBVIOUS
    <2> QED BY <2>1 DEF Fit, Smaller
<1>2. /\ arrived + n <= MaxBytes /\ arrived' = arrived + n
      /\ UNCHANGED <<started, cur_state, calls, rx_enabled, reader, log, txVars, driverVars>>
    BY Zenon DEF RxCallback, Receive
<1>3. arrived' \in 0 .. MaxBytes
    BY <1>1, <1>2
<1>tx. TxTypes'
    BY <1>2, TxTypesKept
<1>4. CASE ~(rx_enabled /\ n > 0)
    <2>1. UNCHANGED <<rx_fifo, rx_overflow, untold, met, posted>>
        BY <1>4, Zenon DEF RxCallback, Receive
    <2> QED BY <1>2, <1>3, <1>tx, <2>1 DEF TxTypes
<1>5. CASE rx_enabled /\ n > 0
    <2>1. /\ posted' = TRUE
          /\ rx_fifo' = rx_fifo \o new
          /\ rx_overflow' = (rx_overflow \/ kept < n)
          /\ untold' = untold \cup dropped
          /\ met' = IF reader = "clearing" THEN met \cup dropped ELSE met
        BY <1>5, Zenon DEF RxCallback, Receive, Push
    <2>2. new \in Seq(Bytes) /\ Len(new) = kept
        <3>1. kept \in Nat
            BY <1>1
        <3>2. \A k \in 1 .. kept : arrived + k \in Bytes
            BY <1>1, <1>2 DEF Bytes
        <3> HIDE DEF kept
        <3> QED BY <3>1, <3>2
    <2>3. dropped \subseteq Bytes
        <3> SUFFICES ASSUME NEW b \in dropped PROVE b \in 1 .. MaxBytes
            BY DEF Bytes
        <3>1. kept \in Nat /\ n \in Nat
            BY <1>1
        <3>2. b \in arrived + kept + 1 .. arrived + n
            OBVIOUS
        <3> HIDE DEF kept, dropped
        <3> QED BY <1>1, <1>2, <3>1, <3>2
    <2> HIDE DEF kept, new, dropped
    <2>4. rx_fifo' \in Seq(Bytes) /\ Len(rx_fifo') <= RxCapacity
        <3>1. rx_fifo' \in Seq(Bytes) /\ Len(rx_fifo') = Len(rx_fifo) + kept
            BY <2>1, <2>2, Together
        <3> QED BY <1>1, <3>1
    <2>5. untold' \subseteq Bytes /\ met' \subseteq untold'
        BY <2>1, <2>3
    <2>6. rx_overflow' \in BOOLEAN /\ posted' \in BOOLEAN
        BY <2>1, Zenon
    <2> QED BY <1>2, <1>3, <1>tx, <2>4, <2>5, <2>6 DEF TxTypes
<1> QED BY <1>4, <1>5

\* The bytes of a frame that is sent.
LEMMA FrameBytes ==
    ASSUME NEW w \in 1 .. MaxWrites, NEW t \in Nat, NEW n \in Nat
    PROVE  /\ [k \in 1 .. n |-> <<w, t + k>>] \in Seq(Written)
           /\ Len([k \in 1 .. n |-> <<w, t + k>>]) = n
<1> DEFINE s == [k \in 1 .. n |-> <<w, t + k>>]
<1>1. \A k \in 1 .. n : <<w, t + k>> \in Written
    BY DEF Written
<1>2. s \in [1 .. n -> Written]
    BY <1>1
<1> QED BY <1>2

\* The driver has them behind what it had.
LEMMA FrameBehind ==
    ASSUME handed \in Seq(Written), Len(sizes) \in 1 .. MaxWrites, total \in Nat,
           NEW n \in Nat
    PROVE  handed \o [k \in 1 .. n |-> <<Len(sizes), total + k>>] \in Seq(Written)
<1>1. [k \in 1 .. n |-> <<Len(sizes), total + k>>] \in Seq(Written)
    BY FrameBytes
<1> QED BY <1>1, Together

\* write(), the transmit callback and the bus.
LEMMA WriteTypes ==
    ASSUME TypeInv,
           \/ WriterSteps \/ \E len \in WriteSizes : WriteBegin(len)
           \/ TxCallback \/ StateChangeCallback
    PROVE  TypeInv'
<1> USE CanAssumption DEF TypeInv, TypeOK, WritePlace, rxVars, txVars, driverVars
<1> DEFINE Kept == UNCHANGED <<started, cur_state, calls, rxVars>>
<1>1. ASSUME NEW len \in WriteSizes, WriteBegin(len) PROVE TypeInv'
    <2>1. /\ Len(sizes) < MaxWrites /\ total = 0 /\ writer' = "checking"
          /\ sizes' = Append(sizes, len)
          /\ Kept /\ UNCHANGED <<total, attempt, ret, reported, handed, driverVars>>
        BY <1>1 DEF WriteBegin
    <2>2. /\ sizes' \in Seq(WriteSizes) /\ Len(sizes') = Len(sizes) + 1
          /\ sizes'[Len(sizes')] = len
        BY <2>1, Appended
    <2>3. total' \in Nat /\ total' < sizes'[Len(sizes')] /\ Len(sizes') > 0
          /\ Len(sizes') <= MaxWrites
        <3>1. /\ len \in Nat /\ len > 0 /\ Len(sizes) \in Nat /\ MaxWrites \in Nat
              /\ total' = 0 /\ Len(sizes) < MaxWrites
            BY <2>1
        <3>2. Len(sizes') = Len(sizes) + 1 /\ sizes'[Len(sizes')] = len
            BY <2>2, Zenon
        <3> HIDE DEF TypeInv, TypeOK, WritePlace
        <3> QED BY <3>1, <3>2, SMT
    <2> QED BY <2>1, <2>2, <2>3
<1>2. CASE TxCallback BY <1>2 DEF TxCallback
<1>3. CASE StateChangeCallback BY <1>3 DEF StateChangeCallback
<1>4. ASSUME NEW n \in {0} \cup WriteSizes, writer # "out", Returning(n), Kept,
             mailbox' \in 0 .. Mailboxes, handed' \in Seq(Written),
             UNCHANGED <<sizes, last_tx_error>>
      PROVE  TypeInv'
    <2>1. /\ writer' = "out" /\ total' = 0 /\ attempt' = 0 /\ ret' = "ok"
          /\ reported' = [reported EXCEPT ![Len(sizes)] = n]
        BY <1>4 DEF Returning
    <2>2. attempt' \in 0 .. Retries - 1 /\ total' \in Nat
        BY <2>1
    <2> QED BY <1>4, <2>1, <2>2
<1>5. CASE WriteCheck
    <2>1. writer = "checking" /\ Kept /\ UNCHANGED <<handed, mailbox, sizes, last_tx_error>>
        BY <1>5 DEF WriteCheck, InWrite
    <2>2. CASE Working
        <3>1. writer' = "sending" /\ UNCHANGED <<total, attempt, ret, reported>>
            BY <1>5, <2>2, Zenon DEF WriteCheck
        <3> QED BY <2>1, <3>1
    <2>3. CASE ~Working
        <3>1. Returning(0)
            BY <1>5, <2>3, Zenon DEF WriteCheck
        <3> QED BY <1>4, <2>1, <3>1
    <2> QED BY <2>2, <2>3
<1>6. CASE WriteRefused
    <2>1. /\ ret' \in {"ok", "EAGAIN", "error"} /\ writer = "sending" /\ writer' = "judging"
          /\ UNCHANGED <<total, attempt, reported, handed, mailbox, sizes, last_tx_error>>
          /\ Kept
        BY <1>6 DEF WriteRefused, InWrite
    <2> QED BY <2>1
<1>7. CASE WriteJudge
    <2>1. writer = "judging" /\ Kept /\ UNCHANGED <<handed, mailbox, sizes, last_tx_error>>
        BY <1>7 DEF WriteJudge, InWrite
    <2>2. CASE last_tx_error \/ ret = "error" \/ attempt + 1 = Retries
        BY <1>4, <1>7, <2>1, <2>2 DEF WriteJudge
    <2>3. CASE ~(last_tx_error \/ ret = "error" \/ attempt + 1 = Retries)
        <3>1. writer' = "checking" /\ attempt' = attempt + 1 /\ UNCHANGED <<total, ret, reported>>
            BY <1>7, <2>3 DEF WriteJudge
        <3>2. attempt' \in 0 .. Retries - 1
            BY <2>3, <3>1
        <3> QED BY <2>1, <3>1, <3>2
    <2> QED BY <2>2, <2>3
<1>8. CASE WriteSend
    <2> DEFINE n == Smaller(Chunk, TheSize - total)
               frame == [k \in 1 .. n |-> <<Len(sizes), total + k>>]
    <2>1. /\ writer = "sending" /\ Kept /\ UNCHANGED <<sizes, last_tx_error>>
          /\ mailbox < Mailboxes /\ mailbox' = mailbox + 1
          /\ handed' = handed \o frame
        BY <1>8 DEF WriteSend, Send, InWrite
    <2>2. /\ Len(sizes) \in 1 .. MaxWrites /\ TheSize \in WriteSizes /\ TheSize \in Nat
          /\ total \in Nat /\ total < TheSize
        <3>1. sizes \in Seq(WriteSizes) /\ Len(sizes) <= MaxWrites /\ Len(sizes) > 0
              /\ WriteSizes \subseteq Nat /\ total \in Nat /\ total < sizes[Len(sizes)]
              /\ MaxWrites \in Nat
            BY <2>1
        <3>2. Len(sizes) \in 1 .. Len(sizes) /\ Len(sizes) \in 1 .. MaxWrites
            BY <3>1
        <3>3. sizes[Len(sizes)] \in WriteSizes
            BY <3>1, <3>2
        <3> QED BY <3>1, <3>2, <3>3 DEF TheSize
    <2>3. n \in Nat /\ total + n <= TheSize /\ total + n \in Nat
        <3>1. Chunk \in Nat
            OBVIOUS
        <3> QED BY <2>2, <3>1, SMT DEF Smaller
    <2>4. handed' \in Seq(Written)
        <3> HIDE DEF n
        <3>1. handed \in Seq(Written)
            OBVIOUS
        <3> HIDE DEF TypeInv, TypeOK, WritePlace
        <3> QED BY <2>1, <2>2, <2>3, <3>1, FrameBehind
    <2>5. mailbox' \in 0 .. Mailboxes
        BY <2>1
    <2>6. CASE total + n = TheSize
        <3>1. Returning(TheSize)
            BY <1>8, <2>6, Zenon DEF WriteSend, Send
        <3> QED BY <1>4, <2>1, <2>2, <2>4, <2>5, <3>1
    <2>7. CASE total + n # TheSize
        <3>1. /\ total' = total + n /\ attempt' = 0 /\ writer' = "checking"
              /\ UNCHANGED <<ret, reported>>
            BY <1>8, <2>7, Zenon DEF WriteSend, Send
        <3>2. total' \in Nat /\ total' < TheSize /\ attempt' \in 0 .. Retries - 1
            <4> HIDE DEF n
            <4> QED BY <2>2, <2>3, <2>7, <3>1
        <3>3. total' < sizes'[Len(sizes')]
            BY <2>1, <3>2 DEF TheSize
        <3> QED BY <2>1, <2>2, <2>4, <2>5, <3>1, <3>2, <3>3
    <2> QED BY <2>6, <2>7
<1> HIDE DEF TypeInv
<1> QED BY <1>1, <1>2, <1>3, <1>5, <1>6, <1>7, <1>8 DEF WriterSteps

\* The types hold in every state.
LEMMA TypeInvHolds == Spec => []TypeInv
<1>1. Init => TypeInv
    <2> SUFFICES ASSUME Init PROVE TypeInv
        OBVIOUS
    <2>1. /\ attempt \in 0 .. Retries - 1 /\ mailbox \in 0 .. Mailboxes
          /\ calls \in 0 .. MaxCalls /\ arrived \in 0 .. MaxBytes
          /\ Len(rx_fifo) <= RxCapacity /\ Len(sizes) <= MaxWrites
        BY CanAssumption DEF Init
    <2>2. /\ started \in BOOLEAN /\ rx_enabled \in BOOLEAN /\ rx_overflow \in BOOLEAN
          /\ posted \in BOOLEAN /\ last_tx_error \in BOOLEAN
        BY Zenon DEF Init
    <2>3. /\ rx_fifo \in Seq(Bytes) /\ log \in Seq(Bytes) /\ sizes \in Seq(WriteSizes)
          /\ handed \in Seq(Written)
          /\ reported \in [1 .. MaxWrites -> {0} \cup WriteSizes]
        BY DEF Init
    <2> QED BY <2>1, <2>2, <2>3 DEF Init, TypeInv, TypeOK, WritePlace, States
<1>2. TypeInv /\ [Next]_vars => TypeInv'
    <2> SUFFICES ASSUME TypeInv, [Next]_vars PROVE TypeInv'
        OBVIOUS
    <2>1. CASE UNCHANGED vars
        BY <2>1 DEF vars, rxVars, txVars, driverVars, TypeInv, TypeOK, WritePlace
    <2> QED BY <2>1, CallTypes, ReadTypes, ReceiveTypes, WriteTypes DEF Next, ReaderSteps
<1> QED BY <1>1, <1>2, PTL DEF Spec

\* Every variable keeps its type: no ring, mailbox, attempt or call counter leaves its
\* bounds, and a write() under way is never past its end.
THEOREM TypeCorrect == Spec => []TypeOK
<1>1. TypeInv => TypeOK
    BY DEF TypeInv
<1> QED BY TypeInvHolds, <1>1, PTL

-----------------------------------------------------------------------------
(* What write() gives to the driver.                                       *)

\* The first part of WholeWrites: what the driver was given is in one piece.
Given ==
    \A i \in 1 .. Len(handed) :
        /\ InTurn(i)
        /\ handed[i][1] \in 1 .. Len(sizes) /\ handed[i][2] <= sizes[handed[i][1]]

\* The second: a length that was reported was given.
Reports ==
    \A w \in 1 .. Len(sizes) : reported[w] # 0 =>
        /\ reported[w] = sizes[w]
        /\ \E i \in 1 .. Len(handed) : handed[i] = <<w, sizes[w]>>

\* A write() under way has given the driver its first total bytes, and nothing since.
Progress ==
    writer # "out" =>
        IF total = 0
          THEN Len(handed) > 0 => handed[Len(handed)][1] < Len(sizes)
          ELSE Len(handed) > 0 /\ handed[Len(handed)] = <<Len(sizes), total>>

\* A write() to come has reported nothing.
Unreported == \A w \in 1 .. MaxWrites : w > Len(sizes) => reported[w] = 0

WriteInv == Given /\ Reports /\ Progress /\ Unreported

\* A step that gives nothing and returns nothing.
LEMMA GivesNothing ==
    ASSUME WriteInv, UNCHANGED <<sizes, reported, handed>>,
           writer' = "out" \/ (writer # "out" /\ total' = total)
    PROVE  WriteInv'
    BY DEF WriteInv, Given, InTurn, Reports, Progress, Unreported

\* A step that gives nothing and returns a failure.
LEMMA ReturnsNothing ==
    ASSUME TypeInv, WriteInv, UNCHANGED <<sizes, handed>>, Returning(0)
    PROVE  WriteInv'
<1>1. writer' = "out" /\ \A w \in 1 .. MaxWrites : reported'[w] \in {0, reported[w]}
    BY DEF Returning, TypeInv, TypeOK
<1>2. \A w \in 1 .. Len(sizes) : w \in 1 .. MaxWrites
    BY CanAssumption DEF TypeInv, TypeOK
<1>3. Given'
    BY DEF WriteInv, Given, InTurn
<1>4. Reports'
    BY <1>1, <1>2 DEF WriteInv, Reports
<1>5. Progress' /\ Unreported'
    BY <1>1 DEF WriteInv, Progress, Unreported
<1> QED BY <1>3, <1>4, <1>5 DEF WriteInv

\* What is known of a write() that sends.
Sending(n) ==
    /\ n \in Nat \ {0} /\ total \in Nat
    /\ Len(sizes) \in 1 .. MaxWrites /\ TheSize \in Nat
    /\ total + n <= TheSize
    /\ handed \in Seq((1 .. MaxWrites) \X Nat) /\ Len(handed) \in Nat

\* The two parts of a byte.
LEMMA Pair == ASSUME NEW p, NEW a, NEW b, p = <<a, b>> PROVE p[1] = a /\ p[2] = b
    OBVIOUS

\* The frame comes behind what the driver has got.
LEMMA FrameGiven ==
    ASSUME WriteInv, NEW n, Sending(n), writer = "sending", sizes' = sizes,
           handed' = handed \o [k \in 1 .. n |-> <<Len(sizes), total + k>>]
    PROVE  /\ Len(handed') = Len(handed) + n
           /\ \A i \in 1 .. Len(handed) : handed'[i] = handed[i]
           /\ \A k \in 1 .. n : handed'[Len(handed) + k] = <<Len(sizes), total + k>>
           /\ Given'
<1> DEFINE frame == [k \in 1 .. n |-> <<Len(sizes), total + k>>]
<1>0. n \in Nat /\ n > 0 /\ total \in Nat /\ Len(handed) \in Nat /\ Len(sizes) \in Nat
    BY DEF Sending
<1>1. /\ frame \in Seq(Written) /\ Len(frame) = n
      /\ \A k \in 1 .. n : frame[k] = <<Len(sizes), total + k>>
    <2>1. frame \in Seq(Written) /\ Len(frame) = n
        BY FrameBytes, <1>0 DEF Sending
    <2> QED BY <2>1
<1> HIDE DEF frame
<1>2. handed' = handed \o frame
    BY DEF frame
<1>3. /\ Len(handed') = Len(handed) + n
      /\ \A i \in 1 .. Len(handed) : handed'[i] = handed[i]
      /\ \A k \in 1 .. n : handed'[Len(handed) + k] = <<Len(sizes), total + k>>
    <2>1. handed \in Seq(Written)
        BY DEF Sending, Written
    <2>2. frame \in Seq(Written) /\ Len(frame) = n
        BY <1>1, Zenon
    <2>3. Len(handed \o frame) = Len(handed) + Len(frame)
        BY <2>1, <2>2, Together, Zenon
    <2>4. \A i \in 1 .. Len(handed) : (handed \o frame)[i] = handed[i]
        BY <2>1, <2>2, Together, Zenon
    <2>5. ASSUME NEW k \in 1 .. n
          PROVE  (handed \o frame)[Len(handed) + k] = <<Len(sizes), total + k>>
        <3>1. k \in 1 .. Len(frame) /\ frame[k] = <<Len(sizes), total + k>>
            BY <1>1, <2>2, Zenon
        <3>2. (handed \o frame)[Len(handed) + k] = frame[k]
            BY <2>1, <2>2, <3>1, Together
        <3> QED BY <3>1, <3>2, Zenon
    <2> QED BY <1>2, <2>2, <2>3, <2>4, <2>5, Zenon
<1>now. /\ total = 0 /\ Len(handed) > 0 => handed[Len(handed)][1] < Len(sizes)
        /\ total # 0 =>
             /\ Len(handed) > 0
             /\ handed[Len(handed)][1] = Len(sizes) /\ handed[Len(handed)][2] = total
    BY DEF WriteInv, Progress
<1> SUFFICES ASSUME NEW i \in 1 .. Len(handed')
             PROVE  /\ InTurn(i)'
                    /\ handed'[i][1] \in 1 .. Len(sizes)
                    /\ handed'[i][2] <= sizes[handed'[i][1]]
    BY <1>3 DEF Given
<1>4. CASE i \in 1 .. Len(handed)
    <2>1. handed'[i] = handed[i] /\ (i > 1 => handed'[i - 1] = handed[i - 1])
        <3>1. i > 1 => i - 1 \in 1 .. Len(handed)
            BY <1>4 DEF Sending
        <3> QED BY <1>3, <1>4, <3>1
    <2> QED BY <1>4, <2>1 DEF WriteInv, Given, InTurn
<1>5. CASE i \notin 1 .. Len(handed)
    <2>1. i - Len(handed) \in 1 .. n /\ Len(handed) + (i - Len(handed)) = i
        BY <1>0, <1>3, <1>5 DEF Sending
    <2>2. PICK k \in 1 .. n : i = Len(handed) + k
        BY <2>1
    <2>3. handed'[i][1] = Len(sizes) /\ handed'[i][2] = total + k
        <3>1. handed'[i] = <<Len(sizes), total + k>>
            BY <1>3, <2>2, Zenon
        <3> QED BY <3>1, Pair, Zenon
    <2>4. Len(sizes) \in 1 .. Len(sizes) /\ total + k <= sizes[Len(sizes)]
        BY <1>0 DEF Sending, TheSize
    <2>5. CASE k > 1
        <3>1. k - 1 \in 1 .. n /\ i - 1 = Len(handed) + (k - 1) /\ i > 1
            BY <1>0, <2>2, <2>5 DEF Sending
        <3>2. handed'[i - 1][1] = Len(sizes) /\ handed'[i - 1][2] = total + (k - 1)
            <4>1. handed'[i - 1] = <<Len(sizes), total + (k - 1)>>
                BY <1>3, <3>1, Zenon
            <4> QED BY <4>1, Pair, Zenon
        <3>3. total + k = (total + (k - 1)) + 1
            BY DEF Sending
        <3>4. InTurn(i)'
            BY <2>3, <3>1, <3>2, <3>3 DEF InTurn
        <3> QED BY <2>3, <2>4, <3>4
    <2>6. CASE k = 1
        <3>1. i = Len(handed) + 1 /\ handed'[i][2] = total + 1
            BY <2>2, <2>3, <2>6
        <3>2. CASE Len(handed) = 0
            <4>1. total = 0
                BY <1>now, <3>2
            <4>2. i = 1 /\ handed'[i][2] = 1
                BY <1>0, <3>1, <3>2, <4>1
            <4>3. ~(i > 1)
                BY <4>2
            <4>4. InTurn(i)'
                BY <4>2, <4>3, Zenon DEF InTurn
            <4> QED BY <2>3, <2>4, <4>4, Zenon
        <3>3. CASE Len(handed) > 0
            <4>1. i > 1 /\ i - 1 = Len(handed) /\ Len(handed) \in 1 .. Len(handed)
                BY <3>1, <3>3 DEF Sending
            <4>2. handed'[i - 1] = handed[Len(handed)]
                BY <1>3, <4>1
            <4>3. CASE total = 0
                <5>1. handed'[i - 1][1] < Len(sizes) /\ handed'[i][2] = 1
                    BY <1>0, <1>now, <3>1, <3>3, <4>2, <4>3
                <5>2. handed[Len(handed)][1] \in Nat
                    BY <4>1 DEF Sending
                <5>3. handed'[i - 1][1] # Len(sizes)
                    <6>1. handed[Len(handed)][1] < Len(sizes)
                        BY <1>now, <3>3, <4>3
                    <6>2. handed[Len(handed)][1] # Len(sizes)
                        BY <1>0, <5>2, <6>1
                    <6> QED BY <4>2, <6>2, Zenon
                <5>4. InTurn(i)'
                    BY <2>3, <5>1, <5>3 DEF InTurn
                <5> QED BY <2>3, <2>4, <5>4
            <4>4. CASE total # 0
                <5>1. handed'[i - 1][1] = Len(sizes) /\ handed'[i - 1][2] = total
                    BY <1>now, <4>2, <4>4
                <5>2. InTurn(i)'
                    BY <2>3, <3>1, <4>1, <5>1 DEF InTurn
                <5> QED BY <2>3, <2>4, <5>2
            <4> QED BY <4>3, <4>4
        <3> QED BY <1>0, <3>2, <3>3
    <2>7. k = 1 \/ k > 1
        BY <1>0
    <2> QED BY <2>5, <2>6, <2>7
<1> QED BY <1>4, <1>5

\* The write() goes on ...
LEMMA SendGoesOn ==
    ASSUME WriteInv, NEW n, Sending(n), writer = "sending", UNCHANGED <<sizes, reported>>,
           handed' = handed \o [k \in 1 .. n |-> <<Len(sizes), total + k>>],
           total' = total + n
    PROVE  WriteInv'
<1>1. /\ Len(handed') = Len(handed) + n
      /\ \A i \in 1 .. Len(handed) : handed'[i] = handed[i]
      /\ \A k \in 1 .. n : handed'[Len(handed) + k] = <<Len(sizes), total + k>>
      /\ Given'
    BY FrameGiven
<1>2. n \in 1 .. n /\ n > 0 /\ Len(handed) \in Nat /\ total \in Nat
    BY DEF Sending
<1>3. Len(handed') > 0 /\ total' # 0 /\ handed'[Len(handed')] = <<Len(sizes), total'>>
    BY <1>1, <1>2
<1>4. \A i \in 1 .. Len(handed) : i \in 1 .. Len(handed')
    BY <1>1, <1>2
<1>5. Reports'
    BY <1>1, <1>4 DEF WriteInv, Reports
<1>6. Progress' /\ Unreported'
    BY <1>3 DEF WriteInv, Progress, Unreported
<1> QED BY <1>1, <1>5, <1>6 DEF WriteInv

\* ... or it has given the last byte and says so.
LEMMA SendEnds ==
    ASSUME WriteInv, NEW n, Sending(n), writer = "sending", UNCHANGED sizes,
           handed' = handed \o [k \in 1 .. n |-> <<Len(sizes), total + k>>],
           total + n = TheSize, writer' = "out",
           reported \in [1 .. MaxWrites -> {0} \cup WriteSizes],
           reported' = [reported EXCEPT ![Len(sizes)] = TheSize]
    PROVE  WriteInv'
<1>1. /\ Len(handed') = Len(handed) + n
      /\ \A i \in 1 .. Len(handed) : handed'[i] = handed[i]
      /\ \A k \in 1 .. n : handed'[Len(handed) + k] = <<Len(sizes), total + k>>
      /\ Given'
    BY FrameGiven
<1>2. /\ n \in 1 .. n /\ n > 0 /\ Len(handed) \in Nat /\ total \in Nat
      /\ Len(sizes) \in 1 .. MaxWrites /\ MaxWrites \in Nat
    BY CanAssumption DEF Sending
<1>3. Len(handed') \in 1 .. Len(handed')
      /\ handed'[Len(handed')] = <<Len(sizes), sizes[Len(sizes)]>>
    BY <1>1, <1>2 DEF TheSize
<1>4. \A i \in 1 .. Len(handed) : i \in 1 .. Len(handed')
    BY <1>1, <1>2
<1>5. /\ reported'[Len(sizes)] = sizes[Len(sizes)]
      /\ \A w \in 1 .. MaxWrites : w # Len(sizes) => reported'[w] = reported[w]
    BY <1>2 DEF TheSize
<1>6. Reports'
    <2> SUFFICES ASSUME NEW w \in 1 .. Len(sizes), reported'[w] # 0
                 PROVE  /\ reported'[w] = sizes[w]
                        /\ \E i \in 1 .. Len(handed') : handed'[i] = <<w, sizes[w]>>
        BY DEF Reports
    <2>1. CASE w = Len(sizes)
        BY <1>3, <1>5, <2>1
    <2>2. CASE w # Len(sizes)
        <3>1. w \in 1 .. MaxWrites
            BY <1>2
        <3>2. reported'[w] = reported[w]
            BY <1>5, <2>2, <3>1
        <3> QED BY <1>1, <1>4, <3>2 DEF WriteInv, Reports
    <2> QED BY <2>1, <2>2
<1>7. Unreported'
    BY <1>2, <1>5 DEF WriteInv, Unreported
<1>8. Progress'
    BY DEF Progress
<1> QED BY <1>1, <1>6, <1>7, <1>8 DEF WriteInv

\* A write() begins.
LEMMA BeginStep ==
    ASSUME TypeInv, WriteInv, NEW len \in WriteSizes, WriteBegin(len) PROVE WriteInv'
<1>1. /\ Len(sizes) < MaxWrites /\ total = 0
      /\ sizes' = Append(sizes, len) /\ UNCHANGED <<total, reported, handed>>
    BY DEF WriteBegin, TypeInv, WritePlace
<1>2. /\ sizes \in Seq(WriteSizes) /\ Len(sizes) \in Nat /\ MaxWrites \in Nat
      /\ handed \in Seq((1 .. MaxWrites) \X Nat)
    BY CanAssumption DEF TypeInv, TypeOK, Written
<1>3. Len(sizes') = Len(sizes) + 1 /\ \A w \in 1 .. Len(sizes) : sizes'[w] = sizes[w]
    BY <1>1, <1>2, Appended
<1>4. Given'
    <2> SUFFICES ASSUME NEW i \in 1 .. Len(handed)
                 PROVE  /\ InTurn(i)
                        /\ handed[i][1] \in 1 .. Len(sizes')
                        /\ handed[i][2] <= sizes'[handed[i][1]]
        BY <1>1 DEF Given, InTurn
    <2>1. /\ InTurn(i) /\ handed[i][1] \in 1 .. Len(sizes)
          /\ handed[i][2] <= sizes[handed[i][1]]
        BY DEF WriteInv, Given
    <2> QED BY <1>2, <1>3, <2>1
<1>5. Reports'
    <2> SUFFICES ASSUME NEW w \in 1 .. Len(sizes'), reported[w] # 0
                 PROVE  /\ reported[w] = sizes'[w]
                        /\ \E i \in 1 .. Len(handed) : handed[i] = <<w, sizes'[w]>>
        BY <1>1 DEF Reports
    <2>1. w \in 1 .. Len(sizes)
        <3>1. w \in 1 .. MaxWrites /\ (w \in 1 .. Len(sizes) \/ w > Len(sizes))
            BY <1>1, <1>2, <1>3
        <3> QED BY <3>1 DEF WriteInv, Unreported
    <2> QED BY <1>3, <2>1 DEF WriteInv, Reports
<1>6. Progress'
    <2>1. Len(handed) > 0 => handed[Len(handed)][1] \in 1 .. Len(sizes)
        BY <1>2 DEF WriteInv, Given
    <2>2. Len(handed) > 0 => handed[Len(handed)][1] < Len(sizes')
        BY <1>2, <1>3, <2>1
    <2> QED BY <1>1, <2>2 DEF Progress
<1>7. Unreported'
    BY <1>1, <1>2, <1>3 DEF WriteInv, Unreported
<1> QED BY <1>4, <1>5, <1>6, <1>7 DEF WriteInv

\* can_send takes a frame.
LEMMA SendStep ==
    ASSUME TypeInv, WriteInv, WriteSend PROVE WriteInv'
<1> DEFINE n == Smaller(Chunk, TheSize - total)
           size == TheSize
<1>1. /\ writer = "sending" /\ sizes' = sizes
      /\ handed' = handed \o [k \in 1 .. n |-> <<Len(sizes), total + k>>]
    BY DEF WriteSend, Send, InWrite
<1>2. Sending(n)
    <2>1. /\ sizes \in Seq(WriteSizes) /\ Len(sizes) <= MaxWrites /\ Len(sizes) > 0
          /\ WriteSizes \subseteq Nat /\ total \in Nat /\ total < sizes[Len(sizes)]
          /\ MaxWrites \in Nat /\ Chunk \in Nat \ {0}
        BY <1>1, CanAssumption DEF TypeInv, TypeOK, WritePlace
    <2>2. Len(sizes) \in 1 .. Len(sizes) /\ Len(sizes) \in 1 .. MaxWrites
        BY <2>1
    <2>3. TheSize \in Nat /\ total < TheSize
        <3>1. sizes[Len(sizes)] \in WriteSizes
            BY <2>1, <2>2
        <3> QED BY <2>1, <3>1 DEF TheSize
    <2>4. n \in Nat \ {0} /\ total + n <= TheSize
        BY <2>1, <2>3 DEF Smaller
    <2>5. handed \in Seq((1 .. MaxWrites) \X Nat) /\ Len(handed) \in Nat
        BY DEF TypeInv, TypeOK, Written
    <2> QED BY <2>1, <2>2, <2>3, <2>4, <2>5 DEF Sending
<1>3. CASE total + n = TheSize
    <2>1. Returning(TheSize)
        BY <1>3, Zenon DEF WriteSend, Send
    <2>2. writer' = "out" /\ total' = 0 /\ reported' = [reported EXCEPT ![Len(sizes)] = size]
        BY <2>1, Zenon DEF Returning
    <2> QED BY <1>1, <1>2, <1>3, <2>2, SendEnds DEF TypeInv, TypeOK
<1>4. CASE total + n # TheSize
    <2>1. total' = total + n /\ UNCHANGED reported
        BY <1>4, Zenon DEF WriteSend, Send
    <2> QED BY <1>1, <1>2, <2>1, SendGoesOn
<1> QED BY <1>3, <1>4

\* write(), from its first to its last step.
LEMMA WriterStep ==
    ASSUME TypeInv, WriteInv, WriterSteps \/ \E len \in WriteSizes : WriteBegin(len)
    PROVE  WriteInv'
<1>1. CASE WriteCheck
    <2>1. CASE Working
        BY <1>1, <2>1, GivesNothing DEF WriteCheck, InWrite
    <2>2. CASE ~Working
        BY <1>1, <2>2, ReturnsNothing DEF WriteCheck, InWrite
    <2> QED BY <2>1, <2>2
<1>2. CASE WriteRefused
    BY <1>2, GivesNothing DEF WriteRefused, InWrite
<1>3. CASE WriteJudge
    <2>1. CASE last_tx_error \/ ret = "error" \/ attempt + 1 = Retries
        BY <1>3, <2>1, ReturnsNothing DEF WriteJudge, InWrite
    <2>2. CASE ~(last_tx_error \/ ret = "error" \/ attempt + 1 = Retries)
        BY <1>3, <2>2, GivesNothing DEF WriteJudge, InWrite
    <2> QED BY <2>1, <2>2
<1>4. ASSUME NEW len \in WriteSizes, WriteBegin(len) PROVE WriteInv'
    BY <1>4, BeginStep
<1> QED BY <1>1, <1>2, <1>3, <1>4, SendStep DEF WriterSteps

\* No other step has anything to do with write().
LEMMA OthersWrite ==
    ASSUME WriteInv,
           \/ Attach \/ Detach \/ \E on \in BOOLEAN : EnableFlag(on)
           \/ ReaderSteps
           \/ \E m \in FrameSizes : RxCallback(m)
           \/ TxCallback \/ StateChangeCallback \/ UNCHANGED vars
    PROVE  WriteInv'
<1>1. UNCHANGED txVars
    <2>1. CASE Attach BY <2>1, Zenon DEF Attach
    <2>2. CASE Detach BY <2>2, Zenon DEF Detach
    <2>3. ASSUME NEW on \in BOOLEAN, EnableFlag(on) PROVE UNCHANGED txVars
        BY <2>3, Zenon DEF EnableFlag
    <2>4. CASE ReaderSteps
        BY <2>4, Zenon DEF ReaderSteps, EnableEmpty, EnableClear, Wake, ReadCheck,
            ReadOverflow, ReadPop
    <2>5. ASSUME NEW m \in FrameSizes, RxCallback(m) PROVE UNCHANGED txVars
        BY <2>5, Zenon DEF RxCallback, Receive
    <2>6. CASE TxCallback BY <2>6, Zenon DEF TxCallback
    <2>7. CASE StateChangeCallback BY <2>7, Zenon DEF StateChangeCallback
    <2>8. CASE UNCHANGED vars BY <2>8, Zenon DEF vars
    <2> QED BY <2>1, <2>2, <2>3, <2>4, <2>5, <2>6, <2>7, <2>8
<1> QED BY <1>1, GivesNothing DEF txVars

\* For any sizes of frames and writes and any number of tries: what the driver is given is
\* a prefix of each write, one write after the other, and a length that *out_written
\* reports was given in whole.
THEOREM WritesAlwaysWhole == Spec => []WholeWrites
<1>1. Init => WriteInv
    BY CanAssumption DEF Init, WriteInv, Given, Reports, Progress, Unreported
<1>2. TypeInv /\ WriteInv /\ [Next]_vars => WriteInv'
    BY WriterStep, OthersWrite DEF Next
<1>3. TypeInv /\ WriteInv => WholeWrites
    <2> SUFFICES ASSUME TypeInv, WriteInv PROVE WholeWrites
        OBVIOUS
    <2>1. DOMAIN handed = 1 .. Len(handed) /\ DOMAIN sizes = 1 .. Len(sizes)
        BY DEF TypeInv, TypeOK
    <2> QED BY <2>1, Zenon DEF WriteInv, Given, Reports, WholeWrites
<1> QED BY TypeInvHolds, <1>1, <1>2, <1>3, PTL DEF Spec

=============================================================================
