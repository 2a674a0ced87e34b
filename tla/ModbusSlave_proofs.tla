------------------------- MODULE ModbusSlave_proofs -------------------------
(***************************************************************************)
(* For blobs, rings and buffers of any size and any number of calls: what   *)
(* the master receives are whole blobs of the application in order, no      *)
(* accepted write is lost, what the application reads are the bytes of the  *)
(* puts, and the reader does not sleep on them.                             *)
(***************************************************************************)
EXTENDS ModbusSlave, SequenceTheorems, TLAPS

\* A put has a number; a poll and a fetch have no length.
Kinds ==
    /\ master.does = "nothing" => master = Idle
    /\ master.does = "put" => master.id # 0
    /\ master.does \in {"poll", "fetch"} => master.len = 0

Flags ==
    /\ attached \in {"no", "failed", "yes"}
    /\ enabled \in BOOLEAN /\ resetting \in BOOLEAN
    /\ rx_overflow \in BOOLEAN /\ posted \in BOOLEAN
    /\ callback \in {"none", "stage", "consume"}
    /\ reader \in {"waiting", "reading"}
    /\ told \in BOOLEAN /\ clean \in BOOLEAN /\ spoiled \in BOOLEAN

Budget == enables \in 0 .. MaxCalls /\ puts \in 0 .. MaxCalls /\ wrote \in 0 .. MaxCalls

Transaction ==
    /\ master \in [does : {"nothing", "put", "poll", "fetch"}, id : Ids, len : Lengths]
    /\ step \in 0 .. Regs(MaxBlob) + 2
    /\ reply \in Replies

Requests == [cmd : {"none", "GIVE", "PUT"}, len : Lengths,
             data : [1 .. Regs(MaxBlob) -> Ids],
             expected : 0 .. Regs(MaxBlob), written : Nat]

Registers == m2s \in Requests /\ s2m \in Replies

Blobs ==
    /\ staged \in [id : Ids, len : 0 .. MaxBlob]
    /\ writes \in Seq([id : Ids, len : 1 .. MaxBlob])
    /\ got \in Seq([id : Ids, len : 0 .. MaxBlob])

Cells == Ids \X (1 .. MaxBlob)

Queues ==
    /\ rx_fifo \in Seq(Cells) /\ Len(rx_fifo) <= RingCapacity
    /\ log \in Seq(Cells) /\ stream \in Seq(Bytes)

\* TypeOK in parts, with what Kinds adds.
TypeInv ==
    Flags /\ Budget /\ Transaction /\ Kinds /\ Registers /\ Blobs /\ Queues

\* A transaction that is clean began enabled, and nothing has changed that since; while
\* nothing is spoiled, so did every transaction that is under way enabled.
Session ==
    /\ resetting => enabled
    /\ clean => enabled /\ master.does # "nothing"
    /\ ~spoiled /\ master.does # "nothing" /\ enabled => clean
    /\ callback # "none" => master.does \in {"put", "poll"}
    /\ ~spoiled /\ callback # "none" => clean

PutRegs == Regs(Clamp(master.len))

\* What the registers of a clean put have left.
PutSoFar ==
    clean /\ master.does = "put" =>
        /\ callback # "stage" /\ step <= 2 + PutRegs
        /\ step >= 1 => m2s.cmd = "PUT"
        /\ step = 1 => m2s.written = 0
        /\ step >= 2 => /\ m2s.len = master.len
                        /\ m2s.expected = PutRegs
                        /\ m2s.written = step - 2
        /\ \A i \in 1 .. PutRegs : i + 2 <= step => m2s.data[i] = master.id
        /\ callback = "consume" => step = 2 + PutRegs

\* What the registers of a clean poll have left.
PollSoFar ==
    clean /\ master.does = "poll" =>
        /\ callback # "consume" /\ step <= 2
        /\ step = 1 => m2s.cmd = "GIVE"
        /\ callback = "stage" => step = 2

\* What the master has read so far of the reply registers.
FetchSoFar ==
    clean /\ master.does = "fetch" =>
        /\ step >= 1 => reply.status = s2m.status
        /\ step >= 2 => reply.len = s2m.len
        /\ \A i \in 1 .. Regs(MaxBlob) : i + 2 <= step => reply.data[i] = s2m.data[i]

\* The reply registers hold what this poll took.
Answered ==
    /\ clean
    /\ \/ master.does = "fetch"
       \/ master.does = "poll" /\ step = 2 /\ callback = "none"

\* The ring has been given what this put carries.
Delivered ==
    /\ clean /\ master.does = "put" /\ callback = "none"
    /\ step = 2 + PutRegs /\ Clamp(master.len) > 0

\* Neither happens before enable() has reset both directions.
AfterReset == Answered \/ Delivered => ~resetting

Control == Session /\ PutSoFar /\ PollSoFar /\ FetchSoFar /\ AfterReset

-----------------------------------------------------------------------------

\* The registers hold a blob in one piece.
Holds(r, b) == r.len = b.len /\ \A i \in 1 .. Regs(b.len) : r.data[i] = b.id

\* What is staged is newer than what the master has got, ...
Numbered ==
    /\ \A j \in 1 .. Len(writes) : writes[j].id <= wrote
    /\ staged.len > 0 =>
         /\ \E j \in 1 .. Len(writes) : staged = writes[j]
         /\ \A i \in 1 .. Len(got) : got[i].id < staged.id

\* ... and so is what it is about to get, which is older than what is staged.
Answer ==
    Answered /\ s2m.status = "HAS_DATA" =>
        \E j \in 1 .. Len(writes) :
            /\ Holds(s2m, writes[j])
            /\ \A i \in 1 .. Len(got) : got[i].id < writes[j].id
            /\ staged.len > 0 => writes[j].id < staged.id

\* InOrder, with the domains written out.
Ordered ==
    /\ \A i \in 1 .. Len(got) : \E j \in 1 .. Len(writes) : got[i] = writes[j]
    /\ \A i, j \in 1 .. Len(got) : i < j => got[i].id < got[j].id

BlobInv == Numbered /\ Answer /\ Ordered

\* The reply registers hold nothing that the master does not have, but while it polls.
Fetched ==
    ~spoiled /\ s2m.status = "HAS_DATA" =>
        Answered \/ \E i \in 1 .. Len(got) : got[i] = Blob(s2m)

LossInv == Fetched /\ NothingLost

\* The bytes of a blob.
Payload(id, len) == [k \in 1 .. Clamp(len) |-> <<id, k>>]

\* What was read and what the ring holds are the acknowledged puts, and the one that is
\* about to be.
Sums ==
    ~spoiled /\ ~told /\ ~rx_overflow =>
        log \o rx_fifo =
            stream \o (IF Delivered THEN Payload(master.id, master.len) ELSE <<>>)

-----------------------------------------------------------------------------
(* Numbers and sequences.                                                  *)

\* Lengths and numbers of registers.
LEMMA Sizes ==
    ASSUME NEW n \in Nat
    PROVE  /\ Clamp(n) \in 0 .. MaxBlob /\ (n # 0 => Clamp(n) # 0)
           /\ (n <= MaxBlob => Clamp(n) = n)
           /\ Regs(n) \in Nat /\ (n # 0 <=> Regs(n) # 0)
           /\ (n <= MaxBlob => Regs(n) \in 0 .. Regs(MaxBlob))
           /\ \A k \in 1 .. n : Regs(k) \in 1 .. Regs(n)
    BY ModbusAssumption DEF Clamp, Smaller, Regs

\* The sets that the constants span.
LEMMA Spans ==
    /\ MaxBlob \in Nat \ {0} /\ MaxCalls \in Nat /\ RingCapacity \in Nat \ {0}
    /\ Lengths \subseteq Nat /\ 0 \in Lengths /\ PutSizes \subseteq Lengths
    /\ 0 \in Ids /\ Ids \subseteq Nat /\ Regs(MaxBlob) \in Nat \ {0}
    /\ Zeros \in [1 .. Regs(MaxBlob) -> Ids]
<1>1. /\ MaxBlob \in Nat \ {0} /\ MaxCalls \in Nat /\ RingCapacity \in Nat \ {0}
      /\ Lengths \subseteq Nat /\ 0 \in Lengths /\ PutSizes \subseteq Lengths
      /\ 0 \in Ids /\ Ids \subseteq Nat
    BY ModbusAssumption DEF Lengths, Ids
<1>2. Regs(MaxBlob) \in Nat \ {0}
    BY <1>1, Sizes
<1> QED BY <1>1, <1>2 DEF Zeros

\* What is 0 in the reset state.
LEMMA Resets ==
    /\ NoReply \in Replies /\ NoReply.status = "NO_DATA"
    /\ NoBlob \in [id : Ids, len : 0 .. MaxBlob] /\ NoBlob.len = 0
    /\ Idle \in [does : {"nothing", "put", "poll", "fetch"}, id : Ids, len : Lengths]
    /\ Idle.does = "nothing"
    BY Spans DEF NoReply, Replies, NoBlob, Idle

\* The elements of a sequence.
LEMMA Elements ==
    ASSUME NEW S, NEW s \in Seq(S)
    PROVE  Len(s) \in Nat /\ \A i \in 1 .. Len(s) : s[i] \in S
    OBVIOUS

\* One more element.
LEMMA Appended ==
    ASSUME NEW S, NEW s \in Seq(S), NEW e \in S
    PROVE  /\ Append(s, e) \in Seq(S) /\ Len(Append(s, e)) = Len(s) + 1
           /\ Append(s, e)[Len(s) + 1] = e
           /\ \A i \in 1 .. Len(s) : Append(s, e)[i] = s[i]
    OBVIOUS

\* A part of a sequence.
LEMMA Parts ==
    ASSUME NEW S, NEW s \in Seq(S), NEW n \in 0 .. Len(s)
    PROVE  /\ SubSeq(s, 1, n) \in Seq(S) /\ Len(SubSeq(s, 1, n)) = n
           /\ SubSeq(s, n + 1, Len(s)) \in Seq(S)
           /\ Len(SubSeq(s, n + 1, Len(s))) = Len(s) - n
           /\ \A i \in 1 .. n : SubSeq(s, 1, n)[i] = s[i]
           /\ \A i \in 1 .. Len(s) - n : SubSeq(s, n + 1, Len(s))[i] = s[n + i]
    OBVIOUS

\* Two sequences, one after the other.
LEMMA Together ==
    ASSUME NEW S, NEW s \in Seq(S), NEW t \in Seq(S)
    PROVE  s \o t \in Seq(S) /\ Len(s \o t) = Len(s) + Len(t)
    OBVIOUS

-----------------------------------------------------------------------------
(* The types.                                                              *)

\* The application, but for what it reads and writes.
LEMMA ControlTypes ==
    ASSUME TypeInv,
           Attach \/ EnableReset \/ Wake \/ \E on \in BOOLEAN : EnableFlag(on)
    PROVE  TypeInv'
<1>1. CASE Attach
    <2>1. Flags'
        BY <1>1, Zenon DEF TypeInv, Flags, Attach, slaveVars, masterVars, appLog, masterLog
    <2> QED BY <1>1, <2>1, Zenon DEF TypeInv, Budget, Transaction, Kinds, Registers, Blobs,
                Queues, Attach, slaveVars, masterVars, appLog, masterLog
<1>2. CASE Wake
    <2>1. Flags'
        BY <1>2, Zenon DEF TypeInv, Flags, Wake, apiVars, masterVars, appLog, masterLog
    <2> QED BY <1>2, <2>1, Zenon DEF TypeInv, Budget, Transaction, Kinds, Registers, Blobs,
                Queues, Wake, apiVars, masterVars, appLog, masterLog
<1>3. CASE EnableReset
    <2>1. Budget' /\ Transaction' /\ Kinds' /\ m2s' = m2s
        BY <1>3, Zenon DEF TypeInv, Budget, Transaction, Kinds, EnableReset
    <2>2. spoiled' \in BOOLEAN
        BY <1>3, Zenon DEF EnableReset
    <2>3. Flags'
        BY <1>3, <2>2, Zenon DEF TypeInv, Flags, EnableReset
    <2>4. s2m' = NoReply /\ staged' = NoBlob /\ writes' = <<>> /\ got' = <<>>
          /\ rx_fifo' = <<>> /\ log' = <<>> /\ stream' = <<>>
        BY <1>3, Zenon DEF EnableReset
    <2>5. Registers' /\ Blobs'
        BY <2>1, <2>4, Resets DEF TypeInv, Registers, Blobs
    <2>6. Queues'
        BY <2>4, Spans DEF Queues
    <2> QED BY <2>1, <2>3, <2>5, <2>6 DEF TypeInv
<1>4. ASSUME NEW on \in BOOLEAN, EnableFlag(on) PROVE TypeInv'
    <2>1. Transaction' /\ Kinds' /\ Registers' /\ Blobs' /\ Queues'
        BY <1>4, Zenon DEF TypeInv, Transaction, Kinds, Registers, Blobs, Queues, EnableFlag,
            slaveVars, appLog, masterLog
    <2>2. spoiled' \in BOOLEAN
        BY <1>4, Zenon DEF EnableFlag
    <2>3. Flags'
        BY <1>4, <2>2, Zenon DEF TypeInv, Flags, EnableFlag, slaveVars, appLog
    <2>4. MoreCalls /\ enables' = enables + 1 /\ puts' = puts /\ wrote' = wrote
        BY <1>4, Zenon DEF EnableFlag, appLog, masterLog
    <2>5. Budget'
        BY <2>4, Spans DEF TypeInv, Budget, MoreCalls
    <2> QED BY <2>1, <2>3, <2>5 DEF TypeInv
<1> QED BY <1>1, <1>2, <1>3, <1>4

\* read()
LEMMA ReadTypes ==
    ASSUME TypeInv, NEW size \in ReadSizes, Read(size)
    PROVE  TypeInv'
<1> DEFINE n == IF rx_overflow THEN 0 ELSE Smaller(size, Len(rx_fifo))
<1>1. /\ rx_fifo' = SubSeq(rx_fifo, n + 1, Len(rx_fifo))
      /\ log' = IF spoiled THEN <<>> ELSE log \o SubSeq(rx_fifo, 1, n)
      /\ stream' = stream
    BY Zenon DEF Read, masterLog
<1>2. Budget' /\ Transaction' /\ Kinds' /\ Registers' /\ Blobs'
    BY Zenon DEF TypeInv, Budget, Transaction, Kinds, Registers, Blobs, Read, apiVars,
        masterVars, masterLog
<1>3. Flags'
    <2>1. (told \/ rx_overflow) \in BOOLEAN
        OBVIOUS
    <2>2. told' \in BOOLEAN
        BY <2>1, Zenon DEF Read
    <2>3. reader' \in {"waiting", "reading"} /\ rx_overflow' \in BOOLEAN
        BY Zenon DEF Read
    <2> QED BY <2>2, <2>3, Zenon DEF TypeInv, Flags, Read, apiVars, masterVars
<1>4. n \in 0 .. Len(rx_fifo)
    BY ModbusAssumption DEF TypeInv, Queues, Smaller
<1> HIDE DEF n
<1>5. Queues'
    <2>1. /\ SubSeq(rx_fifo, 1, n) \in Seq(Cells)
          /\ SubSeq(rx_fifo, n + 1, Len(rx_fifo)) \in Seq(Cells)
          /\ Len(SubSeq(rx_fifo, n + 1, Len(rx_fifo))) = Len(rx_fifo) - n
        BY <1>4, Parts DEF TypeInv, Queues
    <2>2. log' \in Seq(Cells)
        BY <1>1, <2>1, Together DEF TypeInv, Queues
    <2>3. Len(rx_fifo') <= RingCapacity
        BY <1>1, <1>4, <2>1, Spans DEF TypeInv, Queues
    <2> QED BY <1>1, <2>1, <2>2, <2>3 DEF TypeInv, Queues
<1> QED BY <1>2, <1>3, <1>5 DEF TypeInv

\* write()
LEMMA WriteTypes ==
    ASSUME TypeInv, NEW len \in WriteSizes, Write(len)
    PROVE  TypeInv'
<1>1. Flags' /\ Transaction' /\ Kinds' /\ Registers' /\ Queues'
    <2>1. UNCHANGED <<apiVars, rx_fifo, rx_overflow, posted, m2s, s2m, callback, masterVars,
                      reader, log, told, masterLog>>
        BY Zenon DEF Write, Accept
    <2>2. Flags'
        BY <2>1, Zenon DEF TypeInv, Flags, apiVars, masterVars
    <2> QED BY <2>1, <2>2, Zenon DEF TypeInv, Transaction, Kinds, Registers, Queues,
                masterVars, masterLog
<1>2. MoreCalls /\ enables' = enables /\ puts' = puts /\ got' = got
    BY Zenon DEF Write, Accept, apiVars, masterLog
<1>3. len \in Nat
    BY ModbusAssumption
<1>4. CASE len = 0
    <2>1. staged' = NoBlob /\ wrote' = wrote /\ writes' = writes
        BY <1>4, Zenon DEF Write, Accept
    <2> QED BY <1>1, <1>2, <2>1, Resets DEF TypeInv, Budget, Blobs
<1>5. CASE len # 0
    <2> DEFINE b == [id |-> wrote + 1, len |-> Clamp(len)]
    <2>1. wrote' = wrote + 1 /\ staged' = b /\ writes' = Append(writes, b)
        BY <1>5, Zenon DEF Write, Accept
    <2>2. wrote + 1 \in 0 .. MaxCalls
        BY <1>2, Spans DEF TypeInv, Budget, MoreCalls
    <2>3. b \in [id : Ids, len : 1 .. MaxBlob] /\ b \in [id : Ids, len : 0 .. MaxBlob]
        BY <1>3, <1>5, <2>2, Sizes, Spans DEF Ids
    <2> HIDE DEF b
    <2>4. writes' \in Seq([id : Ids, len : 1 .. MaxBlob])
        BY <2>1, <2>3, Appended DEF TypeInv, Blobs
    <2> QED BY <1>1, <1>2, <2>1, <2>2, <2>3, <2>4 DEF TypeInv, Budget, Blobs
<1> QED BY <1>4, <1>5

\* The master's length, and how many registers go with it.
LEMMA Counts ==
    ASSUME TypeInv
    PROVE  /\ master.len \in Nat /\ Clamp(master.len) \in 0 .. MaxBlob
           /\ PutRegs \in 0 .. Regs(MaxBlob) /\ Regs(reply.len) \in 0 .. Regs(MaxBlob)
           /\ Regs(MaxBlob) \in Nat /\ step \in Nat /\ master.id \in Ids
<1>1. /\ master \in [does : {"nothing", "put", "poll", "fetch"}, id : Ids, len : Lengths]
      /\ step \in 0 .. Regs(MaxBlob) + 2 /\ reply \in Replies
    BY DEF TypeInv, Transaction
<1>2. master.len \in Nat /\ master.id \in Ids
    BY <1>1, Spans
<1>3. reply.len \in 0 .. MaxBlob
    BY <1>1 DEF Replies
<1>4. Clamp(master.len) \in 0 .. MaxBlob
    BY <1>2, Sizes
<1>5. /\ Clamp(master.len) \in Nat /\ Clamp(master.len) <= MaxBlob
      /\ reply.len \in Nat /\ reply.len <= MaxBlob
    BY <1>3, <1>4, Spans
<1>6. PutRegs \in 0 .. Regs(MaxBlob) /\ Regs(reply.len) \in 0 .. Regs(MaxBlob)
    BY <1>5, Sizes DEF PutRegs
<1> QED BY <1>1, <1>2, <1>4, <1>6, Spans

\* The master: its requests and what it makes of the replies.
LEMMA MasterTypes ==
    ASSUME TypeInv,
           \/ MasterPoll \/ AskAgain \/ ReplySteps
           \/ \E len \in PutSizes : MasterPut(len)
    PROVE  TypeInv'
<1>1. CASE MasterPoll
    <2>1. /\ master' = [Idle EXCEPT !.does = "poll"] /\ step' = 0 /\ clean' = enabled
          /\ UNCHANGED <<apiVars, slaveVars, m2s, s2m, callback, reply, spoiled, reader,
                         appLog, masterLog>>
        BY <1>1, Zenon DEF MasterPoll
    <2>2. Transaction' /\ Kinds'
        BY <2>1, Spans DEF TypeInv, Transaction, Kinds, Idle
    <2>3. Flags'
        BY <2>1, Zenon DEF TypeInv, Flags, apiVars, slaveVars, appLog
    <2>4. Budget' /\ Registers' /\ Blobs' /\ Queues'
        BY <2>1, Zenon DEF TypeInv, Budget, Registers, Blobs, Queues, apiVars, slaveVars,
            appLog, masterLog
    <2> QED BY <2>2, <2>3, <2>4 DEF TypeInv
<1>2. ASSUME NEW len \in PutSizes, MasterPut(len) PROVE TypeInv'
    <2>1. /\ MoreCalls /\ puts' = puts + 1
          /\ master' = [does |-> "put", id |-> puts + 1, len |-> len]
          /\ step' = 0 /\ clean' = enabled
          /\ UNCHANGED <<apiVars, slaveVars, m2s, s2m, callback, reply, spoiled, reader,
                         appLog, stream, got>>
        BY <1>2, Zenon DEF MasterPut
    <2>2. puts + 1 \in 1 .. MaxCalls /\ puts + 1 \in Ids
        BY <2>1, Spans DEF TypeInv, Budget, MoreCalls, Ids
    <2>3. Transaction' /\ Kinds'
        <3>1. Transaction'
            BY <2>1, <2>2, Spans DEF TypeInv, Transaction
        <3>2. Kinds'
            BY <2>1, <2>2 DEF Kinds
        <3> QED BY <3>1, <3>2
    <2>4. Flags'
        BY <2>1, Zenon DEF TypeInv, Flags, apiVars, slaveVars, appLog
    <2>5. Budget'
        <3>1. enables' = enables /\ wrote' = wrote
            BY <2>1, Zenon DEF apiVars, appLog
        <3> QED BY <2>1, <2>2, <3>1 DEF TypeInv, Budget
    <2>6. Registers' /\ Blobs' /\ Queues'
        BY <2>1, Zenon DEF TypeInv, Registers, Blobs, Queues, slaveVars, appLog
    <2> QED BY <2>3, <2>4, <2>5, <2>6 DEF TypeInv
<1>3. CASE AskAgain
    <2>1. /\ step' = 0 /\ reply' = NoReply /\ spoiled' = (spoiled \/ master.does # "fetch")
          /\ UNCHANGED <<apiVars, slaveVars, m2s, s2m, callback, master, clean, reader,
                         appLog, masterLog>>
        BY <1>3, Zenon DEF AskAgain
    <2>2. Transaction' /\ Kinds'
        BY <2>1, Spans, Resets DEF TypeInv, Transaction, Kinds
    <2>3. Flags'
        <3>1. spoiled' \in BOOLEAN
            BY <2>1, Zenon
        <3> QED BY <2>1, <3>1, Zenon DEF TypeInv, Flags, apiVars, slaveVars, appLog
    <2>4. Budget' /\ Registers' /\ Blobs' /\ Queues'
        BY <2>1, Zenon DEF TypeInv, Budget, Registers, Blobs, Queues, apiVars, slaveVars,
            appLog, masterLog
    <2> QED BY <2>2, <2>3, <2>4 DEF TypeInv
<1>4. CASE PutReply
    <2> DEFINE p == [k \in 1 .. Clamp(master.len) |-> <<master.id, k>>]
    <2>1. /\ master.does = "put" /\ master' = Idle /\ step' = 0 /\ clean' = FALSE
          /\ stream' = IF clean THEN stream \o p ELSE stream
          /\ UNCHANGED <<apiVars, slaveVars, m2s, s2m, callback, reply, spoiled, reader,
                         appLog, puts, got>>
        BY <1>4, Zenon DEF PutReply
    <2>2. Transaction' /\ Kinds'
        BY <2>1, Spans, Resets DEF TypeInv, Transaction, Kinds, Idle
    <2>3. Flags'
        BY <2>1, Zenon DEF TypeInv, Flags, apiVars, slaveVars, appLog
    <2>4. Budget' /\ Registers' /\ Blobs'
        BY <2>1, Zenon DEF TypeInv, Budget, Registers, Blobs, apiVars, slaveVars, appLog
    <2>5. p \in Seq(Bytes)
        <3>1. master.id \in 1 .. MaxCalls
            BY <2>1, Counts, Spans DEF TypeInv, Kinds, Ids
        <3>2. \A k \in 1 .. Clamp(master.len) : <<master.id, k>> \in Bytes
            BY <3>1, Counts, Spans DEF Bytes
        <3>3. Clamp(master.len) \in Nat
            BY Counts, Spans
        <3> QED BY <3>2, <3>3
    <2> HIDE DEF p
    <2>6. Queues'
        <3>1. stream' \in Seq(Bytes)
            BY <2>1, <2>5, Together DEF TypeInv, Queues
        <3> QED BY <2>1, <3>1, Zenon DEF TypeInv, Queues, slaveVars, appLog
    <2> QED BY <2>2, <2>3, <2>4, <2>6 DEF TypeInv
<1>5. CASE PollReply
    <2>1. /\ master' = [Idle EXCEPT !.does = "fetch"] /\ step' = 0 /\ reply' = NoReply
          /\ UNCHANGED <<apiVars, slaveVars, m2s, s2m, callback, clean, spoiled, reader,
                         appLog, masterLog>>
        BY <1>5, Zenon DEF PollReply
    <2>2. Transaction' /\ Kinds'
        BY <2>1, Spans, Resets DEF TypeInv, Transaction, Kinds, Idle
    <2>3. Flags'
        BY <2>1, Zenon DEF TypeInv, Flags, apiVars, slaveVars, appLog
    <2>4. Budget' /\ Registers' /\ Blobs' /\ Queues'
        BY <2>1, Zenon DEF TypeInv, Budget, Registers, Blobs, Queues, apiVars, slaveVars,
            appLog, masterLog
    <2> QED BY <2>2, <2>3, <2>4 DEF TypeInv
<1>6. CASE FetchReply
    <2>1. /\ master' = Idle /\ step' = 0 /\ reply' = NoReply /\ clean' = FALSE
          /\ got' = IF clean /\ reply.status = "HAS_DATA"
                      THEN Append(got, Blob(reply)) ELSE got
          /\ UNCHANGED <<apiVars, slaveVars, m2s, s2m, callback, spoiled, reader, appLog,
                         puts, stream>>
        BY <1>6, Zenon DEF FetchReply
    <2>2. Transaction' /\ Kinds'
        BY <2>1, Spans, Resets DEF TypeInv, Transaction, Kinds, Idle
    <2>3. Flags'
        BY <2>1, Zenon DEF TypeInv, Flags, apiVars, slaveVars, appLog
    <2>4. Budget' /\ Registers' /\ Queues'
        BY <2>1, Zenon DEF TypeInv, Budget, Registers, Queues, apiVars, slaveVars, appLog
    <2>5. Blob(reply) \in [id : Ids, len : 0 .. MaxBlob]
        BY Spans DEF TypeInv, Transaction, Replies, Blob
    <2>6. got' \in Seq([id : Ids, len : 0 .. MaxBlob])
        BY <2>1, <2>5, Appended DEF TypeInv, Blobs
    <2>7. Blobs'
        BY <2>1, <2>6, Zenon DEF TypeInv, Blobs, slaveVars, appLog
    <2> QED BY <2>2, <2>3, <2>4, <2>7 DEF TypeInv
<1> QED BY <1>1, <1>2, <1>3, <1>4, <1>5, <1>6 DEF ReplySteps

\* One field, or one register, of the requests' and the replies' registers.
LEMMA Updates ==
    ASSUME NEW q \in Requests, NEW r \in Replies, NEW i \in 1 .. Regs(MaxBlob), NEW b \in Ids
    PROVE  /\ [q EXCEPT !.data[i] = b, !.written = @ + 1] \in Requests
           /\ \A n \in Lengths, e \in 0 .. Regs(MaxBlob) :
                [q EXCEPT !.len = n, !.expected = e] \in Requests
           /\ \A v \in {"HAS_DATA", "NO_DATA"} : [r EXCEPT !.status = v] \in Replies
           /\ \A v \in 0 .. MaxBlob : [r EXCEPT !.len = v] \in Replies
           /\ [r EXCEPT !.data[i] = b] \in Replies
<1>1. [q EXCEPT !.data[i] = b, !.written = @ + 1] \in Requests
    <2>1. /\ q.data \in [1 .. Regs(MaxBlob) -> Ids] /\ q.written \in Nat
          /\ q = [cmd |-> q.cmd, len |-> q.len, data |-> q.data, expected |-> q.expected,
                  written |-> q.written]
        BY DEF Requests
    <2>2. [q.data EXCEPT ![i] = b] \in [1 .. Regs(MaxBlob) -> Ids] /\ q.written + 1 \in Nat
        BY <2>1
    <2>3. [q EXCEPT !.data[i] = b, !.written = @ + 1] =
             [q EXCEPT !.data = [q.data EXCEPT ![i] = b], !.written = q.written + 1]
        BY DEF Requests
    <2> QED BY <2>2, <2>3 DEF Requests
<1>2. [r EXCEPT !.data[i] = b] \in Replies
    BY Spans DEF Replies
<1>3. ASSUME NEW n \in Lengths, NEW e \in 0 .. Regs(MaxBlob)
      PROVE  [q EXCEPT !.len = n, !.expected = e] \in Requests
    BY DEF Requests
<1>4. /\ \A v \in {"HAS_DATA", "NO_DATA"} : [r EXCEPT !.status = v] \in Replies
      /\ \A v \in 0 .. MaxBlob : [r EXCEPT !.len = v] \in Replies
    BY DEF Replies
<1> QED BY <1>1, <1>2, <1>3, <1>4

\* holding_reg_wr
LEMMA WritingTypes ==
    ASSUME TypeInv, WriteIgnored \/ WriteCmd \/ WriteLen \/ WriteData
    PROVE  TypeInv'
<1>1. ASSUME NEW at \in 0 .. PutRegs + 1, Writing(at),
             m2s' \in Requests, callback' \in {"none", "stage", "consume"}
      PROVE  TypeInv'
    <2>1. /\ step = at /\ step' = step + 1
          /\ UNCHANGED <<apiVars, slaveVars, s2m, master, reply, clean, spoiled, reader,
                         appLog, masterLog>>
        BY <1>1, Zenon DEF Writing
    <2>2. step' \in 0 .. Regs(MaxBlob) + 2
        BY <2>1, Counts
    <2>3. Transaction' /\ Kinds' /\ Registers'
        BY <1>1, <2>1, <2>2, Zenon DEF TypeInv, Transaction, Kinds, Registers
    <2>4. Flags'
        BY <1>1, <2>1, Zenon DEF TypeInv, Flags, apiVars, slaveVars, appLog
    <2>5. Budget' /\ Blobs' /\ Queues'
        BY <2>1, Zenon DEF TypeInv, Budget, Blobs, Queues, apiVars, slaveVars, appLog,
            masterLog
    <2> QED BY <2>3, <2>4, <2>5 DEF TypeInv
<1>2. /\ m2s \in Requests /\ callback \in {"none", "stage", "consume"}
      /\ master.len \in Lengths /\ master.id \in Ids
    BY DEF TypeInv, Registers, Flags, Transaction
<1>3. 0 \in 0 .. PutRegs + 1 /\ 1 \in 0 .. PutRegs + 1
    BY Counts
<1>4. CASE WriteIgnored
    <2>1. PICK at \in 0 .. Regs(Clamp(master.len)) + 1 : Writing(at)
        BY <1>4, Zenon DEF WriteIgnored
    <2>2. m2s' = m2s /\ callback' = callback
        BY <1>4, Zenon DEF WriteIgnored
    <2> QED BY <1>1, <1>2, <2>1, <2>2 DEF PutRegs
<1>5. CASE WriteCmd
    <2>1. /\ Writing(0) /\ callback' = callback
          /\ m2s' = [cmd |-> Command, len |-> 0, data |-> Zeros, expected |-> 0,
                     written |-> 0]
        BY <1>5, Zenon DEF WriteCmd
    <2>2. m2s' \in Requests
        BY <2>1, Spans DEF Requests, Command
    <2> QED BY <1>1, <1>2, <1>3, <2>1, <2>2
<1>6. CASE WriteLen
    <2>1. /\ Writing(1) /\ callback' \in {"none", "stage", "consume"}
          /\ m2s' = [m2s EXCEPT !.len = master.len, !.expected = PutRegs]
        BY <1>6, Zenon DEF WriteLen, PutRegs
    <2>2. m2s' \in Requests
        <3>1. 1 \in 1 .. Regs(MaxBlob)
            BY Spans
        <3>2. PutRegs \in 0 .. Regs(MaxBlob) /\ NoReply \in Replies
            BY Counts, Resets
        <3> QED BY <1>2, <2>1, <3>1, <3>2, Updates
    <2> QED BY <1>1, <1>3, <2>1, <2>2
<1>7. CASE WriteData
    <2>1. PICK i \in 1 .. Regs(Clamp(master.len)) :
             /\ Writing(i + 1)
             /\ m2s' = [m2s EXCEPT !.data[i] = master.id, !.written = @ + 1]
        BY <1>7, Zenon DEF WriteData
    <2>2. callback' \in {"none", "stage", "consume"}
        BY <1>7, Zenon DEF WriteData
    <2>3. i \in 1 .. Regs(MaxBlob) /\ i + 1 \in 0 .. PutRegs + 1
        BY Counts DEF PutRegs
    <2>4. m2s' \in Requests
        BY <1>2, <2>1, <2>3, Updates, Resets
    <2> QED BY <1>1, <2>1, <2>2, <2>3, <2>4
<1> QED BY <1>4, <1>5, <1>6, <1>7

\* The bytes of a blob in the registers.
LEMMA UnpackedBytes ==
    ASSUME TypeInv
    PROVE  Unpacked \in Seq(Cells) /\ Len(Unpacked) = Clamp(m2s.len)
<1>1. m2s \in Requests
    BY DEF TypeInv, Registers
<1>2. m2s.len \in Nat /\ m2s.data \in [1 .. Regs(MaxBlob) -> Ids]
    BY <1>1, Spans DEF Requests
<1>3. Clamp(m2s.len) \in Nat /\ Clamp(m2s.len) <= MaxBlob
    <2>1. Clamp(m2s.len) \in 0 .. MaxBlob
        BY <1>2, Sizes
    <2> QED BY <2>1, Spans
<1>4. \A k \in 1 .. Clamp(m2s.len) : <<m2s.data[Regs(k)], k>> \in Cells
    <2> SUFFICES ASSUME NEW k \in 1 .. Clamp(m2s.len)
                 PROVE  <<m2s.data[Regs(k)], k>> \in Cells
        OBVIOUS
    <2>1. k \in 1 .. MaxBlob
        BY <1>3, Spans
    <2>2. Regs(k) \in 1 .. Regs(MaxBlob)
        BY <2>1, Sizes, Spans
    <2> QED BY <1>2, <2>1, <2>2 DEF Cells
<1> QED BY <1>3, <1>4 DEF Unpacked

\* What the server does under the lock.
LEMMA LockedTypes ==
    ASSUME TypeInv, StageReply \/ Consume
    PROVE  TypeInv'
<1>1. CASE StageReply
    <2> DEFINE d == [i \in 1 .. Regs(MaxBlob) |->
                       IF i <= Regs(staged.len) THEN staged.id ELSE s2m.data[i]]
    <2>1. /\ callback' = "none" /\ staged' = NoBlob
          /\ s2m' = IF staged.len = 0 THEN NoReply
                    ELSE [status |-> "HAS_DATA", len |-> staged.len, data |-> d]
          /\ UNCHANGED <<apiVars, rx_fifo, rx_overflow, posted, m2s, masterVars, reader,
                         appLog, masterLog>>
        BY <1>1, Zenon DEF StageReply
    <2>2. /\ staged.id \in Ids /\ staged.len \in 0 .. MaxBlob
          /\ s2m.data \in [1 .. Regs(MaxBlob) -> Ids]
        BY DEF TypeInv, Blobs, Registers, Replies
    <2>3. d \in [1 .. Regs(MaxBlob) -> Ids]
        BY <2>2
    <2> HIDE DEF d
    <2>4. s2m' \in Replies
        BY <2>1, <2>2, <2>3, Resets DEF Replies
    <2>5. Flags'
        BY <2>1, Zenon DEF TypeInv, Flags, apiVars, masterVars, appLog
    <2>6. Registers' /\ Blobs'
        <3>1. m2s' = m2s /\ writes' = writes /\ got' = got
            BY <2>1, Zenon DEF appLog, masterLog
        <3> QED BY <2>1, <2>4, <3>1, Resets DEF TypeInv, Registers, Blobs
    <2>7. Budget' /\ Transaction' /\ Kinds' /\ Queues'
        BY <2>1, Zenon DEF TypeInv, Budget, Transaction, Kinds, Queues, apiVars, masterVars,
            appLog, masterLog
    <2> QED BY <2>5, <2>6, <2>7 DEF TypeInv
<1>2. CASE Consume
    <2> DEFINE n == Smaller(Len(Unpacked), Room)
    <2>1. /\ callback' = "none"
          /\ rx_fifo' = rx_fifo \o SubSeq(Unpacked, 1, n)
          /\ rx_overflow' = (rx_overflow \/ n < Len(Unpacked))
          /\ posted' = (posted \/ n > 0)
          /\ UNCHANGED <<apiVars, staged, m2s, s2m, masterVars, reader, appLog, masterLog>>
        BY <1>2, Zenon DEF Consume
    <2>2. n \in 0 .. Len(Unpacked) /\ Len(rx_fifo) + n <= RingCapacity
        <3>1. Len(Unpacked) \in Nat /\ Len(rx_fifo) \in Nat /\ Len(rx_fifo) <= RingCapacity
            BY UnpackedBytes DEF TypeInv, Queues
        <3> QED BY <3>1, Spans DEF Smaller, Room
    <2> HIDE DEF n
    <2>3. rx_fifo' \in Seq(Cells) /\ Len(rx_fifo') <= RingCapacity
        <3>1. /\ SubSeq(Unpacked, 1, n) \in Seq(Cells)
              /\ Len(SubSeq(Unpacked, 1, n)) = n
            BY <2>2, UnpackedBytes, Parts
        <3> QED BY <2>1, <2>2, <3>1, Together DEF TypeInv, Queues
    <2>4. Flags'
        <3>1. rx_overflow' \in BOOLEAN /\ posted' \in BOOLEAN
            BY <2>1, Zenon
        <3> QED BY <2>1, <3>1, Zenon DEF TypeInv, Flags, apiVars, masterVars, appLog
    <2>5. Budget' /\ Transaction' /\ Kinds' /\ Registers' /\ Blobs' /\ Queues'
        BY <2>1, <2>3, Zenon DEF TypeInv, Budget, Transaction, Kinds, Registers, Blobs,
            Queues, apiVars, masterVars, appLog, masterLog
    <2> QED BY <2>4, <2>5 DEF TypeInv
<1> QED BY <1>1, <1>2

\* holding_reg_rd
LEMMA ReadingTypes ==
    ASSUME TypeInv, ReadStatus \/ ReadLen \/ ReadData
    PROVE  TypeInv'
<1>1. ASSUME NEW at \in 0 .. Regs(reply.len) + 1, Reading(at), reply' \in Replies
      PROVE  TypeInv'
    <2>1. /\ step = at /\ step' = step + 1
          /\ UNCHANGED <<apiVars, slaveVars, m2s, s2m, callback, master, clean, spoiled,
                         reader, appLog, masterLog>>
        BY <1>1, Zenon DEF Reading
    <2>2. step' \in 0 .. Regs(MaxBlob) + 2
        BY <2>1, Counts
    <2>3. Transaction' /\ Kinds' /\ Registers'
        BY <1>1, <2>1, <2>2, Zenon DEF TypeInv, Transaction, Kinds, Registers
    <2>4. Flags'
        BY <2>1, Zenon DEF TypeInv, Flags, apiVars, slaveVars, appLog
    <2>5. Budget' /\ Blobs' /\ Queues'
        BY <2>1, Zenon DEF TypeInv, Budget, Blobs, Queues, apiVars, slaveVars, appLog,
            masterLog
    <2> QED BY <2>3, <2>4, <2>5 DEF TypeInv
<1>2. /\ reply \in Replies /\ s2m \in Replies
      /\ s2m.status \in {"HAS_DATA", "NO_DATA"} /\ s2m.len \in 0 .. MaxBlob
      /\ \A i \in 1 .. Regs(MaxBlob) : s2m.data[i] \in Ids
    BY DEF TypeInv, Transaction, Registers, Replies
<1>3. /\ 0 \in 0 .. Regs(reply.len) + 1 /\ 1 \in 0 .. Regs(reply.len) + 1
      /\ 1 \in 1 .. Regs(MaxBlob) /\ 0 \in 0 .. MaxBlob /\ MaxBlob \in 0 .. MaxBlob
      /\ 0 \in Ids /\ MaxCalls \in Ids /\ m2s \in Requests
    BY Counts, Spans DEF Ids, TypeInv, Registers
<1>4. CASE ReadStatus
    <2>1. PICK v \in IF enabled THEN {s2m.status} ELSE {"HAS_DATA", "NO_DATA"} :
             reply' = [reply EXCEPT !.status = v]
        BY <1>4, Zenon DEF ReadStatus
    <2>2. v \in {"HAS_DATA", "NO_DATA"}
        BY <1>2, <2>1
    <2>3. reply' \in Replies
        BY <1>2, <1>3, <2>1, <2>2, Updates
    <2> QED BY <1>1, <1>3, <1>4, <2>3 DEF ReadStatus
<1>5. CASE ReadLen
    <2>1. PICK v \in IF enabled THEN {s2m.len} ELSE {0, MaxBlob} :
             reply' = [reply EXCEPT !.len = v]
        BY <1>5, Zenon DEF ReadLen
    <2>2. v \in 0 .. MaxBlob
        BY <1>2, <1>3, <2>1
    <2>3. reply' \in Replies
        BY <1>2, <1>3, <2>1, <2>2, Updates
    <2> QED BY <1>1, <1>3, <1>5, <2>3 DEF ReadLen
<1>6. CASE ReadData
    <2>1. PICK i \in 1 .. Regs(reply.len) :
             /\ Reading(i + 1)
             /\ \E v \in IF enabled THEN {s2m.data[i]} ELSE {0, MaxCalls} :
                   reply' = [reply EXCEPT !.data[i] = v]
        BY <1>6, Zenon DEF ReadData
    <2>2. i \in 1 .. Regs(MaxBlob) /\ i + 1 \in 0 .. Regs(reply.len) + 1
        BY Counts
    <2>3. PICK v \in IF enabled THEN {s2m.data[i]} ELSE {0, MaxCalls} :
             reply' = [reply EXCEPT !.data[i] = v]
        BY <2>1
    <2>4. v \in Ids
        BY <1>2, <1>3, <2>2, <2>3
    <2>5. reply' \in Replies
        BY <1>2, <1>3, <2>2, <2>3, <2>4, Updates
    <2> QED BY <1>1, <2>1, <2>2, <2>5
<1> QED BY <1>4, <1>5, <1>6

\* The types are an invariant.
LEMMA TypeInvHolds == Spec => []TypeInv
<1>1. Init => TypeInv
    <2> SUFFICES ASSUME Init PROVE TypeInv
        OBVIOUS
    <2>1. Flags
        BY DEF Init, Flags
    <2>2. Budget /\ Kinds
        BY Spans DEF Init, Budget, Kinds, Idle
    <2>3. Transaction /\ Registers
        BY Spans, Resets DEF Init, Transaction, Registers, Requests
    <2>4. Blobs /\ Queues
        BY Spans, Resets DEF Init, Blobs, Queues
    <2> QED BY <2>1, <2>2, <2>3, <2>4 DEF TypeInv
<1>2. ASSUME TypeInv, [Next]_vars PROVE TypeInv'
    <2>1. CASE UNCHANGED vars
        <3>1. UNCHANGED <<apiVars, slaveVars, m2s, s2m, callback, masterVars, reader, appLog,
                          masterLog>>
            BY <2>1, Zenon DEF vars
        <3>2. Flags'
            BY <1>2, <3>1, Zenon DEF TypeInv, Flags, apiVars, slaveVars, masterVars, appLog
        <3>3. Budget' /\ Transaction' /\ Kinds'
            BY <1>2, <3>1, Zenon DEF TypeInv, Budget, Transaction, Kinds, apiVars,
                masterVars, appLog, masterLog
        <3>4. Registers' /\ Blobs' /\ Queues'
            BY <1>2, <3>1, Zenon DEF TypeInv, Registers, Blobs, Queues, slaveVars, appLog,
                masterLog
        <3> QED BY <3>2, <3>3, <3>4 DEF TypeInv
    <2>2. CASE Next
        BY <1>2, <2>2, ControlTypes, ReadTypes, WriteTypes, MasterTypes, WritingTypes,
            LockedTypes, ReadingTypes DEF Next, ReaderSteps, ServerSteps
    <2> QED BY <1>2, <2>1, <2>2
<1> QED BY <1>1, <1>2, PTL DEF Spec

\* For any sizes of blobs, ring and buffers and any number of calls the slave's state keeps
\* its types: the ring never exceeds its capacity, no register index the registers.
THEOREM TypeCorrect == Spec => []TypeOK
<1>1. TypeInv => TypeOK
    BY Zenon DEF TypeInv, Flags, Budget, Transaction, Registers, Requests, Blobs, Queues,
        Cells, TypeOK
<1> QED BY TypeInvHolds, <1>1, PTL

-----------------------------------------------------------------------------
(* The reader.                                                             *)

\* The steps that neither fill nor empty the ring, nor wake the reader.
LEMMA Quiet ==
    ASSUME \/ Attach \/ \E on \in BOOLEAN : EnableFlag(on)
           \/ \E len \in WriteSizes : Write(len)
           \/ MasterPoll \/ \E len \in PutSizes : MasterPut(len)
           \/ AskAgain \/ ReplySteps
           \/ WriteIgnored \/ WriteCmd \/ WriteLen \/ WriteData \/ StageReply
           \/ ReadStatus \/ ReadLen \/ ReadData
           \/ UNCHANGED vars
    PROVE  UNCHANGED <<rx_fifo, rx_overflow, posted, reader>>
<1>1. CASE Attach BY <1>1, Zenon DEF Attach, slaveVars
<1>2. ASSUME NEW on \in BOOLEAN, EnableFlag(on)
      PROVE  UNCHANGED <<rx_fifo, rx_overflow, posted, reader>>
    BY <1>2, Zenon DEF EnableFlag, slaveVars
<1>3. ASSUME NEW len \in WriteSizes, Write(len)
      PROVE  UNCHANGED <<rx_fifo, rx_overflow, posted, reader>>
    BY <1>3, Zenon DEF Write, Accept
<1>4. CASE MasterPoll BY <1>4, Zenon DEF MasterPoll, slaveVars
<1>5. ASSUME NEW len \in PutSizes, MasterPut(len)
      PROVE  UNCHANGED <<rx_fifo, rx_overflow, posted, reader>>
    BY <1>5, Zenon DEF MasterPut, slaveVars
<1>6. CASE AskAgain BY <1>6, Zenon DEF AskAgain, slaveVars
<1>7. CASE ReplySteps
    BY <1>7, Zenon DEF ReplySteps, PutReply, PollReply, FetchReply, slaveVars
<1>8. CASE WriteIgnored \/ WriteCmd \/ WriteLen \/ WriteData
    BY <1>8, Zenon DEF WriteIgnored, WriteCmd, WriteLen, WriteData, Writing, slaveVars
<1>9. CASE StageReply BY <1>9, Zenon DEF StageReply
<1>10. CASE ReadStatus \/ ReadLen \/ ReadData
    BY <1>10, Zenon DEF ReadStatus, ReadLen, ReadData, Reading, slaveVars
<1>11. CASE UNCHANGED vars BY <1>11, Zenon DEF vars, slaveVars
<1> QED BY <1>1, <1>2, <1>3, <1>4, <1>5, <1>6, <1>7, <1>8, <1>9, <1>10, <1>11

\* A put that finds no room at all finds bytes of which the reader was told.
LEMMA ConsumeWakes ==
    ASSUME TypeInv, NoLostWakeup, Consume
    PROVE  NoLostWakeup'
<1> DEFINE n == Smaller(Len(Unpacked), Room)
<1>1. /\ rx_fifo' = rx_fifo \o SubSeq(Unpacked, 1, n)
      /\ rx_overflow' = (rx_overflow \/ n < Len(Unpacked))
      /\ posted' = (posted \/ n > 0)
      /\ reader' = reader
    BY Zenon DEF Consume
<1>2. Len(Unpacked) \in Nat /\ Len(rx_fifo) \in Nat /\ Len(rx_fifo) <= RingCapacity
    BY UnpackedBytes DEF TypeInv, Queues
<1>3. n \in 0 .. Len(Unpacked) /\ (n = 0 /\ Len(Unpacked) > 0 => Len(rx_fifo) > 0)
    BY <1>2, Spans DEF Smaller, Room
<1>4. CASE n > 0
    BY <1>1, <1>4, Zenon DEF NoLostWakeup
<1>5. CASE n = 0
    <2>1. Len(Unpacked) > 0 => rx_fifo # <<>>
        BY <1>2, <1>3, <1>5 DEF TypeInv, Queues
    <2>2. rx_fifo' = rx_fifo
        BY <1>1, <1>5, UnpackedBytes DEF TypeInv, Queues
    <2> HIDE DEF n
    <2>3. rx_overflow' => rx_overflow \/ rx_fifo # <<>>
        BY <1>1, <1>5, <2>1
    <2> QED BY <1>1, <2>2, <2>3, Zenon DEF NoLostWakeup
<1> QED BY <1>3, <1>4, <1>5

\* For every capacity and every size of buffers the reader does not sleep on bytes, or on an
\* overflow that it was not told of.
THEOREM NeverLostWakeup == Spec => []NoLostWakeup
<1>1. Init => NoLostWakeup
    BY Zenon DEF Init, NoLostWakeup
<1>2. ASSUME TypeInv, NoLostWakeup, [Next]_vars PROVE NoLostWakeup'
    <2>1. CASE UNCHANGED <<rx_fifo, rx_overflow, posted, reader>>
        BY <1>2, <2>1, Zenon DEF NoLostWakeup
    <2>2. CASE EnableReset
        BY <2>2, Zenon DEF EnableReset, NoLostWakeup
    <2>3. CASE Wake
        BY <2>3 DEF Wake, NoLostWakeup
    <2>4. ASSUME NEW size \in ReadSizes, Read(size) PROVE NoLostWakeup'
        <3> DEFINE n == IF rx_overflow THEN 0 ELSE Smaller(size, Len(rx_fifo))
        <3>1. /\ rx_overflow' = FALSE
              /\ rx_fifo' = SubSeq(rx_fifo, n + 1, Len(rx_fifo))
              /\ reader' = IF n = 0 /\ ~rx_overflow THEN "waiting" ELSE "reading"
            BY <2>4, Zenon DEF Read
        <3>2. SUFFICES ASSUME n = 0, ~rx_overflow PROVE rx_fifo' = <<>>
            BY <3>1 DEF NoLostWakeup
        <3>3. Len(rx_fifo) = 0
            BY <1>2, <3>2, ModbusAssumption DEF Smaller, TypeInv, Queues
        <3> HIDE DEF n
        <3> QED BY <1>2, <3>1, <3>3 DEF TypeInv, Queues
    <2> QED BY <1>2, <2>1, <2>2, <2>3, <2>4, Quiet, ConsumeWakes DEF Next, ReaderSteps,
                ServerSteps
<1> QED BY TypeInvHolds, <1>1, <1>2, PTL DEF Spec

-----------------------------------------------------------------------------
(* The flag, the transaction and what the registers hold of it.            *)

\* The fields of registers of which some are written.
LEMMA Fields ==
    ASSUME NEW q \in Requests, NEW r \in Replies, NEW i \in 1 .. Regs(MaxBlob), NEW b, NEW n,
           NEW e
    PROVE  /\ LET p == [q EXCEPT !.len = n, !.expected = e]
              IN  /\ p.cmd = q.cmd /\ p.len = n /\ p.expected = e /\ p.written = q.written
           /\ [r EXCEPT !.status = n].status = n
           /\ LET p == [r EXCEPT !.len = n] IN p.status = r.status /\ p.len = n
           /\ LET p == [r EXCEPT !.data[i] = b]
              IN  /\ p.status = r.status /\ p.len = r.len /\ p.data[i] = b
                  /\ \A j \in 1 .. Regs(MaxBlob) : j # i => p.data[j] = r.data[j]
<1>1. LET p == [q EXCEPT !.len = n, !.expected = e]
      IN  /\ p.cmd = q.cmd /\ p.len = n /\ p.expected = e /\ p.written = q.written
    BY DEF Requests
<1>2. /\ [r EXCEPT !.status = n].status = n
      /\ LET p == [r EXCEPT !.len = n] IN p.status = r.status /\ p.len = n
    BY DEF Replies
<1>3. LET p == [r EXCEPT !.data[i] = b]
      IN  /\ p.status = r.status /\ p.len = r.len /\ p.data[i] = b
          /\ \A j \in 1 .. Regs(MaxBlob) : j # i => p.data[j] = r.data[j]
    BY DEF Replies
<1> QED BY <1>1, <1>2, <1>3

lineVars == <<enabled, resetting, m2s, s2m, callback, masterVars>>

\* The application's other calls do not meet the line.
LEMMA OffLine ==
    ASSUME \/ Attach \/ ReaderSteps \/ \E len \in WriteSizes : Write(len)
           \/ UNCHANGED vars
    PROVE  UNCHANGED lineVars
<1>1. CASE Attach BY <1>1, Zenon DEF Attach, lineVars
<1>2. CASE ReaderSteps
    BY <1>2, Zenon DEF ReaderSteps, Wake, Read, apiVars, lineVars
<1>3. ASSUME NEW len \in WriteSizes, Write(len) PROVE UNCHANGED lineVars
    BY <1>3, Zenon DEF Write, Accept, apiVars, lineVars
<1>4. CASE UNCHANGED vars BY <1>4, Zenon DEF vars, apiVars, lineVars
<1> QED BY <1>1, <1>2, <1>3, <1>4

\* Then what is said of the line stays.
LEMMA OffLineKeeps ==
    ASSUME Control, UNCHANGED lineVars
    PROVE  Control' /\ (Answered' <=> Answered) /\ (Delivered' <=> Delivered)
<1>1. /\ enabled' = enabled /\ resetting' = resetting /\ m2s' = m2s /\ s2m' = s2m
      /\ callback' = callback /\ master' = master /\ step' = step /\ reply' = reply
      /\ clean' = clean /\ spoiled' = spoiled
    BY Zenon DEF lineVars, masterVars
<1>2. (Answered' <=> Answered) /\ (Delivered' <=> Delivered)
    BY <1>1, Zenon DEF Answered, Delivered, PutRegs
<1>3. Session' /\ PutSoFar'
    BY <1>1, Zenon DEF Control, Session, PutSoFar, PutRegs
<1>4. PollSoFar' /\ FetchSoFar' /\ AfterReset'
    BY <1>1, <1>2, Zenon DEF Control, PollSoFar, FetchSoFar, AfterReset
<1> QED BY <1>2, <1>3, <1>4 DEF Control

\* After an enable() and between the transactions nothing is clean.
LEMMA NotClean ==
    ASSUME Session', ~clean' PROVE Control'
    BY Zenon DEF Control, PutSoFar, PollSoFar, FetchSoFar, AfterReset, Answered, Delivered

\* enable()
LEMMA EnableControl ==
    ASSUME TypeInv, Control, EnableReset \/ \E on \in BOOLEAN : EnableFlag(on)
    PROVE  Control'
<1>1. CASE EnableReset
    <2>1. /\ resetting /\ resetting' = FALSE /\ s2m' = NoReply
          /\ spoiled' = (master # Idle /\ ~clean)
          /\ UNCHANGED <<enabled, m2s, callback, master, step, reply, clean>>
        BY <1>1, Zenon DEF EnableReset
    <2>2. master.does # "nothing" => master # Idle
        BY Resets
    <2>3. Session'
        BY <2>1, <2>2, Zenon DEF Control, Session
    <2>4. PutSoFar' /\ PollSoFar'
        BY <2>1, Zenon DEF Control, PutSoFar, PutRegs, PollSoFar
    <2>5. FetchSoFar' /\ AfterReset'
        BY <2>1, Zenon DEF Control, FetchSoFar, AfterReset, Answered
    <2> QED BY <2>3, <2>4, <2>5 DEF Control
<1>2. ASSUME NEW on \in BOOLEAN, EnableFlag(on) PROVE Control'
    <2>1. /\ enabled' = on /\ resetting' = on /\ clean' = FALSE
          /\ spoiled' = (spoiled \/ master # Idle)
          /\ UNCHANGED <<callback, master>>
        BY <1>2, Zenon DEF EnableFlag
    <2>2. master.does # "nothing" => master # Idle
        BY Resets
    <2>3. callback # "none" => master # Idle
        BY <2>2 DEF Control, Session
    <2>4. Session'
        BY <2>1, <2>2, <2>3 DEF Control, Session
    <2> QED BY <2>1, <2>4, NotClean
<1> QED BY <1>1, <1>2

\* After a step, too, a length has a number of registers.
LEMMA NextRegs == ASSUME TypeInv' PROVE Regs(Clamp(master'.len)) \in Nat
<1>1. master'.len \in Nat
    BY Spans DEF TypeInv, Transaction
<1>2. Clamp(master'.len) \in 0 .. MaxBlob
    BY <1>1, Sizes
<1>3. Clamp(master'.len) \in Nat
    BY <1>2, Spans
<1> QED BY <1>3, Sizes

\* The master begins, gives up on a reply, or ends.
LEMMA MasterControl ==
    ASSUME TypeInv, Control,
           \/ MasterPoll \/ AskAgain \/ ReplySteps
           \/ \E len \in PutSizes : MasterPut(len)
    PROVE  Control'
<1>1. ASSUME master = Idle, step' = 0, clean' = enabled, master'.does \in {"put", "poll"},
             UNCHANGED <<enabled, resetting, m2s, s2m, callback, reply, spoiled>>
      PROVE  Control'
    <2>1. callback = "none"
        BY <1>1, Resets DEF Control, Session
    <2>2. Session'
        BY <1>1, <2>1 DEF Control, Session
    <2>3. Regs(Clamp(master'.len)) \in Nat
        BY MasterTypes, NextRegs
    <2>4. PutSoFar'
        BY <1>1, <2>1, <2>3 DEF PutSoFar, PutRegs
    <2>5. PollSoFar' /\ FetchSoFar'
        BY <1>1, <2>1 DEF PollSoFar, FetchSoFar
    <2>6. AfterReset'
        BY <1>1, <2>1, <2>3 DEF AfterReset, Answered, Delivered, PutRegs
    <2> QED BY <2>2, <2>4, <2>5, <2>6 DEF Control
<1>2. CASE MasterPoll
    <2>1. /\ master = Idle /\ step' = 0 /\ clean' = enabled
          /\ master' = [Idle EXCEPT !.does = "poll"]
          /\ UNCHANGED <<enabled, resetting, m2s, s2m, callback, reply, spoiled>>
        BY <1>2, Zenon DEF MasterPoll, apiVars
    <2>2. master'.does = "poll"
        BY <2>1, Resets DEF Idle
    <2> QED BY <1>1, <2>1, <2>2
<1>3. ASSUME NEW len \in PutSizes, MasterPut(len) PROVE Control'
    <2>1. /\ master = Idle /\ step' = 0 /\ clean' = enabled
          /\ master' = [does |-> "put", id |-> puts + 1, len |-> len]
          /\ UNCHANGED <<enabled, resetting, m2s, s2m, callback, reply, spoiled>>
        BY <1>3, Zenon DEF MasterPut, apiVars
    <2> QED BY <1>1, <2>1
<1>4. CASE AskAgain
    <2>1. /\ callback = "none" /\ step' = 0
          /\ spoiled' = (spoiled \/ master.does # "fetch")
          /\ UNCHANGED <<enabled, resetting, m2s, s2m, callback, master, clean>>
        BY <1>4, Zenon DEF AskAgain, Served, apiVars
    <2>2. Session'
        BY <2>1 DEF Control, Session
    <2>3. PutSoFar' /\ PollSoFar' /\ FetchSoFar'
        <3>1. PutRegs' = PutRegs /\ PutRegs \in Nat
            BY <2>1, Counts DEF PutRegs
        <3> QED BY <2>1, <3>1 DEF PutSoFar, PollSoFar, FetchSoFar
    <2>4. AfterReset'
        <3>1. PutRegs' = PutRegs /\ PutRegs \in Nat
            BY <2>1, Counts DEF PutRegs
        <3> QED BY <2>1, <3>1 DEF Control, AfterReset, Answered, Delivered
    <2> QED BY <2>2, <2>3, <2>4 DEF Control
<1>5. CASE PutReply \/ FetchReply
    <2>1. /\ callback = "none" /\ callback' = callback /\ master' = Idle /\ clean' = FALSE
          /\ UNCHANGED <<enabled, resetting, spoiled>>
        BY <1>5, Zenon DEF PutReply, FetchReply, Served, apiVars
    <2>2. Session'
        BY <2>1, Resets DEF Control, Session
    <2> QED BY <2>1, <2>2, NotClean
<1>6. CASE PollReply
    <2>1. /\ callback = "none" /\ master.does = "poll" /\ step' = 0
          /\ step = CASE master.does = "poll" -> 2
                      [] master.does = "put" -> 2 + Regs(Clamp(master.len))
                      [] master.does = "fetch" -> 2 + Regs(reply.len)
                      [] OTHER -> Regs(MaxBlob) + 3
          /\ master' = [Idle EXCEPT !.does = "fetch"]
          /\ UNCHANGED <<enabled, resetting, callback, clean, spoiled>>
        BY <1>6, Zenon DEF PollReply, Served, apiVars
    <2>2. step = 2 /\ master'.does = "fetch"
        BY <2>1 DEF Idle
    <2>3. Session' /\ PutSoFar' /\ PollSoFar' /\ FetchSoFar'
        BY <2>1, <2>2 DEF Control, Session, PutSoFar, PollSoFar, FetchSoFar
    <2>4. AfterReset'
        BY <2>1, <2>2 DEF Control, AfterReset, Answered, Delivered
    <2> QED BY <2>3, <2>4 DEF Control
<1> QED BY <1>2, <1>3, <1>4, <1>5, <1>6 DEF ReplySteps

\* The server takes the header of a request, or drops a register while not enabled.
LEMMA HeaderControl ==
    ASSUME TypeInv, Control, WriteIgnored \/ WriteCmd \/ WriteLen
    PROVE  Control'
<1>1. /\ callback = "none" /\ master.does \in {"put", "poll"} /\ step' = step + 1
      /\ UNCHANGED <<enabled, resetting, s2m, master, reply, clean, spoiled>>
    BY Zenon DEF WriteIgnored, WriteCmd, WriteLen, Writing, apiVars
<1>2. /\ PutRegs' = PutRegs /\ PutRegs \in Nat /\ step \in Nat
      /\ PutRegs = 0 => Clamp(master.len) = 0
    <2>1. PutRegs \in Nat /\ step \in Nat /\ Clamp(master.len) \in Nat
        BY Counts, Spans
    <2>2. PutRegs = 0 => Clamp(master.len) = 0
        BY <2>1, Sizes DEF PutRegs
    <2> QED BY <1>1, <2>1, <2>2 DEF PutRegs
<1>3. CASE WriteIgnored
    <2>1. ~enabled /\ callback' = callback
        BY <1>3, Zenon DEF WriteIgnored
    <2>2. ~clean
        BY <2>1 DEF Control, Session
    <2>3. Session'
        BY <1>1, <2>1, <2>2 DEF Control, Session
    <2> QED BY <1>1, <2>2, <2>3, NotClean
<1>4. CASE WriteCmd
    <2>1. /\ step = 0 /\ callback' = callback
          /\ m2s' = [cmd |-> Command, len |-> 0, data |-> Zeros, expected |-> 0,
                     written |-> 0]
        BY <1>4, Zenon DEF WriteCmd, Writing
    <2>2. /\ m2s'.cmd = Command /\ m2s'.written = 0
        BY <2>1
    <2>3. Session'
        BY <1>1, <2>1 DEF Control, Session
    <2>4. PutSoFar'
        BY <1>1, <1>2, <2>1, <2>2 DEF PutSoFar, Command
    <2>5. PollSoFar' /\ FetchSoFar'
        BY <1>1, <2>1, <2>2 DEF PollSoFar, FetchSoFar, Command
    <2>6. AfterReset'
        BY <1>1, <1>2, <2>1 DEF AfterReset, Answered, Delivered
    <2> QED BY <2>3, <2>4, <2>5, <2>6 DEF Control
<1>5. CASE WriteLen
    <2>1. /\ enabled /\ step = 1
          /\ m2s' = [m2s EXCEPT !.len = master.len, !.expected = PutRegs]
          /\ callback' = IF m2s.cmd = "GIVE" THEN "stage" ELSE "none"
        BY <1>5, Zenon DEF WriteLen, Writing, PutRegs
    <2>2. /\ m2s'.cmd = m2s.cmd /\ m2s'.len = master.len /\ m2s'.expected = PutRegs
          /\ m2s'.written = m2s.written
        <3>1. m2s \in Requests /\ NoReply \in Replies /\ 1 \in 1 .. Regs(MaxBlob)
            BY Resets, Spans DEF TypeInv, Registers
        <3> QED BY <2>1, <3>1, Fields
    <2>3. Session'
        BY <1>1, <2>1 DEF Control, Session
    <2>4. PutSoFar'
        <3>1. clean /\ master.does = "put" => m2s.cmd = "PUT" /\ m2s.written = 0
            BY <2>1 DEF Control, PutSoFar
        <3> QED BY <1>1, <1>2, <2>1, <2>2, <3>1 DEF PutSoFar
    <2>5. PollSoFar' /\ FetchSoFar'
        <3>1. clean /\ master.does = "poll" => m2s.cmd = "GIVE"
            BY <2>1 DEF Control, PollSoFar
        <3> QED BY <1>1, <2>1, <2>2, <3>1 DEF PollSoFar, FetchSoFar
    <2>6. AfterReset'
        <3>1. clean /\ master.does = "poll" => m2s.cmd = "GIVE"
            BY <2>1 DEF Control, PollSoFar
        <3>2. ~Answered'
            BY <1>1, <2>1, <3>1 DEF Answered
        <3>3. ~Delivered'
            BY <1>1, <1>2, <2>1, Counts, Spans DEF Delivered
        <3> QED BY <3>2, <3>3 DEF AfterReset
    <2> QED BY <2>3, <2>4, <2>5, <2>6 DEF Control
<1> QED BY <1>3, <1>4, <1>5

\* A put takes one register of the payload after the other.
LEMMA PayloadControl ==
    ASSUME TypeInv, Control, WriteData
    PROVE  Control'
<1>1. /\ enabled /\ callback = "none" /\ master.does \in {"put", "poll"} /\ step' = step + 1
      /\ UNCHANGED <<enabled, resetting, s2m, master, reply, clean, spoiled>>
      /\ callback' = IF m2s.cmd = "PUT" /\ m2s.expected > 0 /\ m2s'.written >= m2s.expected
                       THEN "consume" ELSE "none"
    BY Zenon DEF WriteData, Writing, apiVars
<1>2. PICK i \in 1 .. PutRegs :
         /\ step = i + 1
         /\ m2s' = [m2s EXCEPT !.data[i] = master.id, !.written = @ + 1]
    BY Zenon DEF WriteData, Writing, PutRegs
<1>3. PutRegs' = PutRegs /\ PutRegs \in 0 .. Regs(MaxBlob) /\ Regs(MaxBlob) \in Nat
    BY <1>1, Counts DEF PutRegs
<1>4. /\ i \in 1 .. Regs(MaxBlob)
      /\ m2s'.cmd = m2s.cmd /\ m2s'.len = m2s.len /\ m2s'.expected = m2s.expected
      /\ m2s'.written = m2s.written + 1
      /\ m2s'.data[i] = master.id
      /\ \A j \in 1 .. Regs(MaxBlob) : j # i => m2s'.data[j] = m2s.data[j]
    <2>1. m2s \in Requests /\ NoReply \in Replies /\ i \in 1 .. Regs(MaxBlob)
        BY <1>2, <1>3, Resets DEF TypeInv, Registers
    <2> DEFINE p == [m2s EXCEPT !.data[i] = master.id, !.written = @ + 1]
    <2>2. /\ p.cmd = m2s.cmd /\ p.len = m2s.len /\ p.expected = m2s.expected
          /\ p.written = m2s.written + 1 /\ p.data[i] = master.id
          /\ \A j \in 1 .. Regs(MaxBlob) : j # i => p.data[j] = m2s.data[j]
        BY <2>1 DEF Requests
    <2>3. m2s' = p
        BY <1>2
    <2> HIDE DEF p
    <2> QED BY <2>1, <2>2, <2>3, Zenon
<1>5. master.does = "put"
    <2>1. master.len = 0 => PutRegs = 0
        BY Sizes, Spans DEF PutRegs
    <2> QED BY <1>1, <1>2, <2>1 DEF TypeInv, Kinds
<1>6. Session'
    BY <1>1 DEF Control, Session
<1>7. clean => /\ m2s.cmd = "PUT" /\ m2s.len = master.len /\ m2s.expected = PutRegs
               /\ m2s.written = i - 1
               /\ \A j \in 1 .. PutRegs : j + 2 <= i + 1 => m2s.data[j] = master.id
    BY <1>2, <1>3, <1>5 DEF Control, PutSoFar
<1>8. clean => (callback' = "consume" <=> i = PutRegs)
    BY <1>1, <1>2, <1>3, <1>4, <1>7
<1>9. PutSoFar'
    <2> SUFFICES ASSUME clean
                 PROVE  /\ callback' # "stage" /\ step' <= 2 + PutRegs
                        /\ m2s'.cmd = "PUT" /\ step' # 1
                        /\ m2s'.len = master.len /\ m2s'.expected = PutRegs
                        /\ m2s'.written = step' - 2
                        /\ \A j \in 1 .. PutRegs :
                              j + 2 <= step' => m2s'.data[j] = master.id
                        /\ callback' = "consume" => step' = 2 + PutRegs
        BY <1>1, <1>3 DEF PutSoFar
    <2>1. /\ callback' # "stage" /\ step' <= 2 + PutRegs /\ m2s'.cmd = "PUT"
          /\ m2s'.len = master.len /\ m2s'.expected = PutRegs /\ step' # 1
          /\ m2s'.written = step' - 2
          /\ callback' = "consume" => step' = 2 + PutRegs
        BY <1>1, <1>2, <1>3, <1>4, <1>7, <1>8
    <2>2. ASSUME NEW j \in 1 .. PutRegs, j + 2 <= step' PROVE m2s'.data[j] = master.id
        <3>1. j <= i /\ j \in 1 .. Regs(MaxBlob)
            BY <1>1, <1>2, <1>3, <2>2
        <3>2. CASE j = i
            BY <1>4, <3>2
        <3>3. CASE j # i
            <4>1. j + 2 <= i + 1
                BY <3>1, <3>3, <1>2
            <4> QED BY <1>4, <1>7, <3>1, <3>3, <4>1
        <3> QED BY <3>2, <3>3
    <2> QED BY <2>1, <2>2
<1>10. PollSoFar' /\ FetchSoFar'
    BY <1>1, <1>5 DEF PollSoFar, FetchSoFar
<1>11. AfterReset'
    <2>1. ~Answered'
        BY <1>1, <1>5 DEF Answered
    <2>2. ~Delivered'
        BY <1>1, <1>2, <1>3, <1>8 DEF Delivered
    <2> QED BY <2>1, <2>2 DEF AfterReset
<1> QED BY <1>6, <1>9, <1>10, <1>11 DEF Control

\* What is done under the lock is done after the reset.
LEMMA LockedControl ==
    ASSUME TypeInv, Control, StageReply \/ Consume
    PROVE  Control'
<1>1. /\ callback # "none" /\ ~resetting /\ callback' = "none"
      /\ UNCHANGED <<enabled, resetting, m2s, master, step, reply, clean, spoiled>>
    BY Zenon DEF StageReply, Consume, apiVars, masterVars
<1>2. master.does \in {"put", "poll"}
    BY <1>1 DEF Control, Session
<1>3. Session' /\ PutSoFar' /\ PollSoFar'
    BY <1>1 DEF Control, Session, PutSoFar, PutRegs, PollSoFar
<1>4. FetchSoFar' /\ AfterReset'
    BY <1>1, <1>2 DEF FetchSoFar, AfterReset
<1> QED BY <1>3, <1>4 DEF Control

\* The master reads the reply registers one after another.
LEMMA ReadingControl ==
    ASSUME TypeInv, Control, ReadStatus \/ ReadLen \/ ReadData
    PROVE  Control'
<1>1. /\ master.does = "fetch" /\ step' = step + 1
      /\ UNCHANGED <<enabled, resetting, m2s, s2m, callback, master, clean, spoiled>>
    BY Zenon DEF ReadStatus, ReadLen, ReadData, Reading, apiVars
<1>2. Session' /\ PutSoFar' /\ PollSoFar'
    BY <1>1 DEF Control, Session, PutSoFar, PollSoFar
<1>3. AfterReset'
    BY <1>1 DEF Control, AfterReset, Answered, Delivered
<1>4. /\ reply \in Replies /\ m2s \in Requests /\ step \in Nat /\ 1 \in 1 .. Regs(MaxBlob)
      /\ Regs(MaxBlob) \in Nat
    BY Counts, Spans DEF TypeInv, Transaction, Registers
<1>5. clean => enabled
    BY DEF Control, Session
<1>6. FetchSoFar'
    <2> SUFFICES ASSUME clean
                 PROVE  /\ step' >= 1 => reply'.status = s2m.status
                        /\ step' >= 2 => reply'.len = s2m.len
                        /\ \A j \in 1 .. Regs(MaxBlob) :
                              j + 2 <= step' => reply'.data[j] = s2m.data[j]
        BY <1>1 DEF FetchSoFar
    <2>1. /\ step >= 1 => reply.status = s2m.status
          /\ step >= 2 => reply.len = s2m.len
          /\ \A j \in 1 .. Regs(MaxBlob) : j + 2 <= step => reply.data[j] = s2m.data[j]
        BY <1>1 DEF Control, FetchSoFar
    <2>2. CASE ReadStatus
        <3>1. step = 0 /\ reply' = [reply EXCEPT !.status = s2m.status]
            BY <1>5, <2>2 DEF ReadStatus, Reading
        <3>2. reply'.status = s2m.status
            BY <1>4, <3>1, Fields
        <3> QED BY <1>1, <3>1, <3>2
    <2>3. CASE ReadLen
        <3>1. step = 1 /\ reply' = [reply EXCEPT !.len = s2m.len]
            BY <1>5, <2>3 DEF ReadLen, Reading
        <3>2. reply'.status = reply.status /\ reply'.len = s2m.len
            BY <1>4, <3>1, Fields
        <3> QED BY <1>1, <2>1, <3>1, <3>2
    <2>4. CASE ReadData
        <3>1. PICK i \in 1 .. Regs(reply.len) :
                 step = i + 1 /\ reply' = [reply EXCEPT !.data[i] = s2m.data[i]]
            BY <1>5, <2>4 DEF ReadData, Reading
        <3>2. i \in 1 .. Regs(MaxBlob)
            BY <3>1, Counts
        <3>3. /\ reply'.status = reply.status /\ reply'.len = reply.len
              /\ reply'.data[i] = s2m.data[i]
              /\ \A j \in 1 .. Regs(MaxBlob) : j # i => reply'.data[j] = reply.data[j]
            BY <1>4, <3>1, <3>2, Fields
        <3>4. ASSUME NEW j \in 1 .. Regs(MaxBlob), j + 2 <= step'
              PROVE  reply'.data[j] = s2m.data[j]
            <4>1. CASE j = i
                BY <3>3, <4>1
            <4>2. CASE j # i
                <5>1. j + 2 <= step
                    BY <1>1, <3>1, <3>2, <3>4, <4>2, <1>4
                <5> QED BY <2>1, <3>3, <4>2, <5>1
            <4> QED BY <4>1, <4>2
        <3> QED BY <2>1, <3>1, <3>2, <3>3, <3>4
    <2> QED BY <2>2, <2>3, <2>4
<1> QED BY <1>2, <1>3, <1>6 DEF Control

\* What is said of the flag, the transaction and the registers is an invariant.
LEMMA ControlHolds == Spec => []Control
<1>1. Init => Control
    BY Resets DEF Init, Control, Session, PutSoFar, PollSoFar, FetchSoFar, AfterReset,
        Answered, Delivered
<1>2. TypeInv /\ Control /\ [Next]_vars => Control'
    BY OffLine, OffLineKeeps, EnableControl, MasterControl, HeaderControl, PayloadControl,
        LockedControl, ReadingControl DEF Next, ServerSteps
<1> QED BY TypeInvHolds, <1>1, <1>2, PTL DEF Spec

\* A step after which the transaction is where it was, but that no reply is awaited any
\* more or something is spoiled.
Same ==
    /\ Answered' => Answered
    /\ ~spoiled' => /\ ~spoiled
                    /\ Answered => Answered'
                    /\ Delivered' <=> Delivered
                    /\ Delivered => master' = master

\* The steps off the line are such steps.
LEMMA OffLineSame == ASSUME Control, UNCHANGED lineVars PROVE Same
<1>1. spoiled' = spoiled /\ master' = master
    BY Zenon DEF lineVars, masterVars
<1> QED BY <1>1, OffLineKeeps, Zenon DEF Same

\* enable() sets the flag, the master begins, asks again or goes on to the reply.
LEMMA MasterSame ==
    ASSUME TypeInv, Control,
           \/ \E on \in BOOLEAN : EnableFlag(on)
           \/ MasterPoll \/ AskAgain \/ PollReply
           \/ \E len \in PutSizes : MasterPut(len)
    PROVE  Same
<1>1. /\ PutRegs \in Nat /\ step \in Nat
      /\ master.does \in {"put", "poll", "fetch"} => master # Idle
    BY Counts, Resets
<1>2. ASSUME NEW on \in BOOLEAN, EnableFlag(on) PROVE Same
    <2>1. clean' = FALSE /\ spoiled' = (spoiled \/ master # Idle)
        BY <1>2, Zenon DEF EnableFlag
    <2> QED BY <1>1, <2>1 DEF Same, Answered, Delivered
<1>3. ASSUME master = Idle, step' = 0, master'.does \in {"put", "poll"},
             spoiled' = spoiled, Regs(Clamp(master'.len)) \in Nat
      PROVE  Same
    <2>1. ~Answered /\ ~Delivered
        BY <1>1, <1>3 DEF Answered, Delivered
    <2>2. ~Answered' /\ ~Delivered'
        BY <1>3 DEF Answered, Delivered, PutRegs
    <2> QED BY <1>3, <2>1, <2>2 DEF Same
<1>4. CASE MasterPoll
    <2>1. /\ master = Idle /\ step' = 0 /\ spoiled' = spoiled
          /\ master' = [Idle EXCEPT !.does = "poll"]
        BY <1>4, Zenon DEF MasterPoll
    <2>2. master'.does = "poll"
        BY <2>1, Resets DEF Idle
    <2> QED BY <1>3, <1>4, <2>1, <2>2, MasterTypes, NextRegs
<1>5. ASSUME NEW len \in PutSizes, MasterPut(len) PROVE Same
    <2>1. /\ master = Idle /\ step' = 0 /\ spoiled' = spoiled
          /\ master' = [does |-> "put", id |-> puts + 1, len |-> len]
        BY <1>5, Zenon DEF MasterPut
    <2> QED BY <1>3, <1>5, <2>1, MasterTypes, NextRegs
<1>6. CASE AskAgain
    <2>1. /\ step' = 0 /\ spoiled' = (spoiled \/ master.does # "fetch")
          /\ UNCHANGED <<callback, master, clean>>
        BY <1>6, Zenon DEF AskAgain
    <2>2. PutRegs' \in Nat
        BY <1>1, <2>1 DEF PutRegs
    <2>3. ~spoiled' => ~spoiled /\ master.does = "fetch"
        BY <2>1, Zenon
    <2>4. (Answered' => Answered) /\ (master.does = "fetch" => (Answered => Answered'))
        BY <2>1 DEF Answered
    <2>5. ~Delivered'
        <3>1. step' = 0 /\ PutRegs' = Regs(Clamp(master'.len)) /\ PutRegs' \in Nat
            BY <2>1, <2>2, Zenon DEF PutRegs
        <3>2. step' # 2 + PutRegs'
            BY <3>1
        <3> QED BY <3>2, Zenon DEF Delivered
    <2>6. master.does = "fetch" => ~Delivered
        BY DEF Delivered
    <2> QED BY <2>3, <2>4, <2>5, <2>6, Zenon DEF Same
<1>7. CASE PollReply
    <2>1. /\ callback = "none" /\ master.does = "poll" /\ step' = 0
          /\ step = CASE master.does = "poll" -> 2
                      [] master.does = "put" -> 2 + Regs(Clamp(master.len))
                      [] master.does = "fetch" -> 2 + Regs(reply.len)
                      [] OTHER -> Regs(MaxBlob) + 3
          /\ master' = [Idle EXCEPT !.does = "fetch"]
          /\ UNCHANGED <<callback, clean, spoiled>>
        BY <1>7, Zenon DEF PollReply, Served
    <2>2. step = 2 /\ master'.does = "fetch"
        BY <2>1 DEF Idle
    <2> QED BY <2>1, <2>2 DEF Same, Answered, Delivered
<1> QED BY <1>2, <1>4, <1>5, <1>6, <1>7

\* The server's callbacks, but what they do under the lock.
LEMMA ServerSame ==
    ASSUME TypeInv, Control,
           \/ WriteIgnored \/ WriteCmd \/ WriteLen \/ WriteData
           \/ ReadStatus \/ ReadLen \/ ReadData
    PROVE  Same
<1>1. PutRegs \in 0 .. Regs(MaxBlob) /\ Regs(MaxBlob) \in Nat /\ step \in Nat
    BY Counts
<1>2. CASE WriteIgnored
    <2>1. ~enabled /\ clean' = clean /\ spoiled' = spoiled
        BY <1>2, Zenon DEF WriteIgnored, Writing
    <2>2. ~clean
        BY <2>1 DEF Control, Session
    <2> QED BY <2>1, <2>2 DEF Same, Answered, Delivered
<1>3. CASE ReadStatus \/ ReadLen \/ ReadData
    <2>1. /\ master.does = "fetch" /\ UNCHANGED <<callback, master, clean, spoiled>>
        BY <1>3, Zenon DEF ReadStatus, ReadLen, ReadData, Reading
    <2> QED BY <2>1 DEF Same, Answered, Delivered
<1>4. CASE WriteCmd \/ WriteLen \/ WriteData
    <2>1. /\ master.does \in {"put", "poll"} /\ step' = step + 1
          /\ UNCHANGED <<master, clean, spoiled>>
        BY <1>4, Zenon DEF WriteCmd, WriteLen, WriteData, Writing
    <2>2. PutRegs' = PutRegs
        BY <2>1 DEF PutRegs
    <2>3. step \in {0, 1} \/ step \in 2 .. PutRegs + 1
        <3>1. CASE WriteCmd \/ WriteLen
            BY <3>1 DEF WriteCmd, WriteLen, Writing
        <3>2. CASE WriteData
            <4>1. PICK i \in 1 .. PutRegs : step = i + 1
                BY <3>2 DEF WriteData, Writing, PutRegs
            <4> QED BY <1>1, <4>1
        <3> QED BY <1>4, <3>1, <3>2
    <2>4. master.does = "poll" => PutRegs = 0
        <3>1. master.len = 0 => PutRegs = 0
            BY Sizes, Spans DEF PutRegs
        <3> QED BY <3>1 DEF TypeInv, Kinds
    <2>5. ~Answered /\ ~Delivered
        BY <1>1, <2>1, <2>3, <2>4 DEF Answered, Delivered
    <2>6. CASE WriteCmd
        <3>1. step = 0
            BY <2>6 DEF WriteCmd, Writing
        <3>2. ~Answered' /\ ~Delivered'
            BY <1>1, <2>1, <2>2, <3>1 DEF Answered, Delivered
        <3> QED BY <2>1, <2>5, <3>2 DEF Same
    <2>7. CASE WriteLen
        <3>1. step = 1 /\ callback' = IF m2s.cmd = "GIVE" THEN "stage" ELSE "none"
            BY <2>7, Zenon DEF WriteLen, Writing
        <3>2. clean /\ master.does = "poll" => m2s.cmd = "GIVE"
            BY <3>1 DEF Control, PollSoFar
        <3>3. ~Answered'
            BY <2>1, <3>1, <3>2 DEF Answered
        <3>4. PutRegs = 0 => Clamp(master.len) = 0
            <4>1. Clamp(master.len) \in Nat
                BY Counts, Spans
            <4> QED BY <4>1, Sizes DEF PutRegs
        <3>5. ~Delivered'
            BY <1>1, <2>1, <2>2, <3>1, <3>4 DEF Delivered
        <3> QED BY <2>1, <2>5, <3>3, <3>5 DEF Same
    <2>8. CASE WriteData
        <3>1. PICK i \in 1 .. PutRegs :
                 /\ step = i + 1
                 /\ m2s' = [m2s EXCEPT !.data[i] = master.id, !.written = @ + 1]
            BY <2>8, Zenon DEF WriteData, Writing, PutRegs
        <3>2. callback' = IF /\ m2s.cmd = "PUT" /\ m2s.expected > 0
                             /\ m2s'.written >= m2s.expected
                            THEN "consume" ELSE "none"
            BY <2>8, Zenon DEF WriteData
        <3>3. m2s'.written = m2s.written + 1
            BY <3>1 DEF TypeInv, Registers, Requests
        <3>4. master.does = "put"
            BY <2>1, <2>4, <3>1, <1>1
        <3>5. ~Answered'
            BY <2>1, <3>4 DEF Answered
        <3>6. clean => /\ m2s.cmd = "PUT" /\ m2s.expected = PutRegs
                       /\ m2s.written = i - 1
            BY <1>1, <3>1, <3>4 DEF Control, PutSoFar
        <3>7. ~Delivered'
            BY <1>1, <2>1, <2>2, <3>1, <3>2, <3>3, <3>6 DEF Delivered
        <3> QED BY <2>1, <2>5, <3>5, <3>7 DEF Same
    <2> QED BY <1>4, <2>6, <2>7, <2>8
<1> QED BY <1>2, <1>3, <1>4

-----------------------------------------------------------------------------
(* From the application to the master.                                     *)

blobVars == <<wrote, writes, got, staged, s2m>>

\* The steps that hand no blob on.
LEMMA NoBlobMoves ==
    ASSUME TypeInv, Control,
           \/ Attach \/ \E on \in BOOLEAN : EnableFlag(on)
           \/ ReaderSteps \/ MasterPoll \/ \E len \in PutSizes : MasterPut(len)
           \/ AskAgain \/ PutReply \/ PollReply
           \/ WriteIgnored \/ WriteCmd \/ WriteLen \/ WriteData \/ Consume
           \/ ReadStatus \/ ReadLen \/ ReadData
           \/ UNCHANGED vars
    PROVE  /\ UNCHANGED blobVars
           /\ Answered' => Answered
           /\ ~spoiled' => ~spoiled /\ (Answered => Answered')
<1> DEFINE Goal == /\ UNCHANGED blobVars
                   /\ Answered' => Answered
                   /\ ~spoiled' => ~spoiled /\ (Answered => Answered')
<1>1. ASSUME Same, UNCHANGED blobVars PROVE Goal
    BY <1>1, Zenon DEF Same
<1>2. ASSUME Attach \/ ReaderSteps \/ UNCHANGED vars PROVE Goal
    <2>1. UNCHANGED blobVars
        <3>1. CASE Attach
            BY <3>1, Zenon DEF Attach, slaveVars, appLog, masterLog, blobVars
        <3>2. CASE ReaderSteps
            BY <3>2, Zenon DEF ReaderSteps, Wake, Read, appLog, masterLog, blobVars
        <3>3. CASE UNCHANGED vars
            BY <3>3, Zenon DEF vars, slaveVars, appLog, masterLog, blobVars
        <3> QED BY <1>2, <3>1, <3>2, <3>3
    <2> QED BY <1>1, <1>2, <2>1, OffLine, OffLineSame
<1>3. ASSUME \/ \E on \in BOOLEAN : EnableFlag(on)
             \/ MasterPoll \/ AskAgain \/ PollReply
             \/ \E len \in PutSizes : MasterPut(len)
      PROVE  Goal
    <2>1. UNCHANGED blobVars
        BY <1>3, Zenon DEF EnableFlag, MasterPoll, AskAgain, PollReply, MasterPut, slaveVars,
            appLog, masterLog, blobVars
    <2> QED BY <1>1, <1>3, <2>1, MasterSame
<1>4. ASSUME WriteIgnored \/ WriteCmd \/ WriteLen \/ WriteData
      PROVE  Goal
    <2>1. UNCHANGED blobVars
        BY <1>4, Zenon DEF WriteIgnored, WriteCmd, WriteLen, WriteData, Writing, slaveVars,
            appLog, masterLog, blobVars
    <2> QED BY <1>1, <1>4, <2>1, ServerSame
<1>5. ASSUME ReadStatus \/ ReadLen \/ ReadData PROVE Goal
    <2>1. UNCHANGED blobVars
        BY <1>5, Zenon DEF ReadStatus, ReadLen, ReadData, Reading, slaveVars, appLog,
            masterLog, blobVars
    <2> QED BY <1>1, <1>5, <2>1, ServerSame
<1>6. ASSUME PutReply PROVE Goal
    <2>1. /\ master.does = "put" /\ clean' = FALSE /\ spoiled' = spoiled
          /\ UNCHANGED blobVars
        BY <1>6, Zenon DEF PutReply, slaveVars, appLog, blobVars
    <2> QED BY <2>1 DEF Answered
<1>7. ASSUME Consume PROVE Goal
    <2>1. /\ callback = "consume" /\ UNCHANGED <<master, clean, spoiled>>
          /\ UNCHANGED blobVars
        BY <1>7, Zenon DEF Consume, masterVars, appLog, masterLog, blobVars
    <2>2. ~Answered /\ ~Answered'
        BY <2>1 DEF Control, Session, PollSoFar, Answered
    <2> QED BY <2>1, <2>2
<1> QED BY <1>2, <1>3, <1>4, <1>5, <1>6, <1>7

\* Blobs that were written, and received.
LEMMA BlobsOf ==
    ASSUME TypeInv
    PROVE  /\ Len(writes) \in Nat /\ Len(got) \in Nat
           /\ \A j \in 1 .. Len(writes) : /\ writes[j] \in [id : Ids, len : 1 .. MaxBlob]
                                         /\ writes[j] \in [id : Ids, len : 0 .. MaxBlob]
                                         /\ writes[j].id \in Nat
           /\ \A i \in 1 .. Len(got) : /\ got[i] \in [id : Ids, len : 0 .. MaxBlob]
                                      /\ got[i].id \in Nat
<1>1. /\ writes \in Seq([id : Ids, len : 1 .. MaxBlob])
      /\ got \in Seq([id : Ids, len : 0 .. MaxBlob])
    BY DEF TypeInv, Blobs
<1>2. /\ Len(writes) \in Nat /\ Len(got) \in Nat
      /\ \A j \in 1 .. Len(writes) : writes[j] \in [id : Ids, len : 1 .. MaxBlob]
      /\ \A i \in 1 .. Len(got) : got[i] \in [id : Ids, len : 0 .. MaxBlob]
    BY <1>1, Elements, Zenon
<1>3. /\ \A b \in [id : Ids, len : 1 .. MaxBlob] :
            b.id \in Nat /\ b \in [id : Ids, len : 0 .. MaxBlob]
      /\ \A b \in [id : Ids, len : 0 .. MaxBlob] : b.id \in Nat
    <2>1. Ids \subseteq Nat /\ 1 .. MaxBlob \subseteq 0 .. MaxBlob
        BY Spans
    <2> QED BY <2>1
<1> QED BY <1>2, <1>3, Zenon

\* Registers with a blob in one piece are that blob.
LEMMA HeldBlob ==
    ASSUME NEW r \in Replies, NEW b \in [id : Ids, len : 1 .. MaxBlob], Holds(r, b)
    PROVE  Blob(r) = b
<1>1. b.len \in Nat /\ b.len # 0 /\ r.len = b.len
    BY Spans DEF Holds
<1>2. Regs(b.len) \in Nat /\ Regs(b.len) # 0
    BY <1>1, Sizes
<1>3. \A i \in 1 .. Regs(r.len) : r.data[i] = b.id
    BY <1>1 DEF Holds
<1>4. r.data[1] = b.id
    BY <1>1, <1>2, <1>3
<1>5. Blob(r) = [id |-> b.id, len |-> b.len]
    BY <1>1, <1>3, <1>4 DEF Blob
<1> QED BY <1>5

\* What the master reads when nothing meets its poll.
LEMMA Received ==
    ASSUME TypeInv, Control, BlobInv, FetchReply, clean, reply.status = "HAS_DATA"
    PROVE  /\ s2m.status = "HAS_DATA"
           /\ \E j \in 1 .. Len(writes) :
                /\ Blob(reply) = writes[j] /\ Blob(s2m) = writes[j]
                /\ \A i \in 1 .. Len(got) : got[i].id < writes[j].id
                /\ staged.len > 0 => writes[j].id < staged.id
<1>1. /\ master.does = "fetch"
      /\ step = CASE master.does = "poll" -> 2
                  [] master.does = "put" -> 2 + Regs(Clamp(master.len))
                  [] master.does = "fetch" -> 2 + Regs(reply.len)
                  [] OTHER -> Regs(MaxBlob) + 3
    BY Zenon DEF FetchReply, Served
<1>2. step = 2 + Regs(reply.len) /\ Regs(reply.len) \in 0 .. Regs(MaxBlob)
    BY <1>1, Counts
<1>3. /\ reply.status = s2m.status /\ reply.len = s2m.len
      /\ \A i \in 1 .. Regs(reply.len) : reply.data[i] = s2m.data[i]
    <2>1. /\ step >= 1 => reply.status = s2m.status
          /\ step >= 2 => reply.len = s2m.len
          /\ \A i \in 1 .. Regs(MaxBlob) : i + 2 <= step => reply.data[i] = s2m.data[i]
        BY <1>1 DEF Control, FetchSoFar
    <2> QED BY <1>2, <2>1, Spans
<1>4. Answered /\ s2m.status = "HAS_DATA"
    BY <1>1, <1>3 DEF Answered
<1>5. PICK j \in 1 .. Len(writes) :
         /\ Holds(s2m, writes[j])
         /\ \A i \in 1 .. Len(got) : got[i].id < writes[j].id
         /\ staged.len > 0 => writes[j].id < staged.id
    BY <1>4 DEF BlobInv, Answer
<1>6. writes[j] \in [id : Ids, len : 1 .. MaxBlob] /\ reply \in Replies /\ s2m \in Replies
    BY BlobsOf, Zenon DEF TypeInv, Transaction, Registers
<1>7. Holds(reply, writes[j])
    BY <1>3, <1>5 DEF Holds
<1>8. Blob(reply) = writes[j] /\ Blob(s2m) = writes[j]
    BY <1>5, <1>6, <1>7, HeldBlob
<1> QED BY <1>4, <1>5, <1>8

\* A blob is handed to the master.
LEMMA FetchKeepsOrder ==
    ASSUME TypeInv, Control, BlobInv, FetchReply
    PROVE  BlobInv'
<1>1. /\ clean' = FALSE
      /\ got' = IF clean /\ reply.status = "HAS_DATA"
                  THEN Append(got, Blob(reply)) ELSE got
      /\ UNCHANGED <<wrote, writes, staged, s2m>>
    BY Zenon DEF FetchReply, slaveVars, appLog
<1>2. Answer'
    BY <1>1 DEF Answer, Answered
<1>3. CASE ~(clean /\ reply.status = "HAS_DATA")
    <2>1. got' = got
        BY <1>1, <1>3
    <2>2. Numbered' /\ Ordered'
        BY <1>1, <2>1, Zenon DEF BlobInv, Numbered, Ordered
    <2> QED BY <1>2, <2>2 DEF BlobInv
<1>4. CASE clean /\ reply.status = "HAS_DATA"
    <2>1. PICK j \in 1 .. Len(writes) :
             /\ Blob(reply) = writes[j]
             /\ \A i \in 1 .. Len(got) : got[i].id < writes[j].id
             /\ staged.len > 0 => writes[j].id < staged.id
        BY <1>4, Received
    <2>2. got \in Seq([id : Ids, len : 0 .. MaxBlob]) /\ Len(got) \in Nat
        BY DEF TypeInv, Blobs
    <2>3. writes[j] \in [id : Ids, len : 0 .. MaxBlob]
        BY BlobsOf, Zenon
    <2>4. /\ Len(got') = Len(got) + 1 /\ got'[Len(got) + 1] = writes[j]
          /\ \A i \in 1 .. Len(got) : got'[i] = got[i]
        BY <1>1, <1>4, <2>1, <2>2, <2>3, Appended
    <2>5. ASSUME NEW i \in 1 .. Len(got')
          PROVE  i \in 1 .. Len(got) \/ i = Len(got) + 1
        BY <2>2, <2>4
    <2>6. Numbered'
        <3>1. ASSUME staged.len > 0, NEW i \in 1 .. Len(got') PROVE got'[i].id < staged.id
            BY <2>1, <2>4, <2>5, <3>1 DEF BlobInv, Numbered
        <3> QED BY <1>1, <3>1 DEF BlobInv, Numbered
    <2>7. Ordered'
        <3>1. ASSUME NEW i \in 1 .. Len(got')
              PROVE  \E k \in 1 .. Len(writes') : got'[i] = writes'[k]
            BY <1>1, <2>4, <2>5, <3>1, Zenon DEF BlobInv, Ordered
        <3>2. ASSUME NEW i \in 1 .. Len(got'), NEW k \in 1 .. Len(got'), i < k
              PROVE  got'[i].id < got'[k].id
            <4>1. i \in 1 .. Len(got)
                BY <2>2, <2>4, <3>2
            <4>2. CASE k \in 1 .. Len(got)
                BY <2>4, <3>2, <4>1, <4>2, Zenon DEF BlobInv, Ordered
            <4>3. CASE k = Len(got) + 1
                BY <2>1, <2>4, <4>1, <4>3, Zenon
            <4> QED BY <2>5, <4>2, <4>3
        <3> QED BY <3>1, <3>2 DEF Ordered
    <2> QED BY <1>2, <2>6, <2>7 DEF BlobInv
<1> QED BY <1>3, <1>4

\* A staged blob goes to the reply registers.
LEMMA StagedHeld ==
    ASSUME TypeInv, StageReply, staged.len # 0
    PROVE  s2m'.status = "HAS_DATA" /\ Holds(s2m', staged)
<1> DEFINE d == [i \in 1 .. Regs(MaxBlob) |->
                   IF i <= Regs(staged.len) THEN staged.id ELSE s2m.data[i]]
<1>1. s2m' = [status |-> "HAS_DATA", len |-> staged.len, data |-> d]
    BY Zenon DEF StageReply
<1>2. staged.len \in Nat /\ staged.len <= MaxBlob
    BY Spans DEF TypeInv, Blobs
<1>3. Regs(staged.len) \in 0 .. Regs(MaxBlob) /\ Regs(MaxBlob) \in Nat
    BY <1>2, Sizes, Spans
<1>4. \A i \in 1 .. Regs(staged.len) : d[i] = staged.id
    BY <1>3
<1> HIDE DEF d
<1> QED BY <1>1, <1>4 DEF Holds

\* What is staged goes to the reply registers, or nothing does.
LEMMA StageKeepsOrder ==
    ASSUME TypeInv, Control, BlobInv, StageReply
    PROVE  BlobInv'
<1>1. /\ staged' = NoBlob /\ UNCHANGED <<wrote, writes, got>>
      /\ staged.len = 0 => s2m' = NoReply
    BY Zenon DEF StageReply, appLog, masterLog
<1>2. Numbered' /\ Ordered'
    BY <1>1, Resets DEF BlobInv, Numbered, Ordered
<1>3. Answer'
    <2>1. CASE staged.len = 0
        BY <1>1, <2>1, Resets DEF Answer
    <2>2. CASE staged.len # 0
        <3>1. staged.len > 0
            BY <2>2 DEF TypeInv, Blobs
        <3>2. PICK j \in 1 .. Len(writes) : staged = writes[j]
            BY <3>1 DEF BlobInv, Numbered
        <3>3. Holds(s2m', writes'[j])
            BY <1>1, <2>2, <3>2, StagedHeld
        <3>4. \A i \in 1 .. Len(got) : got[i].id < writes[j].id
            BY <3>1, <3>2 DEF BlobInv, Numbered
        <3> QED BY <1>1, <3>3, <3>4, Resets DEF Answer
    <2> QED BY <2>1, <2>2
<1> QED BY <1>2, <1>3 DEF BlobInv

\* A write is newer than every other.
LEMMA WriteKeepsOrder ==
    ASSUME TypeInv, Control, BlobInv, NEW len \in WriteSizes, Write(len)
    PROVE  BlobInv'
<1>1. UNCHANGED <<got, s2m>> /\ UNCHANGED lineVars
    BY OffLine, Zenon DEF Write, Accept, masterLog
<1>2. Answered' <=> Answered
    BY <1>1, OffLineKeeps
<1>3. CASE len = 0
    <2>1. staged' = NoBlob /\ UNCHANGED <<wrote, writes>>
        BY <1>3, Zenon DEF Write, Accept
    <2>2. ~(staged'.len > 0)
        BY <2>1, Resets
    <2> QED BY <1>1, <1>2, <2>1, <2>2, Zenon DEF BlobInv, Numbered, Answer, Ordered
<1>4. CASE len # 0
    <2> DEFINE b == [id |-> wrote + 1, len |-> Clamp(len)]
    <2>1. wrote' = wrote + 1 /\ staged' = b /\ writes' = Append(writes, b)
        BY <1>4, Zenon DEF Write, Accept
    <2>2. /\ writes \in Seq([id : Ids, len : 1 .. MaxBlob]) /\ Len(writes) \in Nat
          /\ got \in Seq([id : Ids, len : 0 .. MaxBlob]) /\ wrote \in Nat
        BY Spans DEF TypeInv, Blobs, Budget
    <2>3. \A i \in 1 .. Len(got) : got[i].id \in Nat
        BY BlobsOf, Zenon
    <2>4. \A j \in 1 .. Len(writes) : writes[j].id \in Nat /\ writes[j].id <= wrote
        BY BlobsOf, Zenon DEF BlobInv, Numbered
    <2>5. b.id = wrote + 1
        OBVIOUS
    <2>6. b \in [id : Ids, len : 1 .. MaxBlob]
        <3>1. TypeInv'
            BY WriteTypes
        <3>2. b.len \in 1 .. MaxBlob
            BY <1>4, Sizes, Spans, ModbusAssumption
        <3>3. b.id \in Ids
            BY <2>1, <3>1 DEF TypeInv, Blobs
        <3> QED BY <3>2, <3>3
    <2> HIDE DEF b
    <2>7. /\ Len(writes') = Len(writes) + 1 /\ writes'[Len(writes) + 1] = b
          /\ \A j \in 1 .. Len(writes) : writes'[j] = writes[j]
        BY <2>1, <2>2, <2>6, Appended
    <2>8. /\ 1 .. Len(writes) \subseteq 1 .. Len(writes')
          /\ Len(writes) + 1 \in 1 .. Len(writes')
          /\ \A j \in 1 .. Len(writes') : j \in 1 .. Len(writes) \/ j = Len(writes) + 1
        BY <2>2, <2>7
    <2>9. Numbered'
        <3>1. ASSUME NEW j \in 1 .. Len(writes') PROVE writes'[j].id <= wrote'
            BY <2>1, <2>2, <2>4, <2>5, <2>7, <2>8, <3>1
        <3>2. ASSUME NEW i \in 1 .. Len(got) PROVE got[i].id < staged'.id
            <4>1. PICK j \in 1 .. Len(writes) : got[i] = writes[j]
                BY <3>2 DEF BlobInv, Ordered
            <4>2. writes[j].id < wrote + 1
                BY <2>2, <2>4
            <4> QED BY <2>1, <2>5, <4>1, <4>2
        <3> QED BY <1>1, <2>1, <2>7, <2>8, <3>1, <3>2, Zenon DEF Numbered
    <2>10. Answer'
        <3> SUFFICES ASSUME Answered, s2m.status = "HAS_DATA"
                     PROVE  \E j \in 1 .. Len(writes') :
                              /\ Holds(s2m, writes'[j])
                              /\ \A i \in 1 .. Len(got) : got[i].id < writes'[j].id
                              /\ staged'.len > 0 => writes'[j].id < staged'.id
            BY <1>1, <1>2, Zenon DEF Answer
        <3>1. PICK j \in 1 .. Len(writes) :
                 /\ Holds(s2m, writes[j])
                 /\ \A i \in 1 .. Len(got) : got[i].id < writes[j].id
            BY DEF BlobInv, Answer
        <3>2. writes[j].id < wrote + 1
            BY <2>2, <2>4
        <3> QED BY <2>1, <2>5, <2>7, <2>8, <3>1, <3>2
    <2>11. Ordered'
        <3>1. ASSUME NEW i \in 1 .. Len(got)
              PROVE  \E j \in 1 .. Len(writes') : got[i] = writes'[j]
            BY <2>7, <2>8, Zenon DEF BlobInv, Ordered
        <3> QED BY <1>1, <3>1, Zenon DEF BlobInv, Ordered
    <2> QED BY <2>9, <2>10, <2>11 DEF BlobInv
<1> QED BY <1>3, <1>4

\* enable() leaves no blob.
LEMMA ResetOrders ==
    ASSUME TypeInv, EnableReset PROVE BlobInv'
<1>1. /\ staged' = NoBlob /\ s2m' = NoReply /\ writes' = <<>> /\ got' = <<>>
    BY Zenon DEF EnableReset
<1>2. Len(<<>>) = 0 /\ 1 .. 0 = {}
    OBVIOUS
<1> QED BY <1>1, <1>2, Resets DEF BlobInv, Numbered, Answer, Ordered

\* The order of blobs is an invariant.
LEMMA BlobInvHolds == Spec => []BlobInv
<1>1. Init => BlobInv
    BY Resets DEF Init, BlobInv, Numbered, Answer, Ordered
<1>2. ASSUME TypeInv, Control, BlobInv, UNCHANGED blobVars, Answered' => Answered
      PROVE  BlobInv'
    <2>1. UNCHANGED <<wrote, writes, got, staged, s2m>>
        BY <1>2, Zenon DEF blobVars
    <2> QED BY <1>2, <2>1, Zenon DEF BlobInv, Numbered, Answer, Ordered
<1>3. TypeInv /\ Control /\ BlobInv /\ [Next]_vars => BlobInv'
    BY <1>2, NoBlobMoves, FetchKeepsOrder, StageKeepsOrder, WriteKeepsOrder, ResetOrders
        DEF Next, ReplySteps, ServerSteps
<1> QED BY TypeInvHolds, ControlHolds, <1>1, <1>3, PTL DEF Spec

\* For every size of blobs and registers, whatever the interleaving of callbacks and calls and
\* the replies that get lost: the master receives whole blobs that were written, in the order
\* they were written, none twice.
THEOREM AlwaysInOrder == Spec => []InOrder
<1>1. TypeInv /\ BlobInv => InOrder
    <2> SUFFICES ASSUME TypeInv, BlobInv PROVE InOrder
        OBVIOUS
    <2>1. DOMAIN got = 1 .. Len(got) /\ DOMAIN writes = 1 .. Len(writes)
        BY DEF TypeInv, Blobs
    <2> QED BY <2>1, Zenon DEF BlobInv, Ordered, InOrder
<1> QED BY TypeInvHolds, BlobInvHolds, <1>1, PTL

\* Sequences with nothing, or with one element more.
LEMMA Links ==
    ASSUME NEW S, NEW s \in Seq(S), NEW e \in S
    PROVE  s \o <<>> = s /\ <<>> \o s = s /\ s \o <<e>> = Append(s, e)
    OBVIOUS

Queued(b) == IF b.len > 0 THEN <<b>> ELSE <<>>

\* What the reply registers and the staged blob count for.
LEMMA Waiting ==
    ASSUME TypeInv
    PROVE  /\ Blob(s2m) \in [id : Ids, len : 0 .. MaxBlob]
           /\ InReply \in Seq([id : Ids, len : 0 .. MaxBlob])
           /\ got \in Seq([id : Ids, len : 0 .. MaxBlob])
           /\ got \o InReply \in Seq([id : Ids, len : 0 .. MaxBlob])
           /\ DOMAIN got = 1 .. Len(got)
           /\ staged \in [id : Ids, len : 0 .. MaxBlob]
           /\ InReply \in {<<>>, <<Blob(s2m)>>}
           /\ InReply # <<>> <=> /\ s2m.status = "HAS_DATA"
                                 /\ \A i \in 1 .. Len(got) : got[i] # Blob(s2m)
<1>1. /\ got \in Seq([id : Ids, len : 0 .. MaxBlob]) /\ DOMAIN got = 1 .. Len(got)
      /\ staged \in [id : Ids, len : 0 .. MaxBlob] /\ s2m \in Replies
    BY DEF TypeInv, Blobs, Registers
<1>2. Blob(s2m) \in [id : Ids, len : 0 .. MaxBlob]
    <2>1. s2m.data[1] \in Ids /\ s2m.len \in 0 .. MaxBlob /\ 0 \in Ids
        BY <1>1, Spans DEF Replies
    <2> QED BY <2>1 DEF Blob
<1>3. /\ InReply = <<>> \/ InReply = <<Blob(s2m)>>
      /\ InReply # <<>> <=> /\ s2m.status = "HAS_DATA"
                            /\ \A i \in 1 .. Len(got) : got[i] # Blob(s2m)
    BY <1>1 DEF InReply
<1>4. InReply \in Seq([id : Ids, len : 0 .. MaxBlob])
    <2>1. CASE InReply = <<>>
        BY <2>1
    <2>2. CASE InReply = <<Blob(s2m)>>
        BY <1>2, <2>2
    <2> QED BY <1>3, <2>1, <2>2
<1>5. got \o InReply \in Seq([id : Ids, len : 0 .. MaxBlob])
    BY <1>1, <1>4, Together
<1> QED BY <1>1, <1>2, <1>3, <1>4, <1>5

\* A write is the last of what waits.
LEMMA WriteLosesNothing ==
    ASSUME TypeInv, Control, LossInv, NEW len \in WriteSizes, Write(len)
    PROVE  LossInv'
<1>1. UNCHANGED <<got, s2m>> /\ UNCHANGED lineVars /\ staged.len = 0
    BY OffLine, Zenon DEF Write, Accept, masterLog
<1>2. (Answered' <=> Answered) /\ spoiled' = spoiled /\ InReply' = InReply
    BY <1>1, OffLineKeeps, Zenon DEF lineVars, masterVars, InReply
<1>3. Fetched'
    BY <1>1, <1>2, Zenon DEF LossInv, Fetched
<1>4. NothingLost'
    <2> SUFFICES ASSUME ~spoiled PROVE writes' = got \o InReply \o Queued(staged')
        BY <1>1, <1>2, Zenon DEF NothingLost, Queued
    <2>1. writes = got \o InReply
        <3>1. writes = (got \o InReply) \o <<>>
            BY <1>1 DEF LossInv, NothingLost
        <3> QED BY <3>1, Waiting, Links
    <2>2. CASE len = 0
        <3>1. staged' = NoBlob /\ writes' = writes
            BY <2>2, Zenon DEF Write, Accept
        <3>2. Queued(staged') = <<>>
            BY <3>1, Resets DEF Queued
        <3> QED BY <2>1, <3>1, <3>2, Waiting, Links
    <2>3. CASE len # 0
        <3> DEFINE b == [id |-> wrote + 1, len |-> Clamp(len)]
        <3>1. staged' = b /\ writes' = Append(writes, b)
            BY <2>3, Zenon DEF Write, Accept
        <3>2. b \in [id : Ids, len : 0 .. MaxBlob]
            BY <3>1, WriteTypes DEF TypeInv, Blobs
        <3>3. b.len > 0
            <4>1. Clamp(len) \in 0 .. MaxBlob /\ Clamp(len) # 0
                BY <2>3, Sizes, ModbusAssumption
            <4> QED BY <4>1, Spans
        <3> HIDE DEF b
        <3>4. Queued(staged') = <<b>>
            BY <3>1, <3>3 DEF Queued
        <3>5. (got \o InReply) \o <<b>> = Append(got \o InReply, b)
            BY <3>2, Waiting, Links
        <3> QED BY <2>1, <3>1, <3>4, <3>5
    <2> QED BY <2>2, <2>3
<1> QED BY <1>3, <1>4 DEF LossInv

\* What was staged is taken only when the master has what was taken before.
LEMMA StageLosesNothing ==
    ASSUME TypeInv, Control, BlobInv, LossInv, StageReply
    PROVE  LossInv'
<1>1. /\ staged' = NoBlob /\ UNCHANGED <<wrote, writes, got>>
      /\ staged.len = 0 => s2m' = NoReply
      /\ callback = "stage" /\ callback' = "none"
      /\ UNCHANGED <<master, step, clean, spoiled>>
    BY Zenon DEF StageReply, appLog, masterLog, masterVars
<1> SUFFICES ASSUME ~spoiled PROVE LossInv'
    BY <1>1 DEF LossInv, Fetched, NothingLost
<1>2. clean /\ master.does = "poll" /\ step = 2
    BY <1>1 DEF Control, Session, PutSoFar, PollSoFar
<1>3. Answered' /\ ~Answered
    BY <1>1, <1>2 DEF Answered
<1>4. Fetched'
    BY <1>3 DEF Fetched
<1>5. InReply = <<>>
    BY <1>3, Waiting DEF LossInv, Fetched
<1>6. writes = got \o Queued(staged)
    BY <1>5, Waiting, Links DEF LossInv, NothingLost, Queued
<1>7. Queued(staged') = <<>>
    BY <1>1, Resets DEF Queued
<1>8. writes' = got' \o InReply' /\ InReply' \in {<<>>, <<staged>>}
    <2>1. CASE staged.len = 0
        <3>1. InReply' = <<>>
            BY <1>1, <2>1, Resets DEF InReply
        <3>2. Queued(staged) = <<>>
            BY <2>1 DEF Queued
        <3> QED BY <1>1, <1>6, <3>1, <3>2
    <2>2. CASE staged.len # 0
        <3>1. staged.len > 0
            BY <2>2 DEF TypeInv, Blobs
        <3>2. /\ staged \in [id : Ids, len : 1 .. MaxBlob]
              /\ \A i \in 1 .. Len(got) : got[i] # staged
            <4>1. PICK j \in 1 .. Len(writes) : staged = writes[j]
                BY <3>1 DEF BlobInv, Numbered
            <4>2. ASSUME NEW i \in 1 .. Len(got) PROVE got[i] # staged
                <5>1. got[i].id < staged.id /\ got[i].id \in Nat
                    BY <3>1, BlobsOf DEF BlobInv, Numbered
                <5> QED BY <5>1
            <4> QED BY <4>1, <4>2, BlobsOf
        <3>3. s2m' \in Replies
            BY LockedTypes DEF TypeInv, Registers
        <3>4. Blob(s2m') = staged /\ s2m'.status = "HAS_DATA"
            BY <2>2, <3>2, <3>3, StagedHeld, HeldBlob
        <3>5. InReply' = <<staged>>
            BY <1>1, <3>2, <3>4, Waiting DEF InReply
        <3>6. Queued(staged) = <<staged>>
            BY <3>1 DEF Queued
        <3> QED BY <1>1, <1>6, <3>5, <3>6
    <2> QED BY <2>1, <2>2
<1>9. NothingLost'
    <2>1. InReply' \in Seq([id : Ids, len : 0 .. MaxBlob])
        <3>1. CASE InReply' = <<>>
            BY <3>1
        <3>2. CASE InReply' = <<staged>>
            BY <3>2, Waiting
        <3> QED BY <1>8, <3>1, <3>2
    <2>2. /\ got' \o InReply' \in Seq([id : Ids, len : 0 .. MaxBlob])
          /\ NoBlob \in [id : Ids, len : 0 .. MaxBlob]
        BY <1>1, <2>1, Waiting, Together, Resets
    <2>3. (got' \o InReply') \o <<>> = got' \o InReply'
        BY <2>2, Links
    <2> QED BY <1>7, <1>8, <2>3 DEF NothingLost, Queued
<1> QED BY <1>4, <1>9 DEF LossInv

\* The master gets what was in the reply registers.
LEMMA FetchLosesNothing ==
    ASSUME TypeInv, Control, BlobInv, LossInv, FetchReply
    PROVE  LossInv'
<1>1. /\ master.does = "fetch" /\ spoiled' = spoiled
      /\ got' = IF clean /\ reply.status = "HAS_DATA"
                  THEN Append(got, Blob(reply)) ELSE got
      /\ UNCHANGED <<wrote, writes, staged, s2m>>
    BY Zenon DEF FetchReply, slaveVars, appLog
<1> SUFFICES ASSUME ~spoiled PROVE LossInv'
    BY <1>1 DEF LossInv, Fetched, NothingLost
<1>2. writes = got \o InReply \o Queued(staged)
    BY DEF LossInv, NothingLost, Queued
<1>3. CASE clean /\ reply.status = "HAS_DATA"
    <2>1. /\ s2m.status = "HAS_DATA" /\ Blob(reply) = Blob(s2m)
          /\ \A i \in 1 .. Len(got) : got[i].id < Blob(s2m).id
        BY <1>3, Received
    <2>2. InReply = <<Blob(s2m)>>
        <3>1. ASSUME NEW i \in 1 .. Len(got) PROVE got[i] # Blob(s2m)
            <4>1. got[i].id < Blob(s2m).id /\ got[i].id \in Nat
                BY <2>1, BlobsOf
            <4> QED BY <4>1
        <3> QED BY <2>1, <3>1, Waiting
    <2>3. got' = Append(got, Blob(s2m)) /\ got' = got \o InReply
        BY <1>1, <1>3, <2>1, <2>2, Waiting, Links
    <2>4. /\ Len(got) + 1 \in 1 .. Len(got') /\ got'[Len(got) + 1] = Blob(s2m)
          /\ got' \in Seq([id : Ids, len : 0 .. MaxBlob]) /\ DOMAIN got' = 1 .. Len(got')
        <3>1. /\ got' \in Seq([id : Ids, len : 0 .. MaxBlob])
              /\ Len(got') = Len(got) + 1 /\ got'[Len(got) + 1] = Blob(s2m)
            <4>1. /\ got \in Seq([id : Ids, len : 0 .. MaxBlob])
                  /\ Blob(s2m) \in [id : Ids, len : 0 .. MaxBlob]
                BY Waiting, Zenon
            <4>2. /\ Append(got, Blob(s2m)) \in Seq([id : Ids, len : 0 .. MaxBlob])
                  /\ Len(Append(got, Blob(s2m))) = Len(got) + 1
                  /\ Append(got, Blob(s2m))[Len(got) + 1] = Blob(s2m)
                BY <4>1
            <4> QED BY <2>3, <4>2, Zenon
        <3>2. Len(got) \in Nat
            BY BlobsOf
        <3> QED BY <3>1, <3>2
    <2>5. InReply' = <<>>
        BY <1>1, <2>4 DEF InReply
    <2>6. Fetched'
        BY <1>1, <2>4 DEF Fetched
    <2>7. got' \o InReply' = got'
        BY <2>4, <2>5, Waiting, Links
    <2>8. NothingLost'
        BY <1>1, <1>2, <2>3, <2>7, Zenon DEF NothingLost, Queued
    <2> QED BY <2>6, <2>8 DEF LossInv
<1>4. CASE ~(clean /\ reply.status = "HAS_DATA")
    <2>1. got' = got
        BY <1>1, <1>4
    <2>2. InReply' = InReply
        BY <1>1, <2>1, Zenon DEF InReply
    <2>3. Answered => s2m.status # "HAS_DATA"
        <3>1. step = CASE master.does = "poll" -> 2
                       [] master.does = "put" -> 2 + Regs(Clamp(master.len))
                       [] master.does = "fetch" -> 2 + Regs(reply.len)
                       [] OTHER -> Regs(MaxBlob) + 3
            BY Zenon DEF FetchReply, Served
        <3>2. step >= 1
            BY <1>1, <3>1, Counts
        <3> QED BY <1>1, <1>4, <3>2 DEF Control, FetchSoFar, Answered
    <2>4. Fetched'
        BY <1>1, <2>1, <2>3, Zenon DEF LossInv, Fetched
    <2>5. NothingLost'
        BY <1>1, <2>1, <2>2, Zenon DEF LossInv, NothingLost
    <2> QED BY <2>4, <2>5 DEF LossInv
<1> QED BY <1>3, <1>4

\* After the reset nothing waits.
LEMMA ResetLosesNothing ==
    ASSUME EnableReset PROVE LossInv'
<1>1. /\ staged' = NoBlob /\ s2m' = NoReply /\ writes' = <<>> /\ got' = <<>>
    BY Zenon DEF EnableReset
<1>2. InReply' = <<>> /\ Fetched'
    BY <1>1, Resets DEF InReply, Fetched
<1>3. NothingLost'
    BY <1>1, <1>2, Resets DEF NothingLost
<1> QED BY <1>2, <1>3 DEF LossInv

\* For every size of blobs and registers and any number of polls: a write that was accepted
\* reaches the master, or is on its way to it in its place, as long as no reply to a write
\* gets lost and no enable() meets a request.
THEOREM AlwaysNothingLost == Spec => []NothingLost
<1>1. Init => LossInv
    BY Resets DEF Init, LossInv, Fetched, NothingLost, InReply
<1>2. ASSUME LossInv, UNCHANGED blobVars, ~spoiled' => ~spoiled /\ (Answered => Answered')
      PROVE  LossInv'
    <2>1. UNCHANGED <<wrote, writes, got, staged, s2m>>
        BY <1>2, Zenon DEF blobVars
    <2>2. Fetched'
        BY <1>2, <2>1, Zenon DEF LossInv, Fetched
    <2>3. NothingLost'
        BY <1>2, <2>1, Zenon DEF LossInv, NothingLost, InReply
    <2> QED BY <2>2, <2>3 DEF LossInv
<1>3. TypeInv /\ Control /\ BlobInv /\ LossInv /\ [Next]_vars => LossInv'
    BY <1>2, NoBlobMoves, WriteLosesNothing, StageLosesNothing, FetchLosesNothing,
        ResetLosesNothing DEF Next, ReplySteps, ServerSteps
<1>4. LossInv => NothingLost
    BY DEF LossInv
<1> QED BY TypeInvHolds, ControlHolds, BlobInvHolds, <1>1, <1>3, <1>4, PTL DEF Spec

-----------------------------------------------------------------------------
(* From the master to the application.                                     *)

streamVars == <<rx_fifo, rx_overflow, stream, log, told>>

\* The bytes of the put that the ring has been given, until the master is told so.
Owed == IF Delivered THEN Payload(master.id, master.len) ELSE <<>>

\* The steps that move no bytes.
LEMMA NoByteMoves ==
    ASSUME TypeInv, Control,
           \/ Attach \/ \E on \in BOOLEAN : EnableFlag(on)
           \/ Wake \/ \E len \in WriteSizes : Write(len)
           \/ MasterPoll \/ \E len \in PutSizes : MasterPut(len)
           \/ AskAgain \/ PollReply \/ FetchReply
           \/ WriteIgnored \/ WriteCmd \/ WriteLen \/ WriteData \/ StageReply
           \/ ReadStatus \/ ReadLen \/ ReadData
           \/ UNCHANGED vars
    PROVE  UNCHANGED streamVars /\ (~spoiled' => ~spoiled /\ Owed' = Owed)
<1> DEFINE Goal == UNCHANGED streamVars /\ (~spoiled' => ~spoiled /\ Owed' = Owed)
<1>1. ASSUME Same, UNCHANGED streamVars PROVE Goal
    BY <1>1, Zenon DEF Same, Owed, Payload
<1>2. ASSUME Attach \/ Wake \/ (\E len \in WriteSizes : Write(len)) \/ UNCHANGED vars
      PROVE  Goal
    <2>1. UNCHANGED streamVars
        <3>1. CASE Attach
            BY <3>1, Zenon DEF Attach, slaveVars, appLog, masterLog, streamVars
        <3>2. CASE Wake
            BY <3>2, Zenon DEF Wake, appLog, masterLog, streamVars
        <3>3. ASSUME NEW len \in WriteSizes, Write(len) PROVE UNCHANGED streamVars
            BY <3>3, Zenon DEF Write, Accept, masterLog, streamVars
        <3>4. CASE UNCHANGED vars
            BY <3>4, Zenon DEF vars, slaveVars, appLog, masterLog, streamVars
        <3> QED BY <1>2, <3>1, <3>2, <3>3, <3>4
    <2> QED BY <1>1, <1>2, <2>1, OffLine, OffLineSame DEF ReaderSteps
<1>3. ASSUME \/ \E on \in BOOLEAN : EnableFlag(on)
             \/ MasterPoll \/ AskAgain \/ PollReply
             \/ \E len \in PutSizes : MasterPut(len)
      PROVE  Goal
    <2>1. UNCHANGED streamVars
        BY <1>3, Zenon DEF EnableFlag, MasterPoll, AskAgain, PollReply, MasterPut, slaveVars,
            appLog, masterLog, streamVars
    <2> QED BY <1>1, <1>3, <2>1, MasterSame
<1>4. ASSUME WriteIgnored \/ WriteCmd \/ WriteLen \/ WriteData
      PROVE  Goal
    <2>1. UNCHANGED streamVars
        BY <1>4, Zenon DEF WriteIgnored, WriteCmd, WriteLen, WriteData, Writing, slaveVars,
            appLog, masterLog, streamVars
    <2> QED BY <1>1, <1>4, <2>1, ServerSame
<1>5. ASSUME ReadStatus \/ ReadLen \/ ReadData PROVE Goal
    <2>1. UNCHANGED streamVars
        BY <1>5, Zenon DEF ReadStatus, ReadLen, ReadData, Reading, slaveVars, appLog,
            masterLog, streamVars
    <2> QED BY <1>1, <1>5, <2>1, ServerSame
<1>6. ASSUME FetchReply PROVE Goal
    <2>1. /\ master.does = "fetch" /\ clean' = FALSE /\ spoiled' = spoiled
          /\ UNCHANGED streamVars
        BY <1>6, Zenon DEF FetchReply, slaveVars, appLog, streamVars
    <2>2. ~Delivered /\ ~Delivered'
        BY <2>1 DEF Delivered
    <2> QED BY <2>1, <2>2 DEF Owed
<1>7. ASSUME StageReply PROVE Goal
    <2>1. /\ callback = "stage" /\ UNCHANGED <<master, clean, spoiled>>
          /\ UNCHANGED streamVars
        BY <1>7, Zenon DEF StageReply, masterVars, appLog, masterLog, streamVars
    <2>2. ~Delivered /\ ~Delivered'
        BY <2>1 DEF Control, PutSoFar, Delivered
    <2> QED BY <2>1, <2>2 DEF Owed
<1> QED BY <1>2, <1>3, <1>4, <1>5, <1>6, <1>7

\* What is cut off a sequence and put back.
LEMMA Cutting ==
    ASSUME NEW S, NEW s \in Seq(S), NEW n \in 0 .. Len(s)
    PROVE  SubSeq(s, 1, n) \o SubSeq(s, n + 1, Len(s)) = s
<1>1. /\ 1 \in 1 .. Len(s) + 1 /\ n \in 1 - 1 .. Len(s) /\ Len(s) \in n .. Len(s)
      /\ Len(s) \in Nat
    OBVIOUS
<1>2. SubSeq(s, 1, n) \o SubSeq(s, n + 1, Len(s)) = SubSeq(s, 1, Len(s))
    BY <1>1, ConcatAdjacentSubSeq
<1> QED BY <1>2, SubSeqFull

\* Bytes that are put together.
LEMMA Joining ==
    \A s, t, u \in Seq(Cells) : (s \o t) \o u = s \o (t \o u)
    BY ConcatAssociative

\* The bytes of a blob.
LEMMA PayloadBytes ==
    ASSUME NEW id \in Ids, NEW len \in Nat
    PROVE  /\ Payload(id, len) \in Seq(Cells)
           /\ Len(Payload(id, len)) = Clamp(len)
           /\ Clamp(len) = 0 => Payload(id, len) = <<>>
<1>1. Clamp(len) \in 0 .. MaxBlob
    BY Sizes
<1>2. Clamp(len) \in Nat /\ Clamp(len) <= MaxBlob
    BY <1>1, Spans
<1>3. \A k \in 1 .. Clamp(len) : <<id, k>> \in Cells
    BY <1>2, Spans DEF Cells
<1> QED BY <1>2, <1>3 DEF Payload

\* The types of what Sums is about.
LEMMA SumTypes ==
    ASSUME TypeInv
    PROVE  /\ log \in Seq(Cells) /\ rx_fifo \in Seq(Cells) /\ stream \in Seq(Cells)
           /\ Payload(master.id, master.len) \in Seq(Cells)
           /\ Clamp(master.len) = 0 => Payload(master.id, master.len) = <<>>
           /\ Clamp(master.len) \in Nat
<1>1. log \in Seq(Cells) /\ rx_fifo \in Seq(Cells) /\ stream \in Seq(Bytes)
    BY DEF TypeInv, Queues
<1>2. Bytes \subseteq Cells
    BY Spans DEF Bytes, Cells, Ids
<1>3. stream \in Seq(Cells)
    BY <1>1, <1>2
<1>4. master.len \in Nat /\ master.id \in Ids /\ Clamp(master.len) \in Nat
    BY Counts, Spans
<1> QED BY <1>1, <1>3, <1>4, PayloadBytes

\* read() takes from the ring what it gives to the application.
LEMMA ReadSums ==
    ASSUME TypeInv, Control, Sums, NEW size \in ReadSizes, Read(size)
    PROVE  Sums'
<1> DEFINE n == IF rx_overflow THEN 0 ELSE Smaller(size, Len(rx_fifo))
<1>1. /\ rx_fifo' = SubSeq(rx_fifo, n + 1, Len(rx_fifo))
      /\ log' = IF spoiled THEN <<>> ELSE log \o SubSeq(rx_fifo, 1, n)
      /\ told' = (told \/ rx_overflow)
      /\ stream' = stream
    BY Zenon DEF Read, masterLog
<1>2. n \in 0 .. Len(rx_fifo)
    BY ModbusAssumption DEF TypeInv, Queues, Smaller
<1> HIDE DEF n
<1>3. spoiled' = spoiled /\ Owed' = Owed
    <2>1. UNCHANGED lineVars
        BY OffLine DEF ReaderSteps
    <2>2. master' = master /\ spoiled' = spoiled
        BY <2>1, Zenon DEF lineVars, masterVars
    <2> QED BY <2>1, <2>2, OffLineKeeps, Zenon DEF Owed, Payload
<1> SUFFICES ASSUME ~spoiled, ~told, ~rx_overflow
             PROVE  log' \o rx_fifo' = stream \o Owed
    BY <1>1, <1>3, Zenon DEF Sums, Owed
<1>4. log \o rx_fifo = stream \o Owed
    BY DEF Sums, Owed
<1>5. /\ SubSeq(rx_fifo, 1, n) \in Seq(Cells)
      /\ SubSeq(rx_fifo, n + 1, Len(rx_fifo)) \in Seq(Cells)
      /\ SubSeq(rx_fifo, 1, n) \o SubSeq(rx_fifo, n + 1, Len(rx_fifo)) = rx_fifo
    BY <1>2, SumTypes, Parts, Cutting
<1>6. (log \o SubSeq(rx_fifo, 1, n)) \o SubSeq(rx_fifo, n + 1, Len(rx_fifo)) =
         log \o (SubSeq(rx_fifo, 1, n) \o SubSeq(rx_fifo, n + 1, Len(rx_fifo)))
    <2>1. log \in Seq(Cells)
        BY SumTypes
    <2> QED BY <1>5, <2>1, Joining, Zenon
<1> QED BY <1>1, <1>4, <1>5, <1>6

\* The registers of a complete put hold the blob.
LEMMA UnpackedPut ==
    ASSUME TypeInv, Control, Consume, ~spoiled
    PROVE  /\ clean /\ master.does = "put" /\ step = 2 + PutRegs
           /\ Unpacked = Payload(master.id, master.len)
<1>1. callback = "consume"
    BY Zenon DEF Consume
<1>2. clean /\ master.does = "put"
    BY <1>1 DEF Control, Session, PollSoFar
<1>3. /\ step = 2 + PutRegs /\ PutRegs \in Nat /\ Clamp(master.len) \in Nat
      /\ m2s.len = master.len
      /\ \A i \in 1 .. PutRegs : m2s.data[i] = master.id
    <2>1. step = 2 + PutRegs /\ PutRegs \in Nat /\ Clamp(master.len) \in Nat
        BY <1>1, <1>2, Counts, Spans DEF Control, PutSoFar
    <2>2. step >= 2 => m2s.len = master.len
        BY <1>2 DEF Control, PutSoFar
    <2>3. \A i \in 1 .. PutRegs : i + 2 <= step => m2s.data[i] = master.id
        BY <1>2 DEF Control, PutSoFar
    <2> QED BY <2>1, <2>2, <2>3
<1>4. \A k \in 1 .. Clamp(master.len) : m2s.data[Regs(k)] = master.id
    BY <1>3, Sizes DEF PutRegs
<1>5. Unpacked = Payload(master.id, master.len)
    BY <1>3, <1>4 DEF Unpacked, Payload
<1> QED BY <1>2, <1>3, <1>5

\* A put that fits goes to the ring whole.
LEMMA ConsumeSums ==
    ASSUME TypeInv, Control, Sums, Consume
    PROVE  Sums'
<1> DEFINE n == Smaller(Len(Unpacked), Room)
           p == Payload(master.id, master.len)
<1>1. /\ rx_fifo' = rx_fifo \o SubSeq(Unpacked, 1, n)
      /\ rx_overflow' = (rx_overflow \/ n < Len(Unpacked))
      /\ callback = "consume" /\ callback' = "none"
      /\ UNCHANGED <<master, step, clean, spoiled, log, told, stream>>
    BY Zenon DEF Consume, masterVars, appLog, masterLog
<1>2. n \in 0 .. Len(Unpacked)
    <2>1. Len(Unpacked) \in Nat /\ Len(rx_fifo) \in Nat /\ Len(rx_fifo) <= RingCapacity
        BY UnpackedBytes DEF TypeInv, Queues
    <2> QED BY <2>1, Spans DEF Smaller, Room
<1> HIDE DEF n
<1> SUFFICES ASSUME ~spoiled, ~told, ~rx_overflow, ~(n < Len(Unpacked))
             PROVE  log \o rx_fifo' = stream \o Owed'
    BY <1>1, Zenon DEF Sums, Owed
<1>3. Unpacked = p /\ clean /\ master.does = "put" /\ step = 2 + PutRegs
    BY UnpackedPut
<1>4. p \in Seq(Cells) /\ (Clamp(master.len) = 0 => p = <<>>) /\ Clamp(master.len) \in Nat
    BY SumTypes
<1>5. Owed' = p
    <2>1. Delivered' <=> Clamp(master.len) > 0
        BY <1>1, <1>3 DEF Delivered, PutRegs
    <2> QED BY <1>1, <1>4, <2>1 DEF Owed
<1> HIDE DEF p
<1>6. rx_fifo' = rx_fifo \o p
    <2>1. n = Len(p) /\ Len(p) \in Nat
        BY <1>2, <1>3, <1>4
    <2>2. SubSeq(p, 1, Len(p)) = p
        BY <1>4
    <2> QED BY <1>1, <1>3, <2>1, <2>2
<1>7. log \o rx_fifo = stream
    <2>1. ~Delivered
        BY <1>1 DEF Delivered
    <2>2. log \o rx_fifo = stream \o <<>>
        BY <2>1, Zenon DEF Sums
    <2> QED BY <2>2, SumTypes, ConcatEmptySeq
<1>8. (log \o rx_fifo) \o p = log \o (rx_fifo \o p)
    <2>1. log \in Seq(Cells) /\ rx_fifo \in Seq(Cells)
        BY SumTypes
    <2> QED BY <1>4, <2>1, Joining, Zenon
<1> QED BY <1>5, <1>6, <1>7, <1>8

\* The master is told that its put has been taken.
LEMMA PutSums ==
    ASSUME TypeInv, Control, Sums, PutReply
    PROVE  Sums'
<1> DEFINE p == Payload(master.id, master.len)
<1>1. /\ master.does = "put" /\ callback = "none" /\ clean' = FALSE
      /\ step = CASE master.does = "poll" -> 2
                  [] master.does = "put" -> 2 + Regs(Clamp(master.len))
                  [] master.does = "fetch" -> 2 + Regs(reply.len)
                  [] OTHER -> Regs(MaxBlob) + 3
      /\ stream' = IF clean THEN stream \o p ELSE stream
      /\ UNCHANGED <<rx_fifo, rx_overflow, log, told, spoiled>>
    BY Zenon DEF PutReply, Served, slaveVars, appLog, Payload
<1>2. step = 2 + PutRegs
    BY <1>1 DEF PutRegs
<1>3. ~Delivered'
    BY <1>1 DEF Delivered
<1>4. p \in Seq(Cells) /\ (Clamp(master.len) = 0 => p = <<>>) /\ Clamp(master.len) \in Nat
    BY SumTypes
<1> SUFFICES ASSUME ~spoiled, ~told, ~rx_overflow
             PROVE  log \o rx_fifo = stream' \o <<>>
    BY <1>1, <1>3, Zenon DEF Sums
<1>5. CASE clean
    <2>1. Owed = p
        <3>1. Delivered <=> Clamp(master.len) > 0
            BY <1>1, <1>2, <1>5 DEF Delivered
        <3> QED BY <1>4, <3>1 DEF Owed
    <2>2. log \o rx_fifo = stream \o p
        BY <2>1 DEF Sums, Owed
    <2> HIDE DEF p
    <2>3. stream \o p \in Seq(Cells)
        BY <1>4, SumTypes, Together
    <2>4. (stream \o p) \o <<>> = stream \o p
        BY <2>3, ConcatEmptySeq
    <2> QED BY <1>1, <1>5, <2>2, <2>4
<1>6. CASE ~clean
    <2>1. ~Delivered
        BY <1>6 DEF Delivered
    <2> QED BY <1>1, <1>6, <2>1, Zenon DEF Sums
<1> QED BY <1>5, <1>6

\* After the reset no bytes are left.
LEMMA ResetSums ==
    ASSUME TypeInv, Control, EnableReset PROVE Sums'
<1>1. /\ resetting /\ rx_fifo' = <<>> /\ log' = <<>> /\ stream' = <<>>
      /\ UNCHANGED <<callback, master, step, clean>>
    BY Zenon DEF EnableReset
<1>2. ~Delivered'
    BY <1>1, Zenon DEF Control, AfterReset, Delivered, PutRegs
<1> QED BY <1>1, <1>2 DEF Sums

\* For every size of blobs, ring and buffers: byte for byte the application reads what the
\* acknowledged puts carried, as long as no overflow is reported, no reply to a write gets
\* lost and no enable() meets a request.
THEOREM PutsAlwaysArrive == Spec => []PutsArrive
<1>1. Init => Sums
    BY DEF Init, Sums, Delivered
<1>2. ASSUME Sums, UNCHANGED streamVars, ~spoiled' => ~spoiled /\ Owed' = Owed
      PROVE  Sums'
    <2>1. UNCHANGED <<rx_fifo, rx_overflow, stream, log, told>>
        BY <1>2, Zenon DEF streamVars
    <2> QED BY <1>2, <2>1, Zenon DEF Sums, Owed
<1>3. TypeInv /\ Control /\ Sums /\ [Next]_vars => Sums'
    BY <1>2, NoByteMoves, ReadSums, ConsumeSums, PutSums, ResetSums
        DEF Next, ReaderSteps, ReplySteps, ServerSteps
<1>4. TypeInv /\ Sums => PutsArrive
    <2> SUFFICES ASSUME TypeInv, Sums, ~spoiled, ~told, ~rx_overflow, master.does # "put"
                 PROVE  log \o rx_fifo = stream
        BY DEF PutsArrive
    <2>1. ~Delivered
        BY DEF Delivered
    <2>2. log \o rx_fifo = stream \o <<>>
        BY <2>1, Zenon DEF Sums
    <2> QED BY <2>2, SumTypes, ConcatEmptySeq
<1> QED BY TypeInvHolds, ControlHolds, <1>1, <1>3, <1>4, PTL DEF Spec

=============================================================================
