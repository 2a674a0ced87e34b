---------------------------- MODULE ModbusSlave ----------------------------
(***************************************************************************)
(* dtiox_zephyr_modbus_slave: a Modbus master moves blobs through holding  *)
(* registers, one callback per register, and the application reads and     *)
(* writes a byte stream.  The callbacks test the enabled flag before they  *)
(* take the lock, and read the reply registers without it.  A blob is its  *)
(* number and its length; a register of it holds the number, and its k-th  *)
(* byte is <<number, k>>.                                                  *)
(***************************************************************************)
EXTENDS Naturals, Sequences

CONSTANTS
    MaxBlob,      \* DTIOX_MODBUS_MAX_BLOB_BYTES
    RingCapacity, \* the capacity of rx_fifo
    PutSizes,     \* the lengths the master announces for a blob
    WriteSizes,   \* the lengths the application writes
    ReadSizes,    \* the buffer lengths the application reads with
    MaxCalls,     \* bound: the blobs the master puts, the writes accepted and
                  \* the calls of enable(), taken together
    Lossy         \* a reply may get lost, and the master then asks again

ASSUME ModbusAssumption ==
    /\ MaxBlob \in Nat \ {0} /\ RingCapacity \in Nat \ {0}
    /\ PutSizes \subseteq Nat /\ WriteSizes \subseteq Nat
    /\ ReadSizes \subseteq Nat \ {0}
    /\ MaxCalls \in Nat /\ Lossy \in BOOLEAN

VARIABLES
    attached,    \* "no", "failed" (with a lock, without a server), "yes"
    enabled,     \* _is_callback_processing_enabled
    resetting,   \* enable(true) holds the lock and has set the flag only
    rx_fifo,     \* the bytes in the ring
    rx_overflow, \* rx_overflow_pending
    posted,      \* the application's rx_semaphore has a count
    staged,      \* the staged blob; its length is 0 unless tx_staged_pending
    m2s,         \* the m2s_* registers and counts
    s2m,         \* the s2m_* registers
    callback,    \* what the callback waits for the lock to do, or "none"
    master,      \* the master's transaction
    step,        \* the registers of the transaction that are done
    reply,       \* what the master has read so far
    reader,      \* the application waits for the semaphore, or reads on
    enables,
    \* What was said to both sides, kept for the properties.
    puts,        \* the number of blobs the master put
    stream,      \* the bytes of the blobs put since enable(true)
    log,         \* the bytes the application has read since enable(true), as
                 \* long as nothing is spoiled
    told,        \* read() has returned DTERR_OVERFLOW since enable(true)
    wrote,       \* the number of writes accepted
    writes,      \* those accepted since enable(true), in order
    got,         \* the blobs the master received since enable(true)
    clean,       \* the transaction began enabled and no enable() met it
    spoiled      \* since enable(true), an enable() met a transaction or a
                 \* reply to a write was lost

slaveVars == <<rx_fifo, rx_overflow, posted, staged>>
apiVars == <<attached, enabled, resetting, enables>>
appLog == <<log, told, wrote, writes>>
masterLog == <<puts, stream, got>>
masterVars == <<master, step, reply, clean, spoiled>>
vars == <<apiVars, slaveVars, m2s, s2m, callback, masterVars, reader, appLog, masterLog>>

Smaller(m, n) == IF m < n THEN m ELSE n

Clamp(n) == Smaller(n, MaxBlob)

\* DTIOX_MODBUS_BLOB_TO_REGS: two bytes to a register.
Regs(len) == (len + 1) \div 2

NoBlob == [id |-> 0, len |-> 0]
Idle == [does |-> "nothing", id |-> 0, len |-> 0]
Zeros == [i \in 1 .. Regs(MaxBlob) |-> 0]
NoReply == [status |-> "NO_DATA", len |-> 0, data |-> Zeros]

Ids == 0 .. MaxCalls
Lengths == WriteSizes \cup PutSizes \cup 0 .. MaxBlob
Replies == [status : {"HAS_DATA", "NO_DATA"}, len : 0 .. MaxBlob,
            data : [1 .. Regs(MaxBlob) -> Ids]]
Bytes == (1 .. MaxCalls) \X (1 .. MaxBlob)

TypeOK ==
    /\ attached \in {"no", "failed", "yes"}
    /\ enabled \in BOOLEAN /\ resetting \in BOOLEAN
    /\ rx_fifo \in Seq(Ids \X (1 .. MaxBlob)) /\ Len(rx_fifo) <= RingCapacity
    /\ rx_overflow \in BOOLEAN /\ posted \in BOOLEAN
    /\ staged \in [id : Ids, len : 0 .. MaxBlob]
    /\ m2s \in [cmd : {"none", "GIVE", "PUT"}, len : Lengths,
                data : [1 .. Regs(MaxBlob) -> Ids],
                expected : 0 .. Regs(MaxBlob), written : Nat]
    /\ s2m \in Replies /\ reply \in Replies
    /\ callback \in {"none", "stage", "consume"}
    /\ master \in [does : {"nothing", "put", "poll", "fetch"}, id : Ids, len : Lengths]
    /\ step \in 0 .. Regs(MaxBlob) + 2
    /\ reader \in {"waiting", "reading"}
    /\ enables \in 0 .. MaxCalls
    /\ puts \in 0 .. MaxCalls
    /\ stream \in Seq(Bytes) /\ log \in Seq(Ids \X (1 .. MaxBlob))
    /\ told \in BOOLEAN
    /\ wrote \in 0 .. MaxCalls
    /\ writes \in Seq([id : Ids, len : 1 .. MaxBlob])
    /\ got \in Seq([id : Ids, len : 0 .. MaxBlob])
    /\ clean \in BOOLEAN /\ spoiled \in BOOLEAN

Init ==
    /\ attached = "no" /\ enabled = FALSE /\ resetting = FALSE /\ enables = 0
    /\ rx_fifo = <<>> /\ rx_overflow = FALSE /\ posted = FALSE
    /\ staged = NoBlob
    /\ m2s = [cmd |-> "none", len |-> 0, data |-> Zeros, expected |-> 0, written |-> 0]
    /\ s2m = NoReply /\ reply = NoReply
    /\ callback = "none" /\ master = Idle /\ step = 0
    /\ reader = "waiting"
    /\ puts = 0 /\ stream = <<>> /\ log = <<>> /\ told = FALSE
    /\ wrote = 0 /\ writes = <<>> /\ got = <<>> /\ clean = FALSE /\ spoiled = FALSE

MoreCalls == enables + puts + wrote < MaxCalls

-----------------------------------------------------------------------------
(* The application: attach, enable, read, write.                           *)

\* A second attach() of an attached slave does nothing.
Attach ==
    /\ attached # "yes"
    /\ attached' \in {"failed", "yes"}
    /\ UNCHANGED <<enabled, resetting, enables, slaveVars, m2s, s2m, callback,
                   masterVars, reader, appLog, masterLog>>

\* enable() takes the lock and sets the flag, which the callbacks read at once.
EnableFlag(on) ==
    /\ attached # "no" /\ ~resetting /\ MoreCalls
    /\ enables' = enables + 1
    /\ enabled' = on
    /\ resetting' = on
    /\ clean' = FALSE
    /\ spoiled' = (spoiled \/ master # Idle)
    /\ UNCHANGED <<attached, slaveVars, m2s, s2m, callback, master, step, reply,
                   reader, appLog, masterLog>>

\* Then it resets what both directions hold, but not the m2s registers.
EnableReset ==
    /\ resetting
    /\ resetting' = FALSE
    /\ rx_fifo' = <<>> /\ rx_overflow' = FALSE
    /\ staged' = NoBlob /\ s2m' = NoReply
    /\ stream' = <<>> /\ log' = <<>> /\ told' = FALSE
    /\ writes' = <<>> /\ got' = <<>>
    /\ spoiled' = (master # Idle /\ ~clean)
    /\ UNCHANGED <<attached, enabled, enables, posted, m2s, callback, master, step,
                   reply, clean, reader, wrote, puts>>

Wake ==
    /\ reader = "waiting" /\ posted
    /\ posted' = FALSE
    /\ reader' = "reading"
    /\ UNCHANGED <<apiVars, rx_fifo, rx_overflow, staged, m2s, s2m, callback,
                   masterVars, appLog, masterLog>>

\* The reader takes what there is until a read() gives it nothing.
Read(size) ==
    /\ reader = "reading" /\ attached # "no" /\ ~resetting
    /\ rx_overflow' = FALSE
    /\ LET n == IF rx_overflow THEN 0 ELSE Smaller(size, Len(rx_fifo)) IN
          /\ rx_fifo' = SubSeq(rx_fifo, n + 1, Len(rx_fifo))
          /\ log' = IF spoiled THEN <<>> ELSE log \o SubSeq(rx_fifo, 1, n)
          /\ told' = (told \/ rx_overflow)
          /\ reader' = IF n = 0 /\ ~rx_overflow THEN "waiting" ELSE "reading"
    /\ UNCHANGED <<apiVars, posted, staged, m2s, s2m, callback, masterVars,
                   wrote, writes, masterLog>>

Accept(len) ==
    /\ attached # "no" /\ ~resetting /\ MoreCalls
    /\ IF len = 0
         THEN staged' = NoBlob /\ UNCHANGED <<wrote, writes>>
         ELSE /\ wrote' = wrote + 1
              /\ staged' = [id |-> wrote + 1, len |-> Clamp(len)]
              /\ writes' = Append(writes, staged')
    /\ UNCHANGED <<apiVars, rx_fifo, rx_overflow, posted, m2s, s2m, callback,
                   masterVars, reader, log, told, masterLog>>

\* Mutant of Write: a blob that is staged already is overwritten.
WriteOver(len) == Accept(len)

\* write() is refused with DTERR_BUSY while a blob is staged.
Write(len) == staged.len = 0 /\ Accept(len)

-----------------------------------------------------------------------------
(* The master.  A request writes, or reads, one register after another.    *)

MasterPut(len) ==
    /\ master = Idle /\ attached = "yes" /\ MoreCalls
    /\ puts' = puts + 1
    /\ master' = [does |-> "put", id |-> puts + 1, len |-> len]
    /\ step' = 0
    /\ clean' = enabled
    /\ UNCHANGED <<apiVars, slaveVars, m2s, s2m, callback, reply, spoiled, reader,
                   appLog, stream, got>>

MasterPoll ==
    /\ master = Idle /\ attached = "yes"
    /\ master' = [Idle EXCEPT !.does = "poll"]
    /\ step' = 0
    /\ clean' = enabled
    /\ UNCHANGED <<apiVars, slaveVars, m2s, s2m, callback, reply, spoiled, reader,
                   appLog, masterLog>>

Served ==
    /\ callback = "none"
    /\ step = CASE master.does = "poll" -> 2
                [] master.does = "put" -> 2 + Regs(Clamp(master.len))
                [] master.does = "fetch" -> 2 + Regs(reply.len)
                [] OTHER -> Regs(MaxBlob) + 3

\* The reply is lost and the master sends the same request again.
AskAgain ==
    /\ Lossy /\ Served
    /\ step' = 0
    /\ reply' = NoReply
    /\ spoiled' = (spoiled \/ master.does # "fetch")
    /\ UNCHANGED <<apiVars, slaveVars, m2s, s2m, callback, master, clean, reader,
                   appLog, masterLog>>

PutReply ==
    /\ master.does = "put" /\ Served
    /\ master' = Idle
    /\ stream' = IF clean
                   THEN stream \o [k \in 1 .. Clamp(master.len) |-> <<master.id, k>>]
                   ELSE stream
    /\ step' = 0 /\ clean' = FALSE
    /\ UNCHANGED <<apiVars, slaveVars, m2s, s2m, callback, reply,
                   spoiled, reader, appLog, puts, got>>

\* The command has been taken: the master reads the reply registers.
PollReply ==
    /\ master.does = "poll" /\ Served
    /\ master' = [Idle EXCEPT !.does = "fetch"]
    /\ step' = 0
    /\ reply' = NoReply
    /\ UNCHANGED <<apiVars, slaveVars, m2s, s2m, callback, clean, spoiled, reader,
                   appLog, masterLog>>

\* The blob in a set of reply registers; number 0 when it is not in one piece.
Blob(r) ==
    [id |-> IF \A i \in 1 .. Regs(r.len) : r.data[i] = r.data[1] THEN r.data[1] ELSE 0,
     len |-> r.len]

FetchReply ==
    /\ master.does = "fetch" /\ Served
    /\ master' = Idle
    /\ got' = IF clean /\ reply.status = "HAS_DATA" THEN Append(got, Blob(reply)) ELSE got
    /\ step' = 0 /\ reply' = NoReply /\ clean' = FALSE
    /\ UNCHANGED <<apiVars, slaveVars, m2s, s2m, callback, spoiled, reader, appLog,
                   puts, stream>>

-----------------------------------------------------------------------------
(* holding_reg_wr: one call for each register a request writes.            *)

\* A callback begins, in the one thread of the Modbus server.
Writing(at) ==
    /\ callback = "none" /\ master.does \in {"put", "poll"} /\ step = at
    /\ step' = step + 1
    /\ UNCHANGED <<apiVars, slaveVars, s2m, master, reply, clean, spoiled, reader,
                   appLog, masterLog>>

\* While not enabled, a register is acknowledged and dropped.
WriteIgnored ==
    /\ ~enabled
    /\ \E at \in 0 .. Regs(Clamp(master.len)) + 1 : Writing(at)
    /\ UNCHANGED <<m2s, callback>>

Command == IF master.does = "put" THEN "PUT" ELSE "GIVE"

\* Mutant of WriteCmd: the registers counted so far are kept.
WriteCmdCounting ==
    /\ enabled /\ Writing(0)
    /\ m2s' = [m2s EXCEPT !.cmd = Command, !.len = 0, !.data = Zeros, !.expected = 0]
    /\ UNCHANGED callback

WriteCmd ==
    /\ enabled /\ Writing(0)
    /\ m2s' = [cmd |-> Command, len |-> 0, data |-> Zeros, expected |-> 0, written |-> 0]
    /\ UNCHANGED callback

\* Mutant of WriteLen: the registers expected are not limited.
WriteLenUnlimited ==
    /\ enabled /\ Writing(1)
    /\ m2s' = [m2s EXCEPT !.len = master.len, !.expected = Regs(master.len)]
    /\ callback' = IF m2s.cmd = "GIVE" THEN "stage" ELSE "none"

\* A poll, complete with its header, goes for the lock.
WriteLen ==
    /\ enabled /\ Writing(1)
    /\ m2s' = [m2s EXCEPT !.len = master.len, !.expected = Regs(Clamp(master.len))]
    /\ callback' = IF m2s.cmd = "GIVE" THEN "stage" ELSE "none"

\* A payload register; the last one expected goes for the lock.
WriteData ==
    /\ enabled
    /\ \E i \in 1 .. Regs(Clamp(master.len)) :
          /\ Writing(i + 1)
          /\ m2s' = [m2s EXCEPT !.data[i] = master.id, !.written = @ + 1]
    /\ callback' = IF /\ m2s.cmd = "PUT" /\ m2s.expected > 0
                      /\ m2s'.written >= m2s.expected
                     THEN "consume" ELSE "none"

\* Mutant of StageReply: the blob that was taken stays staged.
StageReplyKeeping ==
    /\ callback = "stage" /\ ~resetting
    /\ callback' = "none"
    /\ s2m' = IF staged.len = 0 THEN NoReply
              ELSE [status |-> "HAS_DATA", len |-> staged.len,
                    data |-> [i \in 1 .. Regs(MaxBlob) |->
                                IF i <= Regs(staged.len) THEN staged.id ELSE s2m.data[i]]]
    /\ UNCHANGED <<apiVars, slaveVars, m2s, masterVars, reader, appLog, masterLog>>

\* put_tx_staged_into_s2m
StageReply ==
    /\ callback = "stage" /\ ~resetting
    /\ callback' = "none"
    /\ s2m' = IF staged.len = 0 THEN NoReply
              ELSE [status |-> "HAS_DATA", len |-> staged.len,
                    data |-> [i \in 1 .. Regs(MaxBlob) |->
                                IF i <= Regs(staged.len) THEN staged.id ELSE s2m.data[i]]]
    /\ staged' = NoBlob
    /\ UNCHANGED <<apiVars, rx_fifo, rx_overflow, posted, m2s, masterVars, reader,
                   appLog, masterLog>>

\* The bytes of the blob in the m2s registers.
Unpacked == [k \in 1 .. Clamp(m2s.len) |-> <<m2s.data[Regs(k)], k>>]

Room == RingCapacity - Len(rx_fifo)

\* Mutant of Consume: no post for a blob that did not fit.
ConsumeWholePost ==
    /\ callback = "consume" /\ ~resetting
    /\ callback' = "none"
    /\ LET n == Smaller(Len(Unpacked), Room) IN
          /\ rx_fifo' = rx_fifo \o SubSeq(Unpacked, 1, n)
          /\ rx_overflow' = (rx_overflow \/ n < Len(Unpacked))
          /\ posted' = (posted \/ n = Len(Unpacked))
    /\ UNCHANGED <<apiVars, staged, m2s, s2m, masterVars, reader, appLog, masterLog>>

\* put_m2s_into_rxfifo
Consume ==
    /\ callback = "consume" /\ ~resetting
    /\ callback' = "none"
    /\ LET n == Smaller(Len(Unpacked), Room) IN
          /\ rx_fifo' = rx_fifo \o SubSeq(Unpacked, 1, n)
          /\ rx_overflow' = (rx_overflow \/ n < Len(Unpacked))
          /\ posted' = (posted \/ n > 0)
    /\ UNCHANGED <<apiVars, staged, m2s, s2m, masterVars, reader, appLog, masterLog>>

-----------------------------------------------------------------------------
(* holding_reg_rd: one call for each register a request reads.             *)

Reading(at) ==
    /\ master.does = "fetch" /\ step = at
    /\ step' = step + 1
    /\ UNCHANGED <<apiVars, slaveVars, m2s, s2m, callback, master, clean, spoiled,
                   reader, appLog, masterLog>>

\* While not enabled the call succeeds and leaves *out_reg as it was: some values
\* of each register stand for what the server finds there.
ReadStatus ==
    /\ Reading(0)
    /\ \E v \in IF enabled THEN {s2m.status} ELSE {"HAS_DATA", "NO_DATA"} :
          reply' = [reply EXCEPT !.status = v]

ReadLen ==
    /\ Reading(1)
    /\ \E v \in IF enabled THEN {s2m.len} ELSE {0, MaxBlob} :
          reply' = [reply EXCEPT !.len = v]

ReadData ==
    \E i \in 1 .. Regs(reply.len) :
        /\ Reading(i + 1)
        /\ \E v \in IF enabled THEN {s2m.data[i]} ELSE {0, MaxCalls} :
              reply' = [reply EXCEPT !.data[i] = v]

-----------------------------------------------------------------------------

ServerSteps ==
    \/ WriteIgnored \/ WriteCmd \/ WriteLen \/ WriteData \/ StageReply \/ Consume
    \/ ReadStatus \/ ReadLen \/ ReadData

ReplySteps == PutReply \/ PollReply \/ FetchReply

ReaderSteps == Wake \/ \E size \in ReadSizes : Read(size)

Next ==
    \/ Attach \/ EnableReset \/ \E on \in BOOLEAN : EnableFlag(on)
    \/ ReaderSteps \/ \E len \in WriteSizes : Write(len)
    \/ MasterPoll \/ \E len \in PutSizes : MasterPut(len)
    \/ AskAgain \/ ReplySteps
    \/ ServerSteps

Spec == Init /\ [][Next]_vars

-----------------------------------------------------------------------------
(* Properties.                                                             *)

\* What polls deliver while no enable() meets them are blobs the application
\* wrote, in one piece, in order and each at most once, lost replies or not.
InOrder ==
    /\ \A i \in DOMAIN got : \E j \in DOMAIN writes : got[i] = writes[j]
    /\ \A i, j \in DOMAIN got : i < j => got[i].id < got[j].id

\* The blob in the reply registers that the master does not have yet.
InReply ==
    IF s2m.status = "HAS_DATA" /\ (\A i \in DOMAIN got : got[i] # Blob(s2m))
      THEN <<Blob(s2m)>> ELSE <<>>

\* A write that was accepted is not lost: the master has it, or it is in the
\* reply registers for the poll under way, or it is staged; unless a reply got
\* lost or enable() met a request.
NothingLost ==
    ~spoiled => writes = got \o InReply \o (IF staged.len > 0 THEN <<staged>> ELSE <<>>)

\* Byte for byte, what the application has read and what the ring holds is
\* what the master's acknowledged puts carried, unless read() has reported an
\* overflow or is about to.
PutsArrive ==
    ~spoiled /\ ~told /\ ~rx_overflow /\ master.does # "put" /\ ~resetting =>
        log \o rx_fifo = stream

\* The reader does not wait with bytes, or an overflow, to be read.
NoLostWakeup ==
    reader = "waiting" /\ (rx_fifo # <<>> \/ rx_overflow) => posted

=============================================================================
