------------------------------- MODULE IMemory -------------------------------
(***************************************************************************)
(* HIDPP10::IMemory (src/src/libhidpp/hidpp10/IMemory.cpp) and the parts   *)
(* of HIDPP10::Device it calls: pages of the device's flash are erased and *)
(* written by a numbered stream of acknowledged data packets, and read by  *)
(* register reads.  Requests and replies are queued in order; a process    *)
(* may end at any point with requests still in flight, and the next one    *)
(* opens the same device.                                                  *)
(*                                                                         *)
(* The b-th byte of the data d is the pair <<d, b>>: what matters of a     *)
(* byte is which byte of which write it is.                                *)
(***************************************************************************)
EXTENDS Integers, Sequences

CONSTANTS
    Pages,
    Data,            \* contents written to pages, one token each
    Blank,           \* an erased byte
    PageSize,        \* in bytes
    LongParamLength, \* of a long report
    HeaderLength,    \* of the first data packet
    MaxSessions,     \* bound: processes that open the device
    None             \* no job, no page

ASSUME SizeAssumption ==
    /\ PageSize \in Nat \ {0}
    /\ HeaderLength \in Nat
    /\ LongParamLength \in Nat \ {0}
    /\ LongParamLength > HeaderLength
    /\ LongParamLength % 2 = 0
    /\ PageSize + HeaderLength <= 256 * LongParamLength \* 512 + 9 and 16
    /\ MaxSessions \in Nat
ASSUME TokenAssumption ==
    /\ Blank \notin Data \X Nat
    /\ None \notin Pages \cup [page : Pages, data : Data]

VARIABLES
    session,  \* number of the process that has the device open
    greeted,  \* its ping was answered, not that of a process before it (history)
    pc,       \* what that process waits for, or how its last call ended
    job,      \* the write in progress
    sent,     \* bytes of it that were sent
    seqNum,   \* seq_num
    source,   \* the page being read
    buffer,   \* what was read of it
    requests, \* reports on their way to the device
    replies,  \* reports queued for the process
    disk,     \* the device's memory
    expected, \* the sequence number the device expects
    cursor,   \* where the device puts the next data byte
    exposed   \* pages whose last write has not returned, or only to a process
              \* that was not greeted (history)

clientVars == <<session, greeted, pc, job, sent, seqNum, source, buffer>>
deviceVars == <<disk, expected, cursor>>
vars == <<clientVars, requests, replies, deviceVars, exposed>>

-----------------------------------------------------------------------------
Bytes == 0 .. PageSize - 1
Byte == (Data \X Bytes) \cup {Blank}
Whole(d) == [b \in Bytes |-> <<d, b>>]
Erased == [b \in Bytes |-> Blank]
\* The n bytes of d from the b-th on.
Slice(d, b, n) == [i \in 1 .. n |-> <<d, b + i - 1>>]
Lesser(a, b) == IF a < b THEN a ELSE b

Packets == {"begin", "continue"}
Request == [kind : {"ping", "fill", "reset", "read"} \cup Packets,
            session : 1 .. MaxSessions, page : Pages \cup {None}, seq : Nat,
            at : Nat, bytes : Seq(Byte)]
Reply == [kind : {"ping", "fill", "reset", "read", "ack"}, ok : BOOLEAN,
          session : 1 .. MaxSessions, seq : Nat, bytes : Seq(Byte)]

Settled == {"idle", "stored", "loaded", "failed"}
Init ==
    /\ session = 0
    /\ greeted = FALSE
    /\ pc = "closed"
    /\ job = None
    /\ sent = 0
    /\ seqNum = 0
    /\ source = None
    /\ buffer = <<>>
    /\ requests = <<>>
    /\ replies = <<>>
    /\ disk = [p \in Pages |-> Erased]
    /\ expected = 0
    /\ cursor = [page |-> None, at |-> 0]
    /\ exposed = {}

-----------------------------------------------------------------------------
(* The process.  Each of its steps takes the reply it waits for, if any,    *)
(* and sends the next request.                                              *)

Message(kind, p) ==
    [kind |-> kind, session |-> session, page |-> p, seq |-> 0, at |-> 0,
     bytes |-> <<>>]
DataPacket(kind, seq, bytes) ==
    [Message(kind, job.page) EXCEPT !.seq = seq, !.bytes = bytes]
Send(m) == requests' = Append(requests, m)

\* The report that get () returns: command answers by (sub ID, address), an
\* acknowledgement by its sub ID.  Others are read and ignored.
Answer(kind) == replies # <<>> /\ Head(replies).kind = kind
Receive == replies' = Tail(replies)

\* A call ends, and its variables go out of scope.
Leave(outcome) == pc' = outcome /\ job' = None /\ sent' = 0 /\ seqNum' = 0

\* A process opens the device: HIDPP::Device pings it.
Open ==
    /\ pc = "closed"
    /\ session < MaxSessions
    /\ session' = session + 1
    /\ pc' = "ping"
    /\ requests' = Append(requests, [Message("ping", None)
                                     EXCEPT !.session = session + 1])
    /\ UNCHANGED <<greeted, job, sent, seqNum, source, buffer, replies, deviceVars, exposed>>

Opened ==
    /\ pc = "ping"
    /\ Answer("ping")
    /\ Receive
    /\ pc' = "idle"
    /\ greeted' = (Head(replies).session = session)
    /\ UNCHANGED <<session, job, sent, seqNum, source, buffer, requests,
                   deviceVars, exposed>>

\* writePage: fillPage, then writeMem.
BeginWrite(p, d) ==
    /\ pc \in Settled
    /\ job' = [page |-> p, data |-> d]
    /\ exposed' = exposed \cup {p}
    /\ source' = None
    /\ buffer' = <<>>
    /\ UNCHANGED <<session, greeted, sent, seqNum, replies, deviceVars>>
WritePage(p, d) == BeginWrite(p, d) /\ pc' = "fill" /\ Send(Message("fill", p))

\* The page is erased; resetSequenceNumber.
Filled ==
    /\ pc = "fill"
    /\ Answer("fill")
    /\ Receive
    /\ IF Head(replies).ok
         THEN /\ pc' = "reset"
              /\ Send(Message("reset", None))
              /\ UNCHANGED <<job, sent, seqNum>>
         ELSE /\ Leave("failed")
              /\ UNCHANGED requests
    /\ UNCHANGED <<session, greeted, source, buffer, deviceVars, exposed>>

\* writeMem alone (the RAM of RAMMapping is not erased first).
WriteMem(p, d) == BeginWrite(p, d) /\ pc' = "reset" /\ Send(Message("reset", None))

\* The first packet has a header, and as much data as fits after it.
BeginData ==
    /\ pc = "reset"
    /\ Answer("reset")
    /\ Receive
    /\ IF Head(replies).ok
         THEN LET len == Lesser(LongParamLength - HeaderLength, PageSize) IN
              /\ Send(DataPacket("begin", 0, Slice(job.data, 0, len)))
              /\ sent' = len
              /\ seqNum' = 0
              /\ pc' = "ack"
              /\ UNCHANGED job
         ELSE /\ Leave("failed")
              /\ UNCHANGED requests
    /\ UNCHANGED <<session, greeted, source, buffer, deviceVars, exposed>>

\* sendDataPacket has its acknowledgement: the next packet, or the end.
IsExpectedAck(r) == r.ok /\ r.seq = seqNum
ContinueLength == Lesser(LongParamLength, PageSize - sent)
ContinueData ==
    /\ pc = "ack"
    /\ Answer("ack")
    /\ IsExpectedAck(Head(replies))
    /\ sent < PageSize
    /\ Receive
    /\ LET len == ContinueLength
           seq == (seqNum + 1) % 256
       IN  /\ Send(DataPacket("continue", seq, Slice(job.data, sent, len)))
           /\ sent' = sent + len
           /\ seqNum' = seq
    /\ UNCHANGED <<session, greeted, pc, job, source, buffer, deviceVars, exposed>>

\* A process that is not greeted may have taken the answers and the
\* acknowledgements of earlier ones, whose requests, and its own, still come.
Stored == exposed' = IF greeted THEN exposed \ {job.page} ELSE exposed

\* Faulty variant: the last packet is not waited for.
EndDataEarly ==
    /\ pc = "ack"
    /\ sent = PageSize
    /\ Leave("stored")
    /\ Stored
    /\ UNCHANGED <<session, greeted, source, buffer, requests, replies, deviceVars>>
EndData ==
    /\ pc = "ack"
    /\ Answer("ack")
    /\ IsExpectedAck(Head(replies))
    /\ sent = PageSize
    /\ Receive
    /\ Leave("stored")
    /\ Stored
    /\ UNCHANGED <<session, greeted, source, buffer, requests, deviceVars>>

\* Any other acknowledgement is a WriteError.
DataRefused ==
    /\ pc = "ack"
    /\ Answer("ack")
    /\ ~IsExpectedAck(Head(replies))
    /\ Receive
    /\ Leave("failed")
    /\ UNCHANGED <<session, greeted, source, buffer, requests, deviceVars, exposed>>

\* readMem: one register read after another.  Offsets count 16-bit words.
ReadRequest(p, at) == [Message("read", p) EXCEPT !.at = at]
ReadMem(p) ==
    /\ pc \in Settled
    /\ source' = p
    /\ buffer' = <<>>
    /\ Send(ReadRequest(p, 0))
    /\ pc' = "read"
    /\ UNCHANGED <<session, greeted, job, sent, seqNum, replies, deviceVars, exposed>>

\* Faulty variant: the offset counts bytes.
NextOffsetInBytes(read) == read
NextOffset(read) == read \div 2
ReadSome ==
    /\ pc = "read"
    /\ Answer("read")
    /\ Receive
    /\ LET len == Lesser(LongParamLength, PageSize - Len(buffer))
           read == buffer \o SubSeq(Head(replies).bytes, 1, len) IN
       IF ~Head(replies).ok
         THEN pc' = "failed" /\ UNCHANGED <<buffer, requests>>
       ELSE IF Len(read) >= PageSize
         THEN pc' = "loaded" /\ buffer' = read /\ UNCHANGED requests
       ELSE /\ buffer' = read
            /\ Send(ReadRequest(source, NextOffset(Len(read))))
            /\ UNCHANGED pc
    /\ UNCHANGED <<session, greeted, job, sent, seqNum, source, deviceVars, exposed>>

Waiting == pc \in {"ping", "fill", "reset", "ack", "read"}

\* Faulty variant: the acknowledgement is asked for after the packet is sent,
\* and may have come by then.
IgnoreEarlyAck ==
    /\ Waiting
    /\ replies # <<>>
    /\ Head(replies).kind # pc \/ pc = "ack"
    /\ Receive
    /\ UNCHANGED <<clientVars, requests, deviceVars, exposed>>
\* A reply that is not the one waited for.
Ignore ==
    /\ Waiting
    /\ replies # <<>>
    /\ Head(replies).kind # pc
    /\ Receive
    /\ UNCHANGED <<clientVars, requests, deviceVars, exposed>>

\* The process ends, and the kernel's queue of replies with it.
Kill ==
    /\ pc # "closed"
    /\ Leave("closed")
    /\ source' = None
    /\ buffer' = <<>>
    /\ replies' = <<>>
    /\ greeted' = FALSE
    /\ UNCHANGED <<session, requests, deviceVars, exposed>>

Await == Opened \/ Filled \/ BeginData \/ ContinueData \/ EndData
         \/ DataRefused \/ ReadSome \/ Ignore

-----------------------------------------------------------------------------
(* The device: it handles requests in order, may refuse any of them, and    *)
(* answers also when the process that asked has ended.                      *)

Reply_(r, ok, bytes) ==
    [kind |-> IF r.kind \in Packets THEN "ack" ELSE r.kind, ok |-> ok,
     session |-> r.session, seq |-> r.seq, bytes |-> bytes]
\* Without a process nobody reads the replies.
Respond(r, ok, bytes) ==
    replies' = IF pc = "closed" THEN replies
                               ELSE Append(replies, Reply_(r, ok, bytes))

Handle(r) ==
    \/ /\ r.kind = "ping"
       /\ Respond(r, TRUE, <<>>)
       /\ UNCHANGED <<disk, expected, cursor>>
    \/ /\ r.kind = "fill"
       /\ disk' = [disk EXCEPT ![r.page] = Erased]
       /\ Respond(r, TRUE, <<>>)
       /\ UNCHANGED <<expected, cursor>>
    \/ /\ r.kind = "reset"
       /\ expected' = 0
       /\ Respond(r, TRUE, <<>>)
       /\ UNCHANGED <<disk, cursor>>
    \/ /\ r.kind = "read"
       /\ Respond(r, TRUE, [i \in 1 .. LongParamLength |->
                                IF 2 * r.at + i - 1 \in Bytes
                                  THEN disk[r.page][2 * r.at + i - 1] ELSE Blank])
       /\ UNCHANGED <<disk, expected, cursor>>
    \/ /\ r.kind \in Packets
       /\ r.seq = expected
       /\ LET start == IF r.kind = "begin" THEN [page |-> r.page, at |-> 0]
                                           ELSE cursor
          IN  /\ disk' = [disk EXCEPT ![start.page] =
                            [b \in Bytes |->
                               IF b - start.at + 1 \in DOMAIN r.bytes
                                 THEN r.bytes[b - start.at + 1]
                                 ELSE disk[start.page][b]]]
              /\ cursor' = [start EXCEPT !.at = @ + Len(r.bytes)]
       /\ expected' = (expected + 1) % 256
       /\ Respond(r, TRUE, <<>>)

Refuse(r) ==
    /\ r.kind # "ping"
    /\ Respond(r, FALSE, <<>>)
    /\ UNCHANGED <<disk, expected, cursor>>

Device ==
    /\ requests # <<>>
    /\ requests' = Tail(requests)
    /\ Handle(Head(requests)) \/ Refuse(Head(requests))
    /\ UNCHANGED <<clientVars, exposed>>

Next ==
    \/ Open
    \/ \E p \in Pages, d \in Data : WritePage(p, d) \/ WriteMem(p, d)
    \/ \E p \in Pages : ReadMem(p)
    \/ Await
    \/ Kill
    \/ Device

Spec == Init /\ [][Next]_vars

\* The device answers, and the process reads what has come.
FairSpec == Spec /\ WF_vars(Device) /\ WF_vars(Await)

-----------------------------------------------------------------------------
(* Properties. *)

\* writePage and writeMem implement what the mappings rely on: a write that
\* returns has stored all its bytes, and no earlier write, not even one of a
\* process that was killed, can change the page afterwards; if the writer has
\* the answer to its own ping.
Content(p) ==
    IF \E d \in Data : disk[p] = Whole(d) THEN disk[p][0][1] ELSE Blank
Store == INSTANCE PageStore WITH store <- [p \in Pages |-> Content(p)],
                                 Damaged <- Blank, NoJob <- None
ImplementsPageStore == Store!Spec

\* A process that has the answer to its own ping takes no answer of an earlier
\* process for its own: a read that returns has the bytes of the page it was
\* asked for, whatever the earlier processes were killed at.
ReadsWhatIsStored ==
    pc = "loaded" /\ greeted =>
        /\ Len(buffer) = PageSize
        /\ \A b \in Bytes : buffer[b + 1] = disk[source][b]

\* Every call ends, or its process does: nothing is waited for that the
\* device has not been asked for.
CallsEnd == Waiting ~> ~Waiting
=============================================================================
