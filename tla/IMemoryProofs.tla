---------------------------- MODULE IMemoryProofs ----------------------------
(***************************************************************************)
(* Theorems about IMemory, for any number of pages, contents and processes,*)
(* and any size of a page and of a report.                                 *)
(***************************************************************************)
EXTENDS IMemory, QueueFacts, TLAPS

-----------------------------------------------------------------------------
(* The inductive invariants. *)

Writing == {"fill", "reset", "ack"}

TypeOK ==
    /\ session \in 0 .. MaxSessions
    /\ greeted \in BOOLEAN
    /\ pc \in {"closed", "ping", "read"} \cup Writing \cup Settled
    /\ job \in [page : Pages, data : Data] \cup {None}
    /\ sent \in 0 .. PageSize
    /\ seqNum \in 0 .. 255
    /\ source \in Pages \cup {None}
    /\ buffer \in Seq(Byte)
    /\ requests \in Seq(Request)
    /\ replies \in Seq(Reply)
    /\ disk \in [Pages -> [Bytes -> Byte]]
    /\ expected \in 0 .. 255
    /\ cursor \in [page : Pages \cup {None}, at : Nat]
    /\ exposed \subseteq Pages

\* Where the process is, and what it has sent or read.
ProcessInv ==
    /\ job # None <=> pc \in Writing
    /\ pc \in Writing => job.page \in exposed
    /\ pc \notin Writing => sent = 0 /\ seqNum = 0
    /\ pc = "ack" => /\ sent > 0
                     /\ sent = Lesser((seqNum + 1) * LongParamLength - HeaderLength,
                                      PageSize)
    /\ pc = "read" => source \in Pages /\ Len(buffer) < PageSize
    /\ pc \in {"closed", "ping"} => ~greeted
    /\ pc # "closed" => session > 0
    /\ pc = "closed" => replies = <<>>

\* A page is sent in more packets than k.
InPage(k) == k * LongParamLength < PageSize + HeaderLength

\* The requests of any process, also of one that was killed, only change
\* pages that are exposed (n processes, pages).
Harmless(r, n, pages) ==
    /\ r.session <= n
    /\ r.kind \in {"fill", "read"} \cup Packets => r.page \in Pages
    /\ r.kind \in {"fill"} \cup Packets => r.page \in pages
    /\ r.kind = "continue" => r.seq > 0 /\ InPage(r.seq)
\* The device takes no more packets for a page that was written whole.
CursorInv == cursor.page \notin exposed => expected = 0 \/ ~InPage(expected)

RequestsInv == \A i \in 1 .. Len(requests) : Harmless(requests[i], session, exposed)
RepliesInv ==
    \A i \in 1 .. Len(replies) :
        /\ replies[i].session <= session
        /\ replies[i].kind = "read" /\ replies[i].ok
             => Len(replies[i].bytes) = LongParamLength
QueueInv == RequestsInv /\ RepliesInv /\ CursorInv

\* The ping of a process, and its answer, come after all that is left of the
\* processes before it.
PingInv ==
    pc = "ping" =>
        \/ /\ requests # <<>>
           /\ \A i \in 1 .. Len(requests) - 1 : requests[i].session < session
           /\ \A i \in 1 .. Len(replies) : replies[i].session < session
        \/ /\ requests = <<>>
           /\ \A i \in 1 .. Len(replies) - 1 : replies[i].session < session

\* The first n bytes of the job are on the device.
Kept(n) == \A b \in 0 .. n - 1 : disk[job.page][b] = <<job.data, b>>
At(n) == cursor = [page |-> job.page, at |-> n]

\* What a greeted process has asked, and what it may be answered.
Asked(m) ==
    /\ pc \notin {"ack"} => m.kind = pc
    /\ pc = "read" => m.page = source /\ 2 * m.at = Len(buffer)
    /\ pc = "ack" => /\ m.seq = seqNum
                     /\ m.page = job.page
                     /\ \E n \in 0 .. sent :
                          /\ m.bytes = Slice(job.data, n, sent - n)
                          /\ \/ m.kind = "begin" /\ n = 0
                             \/ m.kind = "continue" /\ At(n) /\ Kept(n)
Answered(r) ==
    /\ r.kind = pc
    /\ pc = "read" /\ r.ok =>
         \A i \in 1 .. LongParamLength :
           Len(buffer) + i - 1 \in Bytes => r.bytes[i] = disk[source][Len(buffer) + i - 1]
    /\ pc = "ack" /\ r.ok => At(sent) /\ Kept(sent) /\ expected = (seqNum + 1) % 256

\* A greeted process and the device take turns.
LockStep ==
    greeted =>
        /\ pc \in Settled => requests = <<>> /\ replies = <<>>
        /\ Waiting => \/ Len(requests) = 1 /\ replies = <<>> /\ Asked(requests[1])
                      \/ requests = <<>> /\ Len(replies) = 1 /\ Answered(replies[1])

\* What a greeted process has read is what is stored.
ReadInv ==
    greeted /\ pc \in {"read", "loaded"} =>
        /\ pc = "read" => Len(buffer) % 2 = 0
        /\ pc = "loaded" => Len(buffer) = PageSize
        /\ \A b \in 0 .. Len(buffer) - 1 : buffer[b + 1] = disk[source][b]

Inv == TypeOK /\ ProcessInv /\ QueueInv /\ PingInv /\ LockStep /\ ReadInv

-----------------------------------------------------------------------------
(* Lemmas about the operators. *)

\* A slice of the data is the bytes it should be.
LEMMA SliceFacts ==
    ASSUME NEW d \in Data, NEW b \in Nat, NEW n \in Nat, b + n <= PageSize
    PROVE  /\ Slice(d, b, n) \in Seq(Byte)
           /\ Len(Slice(d, b, n)) = n
           /\ \A i \in 1 .. n : Slice(d, b, n)[i] = <<d, b + i - 1>>
<1>1. \A i \in 1 .. n : <<d, b + i - 1>> \in Byte
  BY SizeAssumption DEF Byte, Bytes
<1>2. QED
  BY <1>1 DEF Slice

\* The sequence numbers of a page's packets are told apart by a byte.
LEMMA PacketNumbers ==
    ASSUME NEW k \in Nat, InPage(k)
    PROVE  k < 256
<1> DEFINE L == LongParamLength
<1>1. L \in Nat /\ L > 0 /\ k * L < 256 * L
  BY SizeAssumption DEF InPage
<1>2. ASSUME k >= 256 PROVE FALSE
  <2>1. PICK j \in Nat : k = 256 + j
    BY <1>2
  <2>2. k * L = 256 * L + j * L /\ j * L >= 0
    BY <1>1, <2>1
  <2>3. QED
    BY <1>1, <2>2
<1>3. QED
  BY <1>2

\* What is sent after k packets, and after one more.
SentAfter(k) == Lesser(k * LongParamLength - HeaderLength, PageSize)

LEMMA SentFacts ==
    ASSUME NEW k \in Nat \ {0}
    PROVE  /\ SentAfter(k) \in 1 .. PageSize
           /\ SentAfter(k) = PageSize => ~InPage(k)
           /\ SentAfter(k) < PageSize => InPage(k)
           /\ LET sofar == SentAfter(k) IN
                sofar + Lesser(LongParamLength, PageSize - sofar) = SentAfter(k + 1)
<1> DEFINE L == LongParamLength
           n == k * L
<1>1. L \in Nat /\ L > HeaderLength /\ n \in Nat /\ n >= L
  <2>1. PICK j \in Nat : k = 1 + j
    BY Z3
  <2>2. n = L + j * L /\ j * L >= 0
    BY SizeAssumption, <2>1
  <2>3. QED
    BY SizeAssumption, <2>2
<1>2. (k + 1) * L = n + L
  BY <1>1
<1> HIDE DEF n
<1>3. QED
  BY <1>1, <1>2, SizeAssumption DEF SentAfter, InPage, Lesser, n

\* The offset of a read counts 16-bit words.
LEMMA EvenSum ==
    ASSUME NEW a \in Nat, NEW b \in Nat, a % 2 = 0, b % 2 = 0
    PROVE  (a + b) % 2 = 0 /\ 2 * NextOffset(a + b) = a + b
BY DEF NextOffset

\* Messages of a process that has the device open.
LEMMA MessageTypes ==
    ASSUME TypeOK, session > 0
    PROVE  /\ \A kind \in {"ping", "fill", "reset", "read"}, p \in Pages \cup {None} :
                Message(kind, p) \in Request
           /\ \A p \in Pages, at \in Nat : ReadRequest(p, at) \in Request
           /\ \A kind \in Packets, seq \in Nat, bytes \in Seq(Byte) :
                job.page \in Pages => DataPacket(kind, seq, bytes) \in Request
<1>1. session \in 1 .. MaxSessions
  BY SizeAssumption DEF TypeOK
<1>2. <<>> \in Seq(Byte)
  OBVIOUS
<1>3. QED
  BY <1>1, <1>2 DEF Message, ReadRequest, DataPacket, Request, Packets

-----------------------------------------------------------------------------
(* The device. *)

\* What it reads for an answer.
Words(r) == [i \in 1 .. LongParamLength |->
                IF 2 * r.at + i - 1 \in Bytes THEN disk[r.page][2 * r.at + i - 1] ELSE Blank]
\* What it does with a packet.
Start(r) == IF r.kind = "begin" THEN [page |-> r.page, at |-> 0] ELSE cursor
Filling(r) ==
    /\ disk' = [disk EXCEPT ![Start(r).page] =
                  [b \in Bytes |-> IF b - Start(r).at + 1 \in DOMAIN r.bytes
                                      THEN r.bytes[b - Start(r).at + 1]
                                      ELSE disk[Start(r).page][b]]]
    /\ cursor' = [Start(r) EXCEPT !.at = @ + Len(r.bytes)]
    /\ expected' = (expected + 1) % 256

\* The request it takes.
LEMMA Taken ==
    ASSUME TypeOK, QueueInv, Device
    PROVE  LET r == requests[1] IN
           /\ requests # <<>>
           /\ r = Head(requests) /\ r \in Request /\ Harmless(r, session, exposed)
           /\ requests' = Tail(requests)
           /\ UNCHANGED <<clientVars, exposed>>
<1>1. requests \in Seq(Request) /\ requests # <<>>
  BY DEF TypeOK, Device
<1>2. Len(requests) \in Nat \ {0} /\ Head(requests) = requests[1] /\ Head(requests) \in Request
  BY <1>1, TailFacts
<1>3. QED
  BY <1>1, <1>2 DEF Device, QueueInv, RequestsInv

\* The ways it may take it.
LEMMA Handled ==
    ASSUME TypeOK, QueueInv, Device, NEW r, r = requests[1]
    PROVE  \/ /\ Respond(r, r.kind = "ping", <<>>)
              /\ UNCHANGED deviceVars
           \/ /\ r.kind = "fill"
              /\ Respond(r, TRUE, <<>>)
              /\ disk' = [disk EXCEPT ![r.page] = Erased]
              /\ UNCHANGED <<expected, cursor>>
           \/ /\ r.kind = "reset"
              /\ Respond(r, TRUE, <<>>)
              /\ expected' = 0
              /\ UNCHANGED <<disk, cursor>>
           \/ /\ r.kind = "read"
              /\ Respond(r, TRUE, Words(r))
              /\ UNCHANGED deviceVars
           \/ /\ r.kind \in Packets
              /\ r.seq = expected
              /\ Respond(r, TRUE, <<>>)
              /\ Filling(r)
<1>1. r = Head(requests)
  BY Taken
<1>2. Handle(r) \/ Refuse(r)
  BY <1>1 DEF Device
<1>3. CASE Refuse(r)
  BY <1>3 DEF Refuse, deviceVars
<1>4. CASE Handle(r) /\ r.kind \in Packets
  BY <1>4 DEF Handle, Start, Filling, Packets
<1>5. CASE Handle(r) /\ r.kind \notin Packets
  BY <1>5 DEF Handle, deviceVars, Words
<1>6. QED
  BY <1>2, <1>3, <1>4, <1>5

\* A packet that is accepted is for an exposed page.
LEMMA FillingPage ==
    ASSUME TypeOK, QueueInv, NEW r \in Request, Harmless(r, session, exposed), r.kind \in Packets,
           r.seq = expected
    PROVE  /\ Start(r).page \in exposed /\ Start(r).page \in Pages
           /\ Start(r) \in [page : Pages, at : Nat]
<1>1. CASE r.kind = "begin"
  BY <1>1 DEF Start, Harmless, Packets, TypeOK
<1>2. CASE r.kind = "continue"
  <2>1. expected # 0 /\ InPage(expected)
    BY <1>2 DEF Harmless, TypeOK
  <2>2. cursor.page \in exposed /\ cursor \in [page : Pages \cup {None}, at : Nat]
    BY <2>1 DEF QueueInv, CursorInv, TypeOK
  <2>3. cursor = [page |-> cursor.page, at |-> cursor.at] /\ cursor.at \in Nat
    BY <2>2
  <2>4. Start(r) = cursor /\ cursor.page \in Pages
    BY <1>2, <2>2 DEF Start, TypeOK
  <2>5. QED
    BY <2>2, <2>3, <2>4
<1>3. QED
  BY <1>1, <1>2 DEF Packets

\* Whatever request it is, of a process that lives or not, it changes at most
\* one page, and an exposed one.
LEMMA DeviceChanges ==
    ASSUME TypeOK, QueueInv, Device
    PROVE  /\ disk' \in [Pages -> [Bytes -> Byte]]
           /\ expected' \in 0 .. 255
           /\ cursor' \in [page : Pages \cup {None}, at : Nat]
           /\ \/ disk' = disk
              \/ \E p \in exposed : \A q \in Pages \ {p} : disk'[q] = disk[q]
<1> DEFINE r == requests[1]
<1>1. r \in Request /\ Harmless(r, session, exposed)
  BY Taken
<1> HIDE DEF r
<1>2. CASE UNCHANGED deviceVars
  BY <1>2 DEF deviceVars, TypeOK
<1>3. CASE /\ r.kind = "fill"
           /\ disk' = [disk EXCEPT ![r.page] = Erased]
           /\ UNCHANGED <<expected, cursor>>
  <2>1. r.page \in exposed /\ r.page \in Pages
    BY <1>1, <1>3 DEF Harmless
  <2>2. Erased \in [Bytes -> Byte]
    BY DEF Erased, Byte
  <2>3. QED
    BY <1>3, <2>1, <2>2 DEF TypeOK
<1>4. CASE r.kind = "reset" /\ expected' = 0 /\ UNCHANGED <<disk, cursor>>
  BY <1>4 DEF TypeOK
<1>5. CASE r.kind \in Packets /\ r.seq = expected /\ Filling(r)
  <2> DEFINE p == Start(r).page
             at == Start(r).at
             new == [b \in Bytes |-> IF b - at + 1 \in DOMAIN r.bytes
                                        THEN r.bytes[b - at + 1] ELSE disk[p][b]]
  <2>1. p \in exposed /\ p \in Pages /\ at \in Nat /\ Start(r) = [page |-> p, at |-> at]
    BY <1>1, <1>5, FillingPage
  <2>2. r.bytes \in Seq(Byte) /\ Len(r.bytes) \in Nat
    BY <1>1 DEF Request
  <2>3. new \in [Bytes -> Byte]
    BY <2>1, <2>2 DEF TypeOK
  <2>4. disk' = [disk EXCEPT ![p] = new]
    BY <1>5 DEF Filling
  <2> HIDE DEF new
  <2>5. cursor' \in [page : Pages \cup {None}, at : Nat]
    BY <1>5, <2>1, <2>2 DEF Filling
  <2>6. expected' \in 0 .. 255
    <3>1. expected \in 0 .. 255 /\ expected' = (expected + 1) % 256
      BY <1>5 DEF Filling, TypeOK
    <3>2. QED
      BY <3>1
  <2>7. QED
    BY <2>1, <2>3, <2>4, <2>5, <2>6 DEF TypeOK
<1>6. QED
  BY <1>2, <1>3, <1>4, <1>5, Handled DEF r

\* Its answer.
LEMMA DeviceAnswers ==
    ASSUME TypeOK, QueueInv, Device, NEW r, r = requests[1]
    PROVE  \E a \in Reply :
             /\ replies' = IF pc = "closed" THEN replies ELSE Append(replies, a)
             /\ a.kind = IF r.kind \in Packets THEN "ack" ELSE r.kind
             /\ a.session = r.session
             /\ a.seq = r.seq
             /\ a.kind = "read" /\ a.ok => a.bytes = Words(r)
             /\ a.kind = "ack" /\ a.ok => r.seq = expected /\ Filling(r)
<1>1. r \in Request /\ Harmless(r, session, exposed)
  BY Taken
<1>2. <<>> \in Seq(Byte)
  OBVIOUS
<1>3. r.kind = "read" => Words(r) \in Seq(Byte)
  <2>1. ASSUME r.kind = "read", NEW i \in 1 .. LongParamLength
        PROVE  (IF 2 * r.at + i - 1 \in Bytes THEN disk[r.page][2 * r.at + i - 1] ELSE Blank)
                   \in Byte
    BY <1>1, <2>1 DEF Harmless, TypeOK, Byte
  <2>2. QED
    BY <2>1, SizeAssumption DEF Words
<1>4. ASSUME NEW ok \in BOOLEAN, NEW bytes \in Seq(Byte)
      PROVE  Reply_(r, ok, bytes) \in Reply
  BY <1>1 DEF Reply_, Reply, Request, Packets
<1>5. \E ok \in BOOLEAN, bytes \in Seq(Byte) :
        /\ Respond(r, ok, bytes)
        /\ r.kind = "read" /\ ok => bytes = Words(r)
        /\ r.kind \in Packets /\ ok => r.seq = expected /\ Filling(r)
  BY <1>2, <1>3, Handled DEF Packets
<1>6. QED
  BY <1>1, <1>4, <1>5 DEF Respond, Reply_, Request, Packets

-----------------------------------------------------------------------------
(* Type correctness, and the process. *)

LEMMA TypeInit == Init => TypeOK
<1> SUFFICES ASSUME Init PROVE TypeOK
  OBVIOUS
<1>1. Erased \in [Bytes -> Byte]
  BY DEF Erased, Byte
<1>2. session \in 0 .. MaxSessions /\ sent \in 0 .. PageSize
  BY SizeAssumption DEF Init
<1>3. buffer \in Seq(Byte) /\ requests \in Seq(Request) /\ replies \in Seq(Reply)
  BY DEF Init
<1>4. disk \in [Pages -> [Bytes -> Byte]]
  BY <1>1 DEF Init
<1>5. cursor \in [page : Pages \cup {None}, at : Nat]
  BY DEF Init
<1>6. greeted \in BOOLEAN /\ pc \in {"closed", "ping", "read"} \cup Writing \cup Settled
  BY DEF Init
<1>7. job \in [page : Pages, data : Data] \cup {None} /\ source \in Pages \cup {None}
  BY DEF Init
<1>8. seqNum \in 0 .. 255 /\ expected \in 0 .. 255 /\ exposed \subseteq Pages
  BY DEF Init
<1>9. QED
  BY <1>2, <1>3, <1>4, <1>5, <1>6, <1>7, <1>8 DEF TypeOK

\* A reply that is received.
LEMMA Received ==
    ASSUME TypeOK, QueueInv, replies # <<>>, Receive
    PROVE  /\ replies' \in Seq(Reply)
           /\ Head(replies) = replies[1] /\ replies[1] \in Reply
           /\ Len(replies) \in Nat \ {0}
           /\ Len(replies') = Len(replies) - 1
           /\ \A i \in 1 .. Len(replies') : replies'[i] = replies[i + 1]
           /\ replies[1].kind = "read" /\ replies[1].ok
                => Len(replies[1].bytes) = LongParamLength
<1>1. replies \in Seq(Reply)
  BY DEF TypeOK
<1>2. QED
  BY <1>1, TailFacts DEF Receive, QueueInv, RepliesInv

\* A request that is sent.
LEMMA Sent ==
    ASSUME TypeOK, NEW m \in Request, requests' = Append(requests, m)
    PROVE  /\ requests' \in Seq(Request)
           /\ requests' # <<>>
           /\ Len(requests') = Len(requests) + 1
           /\ \A i \in 1 .. Len(requests) : requests'[i] = requests[i]
           /\ requests'[Len(requests) + 1] = m
<1>1. requests \in Seq(Request)
  BY DEF TypeOK
<1>2. QED
  BY <1>1, AppendFacts

\* What a packet holds, and how much is sent with it.
LEMMA PacketSent ==
    ASSUME TypeOK, ProcessInv, job # None
    PROVE  /\ BeginData /\ replies[1].ok =>
                LET m == DataPacket("begin", 0, Slice(job.data, 0, SentAfter(1))) IN
                /\ m \in Request
                /\ requests' = Append(requests, m)
                /\ sent' = SentAfter(1) /\ seqNum' = 0
                /\ sent' \in 1 .. PageSize
                /\ pc' = "ack" /\ job' = job
           /\ ContinueData =>
                LET m == DataPacket("continue", seqNum + 1,
                                    Slice(job.data, sent, sent' - sent)) IN
                /\ m \in Request
                /\ requests' = Append(requests, m)
                /\ seqNum' = seqNum + 1 /\ seqNum' < 256 /\ InPage(seqNum')
                /\ sent' = SentAfter(seqNum' + 1) /\ sent' \in 1 .. PageSize
                /\ sent < sent'
<1>1. job \in [page : Pages, data : Data] /\ job.page \in Pages /\ job.data \in Data
  BY DEF TypeOK
<1>2. ASSUME BeginData, replies[1].ok
      PROVE  LET m == DataPacket("begin", 0, Slice(job.data, 0, SentAfter(1))) IN
                /\ m \in Request
                /\ requests' = Append(requests, m)
                /\ sent' = SentAfter(1) /\ seqNum' = 0
                /\ sent' \in 1 .. PageSize
                /\ pc' = "ack" /\ job' = job
  <2>1. Lesser(LongParamLength - HeaderLength, PageSize) = SentAfter(1)
    BY SizeAssumption DEF SentAfter
  <2>2. SentAfter(1) \in 1 .. PageSize
    BY SentFacts
  <2>3. Slice(job.data, 0, SentAfter(1)) \in Seq(Byte)
    BY <1>1, <2>2, SliceFacts
  <2>4. session > 0
    BY <1>2 DEF BeginData, ProcessInv
  <2>5. DataPacket("begin", 0, Slice(job.data, 0, SentAfter(1))) \in Request
    BY <1>1, <2>3, <2>4, MessageTypes DEF Packets
  <2>6. replies[1] = Head(replies)
    BY <1>2 DEF BeginData, Answer, TypeOK
  <2>7. QED
    BY <1>2, <2>1, <2>2, <2>5, <2>6 DEF BeginData, Send
<1>3. ASSUME ContinueData
      PROVE  LET m == DataPacket("continue", seqNum + 1,
                                    Slice(job.data, sent, sent' - sent)) IN
                /\ m \in Request
                /\ requests' = Append(requests, m)
                /\ seqNum' = seqNum + 1 /\ seqNum' < 256 /\ InPage(seqNum')
                /\ sent' = SentAfter(seqNum' + 1) /\ sent' \in 1 .. PageSize
                /\ sent < sent'
  <2>1. sent = SentAfter(seqNum + 1) /\ sent < PageSize /\ sent \in Nat /\ seqNum \in Nat
    BY <1>3 DEF ContinueData, ProcessInv, SentAfter, TypeOK
  <2>2. InPage(seqNum + 1) /\ seqNum + 1 < 256
    BY <2>1, SentFacts, PacketNumbers
  <2>3. (seqNum + 1) % 256 = seqNum + 1
    BY <2>1, <2>2
  <2>4. ContinueLength \in 1 .. PageSize - sent /\ sent + ContinueLength = SentAfter(seqNum + 2)
    <3>1. ContinueLength \in 1 .. PageSize - sent
      BY <2>1, SizeAssumption DEF ContinueLength, Lesser
    <3>2. sent + ContinueLength = SentAfter((seqNum + 1) + 1)
      BY <2>1, SentFacts DEF ContinueLength
    <3>3. QED
      BY <2>1, <3>1, <3>2
  <2>5. sent' = sent + ContinueLength /\ seqNum' = seqNum + 1
    BY <1>3, <2>3 DEF ContinueData
  <2>6. sent' - sent = ContinueLength /\ sent' \in 1 .. PageSize /\ sent < sent'
    BY <2>1, <2>4, <2>5, SizeAssumption
  <2>7. Slice(job.data, sent, ContinueLength) \in Seq(Byte)
    BY <1>1, <2>1, <2>4, SliceFacts, SizeAssumption
  <2>8. session > 0
    BY <1>3 DEF ContinueData, ProcessInv
  <2>9. DataPacket("continue", seqNum + 1, Slice(job.data, sent, sent' - sent)) \in Request
    BY <1>1, <2>1, <2>6, <2>7, <2>8, MessageTypes DEF Packets
  <2>10. requests' = Append(requests, DataPacket("continue", seqNum + 1,
                                               Slice(job.data, sent, sent' - sent)))
    BY <1>3, <2>3, <2>6 DEF ContinueData, Send
  <2>11. sent' = SentAfter(seqNum' + 1)
    BY <2>1, <2>4, <2>5
  <2>12. QED
    BY <2>2, <2>5, <2>6, <2>9, <2>10, <2>11
<1>4. QED
  BY <1>2, <1>3

\* What a read adds to the buffer.
LEMMA ReadFacts ==
    ASSUME TypeOK, ProcessInv, QueueInv, ReadSome, replies[1].ok
    PROVE  LET len == Lesser(LongParamLength, PageSize - Len(buffer)) IN
           /\ len \in 1 .. LongParamLength
           /\ buffer' = buffer \o SubSeq(replies[1].bytes, 1, len)
           /\ buffer' \in Seq(Byte)
           /\ Len(buffer') = Len(buffer) + len
           /\ Len(buffer') <= PageSize
           /\ \A i \in 1 .. Len(buffer) : buffer'[i] = buffer[i]
           /\ \A i \in 1 .. len : buffer'[Len(buffer) + i] = replies[1].bytes[i]
           /\ Len(buffer') = PageSize => pc' = "loaded" /\ UNCHANGED requests
           /\ Len(buffer') < PageSize =>
                /\ pc' = pc /\ len = LongParamLength
                /\ requests' = Append(requests, ReadRequest(source, NextOffset(Len(buffer'))))
<1> DEFINE len == Lesser(LongParamLength, PageSize - Len(buffer))
           bytes == replies[1].bytes
           read == buffer \o SubSeq(bytes, 1, len)
<1>1. buffer \in Seq(Byte) /\ Len(buffer) \in Nat /\ Len(buffer) < PageSize
  BY DEF ReadSome, ProcessInv, TypeOK
<1>2. len \in 1 .. LongParamLength /\ Len(buffer) + len <= PageSize
       /\ (Len(buffer) + len < PageSize => len = LongParamLength)
  BY <1>1, SizeAssumption DEF Lesser
<1>3. replies[1] = Head(replies) /\ replies[1].kind = "read" /\ bytes \in Seq(Byte)
       /\ Len(bytes) = LongParamLength
  BY Received DEF ReadSome, Answer, Reply
<1> HIDE DEF len, bytes
<1>4. SubSeq(bytes, 1, len) \in Seq(Byte) /\ Len(SubSeq(bytes, 1, len)) = len
       /\ \A i \in 1 .. len : SubSeq(bytes, 1, len)[i] = bytes[i]
  BY <1>2, <1>3, SizeAssumption
<1>5. read \in Seq(Byte) /\ Len(read) = Len(buffer) + len
       /\ (\A i \in 1 .. Len(buffer) : read[i] = buffer[i])
       /\ (\A i \in 1 .. len : read[Len(buffer) + i] = bytes[i])
  BY <1>1, <1>2, <1>4
<1> HIDE DEF read
<1>6. IF Len(read) >= PageSize
        THEN pc' = "loaded" /\ buffer' = read /\ UNCHANGED requests
        ELSE buffer' = read /\ pc' = pc
             /\ requests' = Append(requests, ReadRequest(source, NextOffset(Len(read))))
  BY <1>3 DEF ReadSome, Send, read, len, bytes
<1>7. /\ buffer' = buffer \o SubSeq(bytes, 1, len)
      /\ buffer' \in Seq(Byte) /\ Len(buffer') = Len(buffer) + len
      /\ \A i \in 1 .. Len(buffer) : buffer'[i] = buffer[i]
      /\ \A i \in 1 .. len : buffer'[Len(buffer) + i] = bytes[i]
      /\ Len(buffer') >= PageSize => pc' = "loaded" /\ UNCHANGED requests
      /\ ~(Len(buffer') >= PageSize) =>
           /\ pc' = pc
           /\ requests' = Append(requests, ReadRequest(source, NextOffset(Len(buffer'))))
  <2>1. buffer' = read
    BY <1>6
  <2>2. buffer' = buffer \o SubSeq(bytes, 1, len)
    BY <2>1 DEF read
  <2>3. QED
    BY <1>5, <1>6, <2>1, <2>2
<1>8. /\ Len(buffer') <= PageSize
      /\ Len(buffer') < PageSize => len = LongParamLength
      /\ Len(buffer') = PageSize => Len(buffer') >= PageSize
      /\ Len(buffer') < PageSize => ~(Len(buffer') >= PageSize)
  BY <1>1, <1>2, <1>7, SizeAssumption
<1>9. QED
  BY <1>2, <1>7, <1>8 DEF len, bytes

LEMMA ProcessInit == Init => ProcessInv
BY DEF Init, ProcessInv, Writing

LEMMA ProcessStep ==
    ASSUME TypeOK, ProcessInv, QueueInv, [Next]_vars
    PROVE  TypeOK' /\ ProcessInv'
<1> USE DEF Writing, Settled, deviceVars
<1>1. CASE Open
  <2> DEFINE m == [Message("ping", None) EXCEPT !.session = session + 1]
  <2>1. m \in Request /\ requests' = Append(requests, m)
    <3>1. session + 1 \in 1 .. MaxSessions
      BY <1>1, SizeAssumption DEF Open, TypeOK
    <3>2. <<>> \in Seq(Byte)
      OBVIOUS
    <3>3. ASSUME NEW s \in 1 .. MaxSessions
          PROVE  [Message("ping", None) EXCEPT !.session = s] \in Request
      BY <3>2 DEF Message, Request
    <3>4. QED
      BY <1>1, <3>1, <3>3 DEF Open
  <2>2. requests' \in Seq(Request)
    BY <2>1, Sent
  <2>3. session' \in 0 .. MaxSessions /\ session' > 0
    BY <1>1, SizeAssumption DEF Open, TypeOK
  <2>4. QED
    BY <1>1, <2>2, <2>3 DEF Open, TypeOK, ProcessInv
<1>2. ASSUME NEW p \in Pages, NEW d \in Data, WritePage(p, d) \/ WriteMem(p, d)
      PROVE  TypeOK' /\ ProcessInv'
  <2>1. session > 0
    BY <1>2 DEF WritePage, WriteMem, BeginWrite, ProcessInv
  <2>2. Message("fill", p) \in Request /\ Message("reset", None) \in Request
    BY <2>1, MessageTypes
  <2>3. requests' \in Seq(Request)
    BY <1>2, <2>2, Sent DEF WritePage, WriteMem, Send
  <2>4. job' = [page |-> p, data |-> d] /\ job' \in [page : Pages, data : Data]
    BY <1>2 DEF WritePage, WriteMem, BeginWrite
  <2>5. job' # None
    BY <2>4, TokenAssumption
  <2>6. BeginWrite(p, d) /\ pc' \in {"fill", "reset"}
    BY <1>2 DEF WritePage, WriteMem
  <2>7. buffer' \in Seq(Byte)
    BY <2>6 DEF BeginWrite
  <2>8. TypeOK'
    BY <2>3, <2>4, <2>6, <2>7 DEF BeginWrite, TypeOK
  <2>9. QED
    BY <2>1, <2>4, <2>5, <2>6, <2>8 DEF BeginWrite, ProcessInv
<1>3. ASSUME NEW p \in Pages, ReadMem(p) PROVE TypeOK' /\ ProcessInv'
  <2>1. session > 0
    BY <1>3 DEF ReadMem, ProcessInv
  <2>2. requests' \in Seq(Request)
    BY <1>3, <2>1, MessageTypes, Sent DEF ReadMem, Send
  <2>3. buffer' \in Seq(Byte) /\ Len(buffer') = 0
    BY <1>3 DEF ReadMem
  <2>4. QED
    BY <1>3, <2>1, <2>2, <2>3, SizeAssumption DEF ReadMem, TypeOK, ProcessInv
<1>4. CASE Opened
  <2>1. replies' \in Seq(Reply)
    BY <1>4, Received DEF Opened, Answer
  <2>2. greeted' \in BOOLEAN
    BY <1>4 DEF Opened
  <2>3. QED
    BY <1>4, <2>1, <2>2 DEF Opened, TypeOK, ProcessInv
<1>5. CASE Filled
  <2>1. replies' \in Seq(Reply)
    BY <1>5, Received DEF Filled, Answer
  <2>2. requests' \in Seq(Request)
    BY <1>5, MessageTypes, Sent DEF Filled, Send, ProcessInv, TypeOK
  <2>3. sent' \in 0 .. PageSize /\ seqNum' \in 0 .. 255
    <3>1. sent' \in {0, sent} /\ seqNum' \in {0, seqNum}
      BY <1>5 DEF Filled, Leave
    <3>2. sent \in 0 .. PageSize /\ seqNum \in 0 .. 255
      BY DEF TypeOK
    <3>3. QED
      BY <3>1, <3>2, SizeAssumption
  <2>4. \/ pc' = "reset" /\ job' = job
        \/ pc' = "failed" /\ job' = None /\ sent' = 0 /\ seqNum' = 0
    BY <1>5 DEF Filled, Leave
  <2>5. TypeOK'
    BY <1>5, <2>1, <2>2, <2>3, <2>4 DEF Filled, TypeOK
  <2>6. QED
    BY <1>5, <2>4, <2>5 DEF Filled, ProcessInv
<1>6. CASE BeginData
  <2>1. replies' \in Seq(Reply) /\ Head(replies) = replies[1]
    BY <1>6, Received DEF BeginData, Answer
  <2>2. job # None
    BY <1>6 DEF BeginData, ProcessInv
  <2>3. CASE replies[1].ok
    <3>1. /\ requests' \in Seq(Request) /\ sent' \in 1 .. PageSize
          /\ sent' = SentAfter(1) /\ seqNum' = 0 /\ pc' = "ack" /\ job' = job
      BY <1>6, <2>2, <2>3, PacketSent, Sent
    <3>2. sent' = Lesser((seqNum' + 1) * LongParamLength - HeaderLength, PageSize)
      BY <3>1 DEF SentAfter
    <3>3. QED
      BY <1>6, <2>1, <3>1, <3>2 DEF BeginData, TypeOK, ProcessInv
  <2>4. CASE ~replies[1].ok
    BY <1>6, <2>1, <2>4, SizeAssumption DEF BeginData, Leave, TypeOK, ProcessInv
  <2>5. QED
    BY <2>3, <2>4
<1>7. CASE ContinueData
  <2>1. replies' \in Seq(Reply)
    BY <1>7, Received DEF ContinueData, Answer
  <2>2. job # None
    BY <1>7 DEF ContinueData, ProcessInv
  <2>3. /\ requests' \in Seq(Request) /\ sent' \in 1 .. PageSize
        /\ seqNum' = seqNum + 1 /\ seqNum' < 256
        /\ sent' = SentAfter(seqNum' + 1)
    BY <1>7, <2>2, PacketSent, Sent
  <2>4. sent' = Lesser((seqNum' + 1) * LongParamLength - HeaderLength, PageSize)
    BY <2>3 DEF SentAfter
  <2>5. QED
    BY <1>7, <2>1, <2>3, <2>4 DEF ContinueData, TypeOK, ProcessInv
<1>8. CASE EndData
  <2>1. replies' \in Seq(Reply)
    BY <1>8, Received DEF EndData, Answer
  <2>2. QED
    BY <1>8, <2>1, SizeAssumption DEF EndData, Leave, Stored, TypeOK, ProcessInv
<1>9. CASE DataRefused
  <2>1. replies' \in Seq(Reply)
    BY <1>9, Received DEF DataRefused, Answer
  <2>2. QED
    BY <1>9, <2>1, SizeAssumption DEF DataRefused, Leave, TypeOK, ProcessInv
<1>10. CASE ReadSome
  <2>1. replies' \in Seq(Reply) /\ replies[1] = Head(replies)
    BY <1>10, Received DEF ReadSome, Answer
  <2>2. CASE ~replies[1].ok
    BY <1>10, <2>1, <2>2 DEF ReadSome, TypeOK, ProcessInv
  <2>3. CASE replies[1].ok /\ Len(buffer') = PageSize
    <3>1. buffer' \in Seq(Byte) /\ pc' = "loaded" /\ requests' = requests
      BY <1>10, <2>3, ReadFacts
    <3>2. QED
      BY <1>10, <2>1, <3>1 DEF ReadSome, TypeOK, ProcessInv
  <2>4. CASE replies[1].ok /\ Len(buffer') < PageSize
    <3>1. /\ buffer' \in Seq(Byte) /\ pc' = pc
          /\ requests' = Append(requests, ReadRequest(source, NextOffset(Len(buffer'))))
      BY <1>10, <2>4, ReadFacts
    <3>2. NextOffset(Len(buffer')) \in Nat
      BY <3>1 DEF NextOffset
    <3>3. source \in Pages /\ session > 0
      BY <1>10 DEF ReadSome, ProcessInv
    <3>4. requests' \in Seq(Request)
      BY <3>1, <3>2, <3>3, MessageTypes, Sent
    <3>5. QED
      BY <1>10, <2>1, <2>4, <3>1, <3>4 DEF ReadSome, TypeOK, ProcessInv
  <2>5. QED
    <3>1. replies[1].ok => Len(buffer') <= PageSize /\ Len(buffer') \in Nat
      BY <1>10, ReadFacts
    <3>2. QED
      BY <2>2, <2>3, <2>4, <3>1, SizeAssumption
<1>11. CASE Ignore
  <2>1. replies' \in Seq(Reply)
    BY <1>11, Received DEF Ignore
  <2>2. QED
    BY <1>11, <2>1 DEF Ignore, Waiting, clientVars, TypeOK, ProcessInv
<1>12. CASE Kill
  <2>1. replies' \in Seq(Reply) /\ buffer' \in Seq(Byte)
    BY <1>12 DEF Kill
  <2>2. sent' \in 0 .. PageSize /\ seqNum' \in 0 .. 255
    BY <1>12, SizeAssumption DEF Kill, Leave
  <2>3. greeted' \in BOOLEAN
    BY <1>12 DEF Kill
  <2>4. TypeOK'
    BY <1>12, <2>1, <2>2, <2>3 DEF Kill, Leave, TypeOK
  <2>5. QED
    BY <1>12, <2>4 DEF Kill, Leave, ProcessInv
<1>13. CASE Device
  <2>1. requests' \in Seq(Request)
    <3>1. requests \in Seq(Request)
      BY DEF TypeOK
    <3>2. QED
      BY <1>13, <3>1, Taken, TailFacts
  <2>2. replies' \in Seq(Reply) /\ (pc = "closed" => replies' = replies)
    <3>1. PICK a \in Reply : replies' = IF pc = "closed" THEN replies ELSE Append(replies, a)
      BY <1>13, DeviceAnswers
    <3>2. QED
      BY <3>1, AppendFacts DEF TypeOK
  <2>3. /\ disk' \in [Pages -> [Bytes -> Byte]] /\ expected' \in 0 .. 255
        /\ cursor' \in [page : Pages \cup {None}, at : Nat]
    BY <1>13, DeviceChanges
  <2>4. UNCHANGED <<clientVars, exposed>>
    BY <1>13 DEF Device
  <2>5. QED
    BY <2>1, <2>2, <2>3, <2>4 DEF clientVars, TypeOK, ProcessInv
<1>14. CASE UNCHANGED vars
  BY <1>14 DEF vars, clientVars, TypeOK, ProcessInv
<1>15. QED
  BY <1>1, <1>2, <1>3, <1>4, <1>5, <1>6, <1>7, <1>8, <1>9, <1>10, <1>11, <1>12,
     <1>13, <1>14 DEF Next, Await

-----------------------------------------------------------------------------
(* A greeted process and the device take turns. *)

\* The answer a greeted process takes is the one to its own request, and there
\* is nothing else on the way.
LEMMA Turn ==
    ASSUME TypeOK, ProcessInv, QueueInv, LockStep, greeted, Waiting, replies # <<>>
    PROVE  /\ requests = <<>>
           /\ Answered(replies[1]) /\ Head(replies) = replies[1]
           /\ Tail(replies) = <<>>
<1>1. replies \in Seq(Reply) /\ Len(replies) = 1
  BY DEF LockStep, TypeOK
<1>2. Tail(replies) = <<>> /\ Head(replies) = replies[1]
  <2>1. Tail(replies) \in Seq(Reply) /\ Len(Tail(replies)) = 0 /\ Head(replies) = replies[1]
    BY <1>1, TailFacts
  <2>2. QED
    BY <2>1, EmptySeq
<1>3. QED
  BY <1>1, <1>2 DEF LockStep

\* What is sent when there is nothing on the way.
LEMMA FirstSent ==
    ASSUME requests = <<>>, NEW m, requests' = Append(requests, m)
    PROVE  Len(requests') = 1 /\ requests'[1] = m
OBVIOUS

LEMMA EndDataFacts ==
    ASSUME TypeOK, ProcessInv, QueueInv, LockStep, greeted, EndData
    PROVE  /\ requests = <<>> /\ replies' = <<>>
           /\ At(PageSize) /\ Kept(PageSize)
           /\ expected = 0 \/ ~InPage(expected)
<1>1. Waiting /\ replies # <<>> /\ pc = "ack" /\ sent = PageSize
  BY DEF EndData, Answer, Waiting
<1>2. requests = <<>> /\ replies' = <<>> /\ Answered(replies[1]) /\ replies[1].ok
  BY <1>1, Turn DEF EndData, Receive, IsExpectedAck
<1>3. At(PageSize) /\ Kept(PageSize) /\ expected = (seqNum + 1) % 256
  BY <1>1, <1>2 DEF Answered
<1>4. seqNum \in 0 .. 255 /\ SentAfter(seqNum + 1) = PageSize
  BY <1>1 DEF ProcessInv, TypeOK, SentAfter
<1>5. ~InPage(seqNum + 1)
  BY <1>4, SentFacts
<1>6. expected = 0 \/ expected = seqNum + 1
  BY <1>3, <1>4
<1>7. QED
  BY <1>2, <1>3, <1>5, <1>6

-----------------------------------------------------------------------------
(* What is on the way. *)

LEMMA QueueInit == Init => QueueInv
BY DEF Init, QueueInv, RequestsInv, RepliesInv, CursorInv

\* Pages are exposed, and the number of processes only grows, except for the
\* page of a write that ends.
LEMMA Growing ==
    ASSUME TypeOK, [Next]_vars
    PROVE  /\ session' >= session
           /\ exposed \subseteq exposed' \/ EndData
           /\ EndData /\ ~greeted => exposed' = exposed
<1> USE DEF clientVars, deviceVars, Stored
<1>1. session \in Nat
  BY SizeAssumption DEF TypeOK
<1>2. ASSUME NEW p \in Pages, NEW d \in Data, WritePage(p, d) \/ WriteMem(p, d)
      PROVE  session' = session /\ exposed \subseteq exposed'
  BY <1>2 DEF WritePage, WriteMem, BeginWrite
<1>3. /\ EndData => session' = session
      /\ EndData /\ ~greeted => exposed' = exposed
  BY DEF EndData
<1>4. (\E p \in Pages : ReadMem(p)) \/ Opened \/ Filled \/ BeginData \/ ContinueData
        \/ DataRefused \/ ReadSome \/ Ignore \/ Kill \/ Device \/ UNCHANGED vars
      => session' = session /\ exposed' = exposed
  BY DEF ReadMem, Opened, Filled, BeginData, ContinueData, DataRefused, ReadSome,
         Ignore, Kill, Device, vars
<1>5. Open => session' = session + 1 /\ exposed' = exposed
  BY DEF Open
<1>6. session' = session \/ session' = session + 1
  BY <1>2, <1>3, <1>4, <1>5 DEF Next, Await
<1>7. exposed \subseteq exposed' \/ EndData
  BY <1>2, <1>4, <1>5 DEF Next, Await
<1>8. session' >= session
  BY <1>1, <1>6
<1>9. QED
  BY <1>3, <1>7, <1>8

\* Every request that is sent is harmless, and stays it.
LEMMA RequestsStep ==
    ASSUME TypeOK, ProcessInv, QueueInv, LockStep, [Next]_vars
    PROVE  RequestsInv'
<1> USE DEF Writing, Settled
<1>0. session' >= session /\ session \in Nat /\ session' \in Nat
  BY Growing, ProcessStep, SizeAssumption DEF TypeOK
<1>1. ASSUME NEW r \in Request, Harmless(r, session, exposed), exposed \subseteq exposed'
      PROVE  Harmless(r, session', exposed')
  <2>1. r.session <= session => r.session <= session'
    BY <1>0 DEF Request
  <2>2. QED
    BY <1>1, <2>1 DEF Harmless
<1>2. CASE EndData /\ greeted
  <2>1. requests' = <<>>
    BY <1>2, EndDataFacts DEF EndData
  <2>2. QED
    BY <2>1 DEF RequestsInv
<1>3. CASE exposed \subseteq exposed' /\ UNCHANGED requests
  <2>1. \A i \in 1 .. Len(requests) : requests[i] \in Request
    BY DEF TypeOK
  <2>2. QED
    BY <1>1, <1>3, <2>1 DEF QueueInv, RequestsInv
<1>4. CASE exposed \subseteq exposed' /\ Device
  <2>1. requests \in Seq(Request) /\ requests # <<>> /\ requests' = Tail(requests)
    BY <1>4 DEF Device, TypeOK
  <2>2. Len(requests') = Len(requests) - 1 /\ Len(requests) \in Nat
         /\ \A i \in 1 .. Len(requests) - 1 : requests'[i] = requests[i + 1]
    BY <2>1, TailFacts
  <2>3. \A i \in 1 .. Len(requests') : requests'[i] \in Request
                                       /\ Harmless(requests'[i], session, exposed)
    BY <2>1, <2>2 DEF QueueInv, RequestsInv, TypeOK
  <2>4. QED
    BY <1>1, <1>4, <2>3 DEF RequestsInv
<1>5. ASSUME NEW m \in Request, requests' = Append(requests, m), Harmless(m, session', exposed'),
             exposed \subseteq exposed'
      PROVE  RequestsInv'
  <2>1. /\ Len(requests') = Len(requests) + 1 /\ Len(requests) \in Nat
        /\ \A i \in 1 .. Len(requests) : requests'[i] = requests[i]
        /\ requests'[Len(requests) + 1] = m
    BY <1>5, Sent DEF TypeOK
  <2>2. /\ \A i \in 1 .. Len(requests) : requests[i] \in Request
        /\ \A i \in 1 .. Len(requests) : Harmless(requests[i], session, exposed)
    <3>1. requests \in Seq(Request)
      BY DEF TypeOK
    <3>2. QED
      BY <3>1 DEF QueueInv, RequestsInv
  <2>3. ASSUME NEW i \in 1 .. Len(requests'), i # Len(requests) + 1
        PROVE  i \in 1 .. Len(requests) /\ Harmless(requests'[i], session', exposed')
    BY <1>1, <1>5, <2>1, <2>2, <2>3
  <2>4. QED
    BY <1>5, <2>1, <2>3 DEF RequestsInv
<1>6. CASE Open
  <2>1. session + 1 \in 1 .. MaxSessions
    BY <1>6, SizeAssumption DEF Open, TypeOK
  <2>2. PICK m \in Request : /\ requests' = Append(requests, m)
                             /\ m.kind = "ping" /\ m.session = session + 1
    <3>1. <<>> \in Seq(Byte)
      OBVIOUS
    <3>2. ASSUME NEW n \in 1 .. MaxSessions
          PROVE  LET m == [Message("ping", None) EXCEPT !.session = n]
                 IN  m \in Request /\ m.kind = "ping" /\ m.session = n
      BY <3>1 DEF Message, Request
    <3>3. QED
      BY <1>6, <2>1, <3>2 DEF Open
  <2>3. Harmless(m, session', exposed')
    BY <1>6, <2>1, <2>2 DEF Open, Harmless, Packets
  <2>4. QED
    BY <1>5, <1>6, <2>2, <2>3 DEF Open
<1>7. ASSUME NEW p \in Pages, NEW d \in Data, WritePage(p, d) \/ WriteMem(p, d)
      PROVE  RequestsInv'
  <2>1. session > 0 /\ p \in exposed' /\ exposed \subseteq exposed' /\ session' = session
    BY <1>7 DEF WritePage, WriteMem, BeginWrite, ProcessInv
  <2>2. Message("fill", p) \in Request /\ Message("reset", None) \in Request
    BY <2>1, MessageTypes
  <2>3. Harmless(Message("fill", p), session', exposed') /\ Harmless(Message("reset", None), session', exposed')
    BY <2>1, <1>0 DEF Harmless, Message, Packets
  <2>4. \/ requests' = Append(requests, Message("fill", p))
        \/ requests' = Append(requests, Message("reset", None))
    BY <1>7 DEF WritePage, WriteMem, Send
  <2>5. QED
    BY <1>5, <2>1, <2>2, <2>3, <2>4
<1>8. ASSUME NEW p \in Pages, ReadMem(p) PROVE RequestsInv'
  <2>1. session > 0 /\ UNCHANGED <<session, exposed>>
    BY <1>8 DEF ReadMem, ProcessInv
  <2>2. ReadRequest(p, 0) \in Request
    BY <2>1, MessageTypes
  <2>3. Harmless(ReadRequest(p, 0), session', exposed')
    BY <2>1, <1>0 DEF Harmless, ReadRequest, Message, Packets
  <2>4. QED
    BY <1>5, <1>8, <2>1, <2>2, <2>3 DEF ReadMem, Send
<1>9. CASE Filled
  <2>1. session > 0 /\ UNCHANGED <<session, exposed>>
    BY <1>9 DEF Filled, ProcessInv
  <2>2. Message("reset", None) \in Request
    BY <2>1, MessageTypes
  <2>3. Harmless(Message("reset", None), session', exposed')
    BY <2>1, <1>0 DEF Harmless, Message, Packets
  <2>4. \/ requests' = Append(requests, Message("reset", None))
        \/ UNCHANGED requests
    BY <1>9 DEF Filled, Send
  <2>5. QED
    BY <1>3, <1>5, <2>1, <2>2, <2>3, <2>4
<1>10. CASE BeginData
  <2>1. UNCHANGED <<session, exposed>> /\ Head(replies) = replies[1]
    BY <1>10, Received DEF BeginData, Answer
  <2>2. CASE ~replies[1].ok
    BY <1>3, <1>10, <2>1, <2>2 DEF BeginData
  <2>3. CASE replies[1].ok
    <3>1. job # None /\ job.page \in exposed /\ job.page \in Pages
      BY <1>10 DEF BeginData, ProcessInv, TypeOK
    <3>2. DEFINE m == DataPacket("begin", 0, Slice(job.data, 0, SentAfter(1)))
    <3>3. m \in Request /\ requests' = Append(requests, m)
      BY <1>10, <2>3, <3>1, PacketSent
    <3>4. Harmless(m, session', exposed')
      BY <2>1, <3>1, <1>0 DEF Harmless, DataPacket, Message, Packets
    <3>5. QED
      BY <1>5, <2>1, <3>3, <3>4
  <2>4. QED
    BY <2>2, <2>3
<1>11. CASE ContinueData
  <2>1. UNCHANGED <<session, exposed>>
    BY <1>11 DEF ContinueData
  <2>2. job # None /\ job.page \in exposed /\ job.page \in Pages
    BY <1>11 DEF ContinueData, ProcessInv, TypeOK
  <2>3. DEFINE m == DataPacket("continue", seqNum + 1, Slice(job.data, sent, sent' - sent))
  <2>4. m \in Request /\ requests' = Append(requests, m) /\ InPage(seqNum + 1)
    BY <1>11, <2>2, PacketSent
  <2>5. m.kind = "continue" /\ m.seq = seqNum + 1 /\ m.page = job.page /\ m.session = session
    BY DEF DataPacket, Message
  <2>6. seqNum + 1 > 0
    <3>1. seqNum \in 0 .. 255
      BY DEF TypeOK
    <3>2. QED
      BY <3>1
  <2>7. Harmless(m, session', exposed')
    BY <2>1, <2>2, <2>4, <2>5, <2>6, <1>0 DEF Harmless
  <2>8. QED
    BY <1>5, <2>1, <2>4, <2>7
<1>12. CASE ReadSome
  <2>1. UNCHANGED <<session, exposed>> /\ Head(replies) = replies[1]
    BY <1>12, Received DEF ReadSome, Answer
  <2>2. source \in Pages /\ session > 0
    BY <1>12 DEF ReadSome, ProcessInv
  <2>3. CASE ~replies[1].ok
    BY <1>3, <1>12, <2>1, <2>3 DEF ReadSome
  <2>4. CASE replies[1].ok
    <3>1. /\ Len(buffer') \in Nat /\ Len(buffer') <= PageSize
          /\ Len(buffer') = PageSize => UNCHANGED requests
          /\ Len(buffer') < PageSize =>
               requests' = Append(requests, ReadRequest(source, NextOffset(Len(buffer'))))
      BY <1>12, <2>4, ReadFacts
    <3>2. NextOffset(Len(buffer')) \in Nat
      BY <3>1 DEF NextOffset
    <3>3. DEFINE m == ReadRequest(source, NextOffset(Len(buffer')))
    <3>4. m \in Request
      BY <2>2, <3>2, MessageTypes
    <3>5. Harmless(m, session', exposed')
      BY <2>1, <2>2, <1>0 DEF Harmless, ReadRequest, Message, Packets
    <3>6. Len(buffer') = PageSize \/ Len(buffer') < PageSize
      BY <3>1, SizeAssumption
    <3>7. QED
      BY <1>3, <1>5, <2>1, <3>1, <3>4, <3>5, <3>6
  <2>5. QED
    BY <2>3, <2>4
<1>13. CASE EndData /\ ~greeted
  BY <1>3, <1>13 DEF EndData, Stored
<1>14. CASE Opened \/ DataRefused \/ Ignore \/ Kill \/ UNCHANGED vars
  BY <1>3, <1>14 DEF Opened, DataRefused, Ignore, Kill, clientVars, vars
<1>15. CASE Device
  BY <1>4, <1>15 DEF Device
<1>16. QED
  BY <1>2, <1>6, <1>7, <1>8, <1>9, <1>10, <1>11, <1>12, <1>13, <1>14, <1>15 DEF Next, Await

\* What the steps do to the replies: none, the first one read, all dropped, or
\* one added by the device.
LEMMA RepliesCases ==
    ASSUME TypeOK, ProcessInv, QueueInv, [Next]_vars
    PROVE  \/ UNCHANGED replies
           \/ Receive /\ replies # <<>>
           \/ replies' = <<>>
           \/ Device
<1>1. ASSUME NEW p \in Pages, ReadMem(p) \/ \E d \in Data : WritePage(p, d) \/ WriteMem(p, d)
      PROVE  UNCHANGED replies
  BY <1>1 DEF WritePage, WriteMem, BeginWrite, ReadMem
<1>2. CASE Opened \/ Filled \/ BeginData \/ ContinueData
  BY <1>2 DEF Opened, Filled, BeginData, ContinueData, Answer
<1>3. CASE EndData \/ DataRefused \/ ReadSome \/ Ignore
  BY <1>3 DEF EndData, DataRefused, ReadSome, Ignore, Answer
<1>4. CASE Open \/ Kill \/ UNCHANGED vars
  BY <1>4 DEF Open, Kill, vars
<1>5. QED
  BY <1>1, <1>2, <1>3, <1>4 DEF Next, Await

LEMMA RepliesStep ==
    ASSUME TypeOK, ProcessInv, QueueInv, [Next]_vars
    PROVE  RepliesInv'
<1> DEFINE Fine(a, n) == /\ a.session <= n
                         /\ a.kind = "read" /\ a.ok => Len(a.bytes) = LongParamLength
<1>1. /\ session \in Nat /\ session' \in Nat /\ session' >= session
      /\ replies \in Seq(Reply)
      /\ \A i \in 1 .. Len(replies) : Fine(replies[i], session)
  BY Growing, ProcessStep, SizeAssumption DEF TypeOK, QueueInv, RepliesInv
<1>2. ASSUME NEW a \in Reply, Fine(a, session) PROVE Fine(a, session')
  BY <1>1, <1>2 DEF Reply
<1>3. \A i \in 1 .. Len(replies) : Fine(replies[i], session')
  BY <1>1, <1>2
<1>4. CASE UNCHANGED replies
  BY <1>3, <1>4 DEF RepliesInv
<1>5. CASE Receive /\ replies # <<>>
  BY <1>1, <1>3, <1>5, Received DEF RepliesInv
<1>6. CASE replies' = <<>>
  BY <1>6 DEF RepliesInv
<1>7. CASE Device
  <2> DEFINE r == requests[1]
  <2>1. r \in Request /\ Harmless(r, session, exposed) /\ session' = session
    BY <1>7, Taken DEF clientVars
  <2>2. PICK a \in Reply :
          /\ replies' = IF pc = "closed" THEN replies ELSE Append(replies, a)
          /\ a.session = r.session
          /\ a.kind = "read" /\ a.ok => a.bytes = Words(r)
    BY <1>7, DeviceAnswers
  <2>3. Len(Words(r)) = LongParamLength
    BY SizeAssumption DEF Words
  <2>4. Fine(a, session')
    BY <2>1, <2>2, <2>3 DEF Harmless
  <2>5. CASE replies' = Append(replies, a)
    <3>1. /\ Len(replies') = Len(replies) + 1 /\ Len(replies) \in Nat
          /\ \A i \in 1 .. Len(replies) : replies'[i] = replies[i]
          /\ replies'[Len(replies) + 1] = a
      BY <1>1, <2>5, AppendFacts
    <3>2. \A i \in 1 .. Len(replies') : i \in 1 .. Len(replies) \/ i = Len(replies) + 1
      BY <3>1
    <3>3. \A i \in 1 .. Len(replies') : Fine(replies'[i], session')
      BY <1>3, <2>4, <3>1, <3>2
    <3>4. QED
      BY <3>3 DEF RepliesInv
  <2>6. QED
    BY <1>4, <2>2, <2>5
<1>8. QED
  BY <1>4, <1>5, <1>6, <1>7, RepliesCases

\* When a page is no longer exposed the device is past its packets, until it
\* begins another page, which is exposed.
LEMMA CursorStep ==
    ASSUME TypeOK, ProcessInv, QueueInv, LockStep, [Next]_vars
    PROVE  CursorInv'
<1>1. CASE exposed \subseteq exposed' /\ UNCHANGED deviceVars
  BY <1>1 DEF deviceVars, QueueInv, CursorInv, InPage
<1>2. CASE EndData /\ greeted
  <2>1. cursor' = cursor /\ expected' = expected
    BY <1>2 DEF EndData, deviceVars
  <2>2. expected = 0 \/ ~InPage(expected)
    BY <1>2, EndDataFacts
  <2>3. QED
    BY <2>1, <2>2 DEF CursorInv, InPage
<1>3. CASE Device
  <2> DEFINE r == requests[1]
  <2>1. r \in Request /\ Harmless(r, session, exposed) /\ exposed' = exposed
    BY <1>3, Taken
  <2>2. CASE UNCHANGED <<expected, cursor>>
    BY <2>1, <2>2 DEF QueueInv, CursorInv, InPage
  <2>3. CASE expected' = 0
    BY <2>3 DEF CursorInv
  <2>4. CASE r.kind \in Packets /\ r.seq = expected /\ Filling(r)
    <3>1. Start(r).page \in exposed /\ Start(r) \in [page : Pages, at : Nat]
      BY <2>1, <2>4, FillingPage
    <3>2. cursor'.page = Start(r).page
      BY <2>4, <3>1 DEF Filling
    <3>3. QED
      BY <2>1, <3>1, <3>2 DEF CursorInv
  <2>5. QED
    BY <1>3, <2>2, <2>3, <2>4, Handled DEF deviceVars
<1>4. \/ Device \/ UNCHANGED deviceVars
  <2>1. ASSUME NEW p \in Pages, ReadMem(p) \/ \E d \in Data : WritePage(p, d) \/ WriteMem(p, d)
        PROVE  UNCHANGED deviceVars
    BY <2>1 DEF WritePage, WriteMem, BeginWrite, ReadMem
  <2>2. CASE Await
    BY <2>2 DEF Await, Opened, Filled, BeginData, ContinueData, EndData, DataRefused,
                ReadSome, Ignore
  <2>3. CASE Open \/ Kill \/ UNCHANGED vars
    BY <2>3 DEF Open, Kill, vars
  <2>4. QED
    BY <2>1, <2>2, <2>3 DEF Next
<1>5. QED
  BY <1>1, <1>2, <1>3, <1>4, Growing

LEMMA QueueStep ==
    ASSUME TypeOK, ProcessInv, QueueInv, LockStep, [Next]_vars
    PROVE  QueueInv'
BY RequestsStep, RepliesStep, CursorStep DEF QueueInv

-----------------------------------------------------------------------------
(* The turns are kept. *)

LEMMA PingInit == Init => PingInv /\ LockStep /\ ReadInv
BY DEF Init, PingInv, LockStep, ReadInv

LEMMA PingStep ==
    ASSUME TypeOK, ProcessInv, QueueInv, PingInv, [Next]_vars
    PROVE  PingInv'
<1>1. /\ session \in Nat /\ requests \in Seq(Request) /\ replies \in Seq(Reply)
      /\ Len(requests) \in Nat /\ Len(replies) \in Nat
      /\ \A i \in 1 .. Len(requests) : requests[i] \in Request
  BY SizeAssumption DEF TypeOK
<1>2. CASE Open
  <2>1. PICK m : requests' = Append(requests, m)
    BY <1>2 DEF Open
  <2>2. /\ requests' # <<>> /\ Len(requests') = Len(requests) + 1
        /\ \A i \in 1 .. Len(requests) : requests'[i] = requests[i]
    BY <1>1, <2>1
  <2>3. \A i \in 1 .. Len(requests) : requests[i].session <= session
                                     /\ requests[i].session \in Nat
    BY <1>1 DEF QueueInv, RequestsInv, Harmless, Request
  <2>4. session' = session + 1 /\ replies' = <<>>
    BY <1>2 DEF Open, ProcessInv
  <2>5. \A i \in 1 .. Len(requests') - 1 : requests'[i].session < session'
    BY <1>1, <2>2, <2>3, <2>4
  <2>6. QED
    BY <2>2, <2>4, <2>5 DEF PingInv
<1>3. CASE pc = "ping" /\ Ignore
  <2>1. /\ UNCHANGED <<session, requests>> /\ Len(replies) > 0
        /\ Len(replies') = Len(replies) - 1
        /\ \A i \in 1 .. Len(replies') : replies'[i] = replies[i + 1]
    BY <1>1, <1>3, Received DEF Ignore, clientVars
  <2>2. QED
    BY <1>1, <1>3, <2>1 DEF PingInv
<1>4. CASE pc = "ping" /\ Device
  <2> DEFINE r == requests[1]
  <2>1. r \in Request /\ requests # <<>> /\ requests' = Tail(requests)
         /\ session' = session /\ pc' = pc
    BY <1>4, Taken DEF clientVars
  <2>2. /\ Len(requests') = Len(requests) - 1 /\ Len(requests) > 0
        /\ \A i \in 1 .. Len(requests') : requests'[i] = requests[i + 1]
    BY <1>1, <2>1, TailFacts
  <2>3. PICK a : replies' = Append(replies, a) /\ a.session = r.session
    BY <1>4, DeviceAnswers
  <2>4. /\ Len(replies') = Len(replies) + 1
        /\ \A i \in 1 .. Len(replies) : replies'[i] = replies[i]
        /\ replies'[Len(replies) + 1] = a
    BY <1>1, <2>3
  <2>5. /\ \A i \in 1 .. Len(requests) - 1 : requests[i].session < session
        /\ \A i \in 1 .. Len(replies) : replies[i].session < session
    BY <1>4, <2>1 DEF PingInv
  <2>6. CASE Len(requests) = 1
    <3>1. requests' = <<>>
      BY <1>1, <2>1, <2>2, <2>6, TailFacts, EmptySeq
    <3>2. \A i \in 1 .. Len(replies') - 1 : replies'[i].session < session'
      BY <1>1, <2>1, <2>4, <2>5
    <3>3. QED
      BY <3>1, <3>2 DEF PingInv
  <2>7. CASE Len(requests) > 1
    <3>1. Len(requests') > 0 /\ requests' # <<>>
      BY <1>1, <2>2, <2>7
    <3>2. r.session < session
      BY <1>1, <2>5, <2>7
    <3>3. \A i \in 1 .. Len(requests') - 1 : requests'[i].session < session'
      BY <1>1, <2>1, <2>2, <2>5
    <3>4. \A i \in 1 .. Len(replies') : i \in 1 .. Len(replies) \/ i = Len(replies) + 1
      BY <1>1, <2>4
    <3>5. \A i \in 1 .. Len(replies') : replies'[i].session < session'
      BY <2>1, <2>3, <2>4, <2>5, <3>2, <3>4
    <3>6. QED
      BY <3>1, <3>3, <3>5 DEF PingInv
  <2>8. QED
    BY <1>1, <2>2, <2>6, <2>7
<1>5. CASE UNCHANGED vars
  BY <1>5 DEF vars, clientVars, PingInv
<1>6. CASE pc' # "ping"
  BY <1>6 DEF PingInv
<1>7. pc' = "ping" => \/ Open
                      \/ pc = "ping" /\ (Ignore \/ Device)
                      \/ UNCHANGED vars
  <2>1. ASSUME NEW p \in Pages, ReadMem(p) \/ \E d \in Data : WritePage(p, d) \/ WriteMem(p, d)
        PROVE  pc' # "ping"
    BY <2>1 DEF ReadMem, WritePage, WriteMem
  <2>2. Opened \/ Filled \/ BeginData \/ EndData \/ DataRefused \/ Kill => pc' # "ping"
    BY DEF Opened, Filled, BeginData, EndData, DataRefused, Kill, Leave
  <2>3. ContinueData \/ ReadSome => pc' # "ping"
    BY DEF ContinueData, ReadSome
  <2>4. Ignore \/ Device => pc' = pc
    BY DEF Ignore, Device, clientVars
  <2>5. pc' = "ping" => Open \/ Ignore \/ Device \/ UNCHANGED vars
    BY <2>1, <2>2, <2>3 DEF Next, Await
  <2>6. QED
    BY <2>4, <2>5
<1>8. QED
  BY <1>2, <1>3, <1>4, <1>5, <1>6, <1>7

\* A process is greeted when all that its predecessors left has been taken.
LEMMA Greeted ==
    ASSUME TypeOK, ProcessInv, QueueInv, PingInv, Opened, Head(replies).session = session
    PROVE  requests = <<>> /\ replies' = <<>>
<1>1. /\ replies \in Seq(Reply) /\ replies # <<>> /\ Len(replies) \in Nat \ {0}
      /\ Head(replies) = replies[1] /\ replies' = Tail(replies)
      /\ Tail(replies) \in Seq(Reply) /\ Len(Tail(replies)) = Len(replies) - 1
      /\ pc = "ping" /\ session \in Nat
  BY TailFacts, SizeAssumption DEF Opened, Answer, Receive, TypeOK
<1>2. requests = <<>> /\ \A i \in 1 .. Len(replies) - 1 : replies[i].session < session
  BY <1>1 DEF PingInv
<1>3. ~(1 \in 1 .. Len(replies) - 1)
  BY <1>1, <1>2
<1>4. Len(replies') = 0
  BY <1>1, <1>3
<1>5. QED
  BY <1>1, <1>2, <1>4, EmptySeq

\* A packet of a greeted process that is accepted: its data is where it belongs.
LEMMA PacketKept ==
    ASSUME TypeOK, ProcessInv, QueueInv, pc = "ack", NEW r \in Request, Asked(r),
           r.seq = expected, Filling(r)
    PROVE  /\ cursor' = [page |-> job.page, at |-> sent]
           /\ \A b \in 0 .. sent - 1 : disk'[job.page][b] = <<job.data, b>>
           /\ expected' = (seqNum + 1) % 256
<1>1. PICK n \in 0 .. sent :
        /\ r.bytes = Slice(job.data, n, sent - n)
        /\ \/ r.kind = "begin" /\ n = 0
           \/ r.kind = "continue" /\ At(n) /\ Kept(n)
  BY DEF Asked
<1>2. /\ job.page \in Pages /\ job.data \in Data
      /\ sent \in 0 .. PageSize /\ sent \in Nat /\ n \in Nat /\ sent - n \in Nat
  BY SizeAssumption DEF ProcessInv, Writing, TypeOK
<1>3. /\ Len(r.bytes) = sent - n /\ r.bytes \in Seq(Byte) /\ DOMAIN r.bytes = 1 .. sent - n
      /\ \A i \in 1 .. sent - n : r.bytes[i] = <<job.data, n + i - 1>>
  <2>1. n + (sent - n) <= PageSize
    BY <1>2, SizeAssumption
  <2>2. /\ Len(r.bytes) = sent - n /\ r.bytes \in Seq(Byte)
        /\ \A i \in 1 .. sent - n : r.bytes[i] = <<job.data, n + i - 1>>
    <3> DEFINE len == sent - n
    <3>1. len \in Nat /\ n + len <= PageSize /\ r.bytes = Slice(job.data, n, len)
      BY <1>1, <1>2, <2>1
    <3> HIDE DEF len
    <3>2. /\ Len(r.bytes) = len /\ r.bytes \in Seq(Byte)
          /\ \A i \in 1 .. len : r.bytes[i] = <<job.data, n + i - 1>>
      <4>1. job.data \in Data /\ n \in Nat
        BY <1>2
      <4>2. QED
        BY <3>1, <4>1, SliceFacts
    <3>3. QED
      BY <3>2 DEF len
  <2>3. QED
    BY <2>2
<1>4. Start(r) = [page |-> job.page, at |-> n]
  BY <1>1 DEF Start, Asked, At
<1>5. /\ disk' = [disk EXCEPT ![job.page] =
                   [b \in Bytes |-> IF b - n + 1 \in DOMAIN r.bytes
                                      THEN r.bytes[b - n + 1] ELSE disk[job.page][b]]]
      /\ cursor' = [page |-> job.page, at |-> n + (sent - n)]
  BY <1>3, <1>4 DEF Filling
<1>6. \A b \in Bytes : disk'[job.page][b] = IF b - n + 1 \in 1 .. sent - n
                                              THEN r.bytes[b - n + 1] ELSE disk[job.page][b]
  BY <1>2, <1>3, <1>5 DEF TypeOK
<1>7. ASSUME NEW b \in 0 .. sent - 1 PROVE disk'[job.page][b] = <<job.data, b>>
  <2>1. b \in Bytes /\ b \in Nat
    BY <1>2, SizeAssumption DEF Bytes
  <2>2. CASE b < n
    BY <1>1, <1>2, <1>6, <2>1, <2>2 DEF Kept
  <2>3. CASE b >= n
    <3>1. b - n + 1 \in 1 .. sent - n /\ n + (b - n + 1) - 1 = b
      BY <1>2, <2>1, <2>3
    <3>2. QED
      BY <1>3, <1>6, <2>1, <3>1
  <2>4. QED
    BY <1>2, <2>1, <2>2, <2>3
<1>8. expected' = (seqNum + 1) % 256
  BY DEF Filling, Asked
<1>9. n + (sent - n) = sent
  BY <1>2
<1>10. QED
  BY <1>5, <1>7, <1>8, <1>9

LEMMA LockStepStep ==
    ASSUME TypeOK, ProcessInv, QueueInv, PingInv, LockStep, ReadInv, [Next]_vars
    PROVE  LockStep'
<1> USE DEF Settled, Waiting
<1>1. CASE Open \/ Kill
  BY <1>1 DEF Open, Kill, ProcessInv, LockStep
<1>2. CASE Opened
  <2>1. CASE Head(replies).session = session
    <3>1. requests' = <<>> /\ replies' = <<>> /\ pc' = "idle"
      BY <1>2, <2>1, Greeted DEF Opened
    <3>2. QED
      BY <3>1 DEF LockStep
  <2>2. CASE Head(replies).session # session
    BY <1>2, <2>2 DEF Opened, LockStep
  <2>3. QED
    BY <2>1, <2>2
<1>3. CASE greeted' /\ greeted /\ pc \in Settled /\ ~UNCHANGED vars
  <2>1. requests = <<>> /\ replies = <<>>
    BY <1>3 DEF LockStep
  <2>2. ASSUME NEW p \in Pages, NEW d \in Data, WritePage(p, d) PROVE LockStep'
    <3>1. /\ requests' = Append(requests, Message("fill", p)) /\ replies' = <<>>
          /\ pc' = "fill"
      BY <2>1, <2>2 DEF WritePage, BeginWrite, Send
    <3>2. Len(requests') = 1 /\ requests'[1].kind = "fill"
      BY <2>1, <3>1, FirstSent DEF Message
    <3>3. QED
      BY <3>1, <3>2 DEF LockStep, Asked
  <2>3. ASSUME NEW p \in Pages, NEW d \in Data, WriteMem(p, d) PROVE LockStep'
    <3>1. /\ requests' = Append(requests, Message("reset", None)) /\ replies' = <<>>
          /\ pc' = "reset"
      BY <2>1, <2>3 DEF WriteMem, BeginWrite, Send
    <3>2. Len(requests') = 1 /\ requests'[1].kind = "reset"
      BY <2>1, <3>1, FirstSent DEF Message
    <3>3. QED
      BY <3>1, <3>2 DEF LockStep, Asked
  <2>4. ASSUME NEW p \in Pages, ReadMem(p) PROVE LockStep'
    <3>1. /\ requests' = Append(requests, ReadRequest(p, 0)) /\ replies' = <<>>
          /\ pc' = "read" /\ source' = p /\ Len(buffer') = 0
      BY <2>1, <2>4 DEF ReadMem, Send
    <3>2. Len(requests') = 1 /\ requests'[1].kind = "read" /\ requests'[1].page = p
           /\ requests'[1].at = 0
      BY <2>1, <3>1, FirstSent DEF ReadRequest, Message
    <3>3. QED
      BY <3>1, <3>2 DEF LockStep, Asked
  <2>5. ~Device /\ ~Opened /\ ~Filled /\ ~BeginData /\ ~ContinueData /\ ~EndData
          /\ ~DataRefused /\ ~ReadSome /\ ~Ignore
    BY <1>3, <2>1 DEF Device, Opened, Filled, BeginData, ContinueData, EndData,
                      DataRefused, ReadSome, Ignore
  <2>6. QED
    BY <1>1, <2>2, <2>3, <2>4, <2>5, <1>3 DEF Next, Await
<1>4. CASE greeted' /\ greeted /\ pc \notin Settled /\ ~UNCHANGED vars /\ ~Device
  <2>1. pc # "ping" /\ Waiting /\ ~Opened /\ ~Open /\ ~Kill
    BY <1>4 DEF ProcessInv, Opened, Open, Kill, TypeOK, Writing
  <2>2. replies # <<>> /\ Receive
    BY <1>4, <2>1 DEF Next, Await, Filled, BeginData, ContinueData, EndData, DataRefused,
                      ReadSome, Ignore, Answer, WritePage, WriteMem, BeginWrite, ReadMem
  <2>3. /\ requests = <<>> /\ Answered(replies[1]) /\ Head(replies) = replies[1]
        /\ replies' = <<>>
    BY <1>4, <2>1, <2>2, Turn DEF Receive
  <2>4. CASE UNCHANGED requests /\ pc' \in Settled
    BY <2>3, <2>4 DEF LockStep
  <2>5. CASE Filled
    <3>1. CASE pc' = "reset" /\ requests' = Append(requests, Message("reset", None))
      <4>1. Len(requests') = 1 /\ requests'[1].kind = "reset"
        BY <2>3, <3>1, FirstSent DEF Message
      <4>2. QED
        BY <2>3, <3>1, <4>1 DEF LockStep, Asked
    <3>2. QED
      BY <2>4, <2>5, <3>1 DEF Filled, Leave, Send
  <2>6. CASE BeginData
    <3>1. job # None
      BY <2>6 DEF BeginData, ProcessInv, Writing
    <3>2. CASE replies[1].ok
      <4> DEFINE m == DataPacket("begin", 0, Slice(job.data, 0, SentAfter(1)))
      <4>1. /\ requests' = Append(requests, m) /\ sent' = SentAfter(1) /\ seqNum' = 0
            /\ sent' \in 1 .. PageSize /\ pc' = "ack" /\ job' = job
        BY <2>6, <3>1, <3>2, PacketSent
      <4>2. /\ m.kind = "begin" /\ m.seq = 0 /\ m.page = job.page
            /\ m.bytes = Slice(job.data, 0, sent')
        BY <4>1 DEF DataPacket, Message
      <4> HIDE DEF m
      <4>3. Len(requests') = 1 /\ requests'[1] = m
        BY <2>3, <4>1, FirstSent
      <4>4. 0 \in 0 .. sent' /\ sent' - 0 = sent'
        BY <4>1, SizeAssumption
      <4>5. Asked(requests[1])'
        BY <4>1, <4>2, <4>3, <4>4 DEF Asked
      <4>6. QED
        BY <2>3, <4>1, <4>3, <4>5 DEF LockStep
    <3>3. QED
      BY <2>3, <2>4, <2>6, <3>2 DEF BeginData, Leave
  <2>7. CASE ContinueData
    <3>1. job # None /\ job' = job /\ cursor' = cursor /\ disk' = disk /\ pc' = "ack"
      BY <2>7 DEF ContinueData, ProcessInv, Writing, deviceVars
    <3> DEFINE m == DataPacket("continue", seqNum + 1, Slice(job.data, sent, sent' - sent))
    <3>2. /\ requests' = Append(requests, m) /\ seqNum' = seqNum + 1 /\ sent < sent'
          /\ sent' \in 1 .. PageSize
      BY <2>7, <3>1, PacketSent
    <3>3. /\ m.kind = "continue" /\ m.seq = seqNum' /\ m.page = job.page
          /\ m.bytes = Slice(job.data, sent, sent' - sent)
      BY <3>2 DEF DataPacket, Message
    <3> HIDE DEF m
    <3>4. Len(requests') = 1 /\ requests'[1] = m
      BY <2>3, <3>2, FirstSent
    <3>5. At(sent) /\ Kept(sent)
      BY <2>3, <2>7 DEF ContinueData, IsExpectedAck, Answered
    <3>6. sent \in 0 .. sent'
      BY <3>2, SizeAssumption DEF TypeOK
    <3>7. Asked(requests[1])'
      BY <3>1, <3>3, <3>4, <3>5, <3>6 DEF Asked, At, Kept
    <3>8. QED
      BY <2>3, <3>1, <3>4, <3>7 DEF LockStep
  <2>8. CASE EndData \/ DataRefused
    BY <2>4, <2>8 DEF EndData, DataRefused, Leave
  <2>9. CASE ReadSome
    <3>1. CASE replies[1].ok /\ Len(buffer') < PageSize
      <4> DEFINE m == ReadRequest(source, NextOffset(Len(buffer')))
      <4>1. /\ requests' = Append(requests, m) /\ pc' = "read" /\ source' = source
            /\ Len(buffer') = Len(buffer) + LongParamLength
        BY <2>9, <3>1, ReadFacts DEF ReadSome
      <4>2. /\ m.kind = "read" /\ m.page = source /\ m.at = NextOffset(Len(buffer'))
        BY DEF ReadRequest, Message
      <4> HIDE DEF m
      <4>3. Len(requests') = 1 /\ requests'[1] = m
        BY <2>3, <4>1, FirstSent
      <4>4. 2 * NextOffset(Len(buffer')) = Len(buffer')
        <5>1. Len(buffer) % 2 = 0
          BY <1>4, <2>9 DEF ReadSome, ReadInv
        <5>2. Len(buffer) \in Nat /\ LongParamLength \in Nat /\ LongParamLength % 2 = 0
          BY SizeAssumption DEF TypeOK
        <5>3. QED
          BY <4>1, <5>1, <5>2, EvenSum
      <4>5. Asked(requests[1])'
        BY <4>1, <4>2, <4>3, <4>4 DEF Asked
      <4>6. QED
        BY <2>3, <4>1, <4>3, <4>5 DEF LockStep
    <3>2. CASE ~replies[1].ok
      BY <2>3, <2>4, <2>9, <3>2 DEF ReadSome
    <3>3. CASE replies[1].ok /\ Len(buffer') = PageSize
      BY <2>4, <2>9, <3>3, ReadFacts
    <3>4. replies[1].ok => Len(buffer') \in Nat /\ Len(buffer') <= PageSize
      BY <2>9, ReadFacts
    <3>5. QED
      BY <3>1, <3>2, <3>3, <3>4, SizeAssumption
  <2>10. ~Ignore
    BY <2>3 DEF Ignore, Answered
  <2>11. QED
    BY <1>4, <2>1, <2>5, <2>6, <2>7, <2>8, <2>9, <2>10
       DEF Next, Await, WritePage, WriteMem, BeginWrite, ReadMem
<1>5. CASE greeted /\ Device
  <2> DEFINE r == requests[1]
  <2>1. /\ requests # <<>> /\ r \in Request /\ requests' = Tail(requests)
        /\ UNCHANGED clientVars
    BY <1>5, Taken
  <2>2. pc \notin {"closed", "ping"} /\ pc \notin Settled
    BY <1>5, <2>1 DEF ProcessInv, LockStep
  <2>3. Waiting /\ Len(requests) = 1 /\ replies = <<>> /\ Asked(r)
    BY <1>5, <2>1, <2>2 DEF LockStep, TypeOK, Writing
  <2>4. requests' = <<>>
    <3>1. requests \in Seq(Request)
      BY DEF TypeOK
    <3>2. requests' \in Seq(Request) /\ Len(requests') = 0
      BY <2>1, <2>3, <3>1, TailFacts
    <3>3. QED
      BY <3>2, EmptySeq
  <2>5. PICK a \in Reply :
          /\ replies' = IF pc = "closed" THEN replies ELSE Append(replies, a)
          /\ a.kind = IF r.kind \in Packets THEN "ack" ELSE r.kind
          /\ a.kind = "read" /\ a.ok => a.bytes = Words(r)
          /\ a.kind = "ack" /\ a.ok => r.seq = expected /\ Filling(r)
    BY <1>5, DeviceAnswers
  <2>6. Len(replies') = 1 /\ replies'[1] = a
    BY <2>2, <2>3, <2>5
  <2>7. a.kind = pc
    BY <2>3, <2>5 DEF Asked, Packets
  <2>8. pc = "read" => UNCHANGED disk
    BY <1>5, <2>3, Handled DEF Asked, Packets, deviceVars
  <2>9. ASSUME pc = "read", a.ok, NEW i \in 1 .. LongParamLength,
               Len(buffer) + i - 1 \in Bytes
        PROVE  a.bytes[i] = disk[source][Len(buffer) + i - 1]
    <3>1. a.bytes[i] = IF 2 * r.at + i - 1 \in Bytes
                         THEN disk[r.page][2 * r.at + i - 1] ELSE Blank
      BY <2>5, <2>7, <2>9 DEF Words
    <3>2. 2 * r.at = Len(buffer) /\ r.page = source
      BY <2>3, <2>9 DEF Asked
    <3>3. QED
      BY <2>9, <3>1, <3>2
  <2>10. ASSUME pc = "ack", a.ok
         PROVE  /\ cursor' = [page |-> job.page, at |-> sent]
                /\ \A b \in 0 .. sent - 1 : disk'[job.page][b] = <<job.data, b>>
                /\ expected' = (seqNum + 1) % 256
    BY <2>1, <2>3, <2>5, <2>7, <2>10, PacketKept
  <2>11. Answered(replies[1])'
    BY <2>1, <2>6, <2>7, <2>8, <2>9, <2>10 DEF Answered, At, Kept, clientVars
  <2>12. QED
    BY <2>1, <2>2, <2>4, <2>6, <2>11 DEF LockStep, clientVars
<1>6. CASE UNCHANGED vars
  BY <1>6 DEF vars, clientVars, deviceVars, LockStep, Asked, Answered, At, Kept
<1>7. CASE ~greeted /\ ~Opened
  <2>1. ~greeted'
    BY <1>7 DEF Next, Await, Open, WritePage, WriteMem, BeginWrite, ReadMem, Filled, BeginData,
                ContinueData, EndData, DataRefused, ReadSome, Ignore, Kill, Device, clientVars,
                vars
  <2>2. QED
    BY <2>1 DEF LockStep
<1>8. CASE ~greeted'
  BY <1>8 DEF LockStep
<1>9. QED
  BY <1>2, <1>3, <1>4, <1>5, <1>6, <1>7, <1>8

LEMMA ReadStep ==
    ASSUME TypeOK, ProcessInv, QueueInv, PingInv, LockStep, ReadInv, [Next]_vars
    PROVE  ReadInv'
<1> USE DEF Settled, Waiting
<1>1. CASE ReadSome /\ greeted
  <2>1. /\ pc = "read" /\ replies # <<>> /\ Receive
        /\ UNCHANGED <<greeted, source, disk>> /\ source \in Pages
    BY <1>1 DEF ReadSome, Answer, deviceVars, ProcessInv
  <2>2. Answered(replies[1]) /\ Head(replies) = replies[1]
    BY <1>1, <2>1, Turn
  <2>3. CASE ~replies[1].ok
    BY <1>1, <2>2, <2>3 DEF ReadSome, ReadInv
  <2>4. CASE replies[1].ok
    <3> DEFINE len == Lesser(LongParamLength, PageSize - Len(buffer))
    <3>1. /\ len \in 1 .. LongParamLength /\ Len(buffer') = Len(buffer) + len
          /\ Len(buffer') <= PageSize
          /\ \A i \in 1 .. Len(buffer) : buffer'[i] = buffer[i]
          /\ \A i \in 1 .. len : buffer'[Len(buffer) + i] = replies[1].bytes[i]
          /\ Len(buffer') = PageSize => pc' = "loaded"
          /\ Len(buffer') < PageSize => pc' = "read" /\ len = LongParamLength
      BY <1>1, <2>1, <2>4, ReadFacts
    <3> HIDE DEF len
    <3>2. Len(buffer) \in Nat /\ LongParamLength \in Nat /\ PageSize \in Nat
           /\ LongParamLength % 2 = 0
      BY SizeAssumption DEF TypeOK
    <3>3. /\ Len(buffer) % 2 = 0
          /\ \A b \in 0 .. Len(buffer) - 1 : buffer[b + 1] = disk[source][b]
      BY <1>1, <2>1 DEF ReadInv
    <3>4. ASSUME NEW b \in 0 .. Len(buffer') - 1 PROVE buffer'[b + 1] = disk[source][b]
      <4>1. CASE b < Len(buffer)
        <5>1. b \in 0 .. Len(buffer) - 1 /\ b + 1 \in 1 .. Len(buffer)
          BY <3>1, <3>2, <4>1
        <5>2. QED
          BY <3>1, <3>3, <5>1
      <4>2. CASE b >= Len(buffer)
        <5>1. PICK i \in 1 .. len : b = Len(buffer) + i - 1
          <6>1. b - Len(buffer) + 1 \in 1 .. len
            BY <3>1, <3>2, <4>2
          <6>2. b = Len(buffer) + (b - Len(buffer) + 1) - 1
            BY <3>1, <3>2, <4>2
          <6>3. QED
            BY <6>1, <6>2
        <5>2. i \in 1 .. LongParamLength /\ b \in Bytes /\ b + 1 = Len(buffer) + i
          BY <3>1, <3>2, <5>1 DEF Bytes
        <5>3. replies[1].bytes[i] = disk[source][b]
          BY <2>1, <2>2, <2>4, <5>1, <5>2 DEF Answered
        <5>4. QED
          BY <3>1, <5>1, <5>2, <5>3
      <4>3. QED
        BY <3>1, <3>2, <4>1, <4>2
    <3>5. Len(buffer') < PageSize => Len(buffer') % 2 = 0
      BY <3>1, <3>2, <3>3, EvenSum
    <3>6. Len(buffer') < PageSize \/ Len(buffer') = PageSize
      BY <3>1, <3>2
    <3>7. pc' = "read" => Len(buffer') % 2 = 0
      BY <3>1, <3>5, <3>6
    <3>8. pc' = "loaded" => Len(buffer') = PageSize
      BY <3>1, <3>6
    <3>9. QED
      BY <2>1, <3>4, <3>7, <3>8 DEF ReadInv
  <2>5. QED
    BY <2>3, <2>4
<1>2. ASSUME NEW p \in Pages, ReadMem(p) PROVE ReadInv'
  <2>1. pc' = "read" /\ Len(buffer') = 0
    BY <1>2 DEF ReadMem
  <2>2. 0 % 2 = 0 /\ \A b \in 0 .. Len(buffer') - 1 : FALSE
    BY <2>1
  <2>3. QED
    BY <2>1, <2>2 DEF ReadInv
<1>3. CASE Device /\ greeted /\ pc \in {"read", "loaded"}
  <2>1. requests # <<>> /\ UNCHANGED clientVars
    BY <1>3, Taken
  <2>2. pc = "read" /\ Asked(requests[1])
    BY <1>3, <2>1 DEF LockStep
  <2>3. disk' = disk
    BY <1>3, <2>2, Handled DEF Asked, Packets, deviceVars
  <2>4. QED
    BY <2>1, <2>3 DEF clientVars, ReadInv
<1>4. CASE UNCHANGED <<greeted, pc, source, buffer, disk>>
  BY <1>4 DEF ReadInv
<1>5. CASE ~greeted' \/ pc' \notin {"read", "loaded"}
  BY <1>5 DEF ReadInv
<1>6. CASE Await /\ ~(ReadSome /\ greeted)
  <2>1. Ignore => UNCHANGED <<greeted, pc, source, buffer, disk>>
    BY DEF Ignore, clientVars, deviceVars
  <2>2. Opened \/ Filled \/ BeginData \/ ContinueData \/ EndData \/ DataRefused
          => pc' \notin {"read", "loaded"}
    BY DEF Opened, Filled, BeginData, ContinueData, EndData, DataRefused, Leave
  <2>3. ReadSome => greeted' = greeted
    BY DEF ReadSome
  <2>4. QED
    BY <1>4, <1>5, <1>6, <2>1, <2>2, <2>3 DEF Await
<1>7. CASE Device /\ ~(greeted /\ pc \in {"read", "loaded"})
  BY <1>7, Taken DEF clientVars, ReadInv
<1>8. CASE Open \/ Kill \/ \E p \in Pages, d \in Data : WritePage(p, d) \/ WriteMem(p, d)
  <2>1. pc' \notin {"read", "loaded"}
    BY <1>8 DEF Open, Kill, WritePage, WriteMem, Leave
  <2>2. QED
    BY <1>5, <2>1
<1>9. CASE UNCHANGED vars
  BY <1>4, <1>9 DEF vars, clientVars, deviceVars
<1>10. QED
  BY <1>1, <1>2, <1>3, <1>6, <1>7, <1>8, <1>9 DEF Next

\* The queues of requests and replies are in step with the process and with
\* the device, whatever processes were killed before.
THEOREM MemoryCorrect == Spec => []Inv
<1>1. Init => Inv
  BY TypeInit, ProcessInit, QueueInit, PingInit DEF Inv
<1>2. Inv /\ [Next]_vars => Inv'
  BY ProcessStep, QueueStep, PingStep, LockStepStep, ReadStep DEF Inv
<1>3. QED
  BY <1>1, <1>2, PTL DEF Spec

\* A process that has the answer to its own ping reads what is stored, not
\* what an earlier process asked for.
THEOREM ReadsAreRight == Spec => []ReadsWhatIsStored
<1>1. Inv => ReadsWhatIsStored
  <2> SUFFICES ASSUME Inv, pc = "loaded", greeted
               PROVE  Len(buffer) = PageSize /\ \A b \in Bytes : buffer[b + 1] = disk[source][b]
    BY DEF ReadsWhatIsStored
  <2>1. /\ Len(buffer) = PageSize
        /\ \A b \in 0 .. Len(buffer) - 1 : buffer[b + 1] = disk[source][b]
    BY DEF Inv, ReadInv
  <2>2. QED
    BY <2>1 DEF Bytes
<1>2. QED
  BY <1>1, MemoryCorrect, PTL

-----------------------------------------------------------------------------
(* The page store. *)

\* What a page holds, as a page store sees it.
ContentOf(bytes) == IF \E d \in Data : bytes = Whole(d) THEN bytes[0][1] ELSE Blank

LEMMA ContentFacts ==
    /\ \A d \in Data : ContentOf(Whole(d)) = d
    /\ \A bytes : ContentOf(bytes) \in Data \cup {Blank}
<1>1. 0 \in Bytes
  BY SizeAssumption DEF Bytes
<1>2. \A d \in Data : Whole(d)[0] = <<d, 0>>
  BY <1>1 DEF Whole
<1>3. QED
  BY <1>2 DEF ContentOf

\* Each step of the process or of the device is one of the page store's, or
\* changes nothing the page store has.
LEMMA StoreNext ==
    ASSUME Inv, [Next]_vars
    PROVE  [Store!Next]_(Store!vars)
<1> USE DEF Inv, Writing, Settled
<1>1. CASE UNCHANGED <<disk, job, exposed>>
  BY <1>1 DEF Store!vars, Content
<1>2. ASSUME NEW p \in Pages, NEW d \in Data, BeginWrite(p, d) PROVE Store!Next
  <2>1. job = None
    BY <1>2 DEF BeginWrite, ProcessInv
  <2>2. Store!Begin(p, d)
    BY <1>2, <2>1 DEF BeginWrite, Store!Begin, Content, deviceVars
  <2>3. QED
    BY <2>2 DEF Store!Next
<1>3. ASSUME job # None, job' = None, UNCHANGED <<disk, exposed>> PROVE Store!Next
  BY <1>3 DEF Store!Next, Store!EndFailed, Content
<1>4. CASE EndData /\ greeted
  <2>1. /\ job # None /\ job.page \in Pages /\ job.data \in Data /\ pc = "ack"
        /\ job' = None /\ disk' = disk /\ exposed' = exposed \ {job.page}
    BY <1>4 DEF EndData, Leave, Stored, deviceVars, ProcessInv, TypeOK
  <2>2. disk[job.page] = Whole(job.data)
    <3>1. Kept(PageSize)
      BY <1>4, EndDataFacts
    <3>2. disk[job.page] \in [Bytes -> Byte]
      BY <2>1 DEF TypeOK
    <3>3. \A b \in Bytes : disk[job.page][b] = <<job.data, b>>
      BY <3>1 DEF Kept, Bytes
    <3>4. QED
      BY <3>2, <3>3 DEF Whole
  <2>3. Content(job.page) = job.data
    BY <2>1, <2>2, ContentFacts DEF Content, ContentOf
  <2>4. Store!EndOk
    BY <2>1, <2>3 DEF Store!EndOk, Content
  <2>5. QED
    BY <2>4 DEF Store!Next
<1>5. CASE Device
  <2>1. UNCHANGED <<job, exposed>> /\ exposed \subseteq Pages
    BY <1>5, Taken DEF clientVars, TypeOK
  <2>2. CASE disk' = disk
    BY <1>1, <2>1, <2>2
  <2>3. ASSUME NEW p \in exposed, \A q \in Pages \ {p} : disk'[q] = disk[q]
        PROVE  Store!Next
    <3>1. \A q \in Pages \ {p} : ContentOf(disk'[q]) = ContentOf(disk[q])
      BY <2>3
    <3>2. [q \in Pages |-> ContentOf(disk'[q])]
            = [[q \in Pages |-> ContentOf(disk[q])] EXCEPT ![p] = ContentOf(disk'[p])]
      BY <2>1, <3>1
    <3>3. ContentOf(disk'[p]) \in Data \cup {Blank}
      BY ContentFacts
    <3>4. Store!Change(p, ContentOf(disk'[p]))
      BY <2>1, <3>2 DEF Store!Change, Content, ContentOf
    <3>5. QED
      BY <2>1, <3>3, <3>4 DEF Store!Next
  <2>4. QED
    BY <1>5, <2>2, <2>3, DeviceChanges
<1>6. CASE Await \/ Kill \/ Open \/ UNCHANGED vars \/ \E p \in Pages : ReadMem(p)
  <2>1. EndData /\ ~greeted => job # None /\ job' = None /\ UNCHANGED <<disk, exposed>>
    BY DEF EndData, Leave, Stored, deviceVars, ProcessInv
  <2>2. Open \/ Opened \/ ContinueData \/ ReadSome \/ Ignore \/ UNCHANGED vars
          \/ (\E p \in Pages : ReadMem(p))
        => UNCHANGED <<disk, job, exposed>>
    BY DEF Open, Opened, ContinueData, ReadSome, Ignore, ReadMem, vars, clientVars, deviceVars
  <2>3. Filled \/ BeginData \/ DataRefused =>
          \/ UNCHANGED <<disk, job, exposed>>
          \/ job # None /\ job' = None /\ UNCHANGED <<disk, exposed>>
    BY DEF Filled, BeginData, DataRefused, Leave, deviceVars, ProcessInv
  <2>4. Kill => job' = None /\ UNCHANGED <<disk, exposed>>
    BY DEF Kill, Leave, deviceVars
  <2>5. Kill => \/ UNCHANGED <<disk, job, exposed>>
                \/ job # None /\ job' = None /\ UNCHANGED <<disk, exposed>>
    BY <2>4
  <2>6. QED
    BY <1>1, <1>3, <1>4, <1>6, <2>1, <2>2, <2>3, <2>5 DEF Await
<1>7. QED
  BY <1>2, <1>5, <1>6 DEF Next, WritePage, WriteMem

\* writePage and writeMem implement the page store the mappings rely on, for
\* any number of processes that were killed at any point.
THEOREM MemoryImplementsPageStore == Spec => ImplementsPageStore
<1>1. Init => Store!Init
  BY ContentFacts DEF Init, Store!Init, Content, ContentOf
<1>2. Inv /\ [Next]_vars => [Store!Next]_(Store!vars)
  BY StoreNext
<1>3. QED
  BY <1>1, <1>2, MemoryCorrect, PTL DEF Spec, Store!Spec, ImplementsPageStore
=============================================================================
