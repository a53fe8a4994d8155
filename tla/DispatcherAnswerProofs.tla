----------------------- MODULE DispatcherAnswerProofs -----------------------
(***************************************************************************)
(* Theorems about the answers DispatcherThread hands out: whose they are,  *)
(* and when one reaches an event handler.  They rest on the order in which *)
(* requests are written, listed and answered.                              *)
(***************************************************************************)
EXTENDS DispatcherThreadProofs, QueueFacts

-----------------------------------------------------------------------------
(* The inductive invariant. *)

Sent == {"written", "pending", "blocking", "timed", "returned", "timedout"}

\* A command has been written when it is past writeReport; the one that is not
\* yet in the list is the last.  The list has the order of the writes.
WrittenInv ==
    /\ Injective(written)
    /\ \A c \in Commands :
        /\ c \in Elements(written) <=> fate[c] # "none"
        /\ fate[c] # "none" <=> pc[c] \in Sent
        /\ pc[c] = "written" => written # <<>> /\ written[Len(written)] = c
    /\ \A c, d \in Commands :
        pc[c] \in {"locked", "written"} /\ pc[d] \in {"locked", "written"} => c = d
    /\ \A i, j \in DOMAIN commands : i < j => OlderThan(commands[i], commands[j])

\* The device deals with the requests of a key in the order they were written.
FateInv ==
    \A c, d \in Commands :
        KeyOf[d] = KeyOf[c] /\ OlderThan(d, c) /\ fate[c] \in {"answered", "lost"} =>
            fate[d] # "queued"

\* A report is the device's own, or the reply to a command.
Genuine(r) ==
    /\ r.origin = Nobody => r.kind \in {"event", "foreign"}
    /\ r.origin = Nobody /\ r.kind = "event" => r.key \in EventKeys
    /\ r.origin # Nobody => r.kind \in {"answer", "error"} /\ r.key = KeyOf[r.origin]

\* A reply r that is read before the reply s, when the requests of w were written.
Older(w, d, c) == \E i, j \in DOMAIN w : i < j /\ w[i] = d /\ w[j] = c
Before(w, r, s) ==
    r.origin # Nobody /\ s.origin # Nobody /\ KeyOf[r.origin] = KeyOf[s.origin] =>
        Older(w, r.origin, s.origin)

\* Reports wait in the queue; the replies of a key in the order of its commands.
InputInv ==
    /\ \A i \in 1 .. Len(input) :
        /\ Genuine(input[i])
        /\ input[i].origin # Nobody => fate[input[i].origin] = "answered"
        /\ \A j \in 1 .. Len(input) : i < j => Before(written, input[i], input[j])
    /\ runPc = "processing" =>
        /\ Genuine(report)
        /\ report.origin # Nobody => fate[report.origin] = "answered"
        /\ \A i \in 1 .. Len(input) : Before(written, report, input[i])

\* The reply to c has been sent, and processReport has not taken it yet.
InFlight(c) ==
    \/ runPc = "processing" /\ report.origin = c
    \/ \E i \in 1 .. Len(input) : input[i].origin = c

\* A promise of a command is set to a reply to the same request, which no other
\* command has; a reply that is no longer in flight went to its command, unless
\* the command was disturbed.
ReplyInv ==
    \A c \in Commands :
        /\ response[c].kind \in {"none", "exception"} <=> response[c].origin = Nobody
        /\ response[c].kind = "exception" => runPc \in {"sweepNotifications", "done"}
        /\ \A d \in Commands : response[c].origin = d =>
            /\ KeyOf[d] = KeyOf[c] /\ fate[d] = "answered" /\ ~InFlight(d)
            /\ d # c => Disturbed(c)
            /\ \A e \in Commands : response[e].origin = d => e = c
        /\ fate[c] = "answered" /\ ~InFlight(c) => response[c].origin = c \/ Disturbed(c)

\* An answer is delivered as an event when a command with its key timed out.
LateInv ==
    /\ runPc \in {"event", "delivering"} /\ report.kind = "answer" =>
        \E c \in Commands : pc[c] = "timedout" /\ KeyOf[c] = report.key
    /\ \A l \in todo : TopicOf[l] = TopicOfKey[report.key]

-----------------------------------------------------------------------------
(* The order of a sequence without duplicates. *)

LEMMA OlderElements ==
    ASSUME NEW S, NEW s \in Seq(S), NEW c, NEW d, Older(s, d, c)
    PROVE  d \in Elements(s) /\ c \in Elements(s)
BY DEF Older, Elements

LEMMA OlderOrder ==
    ASSUME NEW S, NEW s \in Seq(S), Injective(s), NEW c, NEW d, Older(s, d, c)
    PROVE  /\ d # c
           /\ ~Older(s, c, d)
           /\ \A e : Older(s, e, d) => Older(s, e, c)
<1>1. DOMAIN s \subseteq Nat
  OBVIOUS
<1>2. PICK i, j \in DOMAIN s : i < j /\ s[i] = d /\ s[j] = c
  BY DEF Older
<1>3. \A k \in DOMAIN s : (s[k] = d => k = i) /\ (s[k] = c => k = j)
  BY <1>2 DEF Injective
<1>4. d # c /\ ~Older(s, c, d)
  BY <1>1, <1>2, <1>3 DEF Older
<1>5. ASSUME NEW e, Older(s, e, d) PROVE Older(s, e, c)
  <2>1. PICK k, l \in DOMAIN s : k < l /\ s[k] = e /\ s[l] = d
    BY <1>5 DEF Older
  <2>2. k < j
    BY <1>1, <1>2, <1>3, <2>1
  <2>3. QED
    BY <1>2, <2>1, <2>2 DEF Older
<1>6. QED
  BY <1>4, <1>5

LEMMA OlderTotal ==
    ASSUME NEW S, NEW s \in Seq(S), NEW c \in Elements(s), NEW d \in Elements(s), c # d
    PROVE  Older(s, c, d) \/ Older(s, d, c)
<1>1. PICK i \in DOMAIN s : s[i] = c
  BY DEF Elements
<1>2. PICK j \in DOMAIN s : s[j] = d
  BY DEF Elements
<1>3. i \in Nat /\ j \in Nat
  OBVIOUS
<1>4. i < j \/ j < i
  BY <1>1, <1>2, <1>3
<1>5. QED
  BY <1>1, <1>2, <1>4 DEF Older

LEMMA OlderAppend ==
    ASSUME NEW S, NEW s \in Seq(S), NEW x \in S, NEW c, NEW d
    PROVE  Older(Append(s, x), d, c) <=> Older(s, d, c) \/ (d \in Elements(s) /\ c = x)
<1> DEFINE t == Append(s, x)
<1>1. /\ Len(s) \in Nat
      /\ DOMAIN s = 1 .. Len(s) /\ DOMAIN t = 1 .. Len(s) + 1
      /\ \A i \in DOMAIN s : t[i] = s[i]
      /\ t[Len(s) + 1] = x
  BY AppendFacts
<1> HIDE DEF t
<1>2. Older(s, d, c) => Older(t, d, c)
  BY <1>1 DEF Older
<1>3. d \in Elements(s) /\ c = x => Older(t, d, c)
  <2>1. SUFFICES ASSUME NEW i \in DOMAIN s, s[i] = d, c = x PROVE Older(t, d, c)
    BY DEF Elements
  <2>2. i \in DOMAIN t /\ Len(s) + 1 \in DOMAIN t /\ i < Len(s) + 1
    BY <1>1
  <2>3. QED
    BY <1>1, <2>1, <2>2 DEF Older
<1>4. Older(t, d, c) => Older(s, d, c) \/ (d \in Elements(s) /\ c = x)
  <2>1. SUFFICES ASSUME NEW i \in DOMAIN t, NEW j \in DOMAIN t, i < j, t[i] = d, t[j] = c
                 PROVE  Older(s, d, c) \/ (d \in Elements(s) /\ c = x)
    BY DEF Older
  <2>2. i \in DOMAIN s /\ s[i] = d
    BY <1>1, <2>1
  <2>3. j \in DOMAIN s \/ j = Len(s) + 1
    BY <1>1
  <2>4. QED
    BY <1>1, <2>1, <2>2, <2>3 DEF Older, Elements
<1>5. QED
  BY <1>2, <1>3, <1>4 DEF t

\* Erasing keeps the order of the rest.
LEMMA OlderErase ==
    ASSUME NEW S, NEW s \in Seq(S), NEW i \in DOMAIN s, NEW k \in DOMAIN Erase(s, i),
           NEW l \in DOMAIN Erase(s, i), k < l
    PROVE  \E m, n \in DOMAIN s : m < n /\ Erase(s, i)[k] = s[m] /\ Erase(s, i)[l] = s[n]
<1> DEFINE at(j) == IF j < i THEN j ELSE j + 1
<1>1. /\ Len(s) \in Nat /\ DOMAIN s = 1 .. Len(s)
      /\ i \in 1 .. Len(s)
      /\ DOMAIN Erase(s, i) = 1 .. Len(s) - 1
      /\ \A j \in 1 .. Len(s) - 1 : Erase(s, i)[j] = s[at(j)]
  BY DEF Erase
<1>2. /\ at(k) \in DOMAIN s /\ at(l) \in DOMAIN s /\ at(k) < at(l)
      /\ Erase(s, i)[k] = s[at(k)] /\ Erase(s, i)[l] = s[at(l)]
  BY <1>1
<1>3. QED
  BY <1>2

-----------------------------------------------------------------------------
(* How the writes, the fates and the calls move. *)

LEMMA OlderIs == \A c, d : OlderThan(d, c) <=> Older(written, d, c)
BY DEF OlderThan, Older

LEMMA CallerMoves ==
    ASSUME TypeOK, NEW c \in Calls, Caller(c), NEW d \in Commands, pc'[d] # pc[d]
    PROVE  /\ d = c
           /\ \/ pc[d] = "idle" /\ pc'[d] \in {"refused", "locked"} /\ SendCommand(d)
              \/ pc[d] = "locked" /\ pc'[d] \in {"written", "failed"} /\ WriteCommand(d)
              \/ pc[d] = "written" /\ pc'[d] = "pending" /\ InsertCommand(d)
              \/ pc[d] = "pending" /\ pc'[d] \in {"blocking", "timed"} /\ Wait(d)
              \/ pc[d] = "blocking" /\ pc'[d] = "returned" /\ Return(d)
              \/ pc[d] = "timed" /\ pc'[d] \in {"returned", "timedout"} /\ TimedReturn(d)
<1>1. pc \in [Calls -> {"idle", "locked", "written", "pending", "blocking",
                        "timed", "returned", "timedout", "refused", "failed"}]
  BY DEF TypeOK
<1>2. d \in Calls /\ d \notin Notifications
  BY ActorAssumption DEF Calls
<1>3. d = c
  BY <1>1, <1>2 DEF Caller, SendCommand, WriteCommand, InsertCommand, GetNotification, Wait,
                    Return, TimedReturn, Goto
<1>4. QED
  BY <1>1, <1>2, <1>3 DEF Caller, SendCommand, WriteCommand, InsertCommand, Wait, Return,
                          TimedReturn, Goto

\* Only callers move their calls.
LEMMA PcMoves ==
    ASSUME TypeOK, [Next]_vars, NEW d \in Commands, pc'[d] # pc[d]
    PROVE  /\ d \in Calls /\ Caller(d)
           /\ \/ pc[d] = "idle" /\ pc'[d] \in {"refused", "locked"} /\ SendCommand(d)
              \/ pc[d] = "locked" /\ pc'[d] \in {"written", "failed"} /\ WriteCommand(d)
              \/ pc[d] = "written" /\ pc'[d] = "pending" /\ InsertCommand(d)
              \/ pc[d] = "pending" /\ pc'[d] \in {"blocking", "timed"} /\ Wait(d)
              \/ pc[d] = "blocking" /\ pc'[d] = "returned" /\ Return(d)
              \/ pc[d] = "timed" /\ pc'[d] \in {"returned", "timedout"} /\ TimedReturn(d)
<1>1. ASSUME Run \/ User \/ Device \/ UNCHANGED vars PROVE pc' = pc
  BY <1>1 DEF Run, Read, Process, Deliver, Shutdown, User, Device, CheckStopped, ReadReport,
     ReadInterrupted, ReadFails, IgnoreForeign, MatchCommand, NoMatch, DeliverBegin,
     DeliverNotification, DeliverHandler, DeliverEnd, Leave, SweepCommands, SweepNotifications,
     SetStopped, InterruptRead, RegisterEventHandler, UnregisterEventHandler, Answer, Lose,
     SendUnsolicited, Unplug, vars, callVars
<1>2. PICK c \in Calls : Caller(c)
  BY <1>1 DEF Next
<1>3. QED
  BY <1>2, CallerMoves

\* What a step does to the requests that were written and to their fates.
LEMMA FateMoves ==
    ASSUME TypeOK, [Next]_vars
    PROVE  \/ UNCHANGED <<written, fate>>
           \/ \E c \in Commands : /\ WriteCommand(c) /\ pc[c] = "locked"
                                  /\ pc' = [pc EXCEPT ![c] = "written"]
                                  /\ written' = Append(written, c)
                                  /\ fate' = [fate EXCEPT ![c] = "queued"]
           \/ /\ UNCHANGED <<written, pc, commands, response>>
              /\ \E c \in Commands : /\ NextOfItsKey(c)
                                     /\ \/ /\ fate' = [fate EXCEPT ![c] = "answered"]
                                           /\ \E kind \in {"answer", "error"} : Answer(c, kind)
                                        \/ /\ fate' = [fate EXCEPT ![c] = "lost"]
                                           /\ Lose(c)
BY DEF Next, Caller, SendCommand, WriteCommand, InsertCommand, GetNotification, Wait, Return,
   TimedReturn, Goto, Run, Read, Process, Deliver, Shutdown, User, Device, CheckStopped, ReadReport,
   ReadInterrupted, ReadFails, IgnoreForeign, MatchCommand, NoMatch, DeliverBegin,
   DeliverNotification, DeliverHandler, DeliverEnd, Leave, SweepCommands, SweepNotifications,
   SetStopped, InterruptRead, RegisterEventHandler, UnregisterEventHandler, Answer, Lose,
   SendUnsolicited, Unplug, vars, callVars, deviceVars

LEMMA CommandsMove ==
    ASSUME TypeOK, [Next]_vars
    PROVE  \/ commands' = commands
           \/ \E c \in Commands : InsertCommand(c)
           \/ \E i \in DOMAIN commands : commands' = Erase(commands, i) /\ written' = written
<1>1. ASSUME NEW c \in Calls, TimedReturn(c)
      PROVE  \/ commands' = commands
             \/ \E i \in DOMAIN commands : commands' = Erase(commands, i) /\ written' = written
  <2>1. written' = written
    BY <1>1 DEF TimedReturn, deviceVars
  <2>2. CASE response[c].kind = "none"
    BY <1>1, <2>1, <2>2, PositionFound DEF TimedReturn, Cancel
  <2>3. CASE response[c].kind # "none"
    BY <1>1, <2>3 DEF TimedReturn
  <2>4. QED
    BY <2>2, <2>3
<1>2. CASE MatchCommand
  BY <1>2 DEF MatchCommand, deviceVars
<1>3. CASE \E c \in Calls : Caller(c)
  BY <1>1, <1>3 DEF Caller, SendCommand, WriteCommand, GetNotification, Wait, Return
<1>4. CASE User \/ Device \/ UNCHANGED vars
  BY <1>4 DEF User, Device, SetStopped, InterruptRead, RegisterEventHandler,
     UnregisterEventHandler, Answer, Lose, SendUnsolicited, Unplug, vars, callVars
<1>5. CASE Run /\ ~MatchCommand
  BY <1>5 DEF Run, Read, Process, Deliver, Shutdown, CheckStopped, ReadReport,
     ReadInterrupted, ReadFails, IgnoreForeign, NoMatch, DeliverBegin,
     DeliverNotification, DeliverHandler, DeliverEnd, Leave, SweepCommands, SweepNotifications,
     callVars
<1>6. QED
  BY <1>2, <1>3, <1>4, <1>5 DEF Next

\* A request that is about to be written was not written before.
LEMMA WritingFacts ==
    ASSUME TypeOK, WrittenInv, NEW c \in Commands, pc[c] = "locked"
    PROVE  /\ fate[c] = "none"
           /\ c \notin Elements(written)
           /\ Injective(Append(written, c))
           /\ Elements(Append(written, c)) = Elements(written) \cup {c}
           /\ Append(written, c) \in Seq(Commands)
           /\ Append(written, c) # <<>>
           /\ Append(written, c)[Len(Append(written, c))] = c
<1>1. fate[c] = "none" /\ c \notin Elements(written) /\ Injective(written)
  BY DEF WrittenInv, Sent
<1>2. written \in Seq(Commands)
  BY DEF TypeOK
<1>3. QED
  BY <1>1, <1>2, AppendAdds, AppendFacts

LEMMA FateStep ==
    ASSUME TypeOK, WrittenInv, [Next]_vars, NEW d \in Commands
    PROVE  /\ d \in Elements(written)' <=> fate'[d] # "none"
           /\ fate'[d] # "none" <=> pc'[d] \in Sent
<1>0. /\ fate \in [Commands -> {"none", "queued", "answered", "lost"}]
      /\ pc \in [Calls -> {"idle", "locked", "written", "pending", "blocking",
                          "timed", "returned", "timedout", "refused", "failed"}]
      /\ d \in Calls
  BY DEF TypeOK, Calls
<1>1. /\ d \in Elements(written) <=> fate[d] # "none"
      /\ fate[d] # "none" <=> pc[d] \in Sent
  BY DEF WrittenInv
<1>2. CASE UNCHANGED <<written, fate>>
  <2>1. d \in Elements(written)' <=> fate'[d] # "none"
    BY <1>1, <1>2 DEF Elements
  <2>2. ASSUME pc'[d] # pc[d] PROVE pc'[d] \in Sent <=> pc[d] \in Sent
    <3>1. CASE WriteCommand(d) /\ pc[d] = "locked"
      <4>1. fate[d] = "none"
        BY <3>1, WritingFacts
      <4>2. pc'[d] = "failed"
        BY <1>0, <1>2, <3>1, <4>1 DEF WriteCommand, Goto
      <4>3. QED
        BY <3>1, <4>2 DEF Sent
    <3>2. CASE ~(WriteCommand(d) /\ pc[d] = "locked")
      BY <2>2, <3>2, PcMoves DEF Sent
    <3>3. QED
      BY <3>1, <3>2
  <2>3. QED
    BY <1>1, <1>2, <2>1, <2>2
<1>3. ASSUME NEW c \in Commands, pc[c] = "locked", pc' = [pc EXCEPT ![c] = "written"],
             written' = Append(written, c), fate' = [fate EXCEPT ![c] = "queued"]
      PROVE  /\ d \in Elements(written)' <=> fate'[d] # "none"
             /\ fate'[d] # "none" <=> pc'[d] \in Sent
  <2>1. Elements(written)' = Elements(written) \cup {c}
    BY <1>3, WritingFacts DEF Elements
  <2>2. QED
    BY <1>0, <1>1, <1>3, <2>1 DEF Sent
<1>4. ASSUME UNCHANGED <<written, pc>>, NEW c \in Commands, fate[c] = "queued",
             NEW f \in {"answered", "lost"}, fate' = [fate EXCEPT ![c] = f]
      PROVE  /\ d \in Elements(written)' <=> fate'[d] # "none"
             /\ fate'[d] # "none" <=> pc'[d] \in Sent
  <2>1. fate'[d] # "none" <=> fate[d] # "none"
    BY <1>0, <1>4
  <2>2. QED
    BY <1>1, <1>4, <2>1 DEF Elements
<1>5. QED
  BY <1>2, <1>3, <1>4, FateMoves DEF NextOfItsKey

LEMMA WrittenInit == Init => WrittenInv /\ FateInv
<1> SUFFICES ASSUME Init PROVE WrittenInv /\ FateInv
  OBVIOUS
<1>1. DOMAIN written = {} /\ DOMAIN commands = {}
  BY DEF Init
<1>2. QED
  BY <1>1 DEF Init, WrittenInv, FateInv, OlderThan, Injective, Elements, Sent, Calls

LEMMA OlderGrows ==
    ASSUME TypeOK, WrittenInv, [Next]_vars, NEW c \in Commands, NEW d \in Commands
    PROVE  /\ OlderThan(d, c) => OlderThan(d, c)'
           /\ OlderThan(d, c)' => OlderThan(d, c) \/ (fate[c] = "none" /\ fate'[c] = "queued")
<1>1. CASE written' = written
  BY <1>1 DEF OlderThan
<1>2. ASSUME NEW e \in Commands, pc[e] = "locked",
             written' = Append(written, e), fate' = [fate EXCEPT ![e] = "queued"]
      PROVE  /\ OlderThan(d, c) => OlderThan(d, c)'
             /\ OlderThan(d, c)' => OlderThan(d, c) \/ (fate[c] = "none" /\ fate'[c] = "queued")
  <2>1. fate[e] = "none" /\ fate'[e] = "queued"
    BY <1>2, WritingFacts DEF TypeOK
  <2>2. OlderThan(d, c)' <=> Older(Append(written, e), d, c)
    BY <1>2 DEF OlderThan, Older
  <2>3. OlderThan(d, c) <=> Older(written, d, c)
    BY OlderIs
  <2>4. QED
    BY <2>1, <2>2, <2>3, OlderAppend DEF TypeOK
<1>3. QED
  BY <1>1, <1>2, FateMoves

LEMMA MutexStep ==
    ASSUME TypeOK, WrittenInv, [Next]_vars, NEW c \in Commands, NEW d \in Commands,
           pc'[c] \in {"locked", "written"}, pc'[d] \in {"locked", "written"}
    PROVE  c = d
<1>1. ASSUME NEW e \in Commands, pc'[e] \in {"locked", "written"}
      PROVE  \/ pc[e] \in {"locked", "written"}
             \/ SendCommand(e) /\ CommandMutexFree
  BY <1>1, PcMoves DEF SendCommand
<1>2. CASE pc[c] \in {"locked", "written"} /\ pc[d] \in {"locked", "written"}
  BY <1>2 DEF WrittenInv
<1>3. CASE CommandMutexFree /\ SendCommand(c)
  BY <1>1, <1>3 DEF CommandMutexFree, SendCommand, Goto, TypeOK, Calls
<1>4. CASE CommandMutexFree /\ SendCommand(d)
  BY <1>1, <1>4 DEF CommandMutexFree, SendCommand, Goto, TypeOK, Calls
<1>5. QED
  BY <1>1, <1>2, <1>3, <1>4

\* The last request written is the one of the caller that holds the mutex.
LEMMA LastStep ==
    ASSUME TypeOK, WrittenInv, [Next]_vars, NEW c \in Commands, pc'[c] = "written"
    PROVE  written' # <<>> /\ written'[Len(written')] = c
<1>1. CASE pc[c] = "written"
  <2>1. written # <<>> /\ written[Len(written)] = c
    BY <1>1 DEF WrittenInv
  <2>2. ASSUME NEW e \in Commands, pc[e] = "locked", pc' = [pc EXCEPT ![e] = "written"]
        PROVE  FALSE
    <3>1. e = c
      BY <1>1, <2>2 DEF WrittenInv
    <3>2. QED
      BY <1>1, <2>2, <3>1
  <2>3. written' = written
    BY <2>2, FateMoves
  <2>4. QED
    BY <2>1, <2>3
<1>2. CASE pc[c] # "written"
  <2>1. WriteCommand(c) /\ pc[c] = "locked" /\ c \in Calls
    BY <1>2, PcMoves
  <2>2. written' = Append(written, c)
    BY <2>1 DEF WriteCommand, Goto, TypeOK
  <2>3. QED
    BY <2>1, <2>2, WritingFacts
<1>3. QED
  BY <1>1, <1>2

\* The list of commands keeps the order of the writes.
LEMMA ListOrderStep ==
    ASSUME TypeOK, WrittenInv, PromiseInv, [Next]_vars,
           NEW i \in DOMAIN commands', NEW j \in DOMAIN commands', i < j
    PROVE  Older(written', commands'[i], commands'[j])
<1>1. commands \in Seq(Commands) /\ written \in Seq(Commands)
  BY DEF TypeOK
<1>2. \A m, n \in DOMAIN commands : m < n => Older(written, commands[m], commands[n])
  BY OlderIs DEF WrittenInv
<1>3. \A d, c \in Commands : Older(written, d, c) => Older(written', d, c)
  BY OlderGrows DEF OlderThan, Older
<1>4. CASE commands' = commands
  <2>1. commands[i] \in Commands /\ commands[j] \in Commands
    BY <1>1, <1>4
  <2>2. QED
    BY <1>2, <1>3, <1>4, <2>1
<1>5. ASSUME NEW c \in Commands, InsertCommand(c)
      PROVE  Older(written', commands'[i], commands'[j])
  <2>1. pc[c] = "written" /\ commands' = Append(commands, c) /\ written' = written
    BY <1>5 DEF InsertCommand, deviceVars
  <2>2. /\ Len(commands) \in Nat
        /\ DOMAIN commands = 1 .. Len(commands)
        /\ DOMAIN commands' = 1 .. Len(commands) + 1
        /\ \A k \in DOMAIN commands : commands'[k] = commands[k]
        /\ commands'[Len(commands) + 1] = c
    BY <1>1, <2>1, AppendFacts
  <2>3. i \in DOMAIN commands /\ (j \in DOMAIN commands \/ j = Len(commands) + 1)
    BY <2>2
  <2>4. CASE j \in DOMAIN commands
    <3>1. Older(written, commands[i], commands[j])
      BY <1>2, <2>3, <2>4
    <3>2. commands'[i] = commands[i] /\ commands'[j] = commands[j]
      BY <2>2, <2>3, <2>4
    <3>3. QED
      BY <2>1, <3>1, <3>2
  <2>5. CASE j = Len(commands) + 1
    <3>1. /\ commands'[i] = commands[i] /\ commands'[j] = c
          /\ commands[i] \in Commands
      BY <1>1, <2>2, <2>3, <2>5
    <3>2. commands[i] \in Elements(written)
      <4>1. pc[commands[i]] \in Sent
        BY <2>3, <3>1 DEF PromiseInv, CommandInv, Elements, Sent
      <4>2. QED
        BY <3>1, <4>1 DEF WrittenInv
    <3>3. PICK m \in DOMAIN written : written[m] = commands[i]
      BY <3>2 DEF Elements
    <3>4. commands[i] # c
      <4>1. pc[commands[i]] # "written"
        BY <2>3, <3>1 DEF PromiseInv, CommandInv, Elements
      <4>2. QED
        BY <2>1, <4>1
    <3>5. /\ written # <<>> /\ written[Len(written)] = c
          /\ Len(written) \in DOMAIN written /\ m \in 1 .. Len(written)
      BY <1>1, <2>1 DEF WrittenInv
    <3>6. m < Len(written)
      BY <1>1, <3>3, <3>4, <3>5
    <3>7. QED
      BY <2>1, <3>1, <3>3, <3>5, <3>6 DEF Older
  <2>6. QED
    BY <2>3, <2>4, <2>5
<1>6. ASSUME NEW k \in DOMAIN commands, commands' = Erase(commands, k), written' = written
      PROVE  Older(written', commands'[i], commands'[j])
  <2>1. PICK m, n \in DOMAIN commands :
          m < n /\ commands'[i] = commands[m] /\ commands'[j] = commands[n]
    BY <1>1, <1>6, OlderErase
  <2>2. QED
    BY <1>2, <1>6, <2>1
<1>7. QED
  BY <1>4, <1>5, <1>6, CommandsMove

LEMMA WrittenStep == TypeOK /\ PromiseInv /\ WrittenInv /\ [Next]_vars => WrittenInv'
<1> SUFFICES ASSUME TypeOK, PromiseInv, WrittenInv, [Next]_vars PROVE WrittenInv'
  OBVIOUS
<1>1. Injective(written)'
  <2>1. CASE written' = written
    BY <2>1 DEF WrittenInv, Injective
  <2>2. ASSUME NEW c \in Commands, pc[c] = "locked", written' = Append(written, c)
        PROVE  Injective(written)'
    <3>1. Injective(Append(written, c))
      BY <2>2, WritingFacts
    <3>2. QED
      BY <2>2, <3>1 DEF Injective
  <2>3. QED
    BY <2>1, <2>2, FateMoves
<1>2. \A i, j \in DOMAIN commands' :
        i < j => Older(written', commands'[i], commands'[j])
  BY ListOrderStep
<1>3. (\A i, j \in DOMAIN commands : i < j => OlderThan(commands[i], commands[j]))'
  BY <1>2 DEF OlderThan, Older
<1>4. \A c \in Commands :
        /\ c \in Elements(written)' <=> fate'[c] # "none"
        /\ fate'[c] # "none" <=> pc'[c] \in Sent
        /\ pc'[c] = "written" => written' # <<>> /\ written'[Len(written')] = c
  BY FateStep, LastStep
<1>5. \A c, d \in Commands :
        pc'[c] \in {"locked", "written"} /\ pc'[d] \in {"locked", "written"} => c = d
  BY MutexStep
<1>6. QED
  BY <1>1, <1>3, <1>4, <1>5 DEF WrittenInv

LEMMA FateInvStep == TypeOK /\ WrittenInv /\ FateInv /\ [Next]_vars => FateInv'
<1> SUFFICES ASSUME TypeOK, WrittenInv, FateInv, [Next]_vars,
                    NEW c \in Commands, NEW d \in Commands, KeyOf[d] = KeyOf[c],
                    OlderThan(d, c)', fate'[c] \in {"answered", "lost"}
             PROVE  fate'[d] # "queued"
  BY DEF FateInv, OlderThan
<1>0. fate \in [Commands -> {"none", "queued", "answered", "lost"}]
  BY DEF TypeOK
<1>1. OlderThan(d, c)
  BY OlderGrows
<1>2. fate[c] \in {"answered", "lost"} => fate[d] # "queued"
  BY <1>1 DEF FateInv
<1>3. d \in Elements(written) /\ fate[d] # "none"
  <2>1. d \in Elements(written)
    BY <1>1, OlderIs, OlderElements DEF TypeOK
  <2>2. QED
    BY <2>1 DEF WrittenInv
<1>4. CASE UNCHANGED fate
  BY <1>2, <1>4
<1>5. ASSUME NEW e \in Commands, pc[e] = "locked", fate' = [fate EXCEPT ![e] = "queued"]
      PROVE  fate'[d] # "queued"
  <2>1. fate[e] = "none"
    BY <1>5, WritingFacts
  <2>2. fate'[d] = fate[d] /\ fate'[c] = fate[c]
    BY <1>0, <1>3, <1>5, <2>1
  <2>3. QED
    BY <1>2, <2>2
<1>6. ASSUME NEW e \in Commands, NextOfItsKey(e), NEW f \in {"answered", "lost"},
             fate' = [fate EXCEPT ![e] = f]
      PROVE  fate'[d] # "queued"
  <2>1. e = c => fate[d] # "queued"
    BY <1>1, <1>6 DEF NextOfItsKey
  <2>2. QED
    BY <1>0, <1>2, <1>6, <2>1
<1>7. QED
  BY <1>4, <1>5, <1>6, FateMoves

-----------------------------------------------------------------------------
(* The queue of reports. *)

LEMMA InputFacts ==
    ASSUME TypeOK
    PROVE  /\ Len(input) \in Nat
           /\ DOMAIN input = 1 .. Len(input)
           /\ \A i \in 1 .. Len(input) : /\ input[i] \in Report
                                         /\ input[i].origin \in Commands \cup {Nobody}
           /\ report \in Report
           /\ report.origin \in Commands \cup {Nobody}
           /\ report.kind \in {"answer", "error", "event", "foreign"}
<1>1. input \in Seq(Report) /\ report \in Report
  BY DEF TypeOK
<1>2. \A r \in Report : /\ r.origin \in Commands \cup {Nobody}
                        /\ r.kind \in {"answer", "error", "event", "foreign"}
  BY DEF Report
<1>3. QED
  BY <1>1, <1>2

\* What a step does to the queue and to the report that is processed.
LEMMA InputMoves ==
    ASSUME [Next]_vars
    PROVE  \/ /\ input' = input
              /\ runPc' = "processing" => runPc = "processing" /\ report' = report
           \/ ReadReport
           \/ \E c \in Commands, kind \in {"answer", "error"} : Answer(c, kind)
           \/ \E k \in EventKeys, kind \in {"event", "foreign"} : SendUnsolicited(kind, k)
BY DEF Next, Caller, SendCommand, WriteCommand, InsertCommand, GetNotification, Wait, Return,
   TimedReturn, Run, Read, Process, Deliver, Shutdown, User, Device, CheckStopped,
   ReadInterrupted, ReadFails, IgnoreForeign, MatchCommand, NoMatch, Done, DeliverBegin,
   DeliverNotification, DeliverHandler, DeliverEnd, Leave, SweepCommands, SweepNotifications,
   SetStopped, InterruptRead, RegisterEventHandler, UnregisterEventHandler, Lose, Unplug,
   vars, runVars, deviceVars

LEMMA FateKept ==
    ASSUME TypeOK, WrittenInv, [Next]_vars, NEW c \in Commands
    PROVE  /\ fate[c] \in {"answered", "lost"} => fate'[c] = fate[c]
           /\ pc[c] = "timedout" => pc'[c] = "timedout"
           /\ Disturbed(c) => Disturbed(c)'
<1>0. fate \in [Commands -> {"none", "queued", "answered", "lost"}]
  BY DEF TypeOK
<1>1. ASSUME NEW d \in Commands
      PROVE  /\ fate[d] \in {"answered", "lost"} => fate'[d] = fate[d]
             /\ pc[d] = "timedout" => pc'[d] = "timedout"
  <2>1. fate[d] \in {"answered", "lost"} => fate'[d] = fate[d]
    <3>1. ASSUME NEW e \in Commands, pc[e] = "locked", fate' = [fate EXCEPT ![e] = "queued"]
          PROVE  fate[d] \in {"answered", "lost"} => fate'[d] = fate[d]
      BY <1>0, <3>1, WritingFacts
    <3>2. QED
      BY <1>0, <3>1, FateMoves DEF NextOfItsKey
  <2>2. pc[d] = "timedout" => pc'[d] = "timedout"
    BY PcMoves
  <2>3. QED
    BY <2>1, <2>2
<1>2. ASSUME Disturbed(c) PROVE Disturbed(c)'
  <2>1. PICK d \in Commands : /\ KeyOf[d] = KeyOf[c]
                              /\ d = c \/ OlderThan(d, c)
                              /\ fate[d] = "lost" \/ pc[d] = "timedout"
    BY <1>2 DEF Disturbed
  <2>2. OlderThan(d, c) => OlderThan(d, c)'
    BY OlderGrows
  <2>3. fate'[d] = "lost" \/ pc'[d] = "timedout"
    BY <1>1, <2>1
  <2>4. QED
    BY <2>1, <2>2, <2>3 DEF Disturbed
<1>3. QED
  BY <1>1, <1>2

LEMMA BeforeKept ==
    ASSUME TypeOK, WrittenInv, [Next]_vars, NEW r \in Report, NEW s \in Report,
           Before(written, r, s)
    PROVE  Before(written', r, s)
<1>1. /\ r.origin \in Commands \cup {Nobody}
      /\ s.origin \in Commands \cup {Nobody}
  BY DEF Report
<1>2. \A c, d \in Commands : Older(written, d, c) => Older(written', d, c)
  BY OlderGrows DEF OlderThan, Older
<1>3. QED
  BY <1>1, <1>2 DEF Before

\* The parts of InputInv, of reports and of the writes and fates they refer to.
Fit(r, f) == Genuine(r) /\ (r.origin # Nobody => f[r.origin] = "answered")

LEMMA FitKept ==
    ASSUME TypeOK, WrittenInv, [Next]_vars, NEW r \in Report, Fit(r, fate)
    PROVE  Fit(r, fate')
<1>1. r.origin \in Commands \cup {Nobody}
  BY DEF Report
<1>2. QED
  BY <1>1, FateKept DEF Fit

LEMMA InputIs ==
    InputInv <=>
        /\ \A i \in 1 .. Len(input) : Fit(input[i], fate)
        /\ \A i, j \in 1 .. Len(input) : i < j => Before(written, input[i], input[j])
        /\ runPc = "processing" =>
              /\ Fit(report, fate)
              /\ \A i \in 1 .. Len(input) : Before(written, report, input[i])
BY DEF InputInv, Fit

\* A new report comes after all those that are there.
LEMMA Queued ==
    ASSUME TypeOK, WrittenInv, InputInv, [Next]_vars, NEW r \in Report,
           input' = Append(input, r), UNCHANGED <<runPc, report>>,
           Fit(r, fate'),
           \A i \in 1 .. Len(input) : Before(written', input[i], r),
           runPc = "processing" => Before(written', report, r)
    PROVE  InputInv'
<1>1. /\ Len(input) \in Nat /\ Len(input') = Len(input) + 1
      /\ \A i \in 1 .. Len(input) : input'[i] = input[i]
      /\ input'[Len(input) + 1] = r
  BY AppendFacts DEF TypeOK
<1>2. \A i \in 1 .. Len(input') : i \in 1 .. Len(input) \/ i = Len(input) + 1
  BY <1>1
<1>3. \A i \in 1 .. Len(input') : Fit(input'[i], fate')
  BY <1>1, <1>2, InputIs, InputFacts, FitKept
<1>4. ASSUME NEW i \in 1 .. Len(input'), NEW j \in 1 .. Len(input'), i < j
      PROVE  Before(written', input'[i], input'[j])
  <2>1. i \in 1 .. Len(input)
    BY <1>1, <1>4
  <2>2. CASE j \in 1 .. Len(input)
    <3>1. Before(written, input[i], input[j])
      BY <1>4, <2>1, <2>2, InputIs
    <3>2. QED
      BY <1>1, <2>1, <2>2, <3>1, InputFacts, BeforeKept
  <2>3. CASE j = Len(input) + 1
    BY <1>1, <2>1, <2>3
  <2>4. QED
    BY <1>2, <2>2, <2>3
<1>5. ASSUME runPc' = "processing"
      PROVE  /\ Fit(report', fate')
             /\ \A i \in 1 .. Len(input') : Before(written', report', input'[i])
  <2>1. Fit(report, fate) /\ \A i \in 1 .. Len(input) : Before(written, report, input[i])
    BY <1>5, InputIs
  <2>2. QED
    BY <1>1, <1>2, <1>5, <2>1, InputFacts, FitKept, BeforeKept
<1>6. QED
  BY <1>3, <1>4, <1>5 DEF InputInv, Fit

LEMMA ReplyType ==
    ASSUME NEW c \in Commands, NEW kind \in {"answer", "error"}
    PROVE  LET r == [kind |-> kind, key |-> KeyOf[c], origin |-> c] IN
           r \in Report /\ Genuine(r) /\ r.origin = c /\ c # Nobody
BY ActorAssumption, KeyAssumption DEF Report, Genuine

LEMMA UnsolicitedType ==
    ASSUME NEW k \in EventKeys, NEW kind \in {"event", "foreign"}
    PROVE  LET r == [kind |-> kind, key |-> k, origin |-> Nobody] IN
           r \in Report /\ Genuine(r) /\ r.origin = Nobody
BY KeyAssumption DEF Report, Genuine

\* An answer comes after those to the earlier requests of its key, so no other
\* reply of that key that was sent is to a later one.
LEMMA AnswerComesLast ==
    ASSUME TypeOK, WrittenInv, FateInv, NEW c \in Commands, NextOfItsKey(c),
           NEW s \in Report, Fit(s, fate), NEW r \in Report, r.origin = c
    PROVE  Before(written, s, r)
<1> SUFFICES ASSUME s.origin # Nobody, c # Nobody, KeyOf[s.origin] = KeyOf[c]
             PROVE  Older(written, s.origin, c)
  BY DEF Before
<1> DEFINE e == s.origin
<1>1. e \in Commands /\ fate[e] = "answered" /\ fate[c] = "queued"
  BY DEF Report, Fit, NextOfItsKey
<1>2. e # c /\ e \in Elements(written) /\ c \in Elements(written)
  BY <1>1 DEF WrittenInv
<1>3. ~Older(written, c, e)
  BY <1>1, OlderIs DEF FateInv
<1>4. QED
  BY <1>2, <1>3, OlderTotal DEF TypeOK

LEMMA InputStep == TypeOK /\ WrittenInv /\ FateInv /\ InputInv /\ [Next]_vars => InputInv'
<1> SUFFICES ASSUME TypeOK, WrittenInv, FateInv, InputInv, [Next]_vars PROVE InputInv'
  OBVIOUS
<1>1. CASE /\ input' = input
           /\ runPc' = "processing" => runPc = "processing" /\ report' = report
  <2>1. \A i \in 1 .. Len(input') : Fit(input'[i], fate')
    BY <1>1, InputIs, InputFacts, FitKept
  <2>2. \A i, j \in 1 .. Len(input') : i < j => Before(written', input'[i], input'[j])
    BY <1>1, InputIs, InputFacts, BeforeKept
  <2>3. ASSUME runPc' = "processing"
        PROVE  /\ Fit(report', fate')
               /\ \A i \in 1 .. Len(input') : Before(written', report', input'[i])
    BY <1>1, <2>3, InputIs, InputFacts, FitKept, BeforeKept
  <2>4. QED
    BY <2>1, <2>2, <2>3 DEF InputInv, Fit
<1>2. CASE ReadReport
  <2>1. /\ input # <<>> /\ input' = Tail(input) /\ report' = Head(input)
        /\ UNCHANGED <<written, fate>>
    BY <1>2 DEF ReadReport
  <2>2. /\ Len(input) \in Nat \ {0} /\ Len(input') = Len(input) - 1
        /\ \A i \in 1 .. Len(input) - 1 : input'[i] = input[i + 1]
        /\ report' = input[1]
    BY <2>1, TailFacts DEF TypeOK
  <2>3. \A i \in 1 .. Len(input') : i + 1 \in 1 .. Len(input) /\ 1 < i + 1
    BY <2>2
  <2>4. \A i \in 1 .. Len(input') : Fit(input'[i], fate')
    BY <2>1, <2>2, <2>3, InputIs
  <2>5. ASSUME NEW i \in 1 .. Len(input'), NEW j \in 1 .. Len(input'), i < j
        PROVE  Before(written', input'[i], input'[j])
    <3>1. i + 1 < j + 1 /\ i + 1 \in 1 .. Len(input) /\ j + 1 \in 1 .. Len(input)
      BY <2>3, <2>5
    <3>2. Before(written, input[i + 1], input[j + 1])
      BY <3>1, InputIs
    <3>3. QED
      BY <2>1, <2>2, <3>2
  <2>6. 1 \in 1 .. Len(input)
    BY <2>2
  <2>7. Fit(report', fate')
    BY <2>1, <2>2, <2>6, InputIs
  <2>8. ASSUME NEW i \in 1 .. Len(input')
        PROVE  Before(written', report', input'[i])
    <3>1. Before(written, input[1], input[i + 1])
      BY <2>3, <2>6, InputIs
    <3>2. QED
      BY <2>1, <2>2, <3>1
  <2>9. QED
    BY <2>4, <2>5, <2>7, <2>8 DEF InputInv, Fit
<1>3. ASSUME NEW c \in Commands, NEW kind \in {"answer", "error"}, Answer(c, kind)
      PROVE  InputInv'
  <2> DEFINE r == [kind |-> kind, key |-> KeyOf[c], origin |-> c]
  <2>1. /\ NextOfItsKey(c) /\ fate' = [fate EXCEPT ![c] = "answered"]
        /\ input' = Append(input, r)
        /\ UNCHANGED <<written, runPc, report>>
    BY <1>3 DEF Answer, runVars
  <2>2. r \in Report /\ Genuine(r) /\ r.origin = c
    BY ReplyType
  <2> HIDE DEF r
  <2>3. Fit(r, fate')
    BY <2>1, <2>2 DEF Fit, TypeOK
  <2>4. \A i \in 1 .. Len(input) : Before(written', input[i], r)
    BY <2>1, <2>2, InputIs, InputFacts, AnswerComesLast
  <2>5. runPc = "processing" => Before(written', report, r)
    BY <2>1, <2>2, InputIs, InputFacts, AnswerComesLast
  <2>6. QED
    BY <2>1, <2>2, <2>3, <2>4, <2>5, Queued
<1>4. ASSUME NEW k \in EventKeys, NEW kind \in {"event", "foreign"}, SendUnsolicited(kind, k)
      PROVE  InputInv'
  <2> DEFINE r == [kind |-> kind, key |-> k, origin |-> Nobody]
  <2>1. input' = Append(input, r) /\ UNCHANGED <<written, fate, runPc, report>>
    BY <1>4 DEF SendUnsolicited, runVars
  <2>2. r \in Report /\ Genuine(r) /\ r.origin = Nobody
    BY UnsolicitedType
  <2> HIDE DEF r
  <2>3. QED
    BY <2>1, <2>2, Queued DEF Fit, Before
<1>5. QED
  BY <1>1, <1>2, <1>3, <1>4, InputMoves

-----------------------------------------------------------------------------
(* What processReport does with a reply. *)

\* A command that has been sent and is in no list was answered or timed out.
LEMMA LeftTheList ==
    ASSUME TypeOK, PromiseInv, WrittenInv, ReplyInv, runPc = "processing", CommandMutexFree,
           NEW c \in Commands, fate[c] # "none", c \notin Elements(commands)
    PROVE  pc[c] = "timedout" \/ response[c].origin # Nobody
<1>1. pc[c] \in {"pending", "blocking", "timed", "returned", "timedout"}
  BY DEF WrittenInv, Sent, CommandMutexFree
<1>2. SUFFICES ASSUME pc[c] # "timedout" PROVE response[c].origin # Nobody
  OBVIOUS
<1>3. response[c].kind # "none"
  <2>1. CASE pc[c] = "returned"
    BY <2>1 DEF PromiseInv, CallInv, Calls
  <2>2. CASE pc[c] # "returned"
    BY <1>1, <1>2, <2>2 DEF PromiseInv, CommandInv, Unresolved, HasFuture
  <2>3. QED
    BY <2>1, <2>2
<1>4. response[c].kind # "exception"
  BY DEF ReplyInv
<1>5. QED
  BY <1>3, <1>4 DEF ReplyInv

\* The reply to a command that is not in the list any more finds it disturbed.
LEMMA Unlisted ==
    ASSUME TypeOK, PromiseInv, WrittenInv, InputInv, ReplyInv, runPc = "processing",
           CommandMutexFree, NEW d \in Commands, report.origin = d, d \notin Elements(commands)
    PROVE  Disturbed(d)
<1>1. d # Nobody /\ fate[d] = "answered" /\ InFlight(d)
  BY ActorAssumption DEF InputInv, InFlight
<1>2. CASE pc[d] = "timedout"
  BY <1>2 DEF Disturbed
<1>3. CASE response[d].origin # Nobody
  <2>1. response[d].origin \in Commands
    BY <1>3 DEF TypeOK, Outcome, Calls
  <2>2. QED
    BY <1>1, <2>1 DEF ReplyInv
<1>4. QED
  BY <1>1, <1>2, <1>3, LeftTheList

\* A command that is still in the list was not answered.
LEMMA Listed ==
    ASSUME TypeOK, PromiseInv, ReplyInv, runPc = "processing", NEW c \in Elements(commands)
    PROVE  /\ c \in Commands
           /\ response[c].kind = "none" /\ response[c].origin = Nobody
           /\ pc[c] \in {"pending", "blocking", "timed", "returned"}
<1>1. c \in Commands
  BY DEF TypeOK, Elements
<1>2. QED
  BY <1>1 DEF PromiseInv, CommandInv, ReplyInv

\* The first command of the list that matches a report takes the reply to a
\* request with the same key, and if it is not its own both were disturbed.
LEMMA FirstMatch ==
    ASSUME TypeOK, PromiseInv, WrittenInv, FateInv, InputInv, ReplyInv,
           runPc = "processing", report.kind # "foreign", CommandMutexFree,
           NEW i \in DOMAIN commands, IsFirstMatch(i)
    PROVE  LET c == commands[i]
               d == report.origin IN
           /\ c \in Commands /\ d \in Commands /\ d # Nobody /\ KeyOf[d] = KeyOf[c]
           /\ report.kind \in {"answer", "error"}
           /\ c # d => Disturbed(c) /\ Disturbed(d)
<1> DEFINE c == commands[i]
           d == report.origin
<1>1. /\ c \in Elements(commands) /\ c \in Commands
      /\ response[c].origin = Nobody
      /\ pc[c] \in {"pending", "blocking", "timed", "returned"}
      /\ c # Nobody
  <2>1. c \in Elements(commands)
    BY DEF Elements
  <2>2. QED
    BY <2>1, Listed, ActorAssumption
<1>2. KeyOf[c] = report.key
  BY DEF IsFirstMatch, IsMatch
<1>3. Genuine(report)
  BY DEF InputInv
<1>4. d # Nobody
  BY <1>1, <1>2, <1>3, RequestAssumption DEF Genuine
<1>5. d \in Commands /\ KeyOf[d] = KeyOf[c] /\ report.kind \in {"answer", "error"}
  BY <1>2, <1>3, <1>4, InputFacts DEF Genuine
<1>6. ASSUME c # d PROVE Disturbed(c) /\ Disturbed(d)
  <2>1. fate[d] = "answered" /\ fate[c] # "none"
    BY <1>1, <1>4 DEF InputInv, WrittenInv, Sent
  <2>2. c \in Elements(written) /\ d \in Elements(written)
    BY <1>1, <1>5, <2>1 DEF WrittenInv
  <2>3. written \in Seq(Commands) /\ Injective(written)
    BY DEF TypeOK, WrittenInv
  <2>4. \A e, f, g \in Commands : OlderThan(e, f) /\ OlderThan(f, g) => OlderThan(e, g)
    BY <2>3, OlderIs, OlderOrder
  <2>5. CASE OlderThan(d, c)
    <3>1. d \notin Elements(commands)
      <4>1. SUFFICES ASSUME NEW j \in DOMAIN commands, commands[j] = d PROVE FALSE
        BY DEF Elements
      <4>2. i \in Nat /\ j \in Nat /\ i # j
        BY <1>6, <4>1 DEF TypeOK
      <4>3. ~(j < i)
        BY <1>5, <1>2, <4>1 DEF IsFirstMatch, IsMatch
      <4>4. OlderThan(c, d)
        BY <4>1, <4>2, <4>3 DEF WrittenInv
      <4>5. QED
        BY <2>3, <2>5, <4>4, OlderIs, OlderOrder
    <3>2. Disturbed(d)
      BY <1>5, <3>1, Unlisted
    <3>3. PICK e \in Commands : /\ KeyOf[e] = KeyOf[d]
                                /\ e = d \/ OlderThan(e, d)
                                /\ fate[e] = "lost" \/ pc[e] = "timedout"
      BY <3>2 DEF Disturbed
    <3>4. OlderThan(e, c)
      BY <1>1, <1>5, <2>4, <2>5, <3>3
    <3>5. QED
      BY <1>5, <3>2, <3>3, <3>4 DEF Disturbed
  <2>6. CASE OlderThan(c, d)
    <3>1. fate[c] \in {"answered", "lost"}
      BY <1>1, <1>5, <2>1, <2>6 DEF FateInv, TypeOK
    <3>2. Disturbed(c)
      <4>1. CASE fate[c] = "lost"
        BY <1>1, <4>1 DEF Disturbed
      <4>2. CASE fate[c] = "answered"
        <5>1. ~InFlight(c)
          <6>1. ASSUME NEW k \in 1 .. Len(input), input[k].origin = c PROVE FALSE
            <7>1. Older(written, d, c)
              BY <1>1, <1>4, <1>5, <6>1 DEF InputInv, Before
            <7>2. QED
              BY <2>3, <2>6, <7>1, OlderIs, OlderOrder
          <6>2. QED
            BY <1>6, <6>1 DEF InFlight
        <5>2. QED
          BY <1>1, <4>2, <5>1 DEF ReplyInv
      <4>3. QED
        BY <3>1, <4>1, <4>2
    <3>3. PICK e \in Commands : /\ KeyOf[e] = KeyOf[c]
                                /\ e = c \/ OlderThan(e, c)
                                /\ fate[e] = "lost" \/ pc[e] = "timedout"
      BY <3>2 DEF Disturbed
    <3>4. OlderThan(e, d)
      BY <1>1, <1>5, <2>4, <2>6, <3>3
    <3>5. QED
      BY <1>5, <3>2, <3>3, <3>4 DEF Disturbed
  <2>7. QED
    BY <1>6, <2>2, <2>3, <2>5, <2>6, OlderIs, OlderTotal
<1>7. QED
  BY <1>1, <1>4, <1>5, <1>6

\* What a step does to the promise of a command.
LEMMA ReplyMoves ==
    ASSUME TypeOK, PromiseInv, [Next]_vars, NEW c \in Commands
    PROVE  \/ response'[c] = response[c]
           \/ /\ SweepCommands /\ c \in Elements(commands)
              /\ response[c].kind = "none" /\ response'[c] = Exception
           \/ /\ MatchCommand
              /\ \E i \in DOMAIN commands : /\ IsFirstMatch(i) /\ commands[i] = c
                                            /\ response'[c] = OutcomeOf(report)
<1>0. response \in [Calls -> Outcome] /\ c \in Calls /\ c \notin Notifications
  BY ActorAssumption DEF TypeOK, Calls
<1>1. CASE MatchCommand
  <2>1. PICK i \in DOMAIN commands :
          /\ IsFirstMatch(i)
          /\ response' = [response EXCEPT ![commands[i]] = OutcomeOf(report)]
    BY <1>1 DEF MatchCommand
  <2>2. QED
    BY <1>0, <1>1, <2>1
<1>2. CASE SweepCommands
  BY <1>0, <1>2 DEF SweepCommands, Fail, PromiseInv, CommandInv
<1>3. CASE SweepNotifications
  <2>1. c \notin notifications
    BY <1>0 DEF TypeOK
  <2>2. QED
    BY <1>0, <1>3, <2>1 DEF SweepNotifications, Fail
<1>4. ASSUME NEW n \in Notifications, DeliverNotification(n) PROVE response'[c] = response[c]
  BY <1>0, <1>4 DEF DeliverNotification
<1>5. CASE UNCHANGED response
  BY <1>5
<1>6. QED
  BY <1>1, <1>2, <1>3, <1>4, <1>5
     DEF Next, Caller, SendCommand, WriteCommand, InsertCommand, GetNotification, Wait, Return,
         TimedReturn, Run, Read, Process, Deliver, Shutdown, User, Device, CheckStopped,
         ReadReport, ReadInterrupted, ReadFails, IgnoreForeign, NoMatch, DeliverBegin,
         DeliverHandler, DeliverEnd, Leave, SetStopped, InterruptRead, RegisterEventHandler,
         UnregisterEventHandler, Answer, Lose, SendUnsolicited, Unplug, vars, callVars

\* A reply goes out of flight when processReport is done with it.
LEMMA FlightMoves ==
    ASSUME TypeOK, [Next]_vars, NEW c \in Commands
    PROVE  \/ InFlight(c)' <=> InFlight(c)
           \/ fate[c] = "queued" /\ InFlight(c)'
           \/ /\ runPc = "processing" /\ report.origin = c /\ ~(InFlight(c)' /\ ~InFlight(c))
              /\ IgnoreForeign \/ MatchCommand \/ NoMatch
<1>1. CASE /\ input' = input
           /\ runPc' = "processing" => runPc = "processing" /\ report' = report
  <2>1. CASE IgnoreForeign \/ MatchCommand \/ NoMatch
    <3>1. runPc = "processing" /\ runPc' # "processing"
      BY <2>1 DEF IgnoreForeign, MatchCommand, NoMatch, Done
    <3>2. QED
      BY <1>1, <2>1, <3>1 DEF InFlight
  <2>2. CASE ~(IgnoreForeign \/ MatchCommand \/ NoMatch)
    <3>1. runPc = "processing" => runPc' = "processing" /\ report' = report
      BY <2>2 DEF Next, Caller, SendCommand, WriteCommand, InsertCommand, GetNotification, Wait,
         Return, TimedReturn, Run, Read, Process, Deliver, Shutdown, User, Device, CheckStopped,
         ReadReport, ReadInterrupted, ReadFails, DeliverBegin, DeliverNotification,
         DeliverHandler, DeliverEnd, Leave, SweepCommands, SweepNotifications, SetStopped,
         InterruptRead, RegisterEventHandler, UnregisterEventHandler, Answer, Lose,
         SendUnsolicited, Unplug, vars, runVars
    <3>2. QED
      BY <1>1, <3>1 DEF InFlight
  <2>3. QED
    BY <2>1, <2>2
<1>2. CASE ReadReport
  <2>1. /\ input # <<>> /\ input' = Tail(input) /\ report' = Head(input)
        /\ runPc = "reading" /\ runPc' = "processing"
    BY <1>2 DEF ReadReport
  <2>2. /\ Len(input) \in Nat \ {0} /\ Len(input') = Len(input) - 1
        /\ \A i \in 1 .. Len(input) - 1 : input'[i] = input[i + 1]
        /\ report' = input[1]
    BY <2>1, TailFacts DEF TypeOK
  <2>3. ASSUME NEW i \in 1 .. Len(input), input[i].origin = c PROVE InFlight(c)'
    <3>1. i = 1 \/ (i - 1 \in 1 .. Len(input') /\ input'[i - 1] = input[i])
      BY <2>2
    <3>2. QED
      BY <2>1, <2>2, <2>3, <3>1 DEF InFlight
  <2>4. ASSUME NEW i \in 1 .. Len(input'), input'[i].origin = c PROVE InFlight(c)
    <3>1. i + 1 \in 1 .. Len(input) /\ input'[i] = input[i + 1]
      BY <2>2
    <3>2. QED
      BY <2>4, <3>1 DEF InFlight
  <2>5. report'.origin = c => InFlight(c)
    <3>1. 1 \in 1 .. Len(input)
      BY <2>2
    <3>2. QED
      BY <2>2, <3>1 DEF InFlight
  <2>6. QED
    BY <2>1, <2>3, <2>4, <2>5 DEF InFlight
<1>3. ASSUME NEW r \in Report, input' = Append(input, r), UNCHANGED <<runPc, report>>
      PROVE  InFlight(c)' <=> InFlight(c) \/ r.origin = c
  <2>1. /\ Len(input) \in Nat /\ Len(input') = Len(input) + 1
        /\ \A i \in 1 .. Len(input) : input'[i] = input[i]
        /\ input'[Len(input) + 1] = r
    BY <1>3, AppendFacts DEF TypeOK
  <2>2. \A i \in 1 .. Len(input') : i \in 1 .. Len(input) \/ i = Len(input) + 1
    BY <2>1
  <2>3. (1 .. Len(input)) \cup {Len(input) + 1} \subseteq 1 .. Len(input')
    BY <2>1
  <2>4. QED
    BY <1>3, <2>1, <2>2, <2>3 DEF InFlight
<1>4. ASSUME NEW e \in Commands, NEW kind \in {"answer", "error"}, Answer(e, kind)
      PROVE  (InFlight(c)' <=> InFlight(c)) \/ (fate[c] = "queued" /\ InFlight(c)')
  <2> DEFINE r == [kind |-> kind, key |-> KeyOf[e], origin |-> e]
  <2>1. /\ input' = Append(input, r) /\ UNCHANGED <<runPc, report>>
        /\ fate[e] = "queued"
    BY <1>4 DEF Answer, runVars, NextOfItsKey
  <2>2. r \in Report /\ r.origin = e
    BY ReplyType
  <2>3. InFlight(c)' <=> InFlight(c) \/ r.origin = c
    BY <1>3, <2>1, <2>2
  <2>4. QED
    BY <2>1, <2>2, <2>3
<1>5. ASSUME NEW k \in EventKeys, NEW kind \in {"event", "foreign"}, SendUnsolicited(kind, k)
      PROVE  InFlight(c)' <=> InFlight(c)
  <2> DEFINE r == [kind |-> kind, key |-> k, origin |-> Nobody]
  <2>1. input' = Append(input, r) /\ UNCHANGED <<runPc, report>>
    BY <1>5 DEF SendUnsolicited, runVars
  <2>2. r \in Report /\ r.origin # c
    BY UnsolicitedType, ActorAssumption
  <2>3. QED
    BY <1>3, <2>1, <2>2
<1>6. QED
  BY <1>1, <1>2, <1>4, <1>5, InputMoves

\* There is one reply to a command: none is queued behind the one processed.
LEMMA OnlyReply ==
    ASSUME TypeOK, WrittenInv, InputInv, runPc = "processing", report.origin # Nobody,
           NEW i \in 1 .. Len(input)
    PROVE  input[i].origin # report.origin
<1>1. SUFFICES ASSUME input[i].origin = report.origin PROVE FALSE
  OBVIOUS
<1>2. Older(written, report.origin, report.origin)
  BY <1>1 DEF InputInv, Before
<1>3. QED
  BY <1>2, OlderOrder DEF TypeOK, WrittenInv

LEMMA ReplyStep ==
    ASSUME TypeOK, PromiseInv, WrittenInv, FateInv, InputInv, ReplyInv, [Next]_vars
    PROVE  ReplyInv'
<1> SUFFICES ASSUME NEW c \in Commands
             PROVE  /\ response'[c].kind \in {"none", "exception"} <=> response'[c].origin = Nobody
                    /\ response'[c].kind = "exception" =>
                          runPc' \in {"sweepNotifications", "done"}
                    /\ \A d \in Commands : response'[c].origin = d =>
                        /\ KeyOf[d] = KeyOf[c] /\ fate'[d] = "answered" /\ ~InFlight(d)'
                        /\ d # c => Disturbed(c)'
                        /\ \A e \in Commands : response'[e].origin = d => e = c
                    /\ fate'[c] = "answered" /\ ~InFlight(c)' =>
                          response'[c].origin = c \/ Disturbed(c)'
  BY DEF ReplyInv, InFlight, Disturbed, OlderThan
<1>0. /\ fate \in [Commands -> {"none", "queued", "answered", "lost"}]
      /\ c # Nobody
      /\ \A e \in Commands : response[e].origin \in Commands \cup {Nobody}
  BY ActorAssumption DEF TypeOK, Outcome, Calls
<1> DEFINE matched(e) == \E i \in DOMAIN commands : /\ IsFirstMatch(i) /\ commands[i] = e
                                                   /\ response'[e] = OutcomeOf(report)
\* A command whose promise is set by this step.
<1>1. ASSUME NEW e \in Commands, MatchCommand, matched(e)
      PROVE  /\ response[e].origin = Nobody
             /\ response'[e].kind \in {"answer", "error"}
             /\ \E d \in Commands :
                 /\ d = report.origin /\ response'[e].origin = d
                 /\ KeyOf[d] = KeyOf[e]
                 /\ fate'[d] = "answered" /\ InFlight(d) /\ ~InFlight(d)'
                 /\ e # d => Disturbed(e)' /\ Disturbed(d)'
  <2>1. /\ runPc = "processing" /\ report.kind # "foreign" /\ CommandMutexFree
        /\ runPc' = "loop" /\ input' = input
    BY <1>1 DEF MatchCommand, Done, deviceVars
  <2>2. PICK i \in DOMAIN commands : IsFirstMatch(i) /\ commands[i] = e
    BY <1>1
  <2>3. /\ report.origin \in Commands /\ report.origin # Nobody
        /\ KeyOf[report.origin] = KeyOf[e]
        /\ report.kind \in {"answer", "error"}
        /\ e # report.origin => Disturbed(e) /\ Disturbed(report.origin)
    BY <2>1, <2>2, FirstMatch
  <2>4. PICK d \in Commands : d = report.origin
    BY <2>3
  <2>5. response[e].origin = Nobody
    BY <2>1, <2>2, Listed DEF Elements
  <2>6. response'[e].kind = report.kind /\ response'[e].origin = d
    BY <1>1, <2>4 DEF OutcomeOf
  <2>7. InFlight(d) /\ ~InFlight(d)'
    BY <2>1, <2>3, <2>4, OnlyReply DEF InFlight
  <2>8. fate'[d] = "answered"
    BY <2>1, <2>3, <2>4, FateKept DEF InputInv
  <2>9. QED
    BY <2>3, <2>4, <2>5, <2>6, <2>7, <2>8, FateKept
<1>2. ASSUME NEW e \in Commands
      PROVE  \/ response'[e] = response[e]
             \/ /\ SweepCommands /\ response[e].origin = Nobody
                /\ response'[e].kind = "exception" /\ response'[e].origin = Nobody
             \/ MatchCommand /\ matched(e)
  BY ReplyMoves DEF ReplyInv, Exception
<1>3. ASSUME NEW e \in Commands, fate[e] = "answered", ~InFlight(e)
      PROVE  fate'[e] = "answered" /\ ~InFlight(e)'
  <2>1. fate'[e] = "answered"
    BY <1>3, FateKept
  <2>2. ~(runPc = "processing" /\ report.origin = e)
    BY <1>3 DEF InFlight
  <2>3. QED
    BY <1>3, <2>1, <2>2, FlightMoves
<1>4. response'[c].kind \in {"none", "exception"} <=> response'[c].origin = Nobody
  BY <1>1, <1>2 DEF ReplyInv
<1>5. ASSUME response'[c].kind = "exception" PROVE runPc' \in {"sweepNotifications", "done"}
  <2>1. CASE response'[c] = response[c]
    <3>1. runPc \in {"sweepNotifications", "done"}
      BY <1>5, <2>1 DEF ReplyInv
    <3>2. QED
      BY <3>1 DEF Next, Caller, SendCommand, WriteCommand, InsertCommand, GetNotification, Wait,
         Return, TimedReturn, Run, Read, Process, Deliver, Shutdown, User, Device, CheckStopped,
         ReadReport, ReadInterrupted, ReadFails, IgnoreForeign, MatchCommand, NoMatch,
         DeliverBegin, DeliverNotification, DeliverHandler, DeliverEnd, Leave, SweepCommands,
         SweepNotifications, SetStopped, InterruptRead, RegisterEventHandler,
         UnregisterEventHandler, Answer, Lose, SendUnsolicited, Unplug, vars, runVars
  <2>2. CASE SweepCommands
    BY <2>2 DEF SweepCommands
  <2>3. CASE MatchCommand /\ matched(c)
    BY <1>1, <1>5, <2>3
  <2>4. QED
    BY <1>2, <2>1, <2>2, <2>3
<1>6. ASSUME NEW d \in Commands, response'[c].origin = d
      PROVE  /\ KeyOf[d] = KeyOf[c] /\ fate'[d] = "answered" /\ ~InFlight(d)'
             /\ d # c => Disturbed(c)'
             /\ \A e \in Commands : response'[e].origin = d => e = c
  <2>0. d # Nobody
    BY ActorAssumption
  <2>1. CASE MatchCommand /\ matched(c)
    <3>1. d = report.origin /\ InFlight(d)
      BY <1>1, <1>6, <2>1
    <3>2. ASSUME NEW e \in Commands, response'[e].origin = d PROVE e = c
      <4>1. CASE MatchCommand /\ matched(e)
        <5>1. PICK i \in DOMAIN commands : IsFirstMatch(i) /\ commands[i] = c
          BY <2>1
        <5>2. PICK j \in DOMAIN commands : IsFirstMatch(j) /\ commands[j] = e
          BY <4>1
        <5>3. ~(i < j) /\ ~(j < i)
          BY <5>1, <5>2 DEF IsFirstMatch
        <5>4. i \in Nat /\ j \in Nat
          BY DEF TypeOK
        <5>5. i = j
          BY <5>3, <5>4
        <5>6. QED
          BY <5>1, <5>2, <5>5
      <4>2. CASE response'[e] = response[e]
        BY <3>1, <3>2, <4>2 DEF ReplyInv
      <4>3. QED
        BY <1>2, <2>0, <3>2, <4>1, <4>2
    <3>3. QED
      BY <1>1, <1>6, <2>1, <3>2
  <2>2. CASE response'[c] = response[c]
    <3>1. /\ KeyOf[d] = KeyOf[c] /\ fate[d] = "answered" /\ ~InFlight(d)
          /\ d # c => Disturbed(c)
          /\ \A e \in Commands : response[e].origin = d => e = c
      BY <1>6, <2>2 DEF ReplyInv
    <3>2. fate'[d] = "answered" /\ ~InFlight(d)' /\ (d # c => Disturbed(c)')
      BY <1>3, <3>1, FateKept
    <3>3. ASSUME NEW e \in Commands, response'[e].origin = d PROVE e = c
      <4>1. CASE MatchCommand /\ matched(e)
        <5>1. InFlight(d)
          BY <1>1, <3>3, <4>1
        <5>2. QED
          BY <3>1, <5>1
      <4>2. CASE response'[e] = response[e]
        BY <3>1, <3>3, <4>2
      <4>3. QED
        BY <1>2, <2>0, <3>3, <4>1, <4>2
    <3>4. QED
      BY <3>1, <3>2, <3>3
  <2>3. QED
    BY <1>2, <1>6, <2>0, <2>1, <2>2
<1>7. ASSUME fate'[c] = "answered", ~InFlight(c)'
      PROVE  response'[c].origin = c \/ Disturbed(c)'
  <2>1. CASE fate[c] = "answered" /\ ~InFlight(c)
    <3>1. response[c].origin = c \/ Disturbed(c)
      BY <2>1 DEF ReplyInv
    <3>2. response[c].origin = c => response'[c] = response[c]
      BY <1>0, <1>1, <1>2
    <3>3. QED
      BY <3>1, <3>2, FateKept
  <2>2. CASE fate[c] # "answered"
    <3>1. fate[c] = "queued" /\ ~InFlight(c)
      <4>1. ~InFlight(c)
        BY <1>0, <2>2 DEF InFlight, InputInv
      <4>2. fate[c] = "queued"
        BY <1>0, <1>7, <2>2, FateMoves DEF NextOfItsKey
      <4>3. QED
        BY <4>1, <4>2
    <3>2. PICK e \in Commands, kind \in {"answer", "error"} :
            Answer(e, kind) /\ fate' = [fate EXCEPT ![e] = "answered"]
      BY <1>0, <1>7, <2>2, FateMoves
    <3>3. e = c
      BY <1>0, <1>7, <2>2, <3>2
    <3>4. InFlight(c)'
      <4> DEFINE r == [kind |-> kind, key |-> KeyOf[c], origin |-> c]
      <4>1. input' = Append(input, r) /\ r \in Report /\ r.origin = c
        BY <3>2, <3>3, ReplyType DEF Answer
      <4>2. /\ Len(input') = Len(input) + 1 /\ Len(input) \in Nat
            /\ input'[Len(input) + 1] = r
        BY <4>1, AppendFacts DEF TypeOK
      <4>3. Len(input) + 1 \in 1 .. Len(input')
        BY <4>2
      <4>4. QED
        BY <4>1, <4>2, <4>3 DEF InFlight
    <3>5. QED
      BY <1>7, <3>4
  <2>3. CASE fate[c] = "answered" /\ InFlight(c)
    <3>1. /\ runPc = "processing" /\ report.origin = c
          /\ IgnoreForeign \/ MatchCommand \/ NoMatch
      BY <1>7, <2>3, FlightMoves
    <3>2. report.kind \in {"answer", "error"}
      BY <1>0, <3>1 DEF InputInv, Genuine
    <3>3. CASE NoMatch
      <4>1. /\ CommandMutexFree
            /\ \A i \in DOMAIN commands : ~IsMatch(i)
        BY <3>3 DEF NoMatch
      <4>2. report.key = KeyOf[c]
        BY <1>0, <3>1 DEF InputInv, Genuine
      <4>3. c \notin Elements(commands)
        BY <4>1, <4>2 DEF IsMatch, Elements
      <4>4. QED
        BY <3>1, <4>1, <4>3, Unlisted, FateKept
    <3>4. CASE MatchCommand
      <4>1. PICK i \in DOMAIN commands :
              /\ IsFirstMatch(i)
              /\ response' = [response EXCEPT ![commands[i]] = OutcomeOf(report)]
        BY <3>4 DEF MatchCommand
      <4>2. commands[i] \in Commands /\ response'[commands[i]] = OutcomeOf(report)
        BY <4>1 DEF TypeOK, Calls
      <4>3. matched(commands[i])
        BY <4>1, <4>2
      <4>4. PICK d \in Commands :
              /\ d = report.origin
              /\ response'[commands[i]].origin = d
              /\ commands[i] # d => Disturbed(d)'
        BY <1>1, <3>4, <4>2, <4>3
      <4>5. QED
        BY <3>1, <4>4
    <3>5. CASE IgnoreForeign
      BY <3>2, <3>5 DEF IgnoreForeign
    <3>6. QED
      BY <3>1, <3>3, <3>4, <3>5
  <2>4. QED
    BY <2>1, <2>2, <2>3
<1>8. QED
  BY <1>4, <1>5, <1>6, <1>7

-----------------------------------------------------------------------------
(* Answers that become events. *)

LEMMA ElementsFinite ==
    ASSUME NEW S, NEW s \in Seq(S)
    PROVE  IsFiniteSet(Elements(s))
<1>1. Len(s) \in Nat /\ DOMAIN s = 1 .. Len(s)
  OBVIOUS
<1>2. IsFiniteSet(1 .. Len(s))
  BY <1>1, FS_Interval
<1>3. s \in [1 .. Len(s) -> Elements(s)]
  BY <1>1 DEF Elements
<1>4. \A x \in Elements(s) : \E i \in 1 .. Len(s) : s[i] = x
  BY <1>1 DEF Elements
<1>5. s \in Surjection(1 .. Len(s), Elements(s))
  BY <1>3, <1>4 DEF Surjection
<1>6. QED
  BY <1>2, <1>5, FS_Surjection

\* Were the commands of a key all answered, each by the reply to one of them,
\* no two by the same one, then no reply would be left over: so when a reply
\* finds no command of its key in the list, one of them timed out.
LEMMA SomeoneTimedOut ==
    ASSUME TypeOK, PromiseInv, WrittenInv, InputInv, ReplyInv, runPc = "processing",
           CommandMutexFree, NEW d \in Commands, report.origin = d,
           \A i \in DOMAIN commands : KeyOf[commands[i]] # KeyOf[d]
    PROVE  \E c \in Commands : KeyOf[c] = KeyOf[d] /\ pc[c] = "timedout"
<1> SUFFICES ASSUME \A c \in Commands : KeyOf[c] = KeyOf[d] => pc[c] # "timedout"
             PROVE  FALSE
  OBVIOUS
<1> DEFINE W == {c \in Commands : KeyOf[c] = KeyOf[d] /\ fate[c] # "none"}
           f == [c \in W |-> response[c].origin]
<1>1. d \in W /\ InFlight(d)
  BY ActorAssumption DEF InputInv, InFlight
<1>2. IsFiniteSet(W)
  <2>1. W \subseteq Elements(written)
    BY DEF WrittenInv
  <2>2. IsFiniteSet(Elements(written))
    BY ElementsFinite DEF TypeOK
  <2>3. QED
    BY <2>1, <2>2, FS_Subset
<1>3. ASSUME NEW c \in W
      PROVE  response[c].origin \in W
  <2>1. c \notin Elements(commands)
    BY DEF Elements
  <2>2. response[c].origin # Nobody
    BY <2>1, LeftTheList
  <2>3. response[c].origin \in Commands
    BY <2>2 DEF TypeOK, Outcome, Calls
  <2>4. KeyOf[response[c].origin] = KeyOf[c] /\ fate[response[c].origin] = "answered"
    BY <2>3 DEF ReplyInv
  <2>5. QED
    BY <2>3, <2>4
<1>4. \A b, c \in W : response[b].origin = response[c].origin => b = c
  BY <1>3 DEF ReplyInv
<1> HIDE DEF W
<1>5. f \in Injection(W, W)
  BY <1>3, <1>4 DEF Injection, IsInjective
<1>6. f \in Surjection(W, W)
  BY <1>2, <1>5, FS_Injection
<1>7. PICK c \in W : f[c] = d
  BY <1>1, <1>6 DEF Surjection
<1>8. response[c].origin = d /\ c \in Commands
  BY <1>7 DEF W
<1>9. ~InFlight(d)
  BY <1>8 DEF ReplyInv
<1>10. QED
  BY <1>1, <1>9

\* What a step does to the event that is delivered.
LEMMA LateMoves ==
    ASSUME TypeOK, PromiseInv, [Next]_vars
    PROVE  /\ runPc' \in {"event", "delivering"} =>
                 report' = report /\ (runPc \in {"event", "delivering"} \/ NoMatch)
           /\ \/ DeliverBegin
              \/ todo' \subseteq todo /\ (todo' # {} => report' = report)
<1>1. todo # {} => runPc = "delivering"
  BY DEF PromiseInv, RunInv
<1>2. runPc' \in {"event", "delivering"} =>
        report' = report /\ (runPc \in {"event", "delivering"} \/ NoMatch)
  BY DEF Next, Caller, SendCommand, WriteCommand, InsertCommand, GetNotification, Wait, Return,
     TimedReturn, Run, Read, Process, Deliver, Shutdown, User, Device, CheckStopped, ReadReport,
     ReadInterrupted, ReadFails, IgnoreForeign, MatchCommand, NoMatch, Done, DeliverBegin,
     DeliverNotification, DeliverHandler, DeliverEnd, Leave, SweepCommands, SweepNotifications,
     SetStopped, InterruptRead, RegisterEventHandler, UnregisterEventHandler, Answer, Lose,
     SendUnsolicited, Unplug, vars, runVars
<1>3. \/ DeliverBegin
      \/ todo' \subseteq todo /\ (todo' # {} => report' = report)
  BY <1>1 DEF Next, Caller, SendCommand, WriteCommand, InsertCommand, GetNotification, Wait, Return,
     TimedReturn, Run, Read, Process, Deliver, Shutdown, User, Device, CheckStopped, ReadReport,
     ReadInterrupted, ReadFails, IgnoreForeign, MatchCommand, NoMatch, Done,
     DeliverNotification, DeliverHandler, DeliverEnd, Leave, SweepCommands, SweepNotifications,
     SetStopped, InterruptRead, RegisterEventHandler, UnregisterEventHandler, Answer, Lose,
     SendUnsolicited, Unplug, vars, runVars
<1>4. QED
  BY <1>2, <1>3

LEMMA LateStep ==
    ASSUME TypeOK, PromiseInv, WrittenInv, InputInv, ReplyInv, LateInv, [Next]_vars
    PROVE  LateInv'
<1>1. ASSUME runPc' \in {"event", "delivering"}, report'.kind = "answer"
      PROVE  \E c \in Commands : pc'[c] = "timedout" /\ KeyOf[c] = report'.key
  <2>1. report' = report /\ (runPc \in {"event", "delivering"} \/ NoMatch)
    BY <1>1, LateMoves
  <2>2. \E c \in Commands : pc[c] = "timedout" /\ KeyOf[c] = report.key
    <3>1. CASE runPc \in {"event", "delivering"}
      BY <1>1, <2>1, <3>1 DEF LateInv
    <3>2. CASE NoMatch
      <4>1. /\ runPc = "processing" /\ CommandMutexFree
            /\ \A i \in DOMAIN commands : KeyOf[commands[i]] # report.key
        BY <3>2 DEF NoMatch, IsMatch
      <4>2. report.origin \in Commands /\ report.key = KeyOf[report.origin]
        BY <1>1, <2>1, <4>1, InputFacts DEF InputInv, Genuine
      <4>3. QED
        BY <4>1, <4>2, SomeoneTimedOut
    <3>3. QED
      BY <2>1, <3>1, <3>2
  <2>3. QED
    BY <2>1, <2>2, FateKept
<1>2. ASSUME NEW l \in todo' PROVE TopicOf[l] = TopicOfKey[report'.key]
  <2>1. CASE DeliverBegin
    BY <1>2, <2>1 DEF DeliverBegin
  <2>2. CASE todo' \subseteq todo /\ (todo' # {} => report' = report)
    BY <1>2, <2>2 DEF LateInv
  <2>3. QED
    BY <2>1, <2>2, LateMoves
<1>3. QED
  BY <1>1, <1>2 DEF LateInv

LEMMA HeardStep ==
    ASSUME TypeOK, WrittenInv, LateInv, LateAnswersOnly, [Next]_vars
    PROVE  LateAnswersOnly'
<1> SUFFICES ASSUME NEW h \in Handlers
             PROVE  /\ heard'[h] \subseteq {"event", "answer"}
                    /\ "answer" \in heard'[h] => \E c \in Commands :
                          pc'[c] = "timedout" /\ TopicOfKey[KeyOf[c]] = TopicOf[h]
  BY DEF LateAnswersOnly
<1>1. /\ heard[h] \subseteq {"event", "answer"}
      /\ "answer" \in heard[h] => \E c \in Commands :
            pc'[c] = "timedout" /\ TopicOfKey[KeyOf[c]] = TopicOf[h]
  BY FateKept DEF LateAnswersOnly
<1>2. ASSUME NEW keep \in BOOLEAN, DeliverHandler(h, keep)
      PROVE  /\ heard'[h] \subseteq {"event", "answer"}
             /\ "answer" \in heard'[h] => \E c \in Commands :
                   pc'[c] = "timedout" /\ TopicOfKey[KeyOf[c]] = TopicOf[h]
  <2>1. /\ runPc = "delivering" /\ h \in todo /\ pc' = pc
        /\ heard'[h] = heard[h] \cup {report.kind}
    BY <1>2 DEF DeliverHandler, TypeOK
  <2>2. report.kind \in {"answer", "event"}
    BY <2>1 DEF TypeOK
  <2>3. report.kind = "answer" => \E c \in Commands :
          pc'[c] = "timedout" /\ TopicOfKey[KeyOf[c]] = TopicOf[h]
    BY <2>1 DEF LateInv
  <2>4. QED
    BY <1>1, <2>1, <2>2, <2>3
<1>3. ASSUME NEW g \in Handlers, NEW keep \in BOOLEAN, DeliverHandler(g, keep), g # h
      PROVE  heard'[h] = heard[h]
  BY <1>3 DEF DeliverHandler, TypeOK
<1>4. CASE UNCHANGED heard
  BY <1>1, <1>4
<1>5. QED
  BY <1>1, <1>2, <1>3, <1>4
     DEF Next, Caller, SendCommand, WriteCommand, InsertCommand, GetNotification, Wait, Return,
         TimedReturn, Run, Read, Process, Deliver, Shutdown, User, Device, CheckStopped,
         ReadReport, ReadInterrupted, ReadFails, IgnoreForeign, MatchCommand, NoMatch,
         DeliverBegin, DeliverNotification, DeliverEnd, Leave, SweepCommands,
         SweepNotifications, SetStopped, InterruptRead, RegisterEventHandler,
         UnregisterEventHandler, Answer, Lose, SendUnsolicited, Unplug, vars, handlerVars

-----------------------------------------------------------------------------
(* The theorems. *)

AnswerInv == WrittenInv /\ FateInv /\ InputInv /\ ReplyInv /\ LateInv /\ LateAnswersOnly

LEMMA AnswerInit == Init => AnswerInv
<1> SUFFICES ASSUME Init PROVE AnswerInv
  OBVIOUS
<1>1. InputInv
  BY DEF Init, InputInv
<1>2. ReplyInv
  BY ActorAssumption DEF Init, ReplyInv, Unset, Calls
<1>3. LateInv /\ LateAnswersOnly
  BY DEF Init, LateInv, LateAnswersOnly
<1>4. QED
  BY <1>1, <1>2, <1>3, WrittenInit DEF AnswerInv

LEMMA AnswerStep == TypeOK /\ PromiseInv /\ AnswerInv /\ [Next]_vars => AnswerInv'
BY WrittenStep, FateInvStep, InputStep, ReplyStep, LateStep, HeardStep DEF AnswerInv

\* Requests are listed in the order of their writes, the replies of a key come
\* in that order, and each reply goes to one command at most.
THEOREM AnswersInOrder == Spec => []AnswerInv
BY AnswerInit, AnswerStep, TypeCorrect, PromisesKept, PTL DEF Spec

\* A promise is set to the reply to its own request, or to an equal one where a
\* command with that request was lost or timed out before.
THEOREM OwnAnswerGiven == Spec => []OwnAnswer
<1>1. TypeOK /\ ReplyInv => OwnAnswer
  <2> SUFFICES ASSUME TypeOK, ReplyInv, NEW c \in Commands,
                      response[c].kind \in {"answer", "error"}
               PROVE  /\ KeyOf[response[c].origin] = KeyOf[c]
                      /\ response[c].origin # c => Disturbed(c)
    BY DEF OwnAnswer
  <2>1. response[c].origin \in Commands
    BY DEF ReplyInv, TypeOK, Outcome, Calls
  <2>2. QED
    BY <2>1 DEF ReplyInv
<1>2. QED
  BY <1>1, AnswersInOrder, TypeCorrect, PTL DEF AnswerInv

\* A handler is called with an answer only after a command of its device and
\* feature timed out.
THEOREM HandlersHearLateAnswers == Spec => []LateAnswersOnly
<1>1. AnswerInv => LateAnswersOnly
  BY DEF AnswerInv
<1>2. QED
  BY <1>1, AnswersInOrder, PTL
=============================================================================
