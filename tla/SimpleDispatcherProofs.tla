----------------------- MODULE SimpleDispatcherProofs -----------------------
(***************************************************************************)
(* Theorems about SimpleDispatcher, for any number of commands,            *)
(* notifications, handlers and keys.                                       *)
(***************************************************************************)
EXTENDS SimpleDispatcher, QueueFacts, TLAPS

-----------------------------------------------------------------------------
(* The inductive invariant. *)

TypeOK ==
    /\ call \in [Calls -> {"new", "pending", "dropped", "returned", "refused", "failed"}]
    /\ response \in [Calls -> Outcome]
    /\ waiting \in Calls \cup {"listen", Nobody}
    /\ timed \in BOOLEAN
    /\ handler \in [Handlers -> {"new", "registered", "removed"}]
    /\ pipe \in Nat
    /\ stops \in 0 .. MaxStops
    /\ input \in Seq(Report)
    /\ fate \in [Commands -> {"none", "queued", "answered", "lost"}]
    /\ plugged \in BOOLEAN
    /\ unsolicited \in 0 .. MaxUnsolicited
    /\ owed \in [Handlers -> Nat]
    /\ called \in [Handlers -> Nat]

\* One call is in progress at most, and it is the one the thread waits for.
WaitInv ==
    /\ waiting \in Calls => call[waiting] = "pending"
    /\ waiting = "listen" => \A c \in Calls : call[c] # "pending"
    /\ \A c, d \in Calls : call[c] = "pending" /\ call[d] = "pending" => c = d

\* A report is the device's own, or the reply to a command.
Genuine(r) ==
    /\ r.origin = Nobody => r.kind \in {"event", "foreign"} /\ r.key \in EventKeys
    /\ r.origin # Nobody => r.kind \in {"answer", "error"} /\ r.key = KeyOf[r.origin]

\* What is queued is genuine; there is one reply to a command, when the device
\* has answered it.
InputInv ==
    \A i \in 1 .. Len(input) :
        /\ Genuine(input[i])
        /\ input[i].origin # Nobody =>
              /\ fate[input[i].origin] = "answered"
              /\ \A j \in 1 .. Len(input) : input[j].origin = input[i].origin => i = j

\* The reply to c is not in the queue.
NotQueued(c) == \A i \in 1 .. Len(input) : input[i].origin # c

\* A command that was not sent has no fate, one that failed has failed for
\* good, and one that got its own reply has no other.
CommandInv ==
    \A c \in Commands :
        /\ call[c] \in {"new", "refused"} => fate[c] = "none"
        /\ call[c] = "failed" => ~plugged /\ input = <<>>
        /\ call[c] = "returned" => response[c].kind \in {"answer", "error", "event"}
        /\ response[c].origin = c => fate[c] = "answered" /\ NotQueued(c)

\* The reply to the command in progress is in the queue as soon as there is one.
KeptInv ==
    \A c \in Commands : call[c] = "pending" /\ fate[c] = "answered" => ~NotQueued(c)

\* A handler that was never registered was never called.
EventInv ==
    \A h \in Handlers :
        /\ handler[h] = "new" => called[h] = 0
        /\ handler[h] = "registered" => owed[h] = called[h] + EventsQueued(h)

Inv == TypeOK /\ WaitInv /\ InputInv /\ CommandInv /\ OwnAnswer /\ KeptInv /\ EventInv

-----------------------------------------------------------------------------
(* Lemmas about reports and queues. *)

LEMMA InputFacts ==
    ASSUME TypeOK
    PROVE  /\ Len(input) \in Nat
           /\ DOMAIN input = 1 .. Len(input)
           /\ \A i \in 1 .. Len(input) : /\ input[i] \in Report
                                         /\ input[i].origin \in Commands \cup {Nobody}
<1>1. input \in Seq(Report)
  BY DEF TypeOK
<1>2. \A r \in Report : r.origin \in Commands \cup {Nobody}
  BY DEF Report
<1>3. QED
  BY <1>1, <1>2

\* The report that is read, and what it leaves.
LEMMA ReadFacts ==
    ASSUME TypeOK, input # <<>>
    PROVE  /\ Head(input) = input[1] /\ Head(input) \in Report
           /\ Len(input) \in Nat \ {0}
           /\ Tail(input) \in Seq(Report)
           /\ Len(Tail(input)) = Len(input) - 1
           /\ \A i \in 1 .. Len(input) - 1 : Tail(input)[i] = input[i + 1]
BY TailFacts DEF TypeOK

LEMMA ReplyType ==
    ASSUME NEW c \in Commands, NEW kind \in {"answer", "error"}
    PROVE  LET r == [kind |-> kind, key |-> KeyOf[c], origin |-> c] IN
           r \in Report /\ Genuine(r) /\ r.origin = c
BY ActorAssumption, KeyAssumption DEF Report, Genuine, Calls

LEMMA UnsolicitedType ==
    ASSUME NEW k \in EventKeys, NEW kind \in {"event", "foreign"}
    PROVE  LET r == [kind |-> kind, key |-> k, origin |-> Nobody] IN
           r \in Report /\ Genuine(r) /\ r.origin = Nobody
BY KeyAssumption DEF Report, Genuine

EventsOf(h) == {r \in Report : IsEventOf(h, r)}

LEMMA QueuedEvents ==
    ASSUME NEW s \in Seq(Report), NEW h \in Handlers
    PROVE  {i \in DOMAIN s : IsEventOf(h, s[i])} = PlacesOf(s, EventsOf(h))
<1>1. \A i \in DOMAIN s : s[i] \in Report
  OBVIOUS
<1>2. QED
  BY <1>1 DEF PlacesOf, EventsOf

-----------------------------------------------------------------------------
(* Types. *)

LEMMA TypeInit == Init => TypeOK
<1> SUFFICES ASSUME Init PROVE TypeOK
  OBVIOUS
<1>1. Unset \in Outcome
  BY DEF Unset, Outcome
<1>2. input \in Seq(Report) /\ pipe \in Nat /\ 0 \in 0 .. MaxStops /\ 0 \in 0 .. MaxUnsolicited
  BY KeyAssumption DEF Init
<1>3. QED
  BY <1>1, <1>2 DEF Init, TypeOK

LEMMA TypeStep == TypeOK /\ [Next]_vars => TypeOK'
<1> SUFFICES ASSUME TypeOK, [Next]_vars PROVE TypeOK'
  OBVIOUS
<1> USE DEF TypeOK
<1>1. ASSUME NEW c \in Commands, SendCommand(c) PROVE TypeOK'
  BY <1>1 DEF SendCommand, stopVars, handlerVars, Calls
<1>2. ASSUME NEW n \in Notifications, GetNotification(n) PROVE TypeOK'
  BY <1>2 DEF GetNotification, stopVars, deviceVars, handlerVars, Calls
<1>3. ASSUME NEW c \in Calls, NEW b \in BOOLEAN, Get(c, b) PROVE TypeOK'
  BY <1>3 DEF Get, stopVars, deviceVars, handlerVars
<1>4. ASSUME NEW c \in Calls, Drop(c) PROVE TypeOK'
  BY <1>4 DEF Drop, stopVars, deviceVars, handlerVars
<1>5. ASSUME NEW h \in Handlers, RegisterEventHandler(h) PROVE TypeOK'
  <2>1. EventsQueued(h) \in Nat
    <3>1. EventsQueued(h) = Cardinality(PlacesOf(input, EventsOf(h)))
      BY QueuedEvents DEF EventsQueued
    <3>2. QED
      BY <3>1, PlacesFinite
  <2>2. QED
    BY <1>5, <2>1 DEF RegisterEventHandler, callVars, stopVars, deviceVars
<1>6. ASSUME NEW h \in Handlers, UnregisterEventHandler(h) PROVE TypeOK'
  BY <1>6 DEF UnregisterEventHandler, callVars, stopVars, deviceVars
<1>7. CASE Listen
  BY <1>7 DEF Listen, stopVars, deviceVars, handlerVars
<1>8. CASE Stop
  <2>1. pipe' \in Nat /\ stops' \in 0 .. MaxStops
    BY <1>8, KeyAssumption DEF Stop
  <2>2. QED
    BY <1>8, <2>1 DEF Stop, callVars, deviceVars, handlerVars
<1>9. ASSUME NEW keep \in SUBSET Handlers, ReadReport(keep) PROVE TypeOK'
  <2> DEFINE r == Head(input)
  <2>1. r \in Report /\ input' \in Seq(Report)
    BY <1>9, ReadFacts DEF ReadReport
  <2>2. /\ handler' \in [Handlers -> {"new", "registered", "removed"}]
        /\ called' \in [Handlers -> Nat]
    BY <1>9 DEF ReadReport, ProcessEvent
  <2>3. CASE Ends(r)
    <3>1. [kind |-> r.kind, origin |-> r.origin] \in Outcome
      BY <2>1, <2>3 DEF Report, Outcome, Ends, IsForCommand, IsForNotification
    <3>2. /\ call' = [call EXCEPT ![waiting] = "returned"]
          /\ response' = [response EXCEPT ![waiting] = [kind |-> r.kind, origin |-> r.origin]]
          /\ waiting' = Nobody
      BY <1>9, <2>3 DEF ReadReport
    <3>3. QED
      BY <1>9, <2>1, <2>2, <3>1, <3>2 DEF ReadReport, stopVars
  <2>4. CASE ~Ends(r)
    <3>1. UNCHANGED <<call, response, waiting>>
      BY <1>9, <2>4 DEF ReadReport
    <3>2. QED
      BY <1>9, <2>1, <2>2, <3>1 DEF ReadReport, stopVars
  <2>5. QED
    BY <2>3, <2>4
<1>10. CASE ReadInterrupted
  <2>1. pipe' \in Nat
    BY <1>10 DEF ReadInterrupted
  <2>2. QED
    BY <1>10, <2>1 DEF ReadInterrupted, deviceVars, handlerVars
<1>11. CASE TimeoutExpires
  BY <1>11 DEF TimeoutExpires, stopVars, deviceVars, handlerVars
<1>12. CASE ReadFails
  <2>1. [kind |-> "exception", origin |-> Nobody] \in Outcome
    BY DEF Outcome
  <2>2. QED
    BY <1>12, <2>1 DEF ReadFails, stopVars, deviceVars, handlerVars
<1>13. ASSUME NEW c \in Commands, NEW kind \in {"answer", "error"}, Answer(c, kind)
       PROVE  TypeOK'
  <2>1. input' \in Seq(Report)
    BY <1>13, ReplyType, AppendFacts DEF Answer
  <2>2. QED
    BY <1>13, <2>1 DEF Answer, callVars, stopVars, handlerVars
<1>14. ASSUME NEW c \in Commands, Lose(c) PROVE TypeOK'
  BY <1>14 DEF Lose, callVars, stopVars, handlerVars
<1>15. ASSUME NEW k \in EventKeys, NEW kind \in {"event", "foreign"}, SendUnsolicited(kind, k)
       PROVE  TypeOK'
  <2>1. input' \in Seq(Report)
    BY <1>15, UnsolicitedType, AppendFacts DEF SendUnsolicited
  <2>2. owed' \in [Handlers -> Nat] /\ unsolicited' \in 0 .. MaxUnsolicited
    BY <1>15, KeyAssumption DEF SendUnsolicited
  <2>3. QED
    BY <1>15, <2>1, <2>2 DEF SendUnsolicited, callVars, stopVars
<1>16. CASE Unplug
  BY <1>16 DEF Unplug, callVars, stopVars, handlerVars
<1>17. CASE UNCHANGED vars
  BY <1>17 DEF vars, callVars, stopVars, deviceVars, handlerVars
<1>18. QED
  BY <1>1, <1>2, <1>3, <1>4, <1>5, <1>6, <1>7, <1>8, <1>9, <1>10, <1>11, <1>12, <1>13,
     <1>14, <1>15, <1>16, <1>17 DEF Next, User, Read, Device

-----------------------------------------------------------------------------
(* One call at a time. *)

LEMMA WaitStep == TypeOK /\ WaitInv /\ [Next]_vars => WaitInv'
<1> SUFFICES ASSUME TypeOK, WaitInv, [Next]_vars PROVE WaitInv'
  OBVIOUS
<1> USE ActorAssumption DEF WaitInv
<1>0. call \in [Calls -> {"new", "pending", "dropped", "returned", "refused", "failed"}]
  BY DEF TypeOK
<1>1. ASSUME NEW c \in Commands, SendCommand(c) PROVE WaitInv'
  BY <1>0, <1>1 DEF SendCommand, NoneInProgress, Free, Calls
<1>2. ASSUME NEW n \in Notifications, GetNotification(n) PROVE WaitInv'
  BY <1>0, <1>2 DEF GetNotification, NoneInProgress, Free, Calls
<1>3. ASSUME NEW c \in Calls, NEW b \in BOOLEAN, Get(c, b) PROVE WaitInv'
  BY <1>3 DEF Get
<1>4. ASSUME NEW c \in Calls, Drop(c) PROVE WaitInv'
  BY <1>0, <1>4 DEF Drop, Free
<1>5. CASE Listen
  BY <1>5 DEF Listen, NoneInProgress
<1>6. ASSUME NEW keep \in SUBSET Handlers, ReadReport(keep) PROVE WaitInv'
  <2>1. CASE Ends(Head(input))
    <3>1. waiting \in Calls
      BY <2>1 DEF Ends, Calls
    <3>2. call' = [call EXCEPT ![waiting] = "returned"] /\ waiting' = Nobody
      BY <1>6, <2>1 DEF ReadReport
    <3>3. QED
      BY <1>0, <3>1, <3>2
  <2>2. CASE ~Ends(Head(input))
    BY <1>6, <2>2 DEF ReadReport
  <2>3. QED
    BY <2>1, <2>2
<1>7. CASE ReadInterrupted \/ TimeoutExpires
  BY <1>7 DEF ReadInterrupted, TimeoutExpires
<1>8. CASE ReadFails
  BY <1>0, <1>8 DEF ReadFails
<1>9. CASE UNCHANGED <<call, waiting>>
  BY <1>9
<1>10. QED
  BY <1>1, <1>2, <1>3, <1>4, <1>5, <1>6, <1>7, <1>8, <1>9
     DEF Next, User, Read, Device, RegisterEventHandler, UnregisterEventHandler, Stop,
         Answer, Lose, SendUnsolicited, Unplug, vars, callVars

-----------------------------------------------------------------------------
(* The queue of reports. *)

\* The reports that stay are as they were, and so is the uniqueness of replies.
LEMMA InputStep == TypeOK /\ CommandInv /\ InputInv /\ [Next]_vars => InputInv'
<1> SUFFICES ASSUME TypeOK, CommandInv, InputInv, [Next]_vars PROVE InputInv'
  OBVIOUS
<1>0. /\ fate \in [Commands -> {"none", "queued", "answered", "lost"}]
      /\ input \in Seq(Report)
  BY DEF TypeOK
<1>1. ASSUME NEW c \in Commands, SendCommand(c) PROVE InputInv'
  <2>1. call[c] = "new" => fate[c] = "none"
    BY DEF CommandInv
  <2>2. input' = input /\ (fate' = fate \/ fate' = [fate EXCEPT ![c] = "queued"])
    BY <1>1 DEF SendCommand
  <2>3. \A i \in 1 .. Len(input) : input[i].origin # c
    BY <1>1, <2>1, ActorAssumption DEF SendCommand, InputInv, Calls
  <2>4. QED
    BY <1>0, <2>2, <2>3, InputFacts DEF InputInv
<1>2. ASSUME NEW keep \in SUBSET Handlers, ReadReport(keep) PROVE InputInv'
  <2>1. input # <<>> /\ input' = Tail(input) /\ fate' = fate
    BY <1>2 DEF ReadReport
  <2>2. \A i \in 1 .. Len(input') : /\ i + 1 \in 1 .. Len(input)
                                    /\ input'[i] = input[i + 1]
    BY <2>1, ReadFacts
  <2>3. ASSUME NEW i \in 1 .. Len(input')
        PROVE  /\ Genuine(input'[i])
               /\ input'[i].origin # Nobody =>
                     /\ fate'[input'[i].origin] = "answered"
                     /\ \A j \in 1 .. Len(input') :
                           input'[j].origin = input'[i].origin => i = j
    <3>1. /\ Genuine(input[i + 1])
          /\ input[i + 1].origin # Nobody =>
                /\ fate[input[i + 1].origin] = "answered"
                /\ \A j \in 1 .. Len(input) :
                      input[j].origin = input[i + 1].origin => i + 1 = j
      BY <2>2 DEF InputInv
    <3>2. ASSUME input'[i].origin # Nobody, NEW j \in 1 .. Len(input'),
                 input'[j].origin = input'[i].origin
          PROVE  i = j
      <4>1. i + 1 = j + 1
        BY <2>2, <3>1, <3>2
      <4>2. QED
        BY <4>1
    <3>3. QED
      BY <2>1, <2>2, <3>1, <3>2
  <2>4. QED
    BY <2>3 DEF InputInv
<1>3. ASSUME NEW c \in Commands, NEW kind \in {"answer", "error"}, Answer(c, kind)
      PROVE  InputInv'
  <2> DEFINE r == [kind |-> kind, key |-> KeyOf[c], origin |-> c]
  <2> HIDE DEF r
  <2>1. input' = Append(input, r) /\ fate[c] = "queued" /\ fate' = [fate EXCEPT ![c] = "answered"]
    BY <1>3 DEF Answer, r
  <2>2. r \in Report /\ Genuine(r) /\ r.origin = c
    BY ReplyType DEF r
  <2>3. /\ Len(input) \in Nat /\ Len(input') = Len(input) + 1
        /\ \A i \in 1 .. Len(input) : input'[i] = input[i]
        /\ input'[Len(input) + 1] = r
    BY <1>0, <2>1, <2>2, AppendFacts
  <2>4. \A i \in 1 .. Len(input) : input[i].origin # c
    BY <2>1, ActorAssumption DEF InputInv, Calls
  <2>5. \A i \in 1 .. Len(input') : i \in 1 .. Len(input) \/ i = Len(input) + 1
    BY <2>3
  <2>6. \A i \in 1 .. Len(input) : input[i].origin # Nobody => fate'[input[i].origin] = "answered"
    BY <1>0, <2>1, <2>4, InputFacts DEF InputInv
  <2>7. QED
    BY <1>0, <2>1, <2>2, <2>3, <2>4, <2>5, <2>6 DEF InputInv
<1>4. ASSUME NEW c \in Commands, Lose(c) PROVE InputInv'
  <2>1. input' = input /\ fate[c] = "queued" /\ fate' = [fate EXCEPT ![c] = "lost"]
    BY <1>4 DEF Lose
  <2>2. QED
    BY <1>0, <2>1, InputFacts DEF InputInv
<1>5. ASSUME NEW k \in EventKeys, NEW kind \in {"event", "foreign"}, SendUnsolicited(kind, k)
      PROVE  InputInv'
  <2> DEFINE r == [kind |-> kind, key |-> k, origin |-> Nobody]
  <2> HIDE DEF r
  <2>1. input' = Append(input, r) /\ fate' = fate
    BY <1>5 DEF SendUnsolicited, r
  <2>2. r \in Report /\ Genuine(r) /\ r.origin = Nobody
    BY UnsolicitedType DEF r
  <2>3. /\ Len(input) \in Nat /\ Len(input') = Len(input) + 1
        /\ \A i \in 1 .. Len(input) : input'[i] = input[i]
        /\ input'[Len(input) + 1] = r
    BY <1>0, <2>1, <2>2, AppendFacts
  <2>4. \A i \in 1 .. Len(input') : i \in 1 .. Len(input) \/ i = Len(input) + 1
    BY <2>3
  <2>5. QED
    BY <2>1, <2>2, <2>3, <2>4 DEF InputInv
<1>6. CASE UNCHANGED <<input, fate>>
  BY <1>6 DEF InputInv
<1>7. QED
  BY <1>1, <1>2, <1>3, <1>4, <1>5, <1>6
     DEF Next, User, Read, Device, GetNotification, Get, Drop, Listen, RegisterEventHandler,
         UnregisterEventHandler, Stop, ReadInterrupted, TimeoutExpires, ReadFails, Unplug,
         vars, deviceVars

-----------------------------------------------------------------------------
(* What get () takes. *)

\* A queue that loses its first element, or gains one of another origin, does
\* not gain a reply to c.
LEMMA NotQueuedTail ==
    ASSUME TypeOK, NEW c \in Commands, input # <<>>, input' = Tail(input)
    PROVE  /\ NotQueued(c) => NotQueued(c)'
           /\ Head(input).origin # c => (NotQueued(c)' <=> NotQueued(c))
           /\ InputInv /\ Head(input).origin = c /\ c # Nobody => NotQueued(c)'
<1>1. /\ Head(input) = input[1]
      /\ Len(input) \in Nat \ {0} /\ Len(input') = Len(input) - 1
      /\ \A i \in 1 .. Len(input) - 1 : input'[i] = input[i + 1]
  BY ReadFacts
<1>2. \A i \in 1 .. Len(input') : i + 1 \in 1 .. Len(input) /\ i + 1 # 1
  BY <1>1
<1>3. \A i \in 1 .. Len(input) : i = 1 \/ (i - 1 \in 1 .. Len(input') /\ input'[i - 1] = input[i])
  BY <1>1
<1>4. NotQueued(c) => NotQueued(c)'
  BY <1>1, <1>2 DEF NotQueued
<1>5. Head(input).origin # c => (NotQueued(c)' => NotQueued(c))
  BY <1>1, <1>3 DEF NotQueued
<1>6. ASSUME InputInv, Head(input).origin = c, c # Nobody, NEW i \in 1 .. Len(input')
      PROVE  input'[i].origin # c
  BY <1>1, <1>2, <1>6 DEF InputInv
<1>7. QED
  BY <1>4, <1>5, <1>6 DEF NotQueued

LEMMA NotQueuedAppend ==
    ASSUME TypeOK, NEW c \in Commands, NEW r \in Report, input' = Append(input, r)
    PROVE  NotQueued(c)' <=> NotQueued(c) /\ r.origin # c
<1>1. /\ Len(input) \in Nat /\ Len(input') = Len(input) + 1
      /\ \A i \in 1 .. Len(input) : input'[i] = input[i]
      /\ input'[Len(input) + 1] = r
  BY AppendFacts DEF TypeOK
<1>2. \A i \in 1 .. Len(input') : i \in 1 .. Len(input) \/ i = Len(input) + 1
  BY <1>1
<1>3. \A i \in 1 .. Len(input) : i \in 1 .. Len(input')
  BY <1>1
<1>4. Len(input) + 1 \in 1 .. Len(input')
  BY <1>1
<1>5. QED
  BY <1>1, <1>2, <1>3, <1>4 DEF NotQueued

\* A command whose reply is in the queue was sent, and its call is in progress,
\* was dropped or took another report.
LEMMA QueuedReply ==
    ASSUME TypeOK, InputInv, CommandInv, NEW i \in 1 .. Len(input),
           NEW d \in Commands, input[i].origin = d
    PROVE  /\ call[d] \in {"pending", "dropped", "returned"}
           /\ response[d].origin # d
<1>1. d # Nobody
  BY ActorAssumption DEF Calls
<1>2. fate[d] = "answered"
  BY <1>1 DEF InputInv
<1>3. input # <<>>
  BY InputFacts
<1>4. call[d] \in {"new", "pending", "dropped", "returned", "refused", "failed"}
  BY DEF TypeOK, Calls
<1>5. QED
  BY <1>2, <1>3, <1>4 DEF CommandInv, NotQueued

\* The report that ends the wait of a command is its reply, or that of a command
\* given up before.
LEMMA TakesOwnReply ==
    ASSUME TypeOK, WaitInv, InputInv, CommandInv, OwnAnswer, input # <<>>,
           waiting \in Commands, IsForCommand(waiting, Head(input))
    PROVE  Head(input).origin = waiting \/ Disturbed(waiting)
<1> DEFINE r == Head(input)
           c == waiting
           d == r.origin
<1>1. /\ r = input[1] /\ 1 \in 1 .. Len(input)
      /\ d \in Commands \cup {Nobody}
      /\ Genuine(r)
  <2>1. r = input[1] /\ 1 \in 1 .. Len(input)
    BY ReadFacts
  <2>2. QED
    BY <2>1, InputFacts DEF InputInv
<1>2. r.kind # "foreign" /\ r.key = KeyOf[c]
  BY DEF IsForCommand
<1>3. d # Nobody
  BY <1>1, <1>2, RequestAssumption DEF Genuine
<1>4. d \in Commands /\ KeyOf[d] = KeyOf[c]
  BY <1>1, <1>2, <1>3 DEF Genuine
<1>5. SUFFICES ASSUME d # c PROVE Disturbed(c)
  OBVIOUS
<1>6. call[d] \in {"pending", "dropped", "returned"} /\ response[d].origin # d
  BY <1>1, <1>4, QueuedReply
<1>7. call[c] = "pending" /\ call[d] # "pending"
  BY <1>4, <1>5 DEF WaitInv, Calls
<1>8. CASE call[d] = "dropped"
  BY <1>4, <1>5, <1>8 DEF Disturbed
<1>9. CASE call[d] = "returned"
  <2>1. Disturbed(d)
    BY <1>4, <1>6, <1>9 DEF CommandInv, OwnAnswer
  <2>2. PICK e \in Commands : KeyOf[e] = KeyOf[d] /\ call[e] = "dropped"
    BY <2>1 DEF Disturbed
  <2>3. QED
    BY <1>4, <1>7, <2>2 DEF Disturbed
<1>10. QED
  BY <1>6, <1>7, <1>8, <1>9

\* What a read does to a command that is or is not the one that waits.
LEMMA ReadEffect ==
    ASSUME TypeOK, NEW keep, ReadReport(keep), NEW c \in Commands
    PROVE  /\ input # <<>> /\ input' = Tail(input) /\ fate' = fate /\ plugged' = plugged
           /\ c = waiting /\ Ends(Head(input)) =>
                 /\ IsForCommand(c, Head(input))
                 /\ call'[c] = "returned"
                 /\ response'[c] = [kind |-> Head(input).kind, origin |-> Head(input).origin]
           /\ c # waiting \/ ~Ends(Head(input)) =>
                 call'[c] = call[c] /\ response'[c] = response[c]
<1>1. /\ call \in [Calls -> {"new", "pending", "dropped", "returned", "refused", "failed"}]
      /\ response \in [Calls -> Outcome]
      /\ c \in Calls
  BY DEF TypeOK, Calls
<1>2. input # <<>> /\ input' = Tail(input) /\ fate' = fate /\ plugged' = plugged
  BY DEF ReadReport
<1>3. CASE Ends(Head(input))
  <2>1. /\ call' = [call EXCEPT ![waiting] = "returned"]
        /\ response' = [response EXCEPT ![waiting] =
                           [kind |-> Head(input).kind, origin |-> Head(input).origin]]
    BY <1>3 DEF ReadReport
  <2>2. c = waiting => IsForCommand(c, Head(input))
    BY <1>3, ActorAssumption DEF Ends
  <2>3. QED
    BY <1>1, <1>2, <1>3, <2>1, <2>2
<1>4. CASE ~Ends(Head(input))
  BY <1>2, <1>4 DEF ReadReport
<1>5. QED
  BY <1>3, <1>4

\* A command's call that was dropped stays dropped, and what it returned stays.
LEMMA Settled ==
    ASSUME TypeOK, WaitInv, [Next]_vars, NEW c \in Commands
    PROVE  /\ call[c] = "dropped" => call'[c] = "dropped"
           /\ Disturbed(c) => Disturbed(c)'
<1>0. call \in [Calls -> {"new", "pending", "dropped", "returned", "refused", "failed"}]
  BY DEF TypeOK
<1>1. ASSUME NEW d \in Commands, call[d] = "dropped"
      PROVE  call'[d] = "dropped"
  <2>1. ASSUME NEW e \in Commands, SendCommand(e) PROVE call'[d] = "dropped"
    BY <1>0, <1>1, <2>1 DEF SendCommand, Calls
  <2>2. ASSUME NEW n \in Notifications, GetNotification(n) PROVE call'[d] = "dropped"
    BY <1>0, <1>1, <2>2 DEF GetNotification, Calls
  <2>3. ASSUME NEW e \in Calls, Drop(e) PROVE call'[d] = "dropped"
    BY <1>0, <1>1, <2>3 DEF Drop, Calls
  <2>4. ASSUME NEW keep \in SUBSET Handlers, ReadReport(keep) PROVE call'[d] = "dropped"
    <3>1. d # waiting
      BY <1>1 DEF WaitInv, Calls
    <3>2. QED
      BY <1>1, <2>4, <3>1, ReadEffect
  <2>5. CASE ReadFails
    <3>1. d # waiting
      BY <1>1 DEF WaitInv, Calls
    <3>2. QED
      BY <1>0, <1>1, <2>5, <3>1 DEF ReadFails, Calls
  <2>6. CASE UNCHANGED call
    BY <1>1, <2>6
  <2>7. QED
    BY <2>1, <2>2, <2>3, <2>4, <2>5, <2>6
       DEF Next, User, Read, Device, Get, Listen, RegisterEventHandler, UnregisterEventHandler,
           Stop, ReadInterrupted, TimeoutExpires, Answer, Lose, SendUnsolicited, Unplug,
           vars, callVars
<1>2. QED
  BY <1>1 DEF Disturbed

LEMMA CommandStep ==
    TypeOK /\ WaitInv /\ InputInv /\ CommandInv /\ [Next]_vars => CommandInv'
<1> SUFFICES ASSUME TypeOK, WaitInv, InputInv, CommandInv, [Next]_vars,
                    NEW c \in Commands
             PROVE  /\ call'[c] \in {"new", "refused"} => fate'[c] = "none"
                    /\ call'[c] = "failed" => ~plugged' /\ input' = <<>>
                    /\ call'[c] = "returned" => response'[c].kind \in {"answer", "error", "event"}
                    /\ response'[c].origin = c => fate'[c] = "answered" /\ NotQueued(c)'
  BY DEF CommandInv, NotQueued
<1> DEFINE Goal == /\ call'[c] \in {"new", "refused"} => fate'[c] = "none"
                   /\ call'[c] = "failed" => ~plugged' /\ input' = <<>>
                   /\ call'[c] = "returned" => response'[c].kind \in {"answer", "error", "event"}
                   /\ response'[c].origin = c => fate'[c] = "answered" /\ NotQueued(c)'
<1>0. /\ call \in [Calls -> {"new", "pending", "dropped", "returned", "refused", "failed"}]
      /\ fate \in [Commands -> {"none", "queued", "answered", "lost"}]
      /\ response \in [Calls -> Outcome]
      /\ c \in Calls
  BY DEF TypeOK, Calls
<1>1. /\ call[c] \in {"new", "refused"} => fate[c] = "none"
      /\ call[c] = "failed" => ~plugged /\ input = <<>>
      /\ call[c] = "returned" => response[c].kind \in {"answer", "error", "event"}
      /\ response[c].origin = c => fate[c] = "answered" /\ NotQueued(c)
  BY DEF CommandInv
<1>2. ASSUME NEW e \in Commands, SendCommand(e) PROVE Goal
  <2>1. /\ UNCHANGED <<response, input, plugged>>
        /\ call[e] = "new" /\ e \in Calls
        /\ \/ call' = [call EXCEPT ![e] = "pending"] /\ fate' = [fate EXCEPT ![e] = "queued"]
           \/ call' = [call EXCEPT ![e] = "refused"] /\ fate' = fate
    BY <1>2 DEF SendCommand, Calls
  <2>2. QED
    BY <1>0, <1>1, <2>1 DEF NotQueued
<1>3. ASSUME NEW n \in Notifications, GetNotification(n) PROVE Goal
  BY <1>0, <1>1, <1>3 DEF GetNotification, deviceVars, NotQueued
<1>4. ASSUME NEW e \in Calls, Drop(e) PROVE Goal
  BY <1>0, <1>1, <1>4 DEF Drop, deviceVars, NotQueued
<1>5. ASSUME NEW keep \in SUBSET Handlers, ReadReport(keep) PROVE Goal
  <2>1. input # <<>> /\ input' = Tail(input) /\ fate' = fate /\ plugged' = plugged
    BY <1>5, ReadEffect
  <2>2. CASE c = waiting /\ Ends(Head(input))
    <3>1. /\ IsForCommand(c, Head(input))
          /\ call'[c] = "returned"
          /\ response'[c] = [kind |-> Head(input).kind, origin |-> Head(input).origin]
      BY <1>5, <2>2, ReadEffect
    <3>2. Head(input).kind \in {"answer", "error", "event"}
      BY <2>1, <3>1, ReadFacts DEF IsForCommand, Report
    <3>3. c # Nobody
      BY ActorAssumption DEF Calls
    <3>4. Head(input).origin = c => fate[c] = "answered"
      BY <2>1, <3>3, ReadFacts DEF InputInv
    <3>5. response'[c].origin = c => fate'[c] = "answered" /\ NotQueued(c)'
      BY <2>1, <3>1, <3>3, <3>4, NotQueuedTail
    <3>6. QED
      BY <3>1, <3>2, <3>5
  <2>3. CASE c # waiting \/ ~Ends(Head(input))
    <3>1. call'[c] = call[c] /\ response'[c] = response[c]
      BY <1>5, <2>3, ReadEffect
    <3>2. call[c] # "failed"
      BY <1>1, <2>1
    <3>3. NotQueued(c) => NotQueued(c)'
      BY <2>1, NotQueuedTail
    <3>4. QED
      BY <1>1, <2>1, <3>1, <3>2, <3>3
  <2>4. QED
    BY <2>2, <2>3
<1>6. CASE ReadFails
  <2>1. /\ UNCHANGED <<input, fate, plugged>>
        /\ input = <<>> /\ ~plugged
    BY <1>6 DEF ReadFails, deviceVars
  <2>2. CASE waiting = c
    <3>1. call'[c] = "failed" /\ response'[c].origin = Nobody
      BY <1>0, <1>6, <2>2 DEF ReadFails
    <3>2. c # Nobody
      BY ActorAssumption DEF Calls
    <3>3. QED
      BY <2>1, <3>1, <3>2
  <2>3. CASE waiting # c
    <3>1. call'[c] = call[c] /\ response'[c] = response[c]
      BY <1>0, <1>6, <2>3 DEF ReadFails
    <3>2. QED
      BY <1>1, <2>1, <3>1 DEF NotQueued
  <2>4. QED
    BY <2>2, <2>3
<1>7. ASSUME NEW e \in Commands, NEW kind \in {"answer", "error"}, Answer(e, kind) PROVE Goal
  <2> DEFINE r == [kind |-> kind, key |-> KeyOf[e], origin |-> e]
  <2>1. /\ UNCHANGED <<call, response, plugged>> /\ plugged
        /\ fate[e] = "queued" /\ fate' = [fate EXCEPT ![e] = "answered"]
        /\ input' = Append(input, r)
    BY <1>7 DEF Answer, callVars
  <2>2. r \in Report /\ r.origin = e
    BY ReplyType
  <2>3. call[c] \in {"new", "refused"} => c # e
    BY <1>1, <2>1
  <2>4. NotQueued(c) /\ c # e => NotQueued(c)'
    BY <2>1, <2>2, NotQueuedAppend
  <2>5. response[c].origin = c => c # e
    BY <1>1, <2>1
  <2>6. QED
    BY <1>0, <1>1, <2>1, <2>3, <2>4, <2>5
<1>8. ASSUME NEW e \in Commands, Lose(e) PROVE Goal
  <2>1. /\ UNCHANGED <<call, response, plugged, input>>
        /\ fate[e] = "queued" /\ fate' = [fate EXCEPT ![e] = "lost"]
    BY <1>8 DEF Lose, callVars
  <2>2. QED
    BY <1>0, <1>1, <2>1 DEF NotQueued
<1>9. ASSUME NEW k \in EventKeys, NEW kind \in {"event", "foreign"}, SendUnsolicited(kind, k)
      PROVE  Goal
  <2> DEFINE r == [kind |-> kind, key |-> k, origin |-> Nobody]
  <2>1. /\ UNCHANGED <<call, response, fate, plugged>> /\ plugged
        /\ input' = Append(input, r)
    BY <1>9 DEF SendUnsolicited, callVars
  <2>2. r \in Report /\ r.origin # c
    BY UnsolicitedType, ActorAssumption DEF Calls
  <2>3. NotQueued(c) => NotQueued(c)'
    BY <2>1, <2>2, NotQueuedAppend
  <2>4. QED
    BY <1>1, <2>1, <2>3
<1>10. CASE Unplug
  <2>1. UNCHANGED <<call, response, fate, input>> /\ ~plugged'
    BY <1>10 DEF Unplug, callVars
  <2>2. QED
    BY <1>1, <2>1 DEF NotQueued
<1>11. CASE UNCHANGED <<call, response, fate, input, plugged>>
  BY <1>1, <1>11 DEF NotQueued
<1>12. QED
  BY <1>2, <1>3, <1>4, <1>5, <1>6, <1>7, <1>8, <1>9, <1>10, <1>11
     DEF Next, User, Read, Device, Get, Listen, RegisterEventHandler, UnregisterEventHandler,
         Stop, ReadInterrupted, TimeoutExpires, vars, callVars, deviceVars

LEMMA OwnStep ==
    TypeOK /\ WaitInv /\ InputInv /\ CommandInv /\ OwnAnswer /\ [Next]_vars => OwnAnswer'
<1> SUFFICES ASSUME TypeOK, WaitInv, InputInv, CommandInv, OwnAnswer, [Next]_vars,
                    NEW c \in Commands, response'[c].kind \in {"answer", "error", "event"}
             PROVE  response'[c].origin = c \/ Disturbed(c)'
  BY DEF OwnAnswer, Disturbed
<1>1. response[c].kind \in {"answer", "error", "event"} =>
        response[c].origin = c \/ Disturbed(c)'
  BY Settled DEF OwnAnswer
<1>2. ASSUME NEW keep \in SUBSET Handlers, ReadReport(keep)
      PROVE  response'[c].origin = c \/ Disturbed(c)'
  <2>1. CASE c = waiting /\ Ends(Head(input))
    <3>1. /\ input # <<>>
          /\ IsForCommand(waiting, Head(input))
          /\ response'[c] = [kind |-> Head(input).kind, origin |-> Head(input).origin]
      BY <1>2, <2>1, ReadEffect
    <3>2. Head(input).origin = waiting \/ Disturbed(waiting)
      BY <2>1, <3>1, TakesOwnReply
    <3>3. Disturbed(c) => Disturbed(c)'
      BY Settled
    <3>4. QED
      BY <2>1, <3>1, <3>2, <3>3
  <2>2. CASE c # waiting \/ ~Ends(Head(input))
    BY <1>1, <1>2, <2>2, ReadEffect
  <2>3. QED
    BY <2>1, <2>2
<1>3. CASE ReadFails
  <2>1. response \in [Calls -> Outcome] /\ c \in Calls
    BY DEF TypeOK, Calls
  <2>2. response'[c] = response[c] \/ response'[c].kind = "exception"
    BY <1>3, <2>1 DEF ReadFails
  <2>3. QED
    BY <1>1, <2>2
<1>4. CASE UNCHANGED response
  BY <1>1, <1>4
<1>5. QED
  BY <1>2, <1>3, <1>4
     DEF Next, User, Read, Device, SendCommand, GetNotification, Get, Drop, Listen,
         RegisterEventHandler, UnregisterEventHandler, Stop, ReadInterrupted, TimeoutExpires,
         Answer, Lose, SendUnsolicited, Unplug, vars, callVars

LEMMA KeptStep ==
    TypeOK /\ WaitInv /\ InputInv /\ KeptInv /\ [Next]_vars => KeptInv'
<1> SUFFICES ASSUME TypeOK, WaitInv, InputInv, KeptInv, [Next]_vars, NEW c \in Commands,
                    call'[c] = "pending", fate'[c] = "answered"
             PROVE  ~NotQueued(c)'
  BY DEF KeptInv, NotQueued
<1>0. /\ call \in [Calls -> {"new", "pending", "dropped", "returned", "refused", "failed"}]
      /\ fate \in [Commands -> {"none", "queued", "answered", "lost"}]
      /\ c \in Calls
  BY DEF TypeOK, Calls
<1>1. call[c] = "pending" /\ fate[c] = "answered" => ~NotQueued(c)
  BY DEF KeptInv
<1>2. ASSUME NEW e \in Commands, SendCommand(e) PROVE ~NotQueued(c)'
  <2>1. /\ input' = input /\ e \in Calls
        /\ \/ call' = [call EXCEPT ![e] = "pending"] /\ fate' = [fate EXCEPT ![e] = "queued"]
           \/ call' = [call EXCEPT ![e] = "refused"] /\ fate' = fate
    BY <1>2 DEF SendCommand, Calls
  <2>2. QED
    BY <1>0, <1>1, <2>1 DEF NotQueued
<1>3. ASSUME NEW n \in Notifications, GetNotification(n) PROVE ~NotQueued(c)'
  BY <1>0, <1>1, <1>3, ActorAssumption DEF GetNotification, deviceVars, NotQueued
<1>4. ASSUME NEW e \in Calls, Drop(e) PROVE ~NotQueued(c)'
  BY <1>0, <1>1, <1>4 DEF Drop, deviceVars, NotQueued
<1>5. ASSUME NEW keep \in SUBSET Handlers, ReadReport(keep) PROVE ~NotQueued(c)'
  <2>1. input # <<>> /\ input' = Tail(input) /\ fate' = fate
    BY <1>5, ReadEffect
  <2>2. call[c] = "pending" /\ (c # waiting \/ ~Ends(Head(input)))
    BY <1>5, ReadEffect
  <2>3. waiting = c
    <3>1. waiting \in Calls \cup {"listen"}
      BY <1>5 DEF TypeOK, ReadReport, Free
    <3>2. QED
      BY <1>0, <2>2, <3>1 DEF WaitInv
  <2>4. Head(input).origin # c
    <3>1. SUFFICES ASSUME Head(input).origin = c PROVE FALSE
      OBVIOUS
    <3>2. Genuine(Head(input)) /\ c # Nobody
      BY <2>1, ReadFacts, ActorAssumption DEF InputInv, Calls
    <3>3. IsForCommand(c, Head(input))
      BY <3>1, <3>2 DEF Genuine, IsForCommand
    <3>4. QED
      BY <2>2, <2>3, <3>3 DEF Ends
  <2>5. QED
    BY <1>1, <2>1, <2>2, <2>4, NotQueuedTail
<1>6. CASE ReadFails
  <2>1. UNCHANGED <<input, fate>> /\ call[c] = "pending"
    BY <1>0, <1>6 DEF ReadFails, deviceVars
  <2>2. QED
    BY <1>1, <2>1 DEF NotQueued
<1>7. ASSUME NEW e \in Commands, NEW kind \in {"answer", "error"}, Answer(e, kind)
      PROVE  ~NotQueued(c)'
  <2> DEFINE r == [kind |-> kind, key |-> KeyOf[e], origin |-> e]
  <2>1. /\ call' = call /\ fate' = [fate EXCEPT ![e] = "answered"]
        /\ input' = Append(input, r)
        /\ r \in Report /\ r.origin = e
    BY <1>7, ReplyType DEF Answer, callVars
  <2>2. NotQueued(c)' <=> NotQueued(c) /\ r.origin # c
    BY <2>1, NotQueuedAppend
  <2>3. QED
    BY <1>0, <1>1, <2>1, <2>2
<1>8. ASSUME NEW e \in Commands, Lose(e) PROVE ~NotQueued(c)'
  BY <1>0, <1>1, <1>8 DEF Lose, callVars, NotQueued
<1>9. ASSUME NEW k \in EventKeys, NEW kind \in {"event", "foreign"}, SendUnsolicited(kind, k)
      PROVE  ~NotQueued(c)'
  <2> DEFINE r == [kind |-> kind, key |-> k, origin |-> Nobody]
  <2>1. /\ UNCHANGED <<call, fate>>
        /\ input' = Append(input, r) /\ r \in Report
    BY <1>9, UnsolicitedType DEF SendUnsolicited, callVars
  <2>2. NotQueued(c)' => NotQueued(c)
    BY <2>1, NotQueuedAppend
  <2>3. QED
    BY <1>1, <2>1, <2>2
<1>10. CASE UNCHANGED <<call, fate, input>>
  BY <1>1, <1>10 DEF NotQueued
<1>11. QED
  BY <1>2, <1>3, <1>4, <1>5, <1>6, <1>7, <1>8, <1>9, <1>10
     DEF Next, User, Read, Device, Get, Listen, RegisterEventHandler, UnregisterEventHandler,
         Stop, ReadInterrupted, TimeoutExpires, Unplug, vars, callVars, deviceVars

-----------------------------------------------------------------------------
(* The handlers. *)

LEMMA NewHandlers == TypeOK /\ EventInv /\ [Next]_vars =>
    \A h \in Handlers : handler'[h] = "new" => called'[h] = 0
<1> SUFFICES ASSUME TypeOK, EventInv, [Next]_vars, NEW h \in Handlers, handler'[h] = "new"
             PROVE  called'[h] = 0
  OBVIOUS
<1>0. /\ handler \in [Handlers -> {"new", "registered", "removed"}]
      /\ called \in [Handlers -> Nat]
      /\ handler[h] = "new" => called[h] = 0
  BY DEF TypeOK, EventInv
<1>1. ASSUME NEW g \in Handlers, RegisterEventHandler(g) \/ UnregisterEventHandler(g)
      PROVE  called'[h] = 0
  BY <1>0, <1>1 DEF RegisterEventHandler, UnregisterEventHandler
<1>2. ASSUME NEW keep \in SUBSET Handlers, ReadReport(keep) PROVE called'[h] = 0
  <2>1. ProcessEvent(Head(input), keep)
    BY <1>2 DEF ReadReport
  <2>2. handler[h] = "new"
    BY <1>0, <2>1 DEF ProcessEvent
  <2>3. h \notin Receivers(Head(input))
    BY <2>2 DEF Receivers
  <2>4. QED
    BY <1>0, <2>1, <2>2, <2>3 DEF ProcessEvent
<1>3. CASE UNCHANGED <<handler, called>>
  BY <1>0, <1>3
<1>4. QED
  BY <1>1, <1>2, <1>3
     DEF Next, User, Read, Device, SendCommand, GetNotification, Get, Drop, Listen, Stop,
         ReadInterrupted, TimeoutExpires, ReadFails, Answer, Lose, SendUnsolicited, Unplug,
         vars, handlerVars

LEMMA EventStep == TypeOK /\ EventInv /\ [Next]_vars => EventInv'
<1> SUFFICES ASSUME TypeOK, EventInv, [Next]_vars, NEW h \in Handlers,
                    handler'[h] = "registered"
             PROVE  owed'[h] = called'[h] + EventsQueued(h)'
  BY NewHandlers DEF EventInv
<1> DEFINE E == EventsOf(h)
           queued == Cardinality(PlacesOf(input, E))
<1>0. /\ handler \in [Handlers -> {"new", "registered", "removed"}]
      /\ owed \in [Handlers -> Nat]
      /\ called \in [Handlers -> Nat]
      /\ input \in Seq(Report)
      /\ queued \in Nat
  BY PlacesFinite DEF TypeOK
<1>1. EventsQueued(h) = queued
  BY <1>0, QueuedEvents DEF EventsQueued
<1>2. \A s \in Seq(Report) :
        input' = s => EventsQueued(h)' = Cardinality(PlacesOf(s, E))
  BY QueuedEvents DEF EventsQueued, IsEventOf
<1>3. handler[h] = "registered" => owed[h] = called[h] + queued
  BY <1>1 DEF EventInv
<1>4. ASSUME NEW g \in Handlers, RegisterEventHandler(g)
      PROVE  owed'[h] = called'[h] + EventsQueued(h)'
  <2>1. /\ UNCHANGED <<input, called>>
        /\ handler[g] = "new" /\ handler' = [handler EXCEPT ![g] = "registered"]
        /\ owed' = [owed EXCEPT ![g] = EventsQueued(g)]
    BY <1>4 DEF RegisterEventHandler, deviceVars
  <2>2. EventsQueued(h)' = queued
    BY <1>0, <1>2, <2>1
  <2>3. CASE g = h
    <3>1. owed'[h] = queued /\ called'[h] = 0
      BY <1>0, <1>1, <2>1, <2>3 DEF EventInv
    <3>2. QED
      BY <1>0, <2>2, <3>1
  <2>4. CASE g # h
    <3>1. handler[h] = "registered" /\ owed'[h] = owed[h]
      BY <1>0, <2>1, <2>4
    <3>2. QED
      BY <1>3, <2>1, <2>2, <3>1
  <2>5. QED
    BY <2>3, <2>4
<1>5. ASSUME NEW g \in Handlers, UnregisterEventHandler(g)
      PROVE  owed'[h] = called'[h] + EventsQueued(h)'
  <2>1. /\ UNCHANGED <<input, owed, called>>
        /\ handler[h] = "registered"
    BY <1>0, <1>5 DEF UnregisterEventHandler, deviceVars
  <2>2. QED
    BY <1>0, <1>2, <1>3, <2>1
<1>6. ASSUME NEW keep \in SUBSET Handlers, ReadReport(keep)
      PROVE  owed'[h] = called'[h] + EventsQueued(h)'
  <2> DEFINE r == Head(input)
  <2>1. /\ input # <<>> /\ input' = Tail(input) /\ Tail(input) \in Seq(Report)
        /\ r \in Report
        /\ owed' = owed
        /\ ProcessEvent(r, keep)
    BY <1>6, ReadFacts DEF ReadReport
  <2>2. EventsQueued(h)' = Cardinality(PlacesOf(Tail(input), E))
    BY <1>2, <2>1
  <2>3. queued = Cardinality(PlacesOf(Tail(input), E)) + (IF r \in E THEN 1 ELSE 0)
    BY <1>0, <2>1, CountTail
  <2>4. handler[h] = "registered"
    BY <1>0, <2>1 DEF ProcessEvent
  <2>5. r \in E => h \in Receivers(r)
    BY <2>4 DEF EventsOf, IsEventOf, Receivers
  <2>6. called'[h] = called[h] + (IF r \in E THEN 1 ELSE 0)
    BY <1>0, <2>1, <2>5 DEF ProcessEvent, EventsOf
  <2>7. Cardinality(PlacesOf(Tail(input), E)) \in Nat
    BY <2>1, PlacesFinite
  <2>8. QED
    BY <1>0, <1>3, <2>1, <2>2, <2>3, <2>4, <2>6, <2>7
<1>7. ASSUME NEW c \in Commands, NEW kind \in {"answer", "error"}, Answer(c, kind)
      PROVE  owed'[h] = called'[h] + EventsQueued(h)'
  <2> DEFINE r == [kind |-> kind, key |-> KeyOf[c], origin |-> c]
  <2>1. /\ input' = Append(input, r) /\ r \in Report /\ r \notin E
        /\ Append(input, r) \in Seq(Report)
        /\ UNCHANGED <<handler, owed, called>>
    <3>1. r \in Report /\ r.kind # "event"
      BY ReplyType
    <3>2. r \notin E
      BY <3>1 DEF EventsOf, IsEventOf
    <3>3. Append(input, r) \in Seq(Report)
      BY <1>0, <3>1, AppendFacts
    <3>4. input' = Append(input, r) /\ UNCHANGED <<handler, owed, called>>
      BY <1>7 DEF Answer, handlerVars
    <3> HIDE DEF r, E
    <3>5. QED
      BY <3>1, <3>2, <3>3, <3>4
  <2> HIDE DEF r, E
  <2>2. EventsQueued(h)' = queued
    <3>1. EventsQueued(h)' = Cardinality(PlacesOf(Append(input, r), E))
      BY <1>2, <2>1
    <3>2. Cardinality(PlacesOf(Append(input, r), E)) = queued + (IF r \in E THEN 1 ELSE 0)
      BY <1>0, <2>1, CountAppend
    <3>3. QED
      BY <1>0, <2>1, <3>1, <3>2
  <2>3. QED
    BY <1>3, <2>1, <2>2
<1>8. ASSUME NEW k \in EventKeys, NEW kind \in {"event", "foreign"}, SendUnsolicited(kind, k)
      PROVE  owed'[h] = called'[h] + EventsQueued(h)'
  <2> DEFINE r == [kind |-> kind, key |-> k, origin |-> Nobody]
  <2>1. /\ input' = Append(input, r) /\ r \in Report
        /\ Append(input, r) \in Seq(Report)
        /\ UNCHANGED <<handler, called>>
    BY <1>0, <1>8, UnsolicitedType, AppendFacts DEF SendUnsolicited
  <2>2. owed'[h] = owed[h] + (IF r \in E THEN 1 ELSE 0)
    <3>1. handler[h] = "registered"
      BY <2>1
    <3>2. r \in E <=> IsEventOf(h, r)
      BY <2>1 DEF EventsOf
    <3>3. owed' = [g \in Handlers |-> IF handler[g] = "registered" /\ IsEventOf(g, r)
                                        THEN owed[g] + 1 ELSE owed[g]]
      BY <1>8 DEF SendUnsolicited
    <3> HIDE DEF r, E
    <3>4. owed'[h] = IF r \in E THEN owed[h] + 1 ELSE owed[h]
      BY <3>1, <3>2, <3>3
    <3>5. QED
      BY <1>0, <3>4
  <2> HIDE DEF r, E
  <2>3. EventsQueued(h)' = queued + (IF r \in E THEN 1 ELSE 0)
    <3>1. EventsQueued(h)' = Cardinality(PlacesOf(Append(input, r), E))
      BY <1>2, <2>1
    <3>2. QED
      BY <1>0, <2>1, <3>1, CountAppend
  <2>4. QED
    BY <1>0, <1>3, <2>1, <2>2, <2>3
<1>9. CASE UNCHANGED <<handler, owed, called, input>>
  BY <1>0, <1>2, <1>3, <1>9
<1>10. QED
  BY <1>4, <1>5, <1>6, <1>7, <1>8, <1>9
     DEF Next, User, Read, Device, SendCommand, GetNotification, Get, Drop, Listen, Stop,
         ReadInterrupted, TimeoutExpires, ReadFails, Lose, Unplug, vars, handlerVars, deviceVars

-----------------------------------------------------------------------------
(* The theorems. *)

LEMMA InvInit == Init => Inv
<1> SUFFICES ASSUME Init PROVE Inv
  OBVIOUS
<1>1. input = <<>> /\ Len(input) = 0 /\ 1 .. Len(input) = {}
  BY DEF Init
<1>2. WaitInv
  BY ActorAssumption DEF Init, WaitInv
<1>3. InputInv
  BY <1>1 DEF InputInv
<1>4. CommandInv /\ OwnAnswer
  BY ActorAssumption DEF Init, CommandInv, OwnAnswer, Unset, Calls
<1>5. KeptInv /\ EventInv
  BY DEF Init, KeptInv, EventInv, Calls
<1>6. QED
  BY <1>2, <1>3, <1>4, <1>5, TypeInit DEF Inv

LEMMA InvStep == Inv /\ [Next]_vars => Inv'
BY TypeStep, WaitStep, InputStep, CommandStep, OwnStep, KeptStep, EventStep DEF Inv

\* In every reachable state the variables have their types, one call is in
\* progress at most, and the queue holds the device's own reports and at most
\* one reply for each command that was answered.
THEOREM DispatcherCorrect == Spec => []Inv
<1>1. Init => Inv
  BY InvInit
<1>2. Inv /\ [Next]_vars => Inv'
  BY InvStep
<1>3. QED
  BY <1>1, <1>2, PTL DEF Spec

\* get () returns, or throws, the reply to its own request, unless an earlier
\* command with the same request was given up before its reply came.
THEOREM OwnAnswerTaken == Spec => []OwnAnswer
<1>1. Inv => OwnAnswer
  BY DEF Inv
<1>2. QED
  BY <1>1, DispatcherCorrect, PTL

\* However often get (timeout) gives up, the reply to the command in progress
\* is still there for the next get ().
THEOREM AnswerNotThrownAway == Spec => []AnswerKept
<1>1. Inv => AnswerKept
  <2>1. ASSUME Inv, NEW c \in Commands, call[c] = "pending", fate[c] = "answered"
        PROVE  \E i \in DOMAIN input : input[i].origin = c
    <3>1. ~NotQueued(c) /\ DOMAIN input = 1 .. Len(input)
      BY <2>1, InputFacts DEF Inv, KeptInv
    <3>2. QED
      BY <3>1 DEF NotQueued
  <2>2. QED
    BY <2>1 DEF AnswerKept
<1>2. QED
  BY <1>1, DispatcherCorrect, PTL

\* A registered handler has been called once for each event sent since, but
\* those that are still queued, whatever the thread was waiting for.
THEOREM HandlersMissNothing == Spec => []EventsReachHandlers
<1>1. Inv => EventsReachHandlers
  BY DEF Inv, EventInv, EventsReachHandlers
<1>2. QED
  BY <1>1, DispatcherCorrect, PTL
=============================================================================
