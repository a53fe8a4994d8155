----------------------- MODULE DispatcherThreadProofs -----------------------
(***************************************************************************)
(* Theorems about DispatcherThread, for any number of commands,            *)
(* notifications, handlers and keys.                                       *)
(***************************************************************************)
EXTENDS DispatcherThread, TLAPS

\* Lists as DispatcherThread uses them: no element twice.
Injective(s) == \A i, j \in DOMAIN s : s[i] = s[j] => i = j

\* Erasing from a list gives a list.
LEMMA EraseType ==
    ASSUME NEW S, NEW s \in Seq(S), NEW i \in DOMAIN s
    PROVE  Erase(s, i) \in Seq(S)
<1>1. /\ Len(s) \in Nat
      /\ i \in 1 .. Len(s)
      /\ \A k \in 1 .. Len(s) : s[k] \in S
  OBVIOUS
<1>2. /\ Len(s) - 1 \in Nat
      /\ \A j \in 1 .. Len(s) - 1 : (IF j < i THEN s[j] ELSE s[j + 1]) \in S
  BY <1>1
<1>3. QED
  BY <1>2 DEF Erase

\* Erasing one element of a list without duplicates removes that element,
\* keeps every other one and makes no duplicate (cancelCommand, processReport).
LEMMA EraseRemoves ==
    ASSUME NEW S, NEW s \in Seq(S), NEW i \in DOMAIN s, Injective(s)
    PROVE  /\ Erase(s, i) \in Seq(S)
           /\ Injective(Erase(s, i))
           /\ Elements(Erase(s, i)) = Elements(s) \ {s[i]}
<1> DEFINE e == Erase(s, i)
           at(j) == IF j < i THEN j ELSE j + 1
<1>1. /\ Len(s) \in Nat
      /\ DOMAIN s = 1 .. Len(s)
      /\ \A k \in 1 .. Len(s) : s[k] \in S
      /\ i \in 1 .. Len(s)
  OBVIOUS
<1>2. /\ e = [j \in 1 .. Len(s) - 1 |-> s[at(j)]]
      /\ Len(s) - 1 \in Nat
      /\ \A j \in 1 .. Len(s) - 1 : at(j) \in 1 .. Len(s) /\ at(j) # i
  BY <1>1 DEF Erase
<1>3. e \in Seq(S)
  BY EraseType
<1>4. DOMAIN e = 1 .. Len(s) - 1
  BY <1>2
<1>5. Injective(e)
  BY <1>1, <1>2, <1>4 DEF Injective
<1>6. ASSUME NEW x \in Elements(e)
      PROVE  x \in Elements(s) \ {s[i]}
  BY <1>1, <1>2, <1>4 DEF Elements, Injective
<1>7. ASSUME NEW x \in Elements(s) \ {s[i]}
      PROVE  x \in Elements(e)
  <2>1. PICK k \in 1 .. Len(s) : x = s[k] /\ k # i
    BY <1>1 DEF Elements
  <2>2. CASE k < i
    <3>1. k \in 1 .. Len(s) - 1 /\ at(k) = k
      BY <1>1, <2>1, <2>2
    <3>2. QED
      BY <1>2, <1>4, <2>1, <3>1 DEF Elements
  <2>3. CASE k > i
    <3>1. k - 1 \in 1 .. Len(s) - 1 /\ at(k - 1) = k
      BY <1>1, <2>1, <2>3
    <3>2. QED
      BY <1>2, <1>4, <2>1, <3>1 DEF Elements
  <2>4. QED
    BY <1>1, <2>1, <2>2, <2>3
<1>8. QED
  BY <1>3, <1>5, <1>6, <1>7

\* Appending a new element adds it and makes no duplicate (sendCommand).
LEMMA AppendAdds ==
    ASSUME NEW S, NEW s \in Seq(S), NEW x \in S, Injective(s), x \notin Elements(s)
    PROVE  /\ Append(s, x) \in Seq(S)
           /\ Injective(Append(s, x))
           /\ Elements(Append(s, x)) = Elements(s) \cup {x}
<1>1. /\ Len(s) \in Nat
      /\ DOMAIN s = 1 .. Len(s)
      /\ DOMAIN Append(s, x) = 1 .. Len(s) + 1
      /\ \A k \in 1 .. Len(s) : Append(s, x)[k] = s[k]
      /\ Append(s, x)[Len(s) + 1] = x
      /\ Append(s, x) \in Seq(S)
  OBVIOUS
<1>2. Injective(Append(s, x))
  BY <1>1 DEF Injective, Elements
<1>3. Elements(Append(s, x)) = Elements(s) \cup {x}
  <2>1. 1 .. Len(s) + 1 = (1 .. Len(s)) \cup {Len(s) + 1}
    BY <1>1
  <2>2. QED
    BY <1>1, <2>1, Zenon DEF Elements
<1>4. QED
  BY <1>1, <1>2, <1>3

-----------------------------------------------------------------------------
(* Type correctness. *)

LEMMA NoReportType == NoReport \in Report
BY KeyAssumption DEF NoReport, Report

\* The state of a call is a call's state, and so on, in every reachable state.
LEMMA InitType == Init => TypeOK
<1>1. Unset \in Outcome
  BY DEF Unset, Outcome
<1>2. SUFFICES ASSUME Init PROVE TypeOK
  OBVIOUS
<1>3. /\ pc \in [Calls -> {"idle", "locked", "written", "pending", "blocking",
                          "timed", "returned", "timedout", "refused", "failed"}]
      /\ response \in [Calls -> Outcome]
      /\ fate \in [Commands -> {"none", "queued", "answered", "lost"}]
      /\ handler \in [Handlers -> {"new", "registered", "removed"}]
      /\ heard \in [Handlers -> SUBSET {"answer", "error", "event", "foreign"}]
  BY <1>1, <1>2 DEF Init
<1>4. /\ commands \in Seq(Commands)
      /\ written \in Seq(Commands)
      /\ input \in Seq(Report)
  BY <1>2 DEF Init
<1>5. 0 \in 0 .. MaxUnsolicited
  BY KeyAssumption
<1>6. QED
  BY <1>2, <1>3, <1>4, <1>5, NoReportType DEF Init, TypeOK

LEMMA PositionFound ==
    ASSUME NEW c \in Elements(commands)
    PROVE  PositionOf(c) \in DOMAIN commands /\ commands[PositionOf(c)] = c
BY DEF PositionOf, Elements

LEMMA CancelType ==
    ASSUME TypeOK, NEW c \in Calls, Cancel(c)
    PROVE  /\ commands' \in Seq(Commands)
           /\ notifications' \subseteq Notifications
           /\ listeners' \subseteq Listeners
<1>1. CASE c \in Commands
  <2>1. CASE c \in Elements(commands)
    BY <1>1, <2>1, EraseType, PositionFound DEF Cancel, TypeOK
  <2>2. CASE c \notin Elements(commands)
    BY <1>1, <2>2 DEF Cancel, TypeOK
  <2>3. QED
    BY <2>1, <2>2
<1>2. CASE c \notin Commands
  BY <1>2 DEF Cancel, TypeOK
<1>3. QED
  BY <1>1, <1>2

LEMMA CallerType ==
    ASSUME TypeOK, NEW c \in Calls, Caller(c) PROVE TypeOK'
<1>1. ASSUME c \in Commands, SendCommand(c) PROVE TypeOK'
  BY <1>1 DEF SendCommand, Goto, TypeOK, Calls, runVars, stopVars, deviceVars, handlerVars
<1>2. ASSUME c \in Commands, WriteCommand(c) PROVE TypeOK'
  <2>1. written' \in Seq(Commands)
    <3>1. written' = Append(written, c) \/ written' = written
      BY <1>2 DEF WriteCommand
    <3>2. written \in Seq(Commands) /\ c \in Commands
      BY <1>2 DEF TypeOK
    <3>3. Append(written, c) \in Seq(Commands)
      BY <3>2
    <3>4. QED
      BY <3>1, <3>2, <3>3
  <2>2. /\ fate' \in [Commands -> {"none", "queued", "answered", "lost"}]
        /\ pc' \in [Calls -> {"idle", "locked", "written", "pending", "blocking",
                              "timed", "returned", "timedout", "refused", "failed"}]
    BY <1>2 DEF WriteCommand, Goto, TypeOK, Calls
  <2>3. UNCHANGED <<response, commands, notifications, listeners, runVars,
                    stopVars, input, plugged, unsolicited, handlerVars>>
    BY <1>2 DEF WriteCommand
  <2>4. QED
    BY <2>1, <2>2, <2>3 DEF TypeOK, runVars, stopVars, handlerVars
<1>3. ASSUME c \in Commands, InsertCommand(c) PROVE TypeOK'
  BY <1>3 DEF InsertCommand, Goto, TypeOK, Calls, runVars, stopVars, deviceVars, handlerVars
<1>4. ASSUME c \in Notifications, GetNotification(c) PROVE TypeOK'
  BY <1>4 DEF GetNotification, Goto, TypeOK, Calls, Listeners, runVars, stopVars, deviceVars, handlerVars
<1>5. ASSUME Wait(c) PROVE TypeOK'
  BY <1>5 DEF Wait, Goto, TypeOK, runVars, stopVars, deviceVars, handlerVars
<1>6. ASSUME Return(c) PROVE TypeOK'
  BY <1>6 DEF Return, Goto, TypeOK, runVars, stopVars, deviceVars, handlerVars
<1>7. ASSUME TimedReturn(c) PROVE TypeOK'
  <2>1. /\ commands' \in Seq(Commands)
        /\ notifications' \subseteq Notifications
        /\ listeners' \subseteq Listeners
    BY <1>7, CancelType DEF TimedReturn, TypeOK
  <2>2. QED
    BY <1>7, <2>1 DEF TimedReturn, Goto, TypeOK, runVars, stopVars, deviceVars, handlerVars
<1>8. QED
  BY <1>1, <1>2, <1>3, <1>4, <1>5, <1>6, <1>7 DEF Caller

LEMMA RunType ==
    ASSUME TypeOK, Run PROVE TypeOK'
<1> USE DEF callVars, stopVars, deviceVars, handlerVars
<1>1. ASSUME CheckStopped PROVE TypeOK'
  BY <1>1 DEF CheckStopped, TypeOK
<1>2. ASSUME ReadReport PROVE TypeOK'
  BY <1>2 DEF ReadReport, TypeOK
<1>3. ASSUME ReadInterrupted PROVE TypeOK'
  BY <1>3 DEF ReadInterrupted, TypeOK
<1>4. ASSUME ReadFails PROVE TypeOK'
  BY <1>4 DEF ReadFails, TypeOK
<1>5. ASSUME IgnoreForeign PROVE TypeOK'
  BY <1>5, NoReportType DEF IgnoreForeign, Done, TypeOK
<1>6. ASSUME MatchCommand PROVE TypeOK'
  <2>1. PICK i \in DOMAIN commands :
          /\ response' = [response EXCEPT ![commands[i]] = OutcomeOf(report)]
          /\ commands' = Erase(commands, i)
    BY <1>6 DEF MatchCommand
  <2>2. commands' \in Seq(Commands)
    BY <2>1, EraseType DEF TypeOK
  <2>3. OutcomeOf(report) \in Outcome
    BY <1>6 DEF MatchCommand, OutcomeOf, Outcome, Report, TypeOK
  <2>4. response' \in [Calls -> Outcome]
    <3>1. \A c : [response EXCEPT ![c] = OutcomeOf(report)] \in [Calls -> Outcome]
      BY <2>3 DEF TypeOK
    <3>2. QED
      BY <2>1, <3>1
  <2>5. QED
    BY <1>6, <2>2, <2>4, NoReportType DEF MatchCommand, Done, TypeOK
<1>7. ASSUME NoMatch PROVE TypeOK'
  <2>1. report.kind \in {"answer", "error", "event", "foreign"}
    BY DEF TypeOK, Report
  <2>2. report' \in Report /\ runPc' \in {"event", "loop"}
    BY <1>7, NoReportType DEF NoMatch, Done, TypeOK
  <2>3. runPc' = "event" => report'.kind \in {"answer", "event"}
    BY <1>7, <2>1 DEF NoMatch, Done
  <2>4. QED
    BY <1>7, <2>2, <2>3 DEF NoMatch, TypeOK
<1>8. ASSUME DeliverBegin PROVE TypeOK'
  BY <1>8 DEF DeliverBegin, TypeOK
<1>9. ASSUME NEW n \in Notifications, DeliverNotification(n) PROVE TypeOK'
  <2>1. response' \in [Calls -> Outcome]
    BY <1>9 DEF DeliverNotification, OutcomeOf, Outcome, Report, TypeOK
  <2>2. QED
    BY <1>9, <2>1 DEF DeliverNotification, TypeOK
<1>10. ASSUME NEW h \in Handlers, NEW keep \in BOOLEAN, DeliverHandler(h, keep)
       PROVE TypeOK'
  <2>1. heard' \in [Handlers -> SUBSET {"answer", "error", "event", "foreign"}]
    BY <1>10 DEF DeliverHandler, Report, TypeOK
  <2>2. QED
    BY <1>10, <2>1 DEF DeliverHandler, TypeOK
<1>11. ASSUME DeliverEnd PROVE TypeOK'
  BY <1>11, NoReportType DEF DeliverEnd, Done, TypeOK
<1>12. ASSUME Leave PROVE TypeOK'
  BY <1>12 DEF Leave, TypeOK
<1>13. ASSUME NEW S, Fail(S) PROVE response' \in [Calls -> Outcome]
  BY <1>13 DEF Fail, Exception, Outcome, TypeOK
<1>14. ASSUME SweepCommands PROVE TypeOK'
  BY <1>13, <1>14 DEF SweepCommands, TypeOK
<1>15. ASSUME SweepNotifications PROVE TypeOK'
  BY <1>13, <1>15 DEF SweepNotifications, TypeOK
<1>16. QED
  BY <1>1, <1>2, <1>3, <1>4, <1>5, <1>6, <1>7, <1>8, <1>9, <1>10, <1>11, <1>12,
     <1>14, <1>15
  DEF Run, Read, Process, Deliver, Shutdown

LEMMA UserType ==
    ASSUME TypeOK, User PROVE TypeOK'
<1> USE DEF callVars, runVars, stopVars, deviceVars
<1>1. ASSUME SetStopped PROVE TypeOK'
  BY <1>1 DEF SetStopped, TypeOK, handlerVars
<1>2. ASSUME InterruptRead PROVE TypeOK'
  BY <1>2 DEF InterruptRead, TypeOK, handlerVars
<1>3. ASSUME NEW h \in Handlers, RegisterEventHandler(h) PROVE TypeOK'
  BY <1>3 DEF RegisterEventHandler, TypeOK, Listeners
<1>4. ASSUME NEW h \in Handlers, UnregisterEventHandler(h) PROVE TypeOK'
  BY <1>4 DEF UnregisterEventHandler, TypeOK
<1>5. QED
  BY <1>1, <1>2, <1>3, <1>4 DEF User

LEMMA DeviceType ==
    ASSUME TypeOK, Device PROVE TypeOK'
<1> USE DEF callVars, runVars, stopVars, handlerVars
<1>1. ASSUME NEW r \in Report, input' = Append(input, r)
      PROVE  input' \in Seq(Report)
  BY <1>1 DEF TypeOK
<1>2. ASSUME NEW c \in Commands, NEW kind \in {"answer", "error"}, Answer(c, kind)
      PROVE  TypeOK'
  <2>1. [kind |-> kind, key |-> KeyOf[c], origin |-> c] \in Report
    BY KeyAssumption DEF Report
  <2>2. input' \in Seq(Report)
    BY <1>1, <1>2, <2>1 DEF Answer
  <2>3. QED
    BY <1>2, <2>2 DEF Answer, TypeOK
<1>3. ASSUME NEW c \in Commands, Lose(c) PROVE TypeOK'
  BY <1>3 DEF Lose, TypeOK
<1>4. ASSUME NEW k \in EventKeys, NEW kind \in {"event", "foreign"},
             SendUnsolicited(kind, k)
      PROVE  TypeOK'
  <2>1. [kind |-> kind, key |-> k, origin |-> Nobody] \in Report
    BY KeyAssumption DEF Report
  <2>2. input' \in Seq(Report)
    BY <1>1, <1>4, <2>1 DEF SendUnsolicited
  <2>3. unsolicited' \in 0 .. MaxUnsolicited
    BY <1>4, KeyAssumption DEF SendUnsolicited, TypeOK
  <2>4. QED
    BY <1>4, <2>2, <2>3 DEF SendUnsolicited, TypeOK
<1>5. ASSUME Unplug PROVE TypeOK'
  BY <1>5 DEF Unplug, TypeOK
<1>6. QED
  BY <1>2, <1>3, <1>4, <1>5 DEF Device

LEMMA TypeStep == TypeOK /\ [Next]_vars => TypeOK'
<1>1. ASSUME TypeOK, UNCHANGED vars PROVE TypeOK'
  BY <1>1 DEF TypeOK, vars, callVars, runVars, stopVars, deviceVars, handlerVars
<1>2. QED
  BY <1>1, CallerType, RunType, UserType, DeviceType DEF Next

\* Every state the threads, the device and the users can reach is one of the
\* types of DispatcherThread's members; in particular the byte of stop() is
\* read at most once and every list holds calls only.
THEOREM TypeCorrect == Spec => []TypeOK
BY InitType, TypeStep, PTL DEF Spec

-----------------------------------------------------------------------------
(* The promises.  PromiseInv is inductive relative to TypeOK.              *)

Sweeping == {"sweepCommands", "sweepNotifications", "done"}
promiseVars == <<callVars, runPc, todo, stopped>>

LEMMA PromiseInit == Init => PromiseInv
BY DEF Init, PromiseInv, CommandInv, NotificationInv, CallInv, RunInv,
       Unresolved, HasFuture, Elements, Unset, Calls

\* Steps that leave the calls alone, and the run thread where it is.
LEMMA PromiseFrame ==
    ASSUME PromiseInv, UNCHANGED promiseVars PROVE PromiseInv'
BY DEF PromiseInv, CommandInv, NotificationInv, CallInv, RunInv, Unresolved,
       HasFuture, Elements, promiseVars, callVars

\* Steps of the run thread that leave the calls alone.
LEMMA PromiseRunFrame ==
    ASSUME PromiseInv, UNCHANGED <<callVars, todo>>, todo = {},
           runPc \notin Sweeping, runPc' \notin Sweeping \ {"sweepCommands"},
           stopped => stopped', runPc' = "sweepCommands" => stopped'
    PROVE  PromiseInv'
BY DEF PromiseInv, CommandInv, NotificationInv, CallInv, RunInv, Unresolved,
       HasFuture, Elements, callVars, Sweeping

\* A step of a caller that changes nothing but its own program counter.
LEMMA PromiseGoto ==
    ASSUME TypeOK, PromiseInv, NEW c \in Calls, NEW to,
           pc' = [pc EXCEPT ![c] = to],
           UNCHANGED <<response, commands, notifications, listeners, runPc,
                       todo, stopped>>,
           \/ /\ pc[c] = "idle"
              /\ c \notin Notifications
              /\ to = IF stopped THEN "refused" ELSE "locked"
           \/ pc[c] = "idle" /\ to = "refused"
           \/ pc[c] = "locked" /\ to \in {"written", "failed"} /\ c \notin Notifications
           \/ pc[c] = "pending" /\ to \in {"blocking", "timed"}
           \/ /\ pc[c] \in {"blocking", "timed"} /\ to = "returned"
              /\ response[c].kind # "none"
    PROVE  PromiseInv'
<1>1. \A d \in Calls : pc'[d] = IF d = c THEN to ELSE pc[d]
  BY DEF TypeOK
<1>2. \A d \in Calls : Unresolved(d)' => Unresolved(d)
  BY <1>1 DEF Unresolved, HasFuture
<1>3. \A d \in Commands : CommandInv(d)'
  BY <1>1, <1>2 DEF PromiseInv, CommandInv, RunInv, Calls, Elements
<1>4. \A n \in Notifications : NotificationInv(n)'
  BY <1>1, <1>2 DEF PromiseInv, NotificationInv, Calls
<1>5. \A d \in Calls : CallInv(d)'
  BY <1>1 DEF PromiseInv, CallInv
<1>6. QED
  BY <1>3, <1>4, <1>5 DEF PromiseInv, RunInv

\* The three steps of a caller that change a list.
LEMMA PromiseInsert ==
    ASSUME TypeOK, PromiseInv, NEW c \in Commands, InsertCommand(c)
    PROVE  PromiseInv'
<1>1. /\ c \notin Elements(commands)
      /\ Injective(commands)
      /\ response[c].kind = "none"
      /\ runPc \notin {"sweepNotifications", "done"}
  BY DEF InsertCommand, PromiseInv, CommandInv, CallInv, Calls, Injective
<1>2. /\ Injective(commands')
      /\ Elements(commands') = Elements(commands) \cup {c}
  BY <1>1, AppendAdds DEF InsertCommand, TypeOK
<1>3. /\ \A d \in Calls : pc'[d] = IF d = c THEN "pending" ELSE pc[d]
      /\ UNCHANGED <<response, notifications, listeners, runPc, todo, stopped>>
  BY DEF InsertCommand, Goto, TypeOK, runVars, stopVars
<1>4. \A d \in Commands : CommandInv(d)'
  <2>1. Elements(commands)' = Elements(commands) \cup {c}
    BY <1>2 DEF Elements
  <2>2. QED
    BY <1>1, <1>3, <2>1 DEF PromiseInv, CommandInv, Unresolved, HasFuture, Calls
<1>5. \A n \in Notifications : NotificationInv(n)'
  BY <1>3, ActorAssumption DEF PromiseInv, NotificationInv, Unresolved, HasFuture, Calls
<1>6. \A d \in Calls : CallInv(d)'
  BY <1>3 DEF PromiseInv, CallInv
<1>7. QED
  BY <1>2, <1>3, <1>4, <1>5, <1>6 DEF PromiseInv, RunInv, Injective

LEMMA PromiseGetNotification ==
    ASSUME TypeOK, PromiseInv, NEW n \in Notifications, GetNotification(n)
    PROVE  PromiseInv'
<1>1. CASE stopped
  <2>1. /\ pc' = [pc EXCEPT ![n] = "refused"]
        /\ UNCHANGED <<response, commands, notifications, listeners, runPc,
                       todo, stopped>>
    BY <1>1 DEF GetNotification, Goto, runVars, stopVars
  <2>2. n \in Calls /\ pc[n] = "idle"
    BY DEF Calls, GetNotification
  <2>3. QED
    BY <2>1, <2>2, PromiseGoto
<1>2. CASE ~stopped
  <2>1. /\ \A d \in Calls : pc'[d] = IF d = n THEN "pending" ELSE pc[d]
        /\ notifications' = notifications \cup {n}
        /\ listeners' = listeners \cup {n}
        /\ UNCHANGED <<response, commands, runPc, todo, stopped>>
    BY <1>2 DEF GetNotification, Goto, TypeOK, runVars, stopVars
  <2>2. /\ response[n].kind = "none"
        /\ pc[n] = "idle"
        /\ runPc # "done"
        /\ n \notin Commands
    BY <1>2, ActorAssumption DEF GetNotification, PromiseInv, CallInv, RunInv, Calls
  <2>3. \A d \in Commands : CommandInv(d)'
    BY <2>1, <2>2 DEF PromiseInv, CommandInv, Unresolved, HasFuture, Calls, Elements
  <2>4. \A m \in Notifications : NotificationInv(m)'
    BY <2>1, <2>2 DEF PromiseInv, NotificationInv, Unresolved, HasFuture, Calls
  <2>5. \A d \in Calls : CallInv(d)'
    BY <2>1, <2>2 DEF PromiseInv, CallInv
  <2>6. QED
    BY <2>1, <2>3, <2>4, <2>5 DEF PromiseInv, RunInv
<1>3. QED
  BY <1>1, <1>2

LEMMA PromiseTimedReturn ==
    ASSUME TypeOK, PromiseInv, NEW c \in Calls, TimedReturn(c)
    PROVE  PromiseInv'
<1>1. UNCHANGED <<response, runPc, todo, stopped>>
  BY DEF TimedReturn, runVars, stopVars
<1>2. CASE response[c].kind # "none"
  BY <1>1, <1>2, PromiseGoto DEF TimedReturn, Goto
<1>3. CASE response[c].kind = "none" /\ c \in Commands
  <2>1. /\ \A d \in Calls : pc'[d] = IF d = c THEN "timedout" ELSE pc[d]
        /\ UNCHANGED <<notifications, listeners>>
    BY <1>3 DEF TimedReturn, Cancel, Goto, TypeOK
  <2>2. c \in Elements(commands) /\ Injective(commands)
    BY <1>3 DEF TimedReturn, PromiseInv, CommandInv, Unresolved, HasFuture, Injective
  <2>3. commands' = Erase(commands, PositionOf(c))
    BY <1>3, <2>2 DEF TimedReturn, Cancel
  <2>4. /\ Injective(commands')
        /\ Elements(commands') = Elements(commands) \ {c}
    BY <2>2, <2>3, PositionFound, EraseRemoves DEF TypeOK
  <2>5. \A d \in Commands : CommandInv(d)'
    <3>1. Elements(commands)' = Elements(commands) \ {c}
      BY <2>4 DEF Elements
    <3>2. QED
      BY <1>1, <1>3, <2>1, <3>1 DEF PromiseInv, CommandInv, Unresolved, HasFuture, Calls
  <2>6. \A n \in Notifications : NotificationInv(n)'
    BY <1>1, <1>3, <2>1, ActorAssumption
       DEF PromiseInv, NotificationInv, Unresolved, HasFuture, Calls
  <2>7. \A d \in Calls : CallInv(d)'
    BY <1>1, <1>3, <2>1 DEF PromiseInv, CallInv
  <2>8. QED
    BY <1>1, <2>4, <2>5, <2>6, <2>7 DEF PromiseInv, RunInv, Injective
<1>4. CASE response[c].kind = "none" /\ c \in Notifications
  <2>1. /\ \A d \in Calls : pc'[d] = IF d = c THEN "timedout" ELSE pc[d]
        /\ notifications' = notifications \ {c}
        /\ listeners' = listeners \ {c}
        /\ UNCHANGED commands
    BY <1>4, ActorAssumption DEF TimedReturn, Cancel, Goto, TypeOK
  <2>2. todo = {}
    BY <1>4, ActorAssumption DEF TimedReturn, MutexFree, ListenerMutexFree, PromiseInv, RunInv
  <2>3. \A d \in Commands : CommandInv(d)'
    BY <1>1, <1>4, <2>1, ActorAssumption
       DEF PromiseInv, CommandInv, Unresolved, HasFuture, Calls, Elements
  <2>4. \A n \in Notifications : NotificationInv(n)'
    BY <1>1, <1>4, <2>1, <2>2 DEF PromiseInv, NotificationInv, Unresolved, HasFuture, Calls
  <2>5. \A d \in Calls : CallInv(d)'
    BY <1>1, <1>4, <2>1 DEF PromiseInv, CallInv
  <2>6. QED
    BY <1>1, <2>1, <2>3, <2>4, <2>5 DEF PromiseInv, RunInv
<1>5. QED
  BY <1>2, <1>3, <1>4 DEF Calls

LEMMA PromiseCaller ==
    ASSUME TypeOK, PromiseInv, NEW c \in Calls, Caller(c) PROVE PromiseInv'
<1> USE DEF runVars, stopVars
<1>1. CASE c \in Commands /\ SendCommand(c)
  BY <1>1, PromiseGoto, ActorAssumption DEF SendCommand, Goto
<1>2. CASE c \in Commands /\ WriteCommand(c)
  <2>1. \/ pc' = [pc EXCEPT ![c] = "written"]
        \/ pc' = [pc EXCEPT ![c] = "failed"]
    BY <1>2 DEF WriteCommand, Goto
  <2>2. /\ pc[c] = "locked"
        /\ c \notin Notifications
        /\ UNCHANGED <<response, commands, notifications, listeners, runPc,
                       todo, stopped>>
    BY <1>2, ActorAssumption DEF WriteCommand
  <2>3. QED
    BY <2>1, <2>2, PromiseGoto
<1>3. CASE c \in Commands /\ InsertCommand(c)
  BY <1>3, PromiseInsert
<1>4. CASE c \in Notifications /\ GetNotification(c)
  BY <1>4, PromiseGetNotification
<1>5. CASE Wait(c)
  BY <1>5, PromiseGoto DEF Wait, Goto
<1>6. CASE Return(c)
  BY <1>6, PromiseGoto DEF Return, Goto
<1>7. CASE TimedReturn(c)
  BY <1>7, PromiseTimedReturn
<1>8. QED
  BY <1>1, <1>2, <1>3, <1>4, <1>5, <1>6, <1>7 DEF Caller

LEMMA PromiseMatch ==
    ASSUME TypeOK, PromiseInv, MatchCommand PROVE PromiseInv'
<1>1. PICK i \in DOMAIN commands :
        /\ response' = [response EXCEPT ![commands[i]] = OutcomeOf(report)]
        /\ commands' = Erase(commands, i)
  BY DEF MatchCommand
<1> DEFINE c == commands[i]
<1>2. /\ c \in Elements(commands)
      /\ c \in Commands
      /\ c \notin Notifications
      /\ Injective(commands)
  BY ActorAssumption DEF TypeOK, Elements, PromiseInv, Injective
<1>3. /\ Injective(commands')
      /\ Elements(commands') = Elements(commands) \ {c}
  BY <1>1, <1>2, EraseRemoves DEF TypeOK
<1>4. /\ OutcomeOf(report).kind # "none"
      /\ runPc = "processing"
      /\ runPc' = "loop"
      /\ todo = {}
      /\ UNCHANGED <<pc, notifications, listeners, todo, stopped>>
  BY DEF MatchCommand, Done, OutcomeOf, TypeOK, Report, stopVars, PromiseInv, RunInv
<1>5. \A d \in Calls :
        response'[d] = IF d = c THEN OutcomeOf(report) ELSE response[d]
  BY <1>1 DEF TypeOK
<1>6. \A d \in Commands : CommandInv(d)'
  <2>1. Elements(commands)' = Elements(commands) \ {c}
    BY <1>3 DEF Elements
  <2> HIDE DEF c
  <2>2. QED
    BY <1>4, <1>5, <2>1 DEF PromiseInv, CommandInv, Unresolved, HasFuture, Calls
<1>7. \A n \in Notifications : NotificationInv(n)'
  <2> HIDE DEF c
  <2>1. QED
    BY <1>2, <1>4, <1>5 DEF PromiseInv, NotificationInv, Unresolved, HasFuture, Calls
<1>8. \A d \in Calls : CallInv(d)'
  <2>1. pc[c] \in {"pending", "blocking", "timed", "returned"}
    BY <1>2 DEF PromiseInv, CommandInv
  <2> HIDE DEF c
  <2>2. QED
    BY <1>4, <1>5, <2>1 DEF PromiseInv, CallInv
<1>9. QED
  BY <1>3, <1>4, <1>6, <1>7, <1>8 DEF PromiseInv, RunInv, Injective

LEMMA PromiseDeliver ==
    ASSUME TypeOK, PromiseInv, Deliver PROVE PromiseInv'
<1> USE DEF callVars, stopVars
<1>1. CASE DeliverBegin
  <2>1. /\ runPc = "event"
        /\ runPc' = "delivering"
        /\ todo' \subseteq listeners
        /\ UNCHANGED <<callVars, stopped>>
    BY <1>1 DEF DeliverBegin
  <2>2. QED
    BY <2>1 DEF PromiseInv, CommandInv, NotificationInv, CallInv, RunInv,
                Unresolved, HasFuture, Elements
<1>2. ASSUME NEW n \in Notifications, DeliverNotification(n) PROVE PromiseInv'
  <2>1. /\ runPc = "delivering"
        /\ n \in todo
        /\ notifications' = notifications \ {n}
        /\ listeners' = listeners \ {n}
        /\ todo' = todo \ {n}
        /\ UNCHANGED <<pc, commands, runPc, stopped>>
    BY <1>2 DEF DeliverNotification
  <2>2. /\ OutcomeOf(report).kind # "none"
        /\ \A d \in Calls :
              response'[d] = IF d = n THEN OutcomeOf(report) ELSE response[d]
    BY <1>2 DEF DeliverNotification, OutcomeOf, TypeOK, Report
  <2>3. /\ n \notin Commands
        /\ pc[n] \in {"pending", "blocking", "timed", "returned"}
    BY <2>1, ActorAssumption DEF PromiseInv, NotificationInv
  <2>4. \A d \in Commands : CommandInv(d)'
    BY <2>1, <2>2, <2>3
       DEF PromiseInv, CommandInv, Unresolved, HasFuture, Calls, Elements
  <2>5. \A m \in Notifications : NotificationInv(m)'
    BY <2>1, <2>2, <2>3 DEF PromiseInv, NotificationInv, Unresolved, HasFuture, Calls
  <2>6. \A d \in Calls : CallInv(d)'
    BY <2>1, <2>2, <2>3 DEF PromiseInv, CallInv
  <2>7. QED
    BY <2>1, <2>4, <2>5, <2>6 DEF PromiseInv, RunInv
<1>3. ASSUME NEW h \in Handlers, NEW keep \in BOOLEAN, DeliverHandler(h, keep)
      PROVE  PromiseInv'
  <2>1. /\ runPc = "delivering"
        /\ h \notin Notifications
        /\ todo' = todo \ {h}
        /\ listeners' = listeners \/ listeners' = listeners \ {h}
        /\ UNCHANGED <<pc, response, commands, notifications, runPc, stopped>>
    BY <1>3, ActorAssumption DEF DeliverHandler
  <2>2. QED
    BY <2>1 DEF PromiseInv, CommandInv, NotificationInv, CallInv, RunInv,
                Unresolved, HasFuture, Elements
<1>4. CASE DeliverEnd
  BY <1>4, PromiseRunFrame DEF DeliverEnd, Done, Sweeping
<1>5. QED
  BY <1>1, <1>2, <1>3, <1>4 DEF Deliver

LEMMA PromiseShutdown ==
    ASSUME TypeOK, PromiseInv, Shutdown PROVE PromiseInv'
<1> USE DEF stopVars
<1>1. CASE Leave
  <2>1. /\ runPc = "leaving" /\ runPc' = "sweepCommands"
        /\ stopped'
        /\ UNCHANGED <<callVars, todo>>
    BY <1>1 DEF Leave
  <2>2. todo = {}
    BY <2>1 DEF PromiseInv, RunInv
  <2>3. QED
    BY <2>1, <2>2, PromiseRunFrame DEF Sweeping
<1>2. CASE SweepCommands
  <2>1. /\ runPc = "sweepCommands" /\ runPc' = "sweepNotifications"
        /\ CommandMutexFree
        /\ UNCHANGED <<pc, commands, notifications, listeners, todo, stopped>>
        /\ \A d \in Calls : response'[d] =
             IF d \in Elements(commands) THEN Exception ELSE response[d]
    BY <1>2 DEF SweepCommands, Fail
  <2>2. \A d \in Commands : CommandInv(d)'
    BY <2>1 DEF PromiseInv, CommandInv, Unresolved, HasFuture, Calls, Elements,
                CommandMutexFree, Exception
  <2>3. \A n \in Notifications : NotificationInv(n)'
    <3>1. \A n \in Notifications : n \notin Elements(commands)
      BY ActorAssumption DEF TypeOK, Elements
    <3>2. QED
      BY <2>1, <3>1 DEF PromiseInv, NotificationInv, Unresolved, HasFuture, Calls
  <2>4. \A d \in Calls : CallInv(d)'
    <3>1. Elements(commands) \subseteq Commands
      BY DEF TypeOK, Elements
    <3>2. QED
      BY <2>1, <3>1 DEF PromiseInv, CommandInv, CallInv, Exception
  <2>5. QED
    BY <2>1, <2>2, <2>3, <2>4 DEF PromiseInv, RunInv
<1>3. CASE SweepNotifications
  <2>1. /\ runPc = "sweepNotifications" /\ runPc' = "done"
        /\ UNCHANGED <<pc, commands, notifications, listeners, todo, stopped>>
        /\ \A d \in Calls : response'[d] =
             IF d \in notifications THEN Exception ELSE response[d]
    BY <1>3 DEF SweepNotifications, Fail
  <2>2. \A d \in Commands : CommandInv(d)'
    BY <2>1 DEF PromiseInv, CommandInv, Unresolved, HasFuture, Calls, Elements, Exception
  <2>3. \A n \in Notifications : NotificationInv(n)'
    BY <2>1 DEF PromiseInv, NotificationInv, Unresolved, HasFuture, Calls, Exception
  <2>4. \A d \in Calls : CallInv(d)'
    BY <2>1 DEF PromiseInv, NotificationInv, CallInv, Exception, TypeOK
  <2>5. QED
    BY <2>1, <2>2, <2>3, <2>4 DEF PromiseInv, RunInv
<1>4. QED
  BY <1>1, <1>2, <1>3 DEF Shutdown

LEMMA PromiseStep ==
    TypeOK /\ PromiseInv /\ [Next]_vars => PromiseInv'
<1> SUFFICES ASSUME TypeOK, PromiseInv, [Next]_vars PROVE PromiseInv'
  OBVIOUS
<1>1. ASSUME NEW c \in Calls, Caller(c) PROVE PromiseInv'
  BY <1>1, PromiseCaller
<1>2. CASE CheckStopped \/ Read \/ IgnoreForeign \/ NoMatch
  <2>1. /\ runPc \in {"loop", "reading", "processing"}
        /\ runPc' \notin Sweeping
        /\ UNCHANGED <<callVars, todo, stopped>>
    BY <1>2 DEF CheckStopped, Read, ReadReport, ReadInterrupted, ReadFails,
                IgnoreForeign, NoMatch, Done, stopVars, Sweeping
  <2>2. todo = {}
    BY <2>1 DEF PromiseInv, RunInv
  <2>3. QED
    BY <2>1, <2>2, PromiseRunFrame DEF Sweeping
<1>3. CASE MatchCommand \/ Deliver \/ Shutdown
  BY <1>3, PromiseMatch, PromiseDeliver, PromiseShutdown
<1>4. CASE User
  <2>1. CASE SetStopped
    BY <2>1 DEF SetStopped, callVars, runVars, PromiseInv, CommandInv,
       NotificationInv, CallInv, RunInv, Unresolved, HasFuture, Elements
  <2>2. CASE InterruptRead
    BY <2>2, PromiseFrame DEF InterruptRead, promiseVars, runVars
  <2>3. ASSUME NEW h \in Handlers,
               RegisterEventHandler(h) \/ UnregisterEventHandler(h)
        PROVE  PromiseInv'
    <3>1. /\ h \notin Notifications
          /\ listeners' = listeners \cup {h} \/ listeners' = listeners \ {h}
          /\ UNCHANGED <<pc, response, commands, notifications, runPc, todo, stopped>>
      BY <2>3, ActorAssumption
         DEF RegisterEventHandler, UnregisterEventHandler, runVars, stopVars
    <3>2. QED
      BY <3>1 DEF PromiseInv, CommandInv, NotificationInv, CallInv, RunInv,
                  Unresolved, HasFuture, Elements
  <2>4. QED
    BY <1>4, <2>1, <2>2, <2>3 DEF User
<1>5. CASE Device
  BY <1>5, PromiseFrame
     DEF Device, Answer, Lose, SendUnsolicited, Unplug, promiseVars, runVars, stopVars
<1>6. CASE UNCHANGED vars
  BY <1>6, PromiseFrame DEF vars, promiseVars, runVars, stopVars
<1>7. QED
  BY <1>1, <1>2, <1>3, <1>4, <1>5, <1>6 DEF Next, Run, Process

THEOREM PromisesKept == Spec => []PromiseInv
BY PromiseInit, PromiseStep, TypeCorrect, PTL DEF Spec

\* A future that is not ready is in a list where it can still be set, once.
THEOREM NoFutureIsOrphan == Spec => []NoOrphan
<1>1. PromiseInv => NoOrphan
  BY DEF PromiseInv, CommandInv, NotificationInv, NoOrphan, IsListed, Calls
<1>2. QED
  BY <1>1, PromisesKept, PTL

\* No future is left unset when run() has ended, however stop(), a read
\* error and the submission of calls interleave.
THEOREM NoFutureIsLeftBehind == Spec => []NoneLeftBehind
<1>1. PromiseInv => NoneLeftBehind
  BY DEF PromiseInv, CommandInv, NotificationInv, NoneLeftBehind, Calls
<1>2. QED
  BY <1>1, PromisesKept, PTL

\* TimeoutError is thrown only when no answer has come, and a cancelled call
\* is in no list of the dispatcher.
THEOREM NoAnswerLostToTimeout == Spec => []TimeoutLosesNothing
<1>1. PromiseInv => TimeoutLosesNothing
  BY DEF PromiseInv, CommandInv, NotificationInv, CallInv, TimeoutLosesNothing,
         IsListed, Calls
<1>2. QED
  BY <1>1, PromisesKept, PTL

\* No promise is set twice, by an answer, an event or the end of run().
THEOREM PromiseSetOnce == Spec => ResolvedOnce
<1> DEFINE Kept == \A c \in Calls : response[c].kind # "none" =>
                                       response'[c] = response[c]
<1>1. TypeOK /\ PromiseInv /\ [Next]_vars => [Kept]_vars
  <2> SUFFICES ASSUME TypeOK, PromiseInv, [Next]_vars PROVE [Kept]_vars
    OBVIOUS
  <2>1. CASE UNCHANGED response
    BY <2>1
  <2>2. CASE MatchCommand
    <3>1. PICK i \in DOMAIN commands :
            response' = [response EXCEPT ![commands[i]] = OutcomeOf(report)]
      BY <2>2 DEF MatchCommand
    <3>2. response[commands[i]].kind = "none"
      BY <2>2 DEF MatchCommand, PromiseInv, CommandInv, TypeOK, Elements
    <3>3. QED
      BY <3>1, <3>2 DEF TypeOK
  <2>3. ASSUME NEW n \in Notifications, DeliverNotification(n) PROVE Kept
    <3>1. response[n].kind = "none"
      BY <2>3 DEF DeliverNotification, PromiseInv, NotificationInv
    <3>2. QED
      BY <2>3, <3>1 DEF DeliverNotification, TypeOK
  <2>4. CASE SweepCommands
    <3>1. Elements(commands) \subseteq Commands
      BY DEF TypeOK, Elements
    <3>2. QED
      BY <2>4, <3>1 DEF SweepCommands, Fail, PromiseInv, CommandInv
  <2>5. CASE SweepNotifications
    BY <2>5 DEF SweepNotifications, Fail, PromiseInv, NotificationInv, TypeOK
  <2>6. QED
    BY <2>1, <2>2, <2>3, <2>4, <2>5, Zenon
    DEF Next, Caller, SendCommand, WriteCommand, InsertCommand, GetNotification,
        Wait, Return, TimedReturn, Run, CheckStopped, Read, ReadReport,
        ReadInterrupted, ReadFails, Process, IgnoreForeign, NoMatch, Deliver,
        DeliverBegin, DeliverHandler, DeliverEnd, Shutdown, Leave, User,
        SetStopped, InterruptRead, RegisterEventHandler, UnregisterEventHandler,
        Device, Answer, Lose, SendUnsolicited, Unplug, vars, callVars
<1>2. QED
  BY <1>1, TypeCorrect, PromisesKept, PTL DEF Spec, ResolvedOnce

-----------------------------------------------------------------------------
(* The event handlers. *)

HandlerInv ==
    /\ \A h \in Handlers : h \in listeners => handler[h] = "registered"
    /\ \A h \in Handlers : h \in todo => handler[h] = "registered"
    /\ todo # {} => runPc = "delivering"

\* No handler is called after unregisterEventHandler has returned: it waits
\* for the event that is being delivered.
THEOREM HandlersNotCalledLate == Spec => []NoCallAfterUnregister
<1>1. Init => HandlerInv
  BY DEF Init, HandlerInv
<1>2. TypeOK /\ HandlerInv /\ [Next]_vars => HandlerInv'
  <2> SUFFICES ASSUME TypeOK, HandlerInv, [Next]_vars PROVE HandlerInv'
    OBVIOUS
  <2> USE ActorAssumption DEF HandlerInv, callVars, runVars, stopVars,
          deviceVars, handlerVars
  <2>1. ASSUME NEW c \in Calls, Caller(c) PROVE HandlerInv'
    <3>1. /\ UNCHANGED <<todo, runPc, handler>>
          /\ \A h \in Handlers : h \in listeners' => h \in listeners
      BY <2>1 DEF Caller, SendCommand, WriteCommand, InsertCommand,
         GetNotification, Wait, Return, TimedReturn, Cancel
    <3>2. QED
      BY <3>1
  <2>2. CASE CheckStopped \/ Read \/ Process \/ Shutdown
    <3>1. /\ UNCHANGED <<todo, listeners, handler>>
          /\ runPc # "delivering"
      BY <2>2 DEF CheckStopped, Read, ReadReport, ReadInterrupted, ReadFails,
         Process, IgnoreForeign, MatchCommand, NoMatch, Shutdown, Leave,
         SweepCommands, SweepNotifications
    <3>2. QED
      BY <3>1
  <2>3. CASE DeliverBegin
    BY <2>3 DEF DeliverBegin
  <2>4. ASSUME NEW n \in Notifications, DeliverNotification(n) PROVE HandlerInv'
    BY <2>4 DEF DeliverNotification
  <2>5. ASSUME NEW h \in Handlers, NEW keep \in BOOLEAN, DeliverHandler(h, keep)
        PROVE  HandlerInv'
    BY <2>5 DEF DeliverHandler, TypeOK
  <2>6. CASE DeliverEnd
    BY <2>6 DEF DeliverEnd, Done
  <2>7. ASSUME NEW h \in Handlers, RegisterEventHandler(h) PROVE HandlerInv'
    BY <2>7 DEF RegisterEventHandler, TypeOK, ListenerMutexFree
  <2>8. ASSUME NEW h \in Handlers, UnregisterEventHandler(h) PROVE HandlerInv'
    BY <2>8 DEF UnregisterEventHandler, TypeOK, ListenerMutexFree
  <2>9. CASE SetStopped \/ InterruptRead \/ Device \/ UNCHANGED vars
    BY <2>9 DEF SetStopped, InterruptRead, Device, Answer, Lose,
       SendUnsolicited, Unplug, vars
  <2>10. QED
    BY <2>1, <2>2, <2>3, <2>4, <2>5, <2>6, <2>7, <2>8, <2>9
    DEF Next, Run, Deliver, User
<1>3. HandlerInv => NoCallAfterUnregister
  BY DEF HandlerInv, NoCallAfterUnregister
<1>4. QED
  BY <1>1, <1>2, <1>3, TypeCorrect, PTL DEF Spec

-----------------------------------------------------------------------------
(* The contract of AsyncCalls. *)

\* A step that changes neither the program counters nor the promises, and
\* does not bring run() to its end, is a stuttering step of the contract or
\* the beginning of the close.
LEMMA ContractFrame ==
    ASSUME UNCHANGED <<pc, response>>,
           \/ UNCHANGED runPc
           \/ /\ runPc \notin {"sweepCommands", "sweepNotifications", "done"}
              /\ runPc' \notin {"sweepNotifications", "done"}
    PROVE  [Contract!Next]_Contract!vars
<1>1. \A c \in Calls : StatusOf(c)' = StatusOf(c)
  BY DEF StatusOf, HasFuture
<1>2. CASE runPc' = "sweepCommands" /\ runPc # "sweepCommands"
  <2>1. Contract!BeginClose
    BY <1>1, <1>2 DEF Contract!BeginClose
  <2>2. QED
    BY <2>1 DEF Contract!Next
<1>3. CASE ~(runPc' = "sweepCommands" /\ runPc # "sweepCommands")
  BY <1>1, <1>3 DEF Contract!vars
<1>4. QED
  BY <1>2, <1>3

\* The status of the other calls does not change with the step of one.
LEMMA OneStatus ==
    ASSUME TypeOK, NEW c \in Calls, UNCHANGED runPc,
           \A d \in Calls \ {c} : pc'[d] = pc[d] /\ response'[d] = response[d],
           \/ StatusOf(c)' = StatusOf(c)
           \/ StatusOf(c) = "new" /\ StatusOf(c)' = "refused"
           \/ StatusOf(c) = "new" /\ StatusOf(c)' = "open" /\ runPc # "done"
           \/ StatusOf(c) = "open" /\ StatusOf(c)' \in {"fulfilled", "expired"}
    PROVE  [Contract!Next]_Contract!vars
<1> DEFINE st == [d \in Calls |-> StatusOf(d)]
<1>1. \A d \in Calls \ {c} : StatusOf(d)' = StatusOf(d)
  BY DEF StatusOf, HasFuture
<1>2. st' = [st EXCEPT ![c] = StatusOf(c)']
  BY <1>1
<1>3. CASE StatusOf(c)' = StatusOf(c)
  BY <1>1, <1>3 DEF Contract!vars
<1>4. CASE StatusOf(c) = "new" /\ StatusOf(c)' = "refused"
  <2>1. Contract!Refuse(c)
    BY <1>2, <1>4 DEF Contract!Refuse, Contract!Set
  <2>2. QED
    BY <2>1 DEF Contract!Next
<1>5. CASE StatusOf(c) = "new" /\ StatusOf(c)' = "open" /\ runPc # "done"
  <2>1. Contract!Open(c)
    BY <1>2, <1>5 DEF Contract!Open, Contract!Set
  <2>2. QED
    BY <2>1 DEF Contract!Next
<1>6. CASE StatusOf(c) = "open" /\ StatusOf(c)' = "fulfilled"
  <2>1. Contract!Fulfil(c)
    BY <1>2, <1>6 DEF Contract!Fulfil, Contract!Set
  <2>2. QED
    BY <2>1 DEF Contract!Next
<1>7. CASE StatusOf(c) = "open" /\ StatusOf(c)' = "expired"
  <2>1. Contract!Expire(c)
    BY <1>2, <1>7 DEF Contract!Expire, Contract!Set
  <2>2. QED
    BY <2>1 DEF Contract!Next
<1>8. QED
  BY <1>3, <1>4, <1>5, <1>6, <1>7

LEMMA ContractCaller ==
    ASSUME TypeOK, PromiseInv, NEW c \in Calls, Caller(c)
    PROVE  [Contract!Next]_Contract!vars
<1>1. /\ \A d \in Calls \ {c} : pc'[d] = pc[d]
      /\ UNCHANGED <<response, runPc>>
  BY DEF Caller, SendCommand, WriteCommand, InsertCommand, GetNotification,
         Wait, Return, TimedReturn, Goto, TypeOK, runVars
<1>2. CASE SendCommand(c) \/ WriteCommand(c)
  <2>1. /\ pc[c] \in {"idle", "locked"}
        /\ pc'[c] \in {"refused", "locked", "written", "failed"}
    BY <1>2 DEF SendCommand, WriteCommand, Goto, TypeOK
  <2>2. QED
    BY <1>1, <2>1, OneStatus DEF StatusOf, HasFuture
<1>3. CASE c \in Commands /\ InsertCommand(c)
  <2>1. /\ pc[c] = "written"
        /\ pc'[c] = "pending"
        /\ response[c].kind = "none"
        /\ runPc # "done"
    BY <1>3 DEF InsertCommand, Goto, TypeOK, PromiseInv, CommandInv, CallInv
  <2>2. QED
    BY <1>1, <2>1, OneStatus DEF StatusOf, HasFuture
<1>4. CASE GetNotification(c)
  <2>1. /\ pc[c] = "idle"
        /\ response[c].kind = "none"
        /\ \/ pc'[c] = "refused"
           \/ pc'[c] = "pending" /\ runPc # "done"
    BY <1>4 DEF GetNotification, Goto, TypeOK, PromiseInv, RunInv, CallInv
  <2>2. QED
    BY <1>1, <2>1, OneStatus DEF StatusOf, HasFuture
<1>5. CASE Wait(c)
  <2>1. pc[c] = "pending" /\ pc'[c] \in {"blocking", "timed"}
    BY <1>5 DEF Wait, Goto, TypeOK
  <2>2. QED
    BY <1>1, <2>1, OneStatus DEF StatusOf, HasFuture
<1>6. CASE Return(c) \/ TimedReturn(c)
  <2>1. /\ pc[c] \in {"blocking", "timed"}
        /\ IF response[c].kind = "none"
             THEN pc'[c] = "timedout" ELSE pc'[c] = "returned"
    BY <1>6 DEF Return, TimedReturn, Goto, TypeOK
  <2>2. QED
    BY <1>1, <2>1, OneStatus DEF StatusOf, HasFuture
<1>7. QED
  BY <1>2, <1>3, <1>4, <1>5, <1>6 DEF Caller

LEMMA ContractResolve ==
    ASSUME TypeOK, PromiseInv, NEW c \in Calls,
           pc[c] \in {"pending", "blocking", "timed", "returned"},
           response[c].kind = "none",
           report.kind \in {"answer", "error", "event"},
           response' = [response EXCEPT ![c] = OutcomeOf(report)],
           UNCHANGED pc,
           UNCHANGED runPc \/ (runPc = "processing" /\ runPc' = "loop")
    PROVE  [Contract!Next]_Contract!vars
<1> DEFINE st == [d \in Calls |-> StatusOf(d)]
<1>1. /\ \A d \in Calls \ {c} : response'[d] = response[d]
      /\ response'[c].kind \in {"answer", "error", "event"}
  BY DEF TypeOK, OutcomeOf
<1>2. \A d \in Calls \ {c} : StatusOf(d)' = StatusOf(d)
  BY <1>1 DEF StatusOf, HasFuture
<1>3. StatusOf(c) = "open" /\ StatusOf(c)' = "fulfilled"
  <2>1. HasFuture(c)
    BY DEF PromiseInv, CallInv, HasFuture
  <2>2. QED
    BY <1>1, <2>1 DEF StatusOf, HasFuture
<1>4. st' = [st EXCEPT ![c] = "fulfilled"]
  BY <1>2, <1>3
<1>5. Contract!Fulfil(c)
  BY <1>3, <1>4 DEF Contract!Fulfil, Contract!Set
<1>6. QED
  BY <1>5 DEF Contract!Next

LEMMA ContractSweep ==
    ASSUME TypeOK, PromiseInv, SweepCommands \/ SweepNotifications, PromiseInv'
    PROVE  [Contract!Next]_Contract!vars
<1> DEFINE st == [d \in Calls |-> StatusOf(d)]
<1>1. PICK S \in SUBSET Calls :
        /\ \A c \in S : StatusOf(c) = "open"
        /\ \A c \in S : HasFuture(c)
        /\ response' = [c \in Calls |-> IF c \in S THEN Exception ELSE response[c]]
        /\ UNCHANGED pc
  <2>1. CASE SweepCommands
    <3>1. Elements(commands) \in SUBSET Calls
      BY DEF TypeOK, Elements, Calls
    <3>2. \A c \in Elements(commands) : StatusOf(c) = "open" /\ HasFuture(c)
      BY <2>1, <3>1 DEF SweepCommands, PromiseInv, CommandInv, CallInv, StatusOf,
         HasFuture, TypeOK, Elements
    <3>3. QED
      BY <2>1, <3>1, <3>2 DEF SweepCommands, Fail
  <2>2. CASE SweepNotifications
    <3>1. notifications \in SUBSET Calls
      BY DEF TypeOK, Calls
    <3>2. \A c \in notifications : StatusOf(c) = "open" /\ HasFuture(c)
      BY <2>2, <3>1 DEF SweepNotifications, PromiseInv, NotificationInv, CallInv,
         StatusOf, HasFuture, TypeOK
    <3>3. QED
      BY <2>2, <3>1, <3>2 DEF SweepNotifications, Fail
  <2>3. QED
    BY <2>1, <2>2
<1>2. \A c \in Calls : StatusOf(c)' = IF c \in S THEN "aborted" ELSE StatusOf(c)
  BY <1>1 DEF StatusOf, HasFuture, Exception
<1>3. st' = [c \in Calls |-> IF c \in S THEN "aborted" ELSE st[c]]
  BY <1>2
<1>4. runPc' = "done" => \A c \in Calls : st'[c] # "open"
  <2>1. SUFFICES ASSUME runPc' = "done", NEW c \in Calls PROVE StatusOf(c)' # "open"
    OBVIOUS
  <2>2. ~Unresolved(c)'
    BY <2>1 DEF PromiseInv, CommandInv, NotificationInv, Calls
  <2>3. QED
    BY <2>2 DEF StatusOf, Unresolved, HasFuture
<1>5. /\ runPc \in {"sweepCommands", "sweepNotifications"}
      /\ runPc' \in {"sweepNotifications", "done"}
  BY DEF SweepCommands, SweepNotifications
<1>6. Contract!Abort(S)
  <2>1. \A c \in S : st[c] = "open"
    BY <1>1
  <2>2. (runPc = "done")' \in {runPc = "done", TRUE}
    BY <1>5
  <2>3. /\ runPc \in {"sweepCommands", "sweepNotifications", "done"}
        /\ UNCHANGED (runPc \in {"sweepCommands", "sweepNotifications", "done"})
    BY <1>5
  <2>4. QED
    BY <1>3, <1>4, <2>1, <2>2, <2>3 DEF Contract!Abort
<1>7. QED
  BY <1>6 DEF Contract!Next

\* The threads, mutexes and lists of the dispatcher implement AsyncCalls.
THEOREM ContractImplemented == Spec => ImplementsContract
<1>1. Init => Contract!Init
  <2> SUFFICES ASSUME Init PROVE Contract!Init
    OBVIOUS
  <2>1. \A c \in Calls : StatusOf(c) = "new"
    BY DEF Init, StatusOf, HasFuture
  <2>2. runPc = "loop"
    BY DEF Init
  <2>3. QED
    BY <2>1, <2>2 DEF Contract!Init
<1>2. TypeOK /\ PromiseInv /\ PromiseInv' /\ [Next]_vars =>
        [Contract!Next]_Contract!vars
  <2> SUFFICES ASSUME TypeOK, PromiseInv, PromiseInv', [Next]_vars
               PROVE  [Contract!Next]_Contract!vars
    OBVIOUS
  <2>1. ASSUME NEW c \in Calls, Caller(c) PROVE [Contract!Next]_Contract!vars
    BY <2>1, ContractCaller
  <2>2. CASE \/ CheckStopped \/ Read \/ IgnoreForeign \/ NoMatch
             \/ DeliverBegin \/ DeliverEnd \/ Leave
    BY <2>2, ContractFrame
       DEF CheckStopped, Read, ReadReport, ReadInterrupted, ReadFails,
           IgnoreForeign, NoMatch, DeliverBegin, DeliverEnd, Leave, Done, callVars
  <2>3. CASE MatchCommand
    <3>1. PICK i \in DOMAIN commands :
            response' = [response EXCEPT ![commands[i]] = OutcomeOf(report)]
      BY <2>3 DEF MatchCommand
    <3>2. commands[i] \in Commands /\ commands[i] \in Elements(commands)
      BY DEF TypeOK, Elements
    <3>3. report.kind \in {"answer", "error", "event"}
      BY <2>3 DEF MatchCommand, TypeOK, Report
    <3>4. QED
      BY <2>3, <3>1, <3>2, <3>3, ContractResolve
         DEF MatchCommand, Done, PromiseInv, CommandInv, Calls
  <2>4. ASSUME NEW n \in Notifications, DeliverNotification(n)
        PROVE  [Contract!Next]_Contract!vars
    BY <2>4, ContractResolve
       DEF DeliverNotification, PromiseInv, NotificationInv, TypeOK, Calls
  <2>5. ASSUME NEW h \in Handlers, NEW keep \in BOOLEAN, DeliverHandler(h, keep)
        PROVE  [Contract!Next]_Contract!vars
    BY <2>5, ContractFrame DEF DeliverHandler
  <2>6. CASE SweepCommands \/ SweepNotifications
    BY <2>6, ContractSweep
  <2>7. CASE User \/ Device \/ UNCHANGED vars
    BY <2>7, ContractFrame
       DEF User, SetStopped, InterruptRead, RegisterEventHandler,
           UnregisterEventHandler, Device, Answer, Lose, SendUnsolicited,
           Unplug, vars, callVars, runVars
  <2>8. QED
    BY <2>1, <2>2, <2>3, <2>4, <2>5, <2>6, <2>7
       DEF Next, Run, Process, Deliver, Shutdown
<1>3. QED
  BY <1>1, <1>2, TypeCorrect, PromisesKept, PTL
     DEF Spec, ImplementsContract, Contract!Spec
=============================================================================
