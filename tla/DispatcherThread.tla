-------------------------- MODULE DispatcherThread --------------------------
(***************************************************************************)
(* HIDPP::DispatcherThread (src/src/libhidpp/hidpp/DispatcherThread.cpp):  *)
(* callers on any thread submit commands and wait for notifications, one   *)
(* thread runs run() and hands every report read from the device to the    *)
(* command, notification or event handler it belongs to, and stop() ends   *)
(* that thread.                                                            *)
(*                                                                         *)
(* Each call of sendCommand or getNotification is an actor of its own: its *)
(* program counter says how far the caller got with it.  A caller that     *)
(* issues several calls, or waits for one from another thread, is an       *)
(* interleaving of these actors.  The two mutexes are not variables: a     *)
(* critical section without a blocking call is one action, and the two     *)
(* sections that do block (the write of a command, the calls of the event  *)
(* handlers) hold their mutex while their actor's program counter says so. *)
(***************************************************************************)
EXTENDS Integers, Sequences, FiniteSets

CONSTANTS
    Commands,       \* calls of sendCommand
    Notifications,  \* calls of getNotification
    Handlers,       \* handlers given to registerEventHandler
    Keys,           \* (device index, sub ID, address) triples
    Topics,         \* (device index, sub ID) pairs
    KeyOf,          \* the key of a command's request
    TopicOf,        \* the pair a notification or a handler waits for
    TopicOfKey,     \* the pair a report with that key is an event of
    EventLike,      \* keys with softwareID() = 0 or subID() < 0x80
    EventKeys,      \* keys the device uses for events
    MaxUnsolicited, \* bound: reports the device sends on its own
    Nobody          \* no command

Calls == Commands \cup Notifications
Listeners == Notifications \cup Handlers

ASSUME ActorAssumption ==
    /\ Commands \cap Notifications = {}
    /\ Commands \cap Handlers = {}
    /\ Notifications \cap Handlers = {}
    /\ Nobody \notin Commands

ASSUME KeyAssumption ==
    /\ KeyOf \in [Commands -> Keys]
    /\ TopicOf \in [Listeners -> Topics]
    /\ TopicOfKey \in [Keys -> Topics]
    /\ EventLike \subseteq Keys
    /\ EventKeys \subseteq EventLike
    /\ MaxUnsolicited \in Nat
    /\ Keys # {}
\* A HID++2.0 request has the software ID 1 (Device::softwareID, Device.cpp:26
\* of hidpp20) where an event has 0; the sub IDs of register requests are
\* 0x80 to 0x83, those of HID++1.0 notifications are below.
ASSUME RequestAssumption ==
    \A c \in Commands : KeyOf[c] \notin EventKeys

VARIABLES
    pc,         \* of each call
    response,   \* the promise of each call
    commands,   \* _commands: the list of commands waiting for an answer
    notifications, \* _notifications
    listeners,  \* Dispatcher::_listeners
    stopped,    \* _stopped
    exception,  \* _exception
    runPc,      \* of the thread in run()
    report,     \* the report that thread is processing
    todo,       \* listeners processEvent has still to call
    stopPc,     \* of the thread in stop()
    pipe,       \* bytes in the pipe of interruptRead
    input,      \* reports the kernel has queued for the reader
    written,    \* requests in the order writeReport sent them
    fate,       \* what the device did with each request
    plugged,    \* the device is there
    unsolicited,\* reports the device sent on its own
    handler,    \* what the user did with each event handler
    heard       \* kinds of reports each event handler was called with

callVars == <<pc, response, commands, notifications, listeners>>
runVars == <<runPc, report, todo, exception>>
stopVars == <<stopped, stopPc, pipe>>
deviceVars == <<input, written, fate, plugged, unsolicited>>
handlerVars == <<handler, heard>>
vars == <<callVars, runVars, stopVars, deviceVars, handlerVars>>

-----------------------------------------------------------------------------
Report == [kind : {"answer", "error", "event", "foreign"},
           key : Keys, origin : Commands \cup {Nobody}]
Outcome == [kind : {"none", "answer", "error", "event", "exception"},
            origin : Commands \cup {Nobody}]

Unset == [kind |-> "none", origin |-> Nobody]
Exception == [kind |-> "exception", origin |-> Nobody]
NoReport == [kind |-> "foreign", key |-> CHOOSE k \in Keys : TRUE, origin |-> Nobody]
OutcomeOf(r) == [kind |-> r.kind, origin |-> r.origin]

Elements(s) == {s[i] : i \in DOMAIN s}
\* The list without its i-th element (std::list::erase).
Erase(s, i) == [j \in 1 .. Len(s) - 1 |-> IF j < i THEN s[j] ELSE s[j + 1]]

\* Faulty variant: the mutex is not held from the write to the insertion.
UnlockedInsert == \A c \in Commands : pc[c] # "locked"
CommandMutexFree == \A c \in Commands : pc[c] \notin {"locked", "written"}
ListenerMutexFree == runPc # "delivering"
MutexFree(c) == IF c \in Commands THEN CommandMutexFree ELSE ListenerMutexFree

TypeOK ==
    /\ pc \in [Calls -> {"idle", "locked", "written", "pending", "blocking",
                         "timed", "returned", "timedout", "refused", "failed"}]
    /\ response \in [Calls -> Outcome]
    /\ commands \in Seq(Commands)
    /\ notifications \subseteq Notifications
    /\ listeners \subseteq Listeners
    /\ stopped \in BOOLEAN
    /\ exception \in {"null", "NotRunning", "ReadError"}
    /\ runPc \in {"loop", "reading", "processing", "event", "delivering",
                  "leaving", "sweepCommands", "sweepNotifications", "done"}
    /\ report \in Report
    /\ runPc \in {"event", "delivering"} => report.kind \in {"answer", "event"}
    /\ todo \subseteq Listeners
    /\ stopPc \in {"idle", "flagged", "done"}
    /\ pipe \in Nat
    /\ input \in Seq(Report)
    /\ written \in Seq(Commands)
    /\ fate \in [Commands -> {"none", "queued", "answered", "lost"}]
    /\ plugged \in BOOLEAN
    /\ unsolicited \in 0 .. MaxUnsolicited
    /\ handler \in [Handlers -> {"new", "registered", "removed"}]
    /\ heard \in [Handlers -> SUBSET {"answer", "error", "event", "foreign"}]

Init ==
    /\ pc = [c \in Calls |-> "idle"]
    /\ response = [c \in Calls |-> Unset]
    /\ commands = <<>>
    /\ notifications = {}
    /\ listeners = {}
    /\ stopped = FALSE
    /\ exception = "null"
    /\ runPc = "loop"
    /\ report = NoReport
    /\ todo = {}
    /\ stopPc = "idle"
    /\ pipe = 0
    /\ input = <<>>
    /\ written = <<>>
    /\ fate = [c \in Commands |-> "none"]
    /\ plugged = TRUE
    /\ unsolicited = 0
    /\ handler = [h \in Handlers |-> "new"]
    /\ heard = [h \in Handlers |-> {}]

Goto(c, to) == pc' = [pc EXCEPT ![c] = to]

-----------------------------------------------------------------------------
(* Callers of sendCommand. *)

\* Takes the command mutex; refused once the dispatcher is stopped.
SendCommand(c) ==
    /\ pc[c] = "idle"
    /\ CommandMutexFree
    /\ Goto(c, IF stopped THEN "refused" ELSE "locked")
    /\ UNCHANGED <<response, commands, notifications, listeners,
                   runVars, stopVars, deviceVars, handlerVars>>

\* writeReport, with the mutex held.  A failure unwinds and releases it.
WriteCommand(c) ==
    /\ pc[c] = "locked"
    /\ \/ /\ plugged
          /\ Goto(c, "written")
          /\ written' = Append(written, c)
          /\ fate' = [fate EXCEPT ![c] = "queued"]
       \/ /\ Goto(c, "failed")
          /\ UNCHANGED <<written, fate>>
    /\ UNCHANGED <<response, commands, notifications, listeners, runVars,
                   stopVars, input, plugged, unsolicited, handlerVars>>

\* The command joins the list and the mutex is released.
InsertCommand(c) ==
    /\ pc[c] = "written"
    /\ Goto(c, "pending")
    /\ commands' = Append(commands, c)
    /\ UNCHANGED <<response, notifications, listeners, runVars, stopVars,
                   deviceVars, handlerVars>>

\* getNotification: one critical section of the listener mutex.
GetNotification(n) ==
    /\ pc[n] = "idle"
    /\ ListenerMutexFree
    /\ IF stopped
         THEN /\ Goto(n, "refused")
              /\ UNCHANGED <<notifications, listeners>>
         ELSE /\ Goto(n, "pending")
              /\ notifications' = notifications \cup {n}
              /\ listeners' = listeners \cup {n}
    /\ UNCHANGED <<response, commands, runVars, stopVars, deviceVars,
                   handlerVars>>

\* get () and get (timeout) start to wait.
Wait(c) ==
    /\ pc[c] = "pending"
    /\ \E how \in {"blocking", "timed"} : Goto(c, how)
    /\ UNCHANGED <<response, commands, notifications, listeners, runVars,
                   stopVars, deviceVars, handlerVars>>

\* get () returns, or throws the exception of the promise.
Return(c) ==
    /\ pc[c] = "blocking"
    /\ response[c].kind # "none"
    /\ Goto(c, "returned")
    /\ UNCHANGED <<response, commands, notifications, listeners, runVars,
                   stopVars, deviceVars, handlerVars>>

\* Faulty variant: the cancelled command is searched by key, not by iterator.
CancelByKey(c) ==
    IF c \in Commands
      THEN /\ \E i \in DOMAIN commands :
                /\ KeyOf[commands[i]] = KeyOf[c]
                /\ \A j \in DOMAIN commands :
                     j < i => KeyOf[commands[j]] # KeyOf[c]
                /\ commands' = Erase(commands, i)
           /\ UNCHANGED <<notifications, listeners>>
      ELSE /\ notifications' = notifications \ {c}
           /\ listeners' = listeners \ {c}
           /\ UNCHANGED commands

\* The iterator that sendCommand gave to the call.
PositionOf(c) == CHOOSE i \in DOMAIN commands : commands[i] = c

\* cancelCommand and cancelNotification, called with the mutex held.
Cancel(c) ==
    IF c \in Commands
      THEN /\ commands' = IF c \in Elements(commands)
                            THEN Erase(commands, PositionOf(c))
                            ELSE commands
           /\ UNCHANGED <<notifications, listeners>>
      ELSE /\ notifications' = notifications \ {c}
           /\ listeners' = listeners \ {c}
           /\ UNCHANGED commands

\* Faulty variant: no second look at the promise.
TimedReturnNoRecheck(c) ==
    /\ pc[c] = "timed"
    /\ MutexFree(c)
    /\ Goto(c, "timedout") /\ Cancel(c)
    /\ UNCHANGED <<response, runVars, stopVars, deviceVars, handlerVars>>

\* get (timeout) after its wait: the promise is looked at again under the
\* mutex, and the call is cancelled only when it is still unset.
TimedReturn(c) ==
    /\ pc[c] = "timed"
    /\ MutexFree(c)
    /\ IF response[c].kind = "none"
         THEN Goto(c, "timedout") /\ Cancel(c)
         ELSE /\ Goto(c, "returned")
              /\ UNCHANGED <<commands, notifications, listeners>>
    /\ UNCHANGED <<response, runVars, stopVars, deviceVars, handlerVars>>

Caller(c) ==
    \/ c \in Commands /\ (SendCommand(c) \/ WriteCommand(c) \/ InsertCommand(c))
    \/ c \in Notifications /\ GetNotification(c)
    \/ Wait(c)
    \/ Return(c)
    \/ TimedReturn(c)

-----------------------------------------------------------------------------
(* The thread in run(). *)

\* The loop condition: leave with NotRunning, or read another report.
CheckStopped ==
    /\ runPc = "loop"
    /\ IF stopped
         THEN runPc' = "leaving" /\ exception' = "NotRunning"
         ELSE runPc' = "reading" /\ UNCHANGED exception
    /\ UNCHANGED <<callVars, report, todo, stopVars, deviceVars, handlerVars>>

\* readReport: select() returned and the device has a report.
ReadReport ==
    /\ runPc = "reading"
    /\ input # <<>>
    /\ report' = Head(input)
    /\ input' = Tail(input)
    /\ runPc' = "processing"
    /\ UNCHANGED <<callVars, todo, exception, stopVars, written, fate, plugged,
                   unsolicited, handlerVars>>

\* Faulty variant: a byte is read from the pipe without select() saying so.
ReadPipeFirst ==
    /\ runPc = "reading"
    /\ input = <<>>
    /\ plugged
    /\ pipe' = pipe - 1
    /\ runPc' = "loop"
    /\ UNCHANGED <<callVars, report, todo, exception, stopped, stopPc,
                   deviceVars, handlerVars>>

\* readReport: only the pipe is readable; one byte is consumed.
ReadInterrupted ==
    /\ runPc = "reading"
    /\ input = <<>>
    /\ plugged
    /\ pipe > 0
    /\ pipe' = pipe - 1
    /\ runPc' = "loop"
    /\ UNCHANGED <<callVars, report, todo, exception, stopped, stopPc,
                   deviceVars, handlerVars>>

\* readReport throws: the exception is kept for the pending calls.
ReadFails ==
    /\ runPc = "reading"
    /\ input = <<>>
    /\ ~plugged
    /\ exception' = "ReadError"
    /\ runPc' = "leaving"
    /\ UNCHANGED <<callVars, report, todo, stopVars, deviceVars, handlerVars>>

\* processReport returns to the loop, and its report goes out of scope.
Done == runPc' = "loop" /\ report' = NoReport

\* Report::InvalidReportID and InvalidReportLength are ignored.
IgnoreForeign ==
    /\ runPc = "processing"
    /\ report.kind = "foreign"
    /\ Done
    /\ UNCHANGED <<callVars, todo, exception, stopVars, deviceVars,
                   handlerVars>>

\* std::find_if over the list: the first command with the report's key.
IsMatch(i) == KeyOf[commands[i]] = report.key
\* Faulty variant: the last match.
IsLastMatch(i) ==
    /\ IsMatch(i)
    /\ \A j \in DOMAIN commands : j > i => ~IsMatch(j)
IsFirstMatch(i) ==
    /\ IsMatch(i)
    /\ \A j \in DOMAIN commands : j < i => ~IsMatch(j)

\* Faulty variant: the command stays in the list.
MatchWithoutErase ==
    /\ runPc = "processing"
    /\ report.kind # "foreign"
    /\ CommandMutexFree
    /\ \E i \in DOMAIN commands :
         /\ IsFirstMatch(i)
         /\ response' = [response EXCEPT ![commands[i]] = OutcomeOf(report)]
    /\ Done
    /\ UNCHANGED <<pc, commands, notifications, listeners, todo, exception,
                   stopVars, deviceVars, handlerVars>>

\* An answer, or a HID++1.0 or 2.0 error, for the first matching command.
MatchCommand ==
    /\ runPc = "processing"
    /\ report.kind # "foreign"
    /\ CommandMutexFree
    /\ \E i \in DOMAIN commands :
         /\ IsFirstMatch(i)
         /\ response' = [response EXCEPT ![commands[i]] = OutcomeOf(report)]
         /\ commands' = Erase(commands, i)
    /\ Done
    /\ UNCHANGED <<pc, notifications, listeners, todo, exception,
                   stopVars, deviceVars, handlerVars>>

\* No command matches: the report is taken for an event, or dropped.
NoMatch ==
    /\ runPc = "processing"
    /\ report.kind # "foreign"
    /\ CommandMutexFree
    /\ \A i \in DOMAIN commands : ~IsMatch(i)
    /\ IF report.kind # "error" /\ report.key \in EventLike
         THEN runPc' = "event" /\ UNCHANGED report
         ELSE Done
    /\ UNCHANGED <<callVars, todo, exception, stopVars, deviceVars,
                   handlerVars>>

\* processEvent, with the listener mutex held from here to DeliverEnd.
DeliverBegin ==
    /\ runPc = "event"
    /\ todo' = {l \in listeners : TopicOf[l] = TopicOfKey[report.key]}
    /\ runPc' = "delivering"
    /\ UNCHANGED <<callVars, report, exception, stopVars, deviceVars,
                   handlerVars>>

\* The handler getNotification registered: it sets the promise, erases the
\* notification and, returning false, its own registration.
DeliverNotification(n) ==
    /\ runPc = "delivering"
    /\ n \in todo
    /\ response' = [response EXCEPT ![n] = OutcomeOf(report)]
    /\ notifications' = notifications \ {n}
    /\ listeners' = listeners \ {n}
    /\ todo' = todo \ {n}
    /\ UNCHANGED <<pc, commands, runPc, report, exception, stopVars,
                   deviceVars, handlerVars>>

\* A user's handler: it is called, and kept if it returns true.
DeliverHandler(h, keep) ==
    /\ runPc = "delivering"
    /\ h \in todo
    /\ heard' = [heard EXCEPT ![h] = @ \cup {report.kind}]
    /\ todo' = todo \ {h}
    /\ IF keep
         THEN UNCHANGED <<listeners, handler>>
         ELSE /\ listeners' = listeners \ {h}
              /\ handler' = [handler EXCEPT ![h] = "removed"]
    /\ UNCHANGED <<pc, response, commands, notifications, runPc, report,
                   exception, stopVars, deviceVars>>

DeliverEnd ==
    /\ runPc = "delivering"
    /\ todo = {}
    /\ Done
    /\ UNCHANGED <<callVars, todo, exception, stopVars, deviceVars,
                   handlerVars>>

\* Faulty variant: after a read error, calls are still accepted.
LeaveUnflagged ==
    /\ runPc = "leaving"
    /\ runPc' = "sweepCommands"
    /\ UNCHANGED <<callVars, report, todo, exception, stopVars, deviceVars,
                   handlerVars>>

\* After the loop: _stopped is set first, so that no call can join a list
\* that has already been swept.
Leave ==
    /\ runPc = "leaving"
    /\ stopped' = TRUE
    /\ runPc' = "sweepCommands"
    /\ UNCHANGED <<callVars, report, todo, exception, stopPc, pipe, deviceVars,
                   handlerVars>>

\* set_exception on every promise of a list; the list is left as it is.
Fail(S) ==
    response' = [c \in Calls |-> IF c \in S THEN Exception ELSE response[c]]

\* Faulty variant: the list is swept without its mutex.
SweepCommandsUnlocked ==
    /\ runPc = "sweepCommands"
    /\ Fail(Elements(commands))
    /\ runPc' = "sweepNotifications"
    /\ UNCHANGED <<pc, commands, notifications, listeners, report, todo,
                   exception, stopVars, deviceVars, handlerVars>>
SweepCommands ==
    /\ runPc = "sweepCommands"
    /\ CommandMutexFree
    /\ Fail(Elements(commands))
    /\ runPc' = "sweepNotifications"
    /\ UNCHANGED <<pc, commands, notifications, listeners, report, todo,
                   exception, stopVars, deviceVars, handlerVars>>

\* Faulty variant: only the commands are failed.
SweepNoNotifications ==
    /\ runPc = "sweepNotifications"
    /\ runPc' = "done"
    /\ UNCHANGED <<callVars, report, todo, exception, stopVars, deviceVars,
                   handlerVars>>
SweepNotifications ==
    /\ runPc = "sweepNotifications"
    /\ Fail(notifications)
    /\ runPc' = "done"
    /\ UNCHANGED <<pc, commands, notifications, listeners, report, todo,
                   exception, stopVars, deviceVars, handlerVars>>

Read == ReadReport \/ ReadInterrupted \/ ReadFails
Process == IgnoreForeign \/ MatchCommand \/ NoMatch
Deliver ==
    \/ DeliverBegin
    \/ \E n \in Notifications : DeliverNotification(n)
    \/ \E h \in Handlers, keep \in BOOLEAN : DeliverHandler(h, keep)
    \/ DeliverEnd
Shutdown == Leave \/ SweepCommands \/ SweepNotifications
Run == CheckStopped \/ Read \/ Process \/ Deliver \/ Shutdown

-----------------------------------------------------------------------------
(* The thread that calls stop(), and the users of event handlers. *)

SetStopped ==
    /\ stopPc = "idle"
    /\ stopped' = TRUE
    /\ stopPc' = "flagged"
    /\ UNCHANGED <<callVars, runVars, pipe, deviceVars, handlerVars>>

\* Faulty variant: the flag alone, and nobody wakes the reader.
StopWithoutInterrupt ==
    /\ stopPc = "flagged"
    /\ stopPc' = "done"
    /\ UNCHANGED <<callVars, runVars, stopped, pipe, deviceVars, handlerVars>>
InterruptRead ==
    /\ stopPc = "flagged"
    /\ pipe' = pipe + 1
    /\ stopPc' = "done"
    /\ UNCHANGED <<callVars, runVars, stopped, deviceVars, handlerVars>>

RegisterEventHandler(h) ==
    /\ handler[h] = "new"
    /\ ListenerMutexFree
    /\ handler' = [handler EXCEPT ![h] = "registered"]
    /\ listeners' = listeners \cup {h}
    /\ UNCHANGED <<pc, response, commands, notifications, runVars, stopVars,
                   deviceVars, heard>>

\* Faulty variant: the handler is unregistered without the mutex.
UnregisterUnlocked(h) ==
    /\ handler[h] = "registered"
    /\ handler' = [handler EXCEPT ![h] = "removed"]
    /\ listeners' = listeners \ {h}
    /\ UNCHANGED <<pc, response, commands, notifications, runVars, stopVars,
                   deviceVars, heard>>
UnregisterEventHandler(h) ==
    /\ handler[h] = "registered"
    /\ ListenerMutexFree
    /\ handler' = [handler EXCEPT ![h] = "removed"]
    /\ listeners' = listeners \ {h}
    /\ UNCHANGED <<pc, response, commands, notifications, runVars, stopVars,
                   deviceVars, heard>>

User ==
    \/ SetStopped
    \/ InterruptRead
    \/ \E h \in Handlers : RegisterEventHandler(h) \/ UnregisterEventHandler(h)

-----------------------------------------------------------------------------
(* The device and the kernel's hidraw queue. *)

\* Requests with the same key are answered in the order they were written;
\* requests with different keys in any order.
OlderThan(d, c) ==
    \E i, j \in DOMAIN written : i < j /\ written[i] = d /\ written[j] = c
NextOfItsKey(c) ==
    /\ fate[c] = "queued"
    /\ \A d \in Commands :
         KeyOf[d] = KeyOf[c] /\ OlderThan(d, c) => fate[d] # "queued"

Answer(c, kind) ==
    /\ plugged
    /\ NextOfItsKey(c)
    /\ fate' = [fate EXCEPT ![c] = "answered"]
    /\ input' = Append(input, [kind |-> kind, key |-> KeyOf[c], origin |-> c])
    /\ UNCHANGED <<callVars, runVars, stopVars, written, plugged, unsolicited,
                   handlerVars>>

\* The request or its answer is lost (a wireless device out of reach).
Lose(c) ==
    /\ NextOfItsKey(c)
    /\ fate' = [fate EXCEPT ![c] = "lost"]
    /\ UNCHANGED <<callVars, runVars, stopVars, input, written, plugged,
                   unsolicited, handlerVars>>

\* An event, or a report of another protocol on the same hidraw node.
SendUnsolicited(kind, k) ==
    /\ plugged
    /\ unsolicited < MaxUnsolicited
    /\ unsolicited' = unsolicited + 1
    /\ input' = Append(input, [kind |-> kind, key |-> k, origin |-> Nobody])
    /\ UNCHANGED <<callVars, runVars, stopVars, written, fate, plugged,
                   handlerVars>>

Unplug ==
    /\ plugged
    /\ plugged' = FALSE
    /\ UNCHANGED <<callVars, runVars, stopVars, input, written, fate,
                   unsolicited, handlerVars>>

Device ==
    \/ \E c \in Commands, kind \in {"answer", "error"} : Answer(c, kind)
    \/ \E c \in Commands : Lose(c)
    \/ \E k \in EventKeys, kind \in {"event", "foreign"} : SendUnsolicited(kind, k)
    \/ Unplug

Next ==
    \/ \E c \in Calls : Caller(c)
    \/ Run
    \/ User
    \/ Device

Spec == Init /\ [][Next]_vars

-----------------------------------------------------------------------------
(* Fairness.  The thread in run() is scheduled, and so is a caller that     *)
(* holds a mutex, is inside stop(), or waits in get() for something that    *)
(* has come: none of these steps needs the device or another caller.  A     *)
(* timeout expires.  Nothing makes a caller start a call or a device answer.*)
Fairness ==
    /\ WF_vars(Run)
    /\ WF_vars(InterruptRead)
    /\ \A c \in Commands : WF_vars(WriteCommand(c)) /\ WF_vars(InsertCommand(c))
    /\ \A c \in Calls : WF_vars(Return(c)) /\ WF_vars(TimedReturn(c))

FairSpec == Spec /\ Fairness

-----------------------------------------------------------------------------
(* Properties. *)

HasFuture(c) == pc[c] \in {"pending", "blocking", "timed"}
Unresolved(c) == HasFuture(c) /\ response[c].kind = "none"
IsListed(c) ==
    IF c \in Commands THEN c \in Elements(commands)
                      ELSE c \in notifications /\ c \in listeners

\* A future that is not ready has its promise in a list of the dispatcher,
\* where an answer, an event or the end of run() can still set it, and in
\* that list once (processReport, cancelCommand, cancelNotification).
NoOrphan ==
    /\ \A c \in Calls : Unresolved(c) => IsListed(c)
    /\ \A i, j \in DOMAIN commands : commands[i] = commands[j] => i = j

\* The inductive invariant behind the three safety properties that follow:
\* which promises are set and which calls are listed, by the caller's and
\* the run thread's program counters.
CommandInv(c) ==
    /\ Unresolved(c) => c \in Elements(commands)
    /\ c \in Elements(commands) =>
         /\ pc[c] \in {"pending", "blocking", "timed", "returned"}
         /\ runPc \notin {"sweepNotifications", "done"} =>
                response[c].kind = "none"
    /\ runPc \in {"sweepNotifications", "done"} =>
         ~Unresolved(c) /\ pc[c] \notin {"locked", "written"}
NotificationInv(n) ==
    /\ Unresolved(n) => n \in notifications
    /\ n \in listeners <=> n \in notifications
    /\ n \in todo => n \in notifications
    /\ n \in notifications =>
         /\ pc[n] \in {"pending", "blocking", "timed", "returned"}
         /\ runPc # "done" => response[n].kind = "none"
    /\ runPc = "done" => ~Unresolved(n)
    /\ pc[n] \notin {"locked", "written", "failed"}
CallInv(c) ==
    /\ pc[c] \in {"idle", "locked", "written", "timedout", "refused", "failed"} =>
         response[c].kind = "none"
    /\ pc[c] = "returned" => response[c].kind # "none"
RunInv ==
    /\ runPc \in {"sweepCommands", "sweepNotifications", "done"} => stopped
    /\ todo # {} => runPc = "delivering"
PromiseInv ==
    /\ \A i, j \in DOMAIN commands : commands[i] = commands[j] => i = j
    /\ \A c \in Commands : CommandInv(c)
    /\ \A n \in Notifications : NotificationInv(n)
    /\ \A c \in Calls : CallInv(c)
    /\ RunInv

\* When run() has ended no future stays unset: not one of a call that was
\* already waiting, nor of one submitted while run() was ending.
NoneLeftBehind == runPc = "done" => \A c \in Calls : ~Unresolved(c)

\* A promise is set at most once: set_value or set_exception on a promise
\* already set throws, and would end the thread in run().
ResolvedOnce ==
    [][\A c \in Calls : response[c].kind # "none" =>
                            response'[c] = response[c]]_vars

\* get (timeout) throws TimeoutError only when there is no answer to lose,
\* and nothing touches the promise of a cancelled call.
TimeoutLosesNothing ==
    \A c \in Calls : pc[c] = "timedout" =>
                        response[c].kind = "none" /\ ~IsListed(c)

\* Commands with one key get their own answers in spite of the matching by
\* key alone, unless an earlier one of that key (or its answer) was lost or
\* given up by a timeout.
Disturbed(c) ==
    \E d \in Commands :
        /\ KeyOf[d] = KeyOf[c]
        /\ d = c \/ OlderThan(d, c)
        /\ fate[d] = "lost" \/ pc[d] = "timedout"
OwnAnswer ==
    \A c \in Commands : response[c].kind \in {"answer", "error"} =>
        /\ KeyOf[response[c].origin] = KeyOf[c]
        /\ response[c].origin # c => Disturbed(c)

\* A handler is not called once unregisterEventHandler has returned, even
\* when an event was being delivered meanwhile: its owner may be destroyed.
NoCallAfterUnregister ==
    \A h \in Handlers : handler[h] = "removed" => h \notin todo

\* Event handlers are called with events, and with answers only where a command
\* of the same device and feature was given up by get (timeout): processReport
\* finds the command of any other answer, even one that comes before
\* writeReport has returned.
LateAnswersOnly ==
    \A h \in Handlers :
        /\ heard[h] \subseteq {"event", "answer"}
        /\ "answer" \in heard[h] => \E c \in Commands :
              pc[c] = "timedout" /\ TopicOfKey[KeyOf[c]] = TopicOf[h]

\* The dispatcher implements the contract of its callers.
StatusOf(c) ==
    CASE pc[c] \in {"idle", "locked", "written"} -> "new"
      [] pc[c] \in {"refused", "failed"} -> "refused"
      [] pc[c] = "timedout" -> "expired"
      [] HasFuture(c) /\ response[c].kind = "none" -> "open"
      [] OTHER -> IF response[c].kind = "exception" THEN "aborted" ELSE "fulfilled"
Contract == INSTANCE AsyncCalls WITH
    status <- [c \in Calls |-> StatusOf(c)],
    closing <- runPc \in {"sweepCommands", "sweepNotifications", "done"},
    closed <- runPc = "done"

\* Every behaviour of the threads is one of AsyncCalls: a call is opened,
\* answered, expired or aborted once, and closing leaves none open.
ImplementsContract == Contract!Spec

\* stop() ends run(), whatever the device does.
StopEndsRun == (stopPc # "idle") ~> (runPc = "done")

\* A caller blocked in get () is released by stop() even if the device never
\* answers.
StopReleasesCallers ==
    \A c \in Calls :
        (pc[c] = "blocking" /\ stopPc # "idle") ~> (pc[c] = "returned")
=============================================================================
