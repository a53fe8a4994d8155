-------------------------- MODULE SimpleDispatcher --------------------------
(***************************************************************************)
(* HIDPP::SimpleDispatcher (src/src/libhidpp/hidpp/SimpleDispatcher.cpp):  *)
(* one thread sends commands and reads the device itself, in get () or in  *)
(* listen (); what it reads while it waits for something else goes to the  *)
(* event handlers or nowhere.  As SimpleDispatcher.h:28-38 asks, a command *)
(* or a wait for a notification begins only when no other is in progress;  *)
(* stop() may come from anywhere, at any time.                             *)
(***************************************************************************)
EXTENDS Integers, Sequences, FiniteSets

CONSTANTS
    Commands,       \* calls of sendCommand
    Notifications,  \* calls of getNotification
    Handlers,       \* handlers given to registerEventHandler
    Keys,           \* (device index, sub ID, address) triples
    Topics,         \* (device index, sub ID) pairs
    KeyOf,          \* the key of a command's request
    TopicOf,        \* the pair a notification or a handler waits for
    TopicOfKey,     \* the pair of a report with that key
    EventKeys,      \* keys the device uses for events
    MaxUnsolicited, \* bound: reports the device sends on its own
    MaxStops,       \* bound: calls of stop()
    Nobody          \* no call

Calls == Commands \cup Notifications

ASSUME ActorAssumption ==
    /\ Commands \cap Notifications = {}
    /\ Nobody \notin Calls
    /\ "listen" \notin Calls \cup {Nobody}
ASSUME KeyAssumption ==
    /\ KeyOf \in [Commands -> Keys]
    /\ TopicOf \in [Notifications \cup Handlers -> Topics]
    /\ TopicOfKey \in [Keys -> Topics]
    /\ EventKeys \subseteq Keys
    /\ MaxUnsolicited \in Nat
    /\ MaxStops \in Nat
\* A HID++2.0 request has the software ID 1 (Device::softwareID, Device.cpp:26
\* of hidpp20) where an event has 0; the sub IDs of register requests are
\* 0x80 to 0x83, those of HID++1.0 notifications are below.
ASSUME RequestAssumption ==
    \A c \in Commands : KeyOf[c] \notin EventKeys

VARIABLES
    call,       \* of each command and notification
    response,   \* what its get () returned, or threw
    waiting,    \* what the thread waits for: a call, "listen" or Nobody
    timed,      \* that wait has a timeout
    handler,    \* what the user did with each event handler (_listeners)
    pipe,       \* bytes in the pipe of interruptRead
    stops,      \* calls of stop()
    input,      \* reports the kernel has queued for the reader
    fate,       \* what the device did with each request
    plugged,    \* the device is there
    unsolicited,\* reports the device sent on its own
    owed,       \* events sent since the handler was registered (history)
    called      \* calls of the handler with events (history)

callVars == <<call, response, waiting, timed>>
stopVars == <<pipe, stops>>
deviceVars == <<input, fate, plugged, unsolicited>>
handlerVars == <<handler, owed, called>>
vars == <<callVars, stopVars, deviceVars, handlerVars>>

-----------------------------------------------------------------------------
Report == [kind : {"answer", "error", "event", "foreign"},
           key : Keys, origin : Commands \cup {Nobody}]
Unset == [kind |-> "none", origin |-> Nobody]
Outcome == [kind : {"none", "answer", "error", "event", "exception"},
            origin : Commands \cup {Nobody}]

Init ==
    /\ call = [c \in Calls |-> "new"]
    /\ response = [c \in Calls |-> Unset]
    /\ waiting = Nobody
    /\ timed = FALSE
    /\ handler = [h \in Handlers |-> "new"]
    /\ pipe = 0
    /\ stops = 0
    /\ input = <<>>
    /\ fate = [c \in Commands |-> "none"]
    /\ plugged = TRUE
    /\ unsolicited = 0
    /\ owed = [h \in Handlers |-> 0]
    /\ called = [h \in Handlers |-> 0]

IsEventOf(h, r) == r.kind = "event" /\ TopicOfKey[r.key] = TopicOf[h]
EventsQueued(h) == Cardinality({i \in DOMAIN input : IsEventOf(h, input[i])})

-----------------------------------------------------------------------------
(* The user of the dispatcher. *)

Free == waiting = Nobody
NoneInProgress == Free /\ \A c \in Calls : call[c] # "pending"

SendCommand(c) ==
    /\ NoneInProgress
    /\ call[c] = "new"
    /\ IF plugged
         THEN /\ call' = [call EXCEPT ![c] = "pending"]
              /\ fate' = [fate EXCEPT ![c] = "queued"]
         ELSE /\ call' = [call EXCEPT ![c] = "refused"]
              /\ UNCHANGED fate
    /\ UNCHANGED <<response, waiting, timed, stopVars, input, plugged,
                   unsolicited, handlerVars>>

\* Nothing is registered: a notification is looked for when get () reads.
GetNotification(n) ==
    /\ NoneInProgress
    /\ call[n] = "new"
    /\ call' = [call EXCEPT ![n] = "pending"]
    /\ UNCHANGED <<response, waiting, timed, stopVars, deviceVars, handlerVars>>

\* get (), or get (timeout), perhaps again after a TimeoutError.
Get(c, withTimeout) ==
    /\ Free
    /\ call[c] = "pending"
    /\ waiting' = c
    /\ timed' = withTimeout
    /\ UNCHANGED <<call, response, stopVars, deviceVars, handlerVars>>

\* The AsyncReport is destroyed.
Drop(c) ==
    /\ Free
    /\ call[c] = "pending"
    /\ call' = [call EXCEPT ![c] = "dropped"]
    /\ UNCHANGED <<response, waiting, timed, stopVars, deviceVars, handlerVars>>

Listen ==
    /\ NoneInProgress
    /\ waiting' = "listen"
    /\ timed' = FALSE
    /\ UNCHANGED <<call, response, stopVars, deviceVars, handlerVars>>

RegisterEventHandler(h) ==
    /\ Free
    /\ handler[h] = "new"
    /\ handler' = [handler EXCEPT ![h] = "registered"]
    /\ owed' = [owed EXCEPT ![h] = EventsQueued(h)]
    /\ UNCHANGED <<callVars, stopVars, deviceVars, called>>

UnregisterEventHandler(h) ==
    /\ Free
    /\ handler[h] = "registered"
    /\ handler' = [handler EXCEPT ![h] = "removed"]
    /\ UNCHANGED <<callVars, stopVars, deviceVars, owed, called>>

Stop ==
    /\ stops < MaxStops
    /\ stops' = stops + 1
    /\ pipe' = pipe + 1
    /\ UNCHANGED <<callVars, deviceVars, handlerVars>>

User ==
    \/ \E c \in Commands : SendCommand(c)
    \/ \E n \in Notifications : GetNotification(n)
    \/ \E c \in Calls, b \in BOOLEAN : Get(c, b)
    \/ \E c \in Calls : Drop(c)
    \/ \E h \in Handlers : RegisterEventHandler(h) \/ UnregisterEventHandler(h)
    \/ Listen
    \/ Stop

-----------------------------------------------------------------------------
(* getReport and the loops around it. *)

\* processEvent: errors and reports that are not HID++ are not events, the
\* answers of commands are.
Receivers(r) ==
    {h \in Handlers : /\ handler[h] = "registered"
                      /\ r.kind \in {"answer", "event"}
                      /\ TopicOf[h] = TopicOfKey[r.key]}
\* Faulty variant: events are processed only in listen ().
ProcessEventListening(r, keep) ==
    /\ keep \subseteq Receivers(r)
    /\ IF waiting = "listen"
         THEN /\ handler' = [h \in Handlers |-> IF h \in Receivers(r) \ keep
                                                  THEN "removed" ELSE handler[h]]
              /\ called' = [h \in Handlers |-> IF h \in Receivers(r) /\ IsEventOf(h, r)
                                                 THEN called[h] + 1 ELSE called[h]]
         ELSE UNCHANGED <<handler, called>>
\* Handlers are called in turn; those that return false are removed.
ProcessEvent(r, keep) ==
    /\ keep \subseteq Receivers(r)
    /\ handler' = [h \in Handlers |-> IF h \in Receivers(r) \ keep
                                        THEN "removed" ELSE handler[h]]
    /\ called' = [h \in Handlers |-> IF h \in Receivers(r) /\ IsEventOf(h, r)
                                       THEN called[h] + 1 ELSE called[h]]

\* Faulty variant: an answer is known by its sub ID.
IsForTopic(c, r) ==
    r.kind # "foreign" /\ TopicOfKey[r.key] = TopicOfKey[KeyOf[c]]
\* Faulty variant: errors are ignored, whosever they are.
IsForNoError(c, r) == r.kind \in {"answer", "event"} /\ r.key = KeyOf[c]
IsForCommand(c, r) == r.kind # "foreign" /\ r.key = KeyOf[c]
IsForNotification(n, r) ==
    r.kind \in {"answer", "event"} /\ TopicOfKey[r.key] = TopicOf[n]

Ends(r) ==
    \/ waiting \in Commands /\ IsForCommand(waiting, r)
    \/ waiting \in Notifications /\ IsForNotification(waiting, r)

\* A report is read, and ends the wait or is ignored by it.
ReadReport(keep) ==
    /\ ~Free
    /\ input # <<>>
    /\ LET r == Head(input) IN
       /\ ProcessEvent(r, keep)
       /\ IF Ends(r)
            THEN /\ call' = [call EXCEPT ![waiting] = "returned"]
                 /\ response' = [response EXCEPT ![waiting] =
                                   [kind |-> r.kind, origin |-> r.origin]]
                 /\ waiting' = Nobody
            ELSE UNCHANGED <<call, response, waiting>>
    /\ input' = Tail(input)
    /\ UNCHANGED <<timed, stopVars, fate, plugged, unsolicited, owed>>

\* Faulty variant: the byte is read, and the wait goes on.
ReadByteAndGoOn ==
    /\ ~Free
    /\ input = <<>> /\ plugged
    /\ pipe > 0
    /\ pipe' = pipe - 1
    /\ UNCHANGED <<callVars, stops, deviceVars, handlerVars>>
\* readReport reads the byte and returns 0: listen () returns, and get (),
\* with a timeout or without, throws TimeoutError.  The device comes first.
ReadInterrupted ==
    /\ ~Free
    /\ input = <<>> /\ plugged
    /\ pipe > 0
    /\ pipe' = pipe - 1
    /\ waiting' = Nobody
    /\ UNCHANGED <<call, response, timed, stops, deviceVars, handlerVars>>
TimeoutExpires ==
    /\ ~Free /\ timed
    /\ input = <<>> /\ plugged
    /\ pipe = 0
    /\ waiting' = Nobody
    /\ UNCHANGED <<call, response, timed, stopVars, deviceVars, handlerVars>>

\* readReport throws, out of get () or listen ().
ReadFails ==
    /\ ~Free
    /\ input = <<>> /\ ~plugged
    /\ waiting' = Nobody
    /\ IF waiting \in Calls
         THEN /\ call' = [call EXCEPT ![waiting] = "failed"]
              /\ response' = [response EXCEPT ![waiting] =
                                [kind |-> "exception", origin |-> Nobody]]
         ELSE UNCHANGED <<call, response>>
    /\ UNCHANGED <<timed, stopVars, deviceVars, handlerVars>>

Read ==
    \/ \E keep \in SUBSET Handlers : ReadReport(keep)
    \/ ReadInterrupted
    \/ TimeoutExpires
    \/ ReadFails

-----------------------------------------------------------------------------
(* The device: it answers in any order, or not at all. *)

Answer(c, kind) ==
    /\ plugged
    /\ fate[c] = "queued"
    /\ fate' = [fate EXCEPT ![c] = "answered"]
    /\ input' = Append(input, [kind |-> kind, key |-> KeyOf[c], origin |-> c])
    /\ UNCHANGED <<callVars, stopVars, plugged, unsolicited, handlerVars>>

Lose(c) ==
    /\ fate[c] = "queued"
    /\ fate' = [fate EXCEPT ![c] = "lost"]
    /\ UNCHANGED <<callVars, stopVars, input, plugged, unsolicited, handlerVars>>

SendUnsolicited(kind, k) ==
    /\ plugged
    /\ unsolicited < MaxUnsolicited
    /\ unsolicited' = unsolicited + 1
    /\ LET r == [kind |-> kind, key |-> k, origin |-> Nobody] IN
       /\ input' = Append(input, r)
       /\ owed' = [h \in Handlers |-> IF handler[h] = "registered" /\ IsEventOf(h, r)
                                        THEN owed[h] + 1 ELSE owed[h]]
    /\ UNCHANGED <<callVars, stopVars, fate, plugged, handler, called>>

Unplug ==
    /\ plugged
    /\ plugged' = FALSE
    /\ UNCHANGED <<callVars, stopVars, input, fate, unsolicited, handlerVars>>

Device ==
    \/ \E c \in Commands, kind \in {"answer", "error"} : Answer(c, kind)
    \/ \E c \in Commands : Lose(c)
    \/ \E k \in EventKeys, kind \in {"event", "foreign"} : SendUnsolicited(kind, k)
    \/ Unplug

Next == User \/ Read \/ Device
Spec == Init /\ [][Next]_vars

\* The thread that waits is scheduled.  Nothing makes the user call, or the
\* device answer; its own reports end (MaxUnsolicited): under a flood of them
\* the pipe, which comes second, would never be read.
FairSpec == Spec /\ WF_vars(Read)

-----------------------------------------------------------------------------
(* Properties. *)

\* A command is answered by its own answer, unless an earlier one of the same
\* key was given up before its answer came.
Disturbed(c) ==
    \E d \in Commands \ {c} : KeyOf[d] = KeyOf[c] /\ call[d] = "dropped"
OwnAnswer ==
    \A c \in Commands : response[c].kind \in {"answer", "error", "event"} =>
        response[c].origin = c \/ Disturbed(c)

\* However often get (timeout) gives up and is called again, and whatever is
\* read meanwhile, the answer of the command in progress is not thrown away.
AnswerKept ==
    \A c \in Commands : call[c] = "pending" /\ fate[c] = "answered" =>
        \E i \in DOMAIN input : input[i].origin = c

\* Every event sent while a handler is registered reaches it, once, though it
\* was read by a get () that waited for something else; none are left over.
EventsReachHandlers ==
    \A h \in Handlers : handler[h] = "registered" =>
        owed[h] = called[h] + EventsQueued(h)

\* listen () and get () return after a stop(), even one that came before them:
\* it is not forgotten when nobody waits at the time.
StopEndsWait == (~Free /\ pipe > 0) ~> Free
=============================================================================
