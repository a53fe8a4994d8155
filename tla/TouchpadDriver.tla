--------------------------- MODULE TouchpadDriver ---------------------------
(***************************************************************************)
(* hidpp20-raw-touchpad-driver (src/src/tools), with HID::DeviceMonitor    *)
(* and ITouchpadRawXY.  The monitor thread builds and destroys the drivers *)
(* of the hidraw nodes that come and go; the main thread runs the tasks    *)
(* that the dispatcher threads queue when a receiver tells of a wireless   *)
(* device; raw touch events are handled on the dispatcher threads.         *)
(*                                                                         *)
(* A thread that builds or destroys drivers has its remaining steps in     *)
(* `work'.  A step on a driver that is gone is undefined behaviour: it     *)
(* crashes the program or is skipped.                                      *)
(***************************************************************************)
EXTENDS EventQueue, FiniteSets, SequencesExt

CONSTANTS
    Receivers,  \* hidraw nodes of receivers
    Mice,       \* hidraw nodes of devices that are themselves touchpads
    Others,     \* hidraw nodes that are not HID++ devices
    Pads,       \* touchpads
    PathOf,     \* the hidraw node a touchpad is reached through
    Budgets,    \* bounds on what happens: a set of records
    IdRange     \* number of tracking ids (2^16 in the code)

Paths == Receivers \cup Mice \cup Others
Threads == {"monitor", "main"}
PadsOf(path) == {p \in Pads : PathOf[p] = path}
\* `since' counts the ids that were given after that of each contact (history).
NoTouch == [id |-> <<-1, -1>>, next |-> 1, count |-> 0, touching |-> FALSE,
            buttons |-> {}, since |-> <<0, 0>>]

ASSUME PathAssumption ==
    /\ PathOf \in [Pads -> Receivers \cup Mice]
    /\ \A path \in Mice : Cardinality(PadsOf(path)) = 1
    /\ Receivers \cap Mice = {}
    /\ Others \cap (Receivers \cup Mice) = {}
\* A machine has finitely many nodes and touchpads in reach.
ASSUME FiniteAssumption == IsFiniteSet(Pads) /\ IsFiniteSet(Paths)
\* What is plugged in at the start are nodes.
ASSUME BudgetAssumption == \A b \in Budgets : b.plugged \subseteq Paths
ASSUME IdAssumption == IdRange \in Nat \ {0, 1}

VARIABLES
    program,    \* "running", "stopping", "ended" or "crashed"
    scan,       \* the monitor thread: "start", "enumerate", "listen", "done"
    found,      \* the nodes it still has to enumerate
    udev,       \* events of the udev monitor
    stopping,   \* the byte of DeviceMonitor::stop () is in the pipe
    work,       \* the steps each thread has before it
    node,       \* _nodes: the driver of each node, 0 if there is none
    driver,     \* the drivers made so far
    plugged,    \* nodes that are there
    linked,     \* touchpads that are on and in reach
    raw,        \* touchpads in raw mode
    touch,      \* uinput device and state of the last driver of a touchpad
    contacts,   \* the fingers of its last report
    left,       \* what may still happen (bounds)
    unreached,  \* touchpads that ~TouchpadDriver failed to reach (history)
    twice,      \* touchpads given a second driver (history)
    missed,     \* an interruption found the main thread about to wait (history)
    disturbed,  \* something happened that the program does not cope with (history)
    cause       \* undefined behaviour that was reached (history)

threadVars == <<program, scan, found, stopping, work>>
driverVars == <<node, driver>>
worldVars == <<udev, plugged, linked, raw, left>>
touchVars == <<touch, contacts>>
history == <<unreached, twice, missed, disturbed, cause>>
effects == <<raw, touchVars, unreached, twice>>
surroundings == <<plugged, linked, left, missed, disturbed, cause>>
vars == <<queueVars, threadVars, driverVars, worldVars, touchVars, history>>

-----------------------------------------------------------------------------
Step(op, d, p) == [op |-> op, driver |-> d, pad |-> p]
NoPad == CHOOSE p \in Pads : TRUE
None == [p \in Pads |-> 0]
\* A driver: its node, whether the node's file still leads to the device, the
\* touchpads it has, those it listens for, and for each the handlers of raw
\* events and how many of them belong to an object that is down to ~Driver.
NewDriver(path) == [path |-> path, state |-> "building", open |-> TRUE, pads |-> {},
                    listens |-> {}, heard |-> None, dying |-> None]
\* The thread that destroys drivers.
Destroyer == IF scan = "done" THEN "main" ELSE "monitor"
Usable(t, d) ==
    \/ driver[d].state \in {"building", "live"}
    \/ driver[d].state = "dying" /\ t = Destroyer
Reachable(d, p) == driver[d].open /\ p \in linked
Reached(p) == PathOf[p] \in plugged /\ p \in linked
Busy(t) == work[t] # <<>>
Running == program \in {"running", "stopping"}

\* Faulty variant: raw mode before the handler.
EnableThenListen(d, p) == <<Step("probe", d, p), Step("enable", d, p), Step("listen", d, p)>>
\* TouchpadDriver::TouchpadDriver, from the queries that fail if there is no
\* touchpad to the command that enables raw mode.
Construction(d, p) == <<Step("probe", d, p), Step("listen", d, p), Step("enable", d, p)>>
\* ~TouchpadDriver, then ~Driver.
Destruction(d, p) == <<Step("disable", d, p), Step("unlisten", d, p)>>
\* ReceiverDriver::addDevice: what emplace builds before it looks for the key.
AddWireless(d, p) == Append(Construction(d, p), Step("emplace", d, p))
\* Faulty variant: the event handlers come after the devices.
TryThenListen(d, ps) ==
    FlattenSeq([i \in DOMAIN ps |-> AddWireless(d, ps[i]) \o <<Step("addEvent", d, ps[i])>>])
\* ReceiverDriver::ReceiverDriver.
ReceiverWork(d, ps) ==
    FlattenSeq([i \in DOMAIN ps |-> <<Step("addEvent", d, ps[i])>> \o AddWireless(d, ps[i])])
\* Faulty variant: the touchpads are destroyed after the receiver.
DestroyReceiverFirst(d) ==
    IF d = 0 THEN <<>>
    ELSE <<Step("gone", d, NoPad)>>
         \o FlattenSeq(SetToSeq({Destruction(d, p) : p \in driver[d].pads}))
\* What destroys the driver of a node.
DestroyDriver(d) ==
    IF d = 0 THEN <<>>
    ELSE FlattenSeq(SetToSeq({Destruction(d, p) : p \in driver[d].pads}))
         \o <<Step("gone", d, NoPad)>>
Marked(ds) == [d \in DOMAIN driver |-> [driver[d] EXCEPT !.state = IF d \in ds THEN "dying" ELSE @]]
\* _nodes.erase, and ~node.
EraseNode(path) == DestroyDriver(node[path])

-----------------------------------------------------------------------------
Init ==
    /\ QueueInit
    /\ program = "running"
    /\ \E b \in Budgets : left = b.left /\ plugged = b.plugged /\ linked = b.linked
    /\ scan = "start"
    /\ found = {}
    /\ udev = <<>>
    /\ stopping = FALSE
    /\ work = [t \in Threads |-> <<>>]
    /\ node = [path \in Paths |-> 0]
    /\ driver = <<>>
    /\ raw = {}
    /\ touch = [p \in Pads |-> NoTouch]
    /\ contacts = [p \in Pads |-> <<0, 0>>]
    /\ unreached = {}
    /\ twice = {}
    /\ missed = FALSE
    /\ disturbed = FALSE
    /\ cause = {}

\* MyMonitor::addDevice.  A node that exists is not replaced: it gets a new
\* driver, after which unique_ptr destroys the old one.
AddNode(path) ==
    /\ UNCHANGED <<node, effects>>
    /\ IF path \in plugged \ Others
       THEN LET d == Len(driver) + 1
                ps == SetToSeq(PadsOf(path))
            IN  /\ driver' = Append(driver, NewDriver(path))
                /\ work' = [work EXCEPT !["monitor"] =
                     IF path \in Receivers THEN Append(ReceiverWork(d, ps), Step("adopt", d, NoPad))
                     ELSE Append(Construction(d, ps[1]), Step("adopt", d, ps[1]))]
       ELSE UNCHANGED <<driver, work>>

\* DeviceMonitor::enumerate.
Enumerate ==
    /\ Running /\ ~Busy("monitor")
    /\ \/ /\ scan = "start"
          /\ scan' = "enumerate"
          /\ found' = plugged
          /\ UNCHANGED <<driverVars, work, effects>>
       \/ /\ scan = "enumerate"
          /\ \E path \in found : found' = found \ {path} /\ AddNode(path)
          /\ UNCHANGED scan
       \/ /\ scan = "enumerate" /\ found = {}
          /\ scan' = "listen"
          /\ UNCHANGED <<found, driverVars, work, effects>>
    /\ UNCHANGED <<queueVars, program, stopping, udev, surroundings>>

\* DeviceMonitor::run: an event of the udev monitor.
UdevEvent ==
    /\ Running /\ ~Busy("monitor")
    /\ scan = "listen"
    /\ udev # <<>>
    /\ udev' = Tail(udev)
    /\ LET e == Head(udev)
       IN  IF e.add THEN AddNode(e.path)
           ELSE /\ work' = [work EXCEPT !["monitor"] = EraseNode(e.path)]
                /\ driver' = Marked({node[e.path]})
                /\ UNCHANGED <<node, effects>>
    /\ UNCHANGED <<queueVars, program, scan, found, stopping, surroundings>>

\* DeviceMonitor::run returns when it has read the pipe; main joins it and
\* ~MyMonitor destroys the nodes.
MonitorStops ==
    /\ Running /\ ~Busy("monitor")
    /\ scan = "listen"
    /\ stopping
    /\ scan' = "done"
    /\ work' = [work EXCEPT !["main"] = FlattenSeq(SetToSeq({EraseNode(path) : path \in Paths}))]
    /\ driver' = Marked({node[path] : path \in Paths})
    /\ UNCHANGED <<queueVars, program, found, stopping, node, worldVars, touchVars, history>>

MainEnds ==
    /\ program = "stopping"
    /\ scan = "done"
    /\ ~Busy("main")
    /\ program' = "ended"
    /\ UNCHANGED <<queueVars, scan, found, stopping, work, driverVars, worldVars, touchVars, history>>

-----------------------------------------------------------------------------
(* One step of the work of thread t: the first one of work[t].             *)
Done(t) == work' = [work EXCEPT ![t] = Tail(@)]

\* No touchpad answers: the exception is caught, in ReceiverDriver::addDevice
\* after emplace, in MyMonitor::addDevice after all its tries, when it erases
\* the node.
Fail(t, d, steps, rest) ==
    work' = [work EXCEPT ![t] =
        steps \o IF driver[d].path \in Receivers THEN SubSeq(@, rest + 1, Len(@))
                 ELSE <<Step("gone", d, NoPad)>> \o EraseNode(driver[d].path)]

Probe(t, d, p) ==
    /\ IF Reachable(d, p) THEN Done(t) ELSE Fail(t, d, <<>>, 4)
    /\ UNCHANGED <<driverVars, effects>>

\* The uinput device is created and its events are heard.
Listen(t, d, p) ==
    /\ driver' = [driver EXCEPT ![d].heard[p] = @ + 1]
    /\ touch' = IF driver[d].heard[p] = 0 THEN [touch EXCEPT ![p] = NoTouch] ELSE touch
    /\ contacts' = IF driver[d].heard[p] = 0 THEN [contacts EXCEPT ![p] = <<0, 0>>] ELSE contacts
    /\ Done(t)
    /\ UNCHANGED <<node, raw, unreached, twice>>

\* ITouchpadRawXY::setTouchpadRawMode, which throws if no answer comes.
RawMode(d, p, enable) ==
    IF ~Reachable(d, p) THEN raw ELSE IF enable THEN raw \cup {p} ELSE raw \ {p}

\* setTouchpadRawMode (true); if it throws, the base object is destroyed.
Enable(t, d, p) ==
    /\ raw' = RawMode(d, p, TRUE)
    /\ IF Reachable(d, p) THEN Done(t) /\ UNCHANGED driver
       ELSE /\ Fail(t, d, <<Step("unlisten", d, p)>>, 2)
            /\ driver' = [driver EXCEPT ![d].dying[p] = @ + 1]
    /\ UNCHANGED <<node, touchVars, unreached, twice>>

\* setTouchpadRawMode (false); an exception is caught.
Disable(t, d, p) ==
    /\ raw' = RawMode(d, p, FALSE)
    /\ unreached' = IF Reachable(d, p) THEN unreached ELSE unreached \cup {p}
    /\ driver' = [driver EXCEPT ![d].dying[p] = @ + 1]
    /\ Done(t)
    /\ UNCHANGED <<node, touchVars, twice>>

Unlisten(t, d, p) ==
    /\ driver' = [driver EXCEPT ![d].heard[p] = @ - 1, ![d].dying[p] = @ - 1]
    /\ Done(t)
    /\ UNCHANGED <<node, effects>>

\* The end of emplace: the key is taken, the new driver is destroyed.
Emplace(t, d, p) ==
    /\ IF p \in driver[d].pads
       THEN /\ work' = [work EXCEPT ![t] = Destruction(d, p) \o Tail(@)]
            /\ twice' = twice \cup {p}
            /\ UNCHANGED driver
       ELSE driver' = [driver EXCEPT ![d].pads = @ \cup {p}] /\ Done(t) /\ UNCHANGED twice
    /\ UNCHANGED <<node, raw, touchVars, unreached>>

\* _drivers.erase.
Erase(t, d, p) ==
    /\ driver' = [driver EXCEPT ![d].pads = @ \ {p}]
    /\ work' = [work EXCEPT ![t] = (IF p \in driver[d].pads THEN Destruction(d, p) ELSE <<>>) \o Tail(@)]
    /\ UNCHANGED <<node, effects>>

\* Driver::addEvent for the connection and disconnection of a device.
AddEvent(t, d, p) ==
    /\ driver' = [driver EXCEPT ![d].listens = @ \cup {p}]
    /\ Done(t)
    /\ UNCHANGED <<node, effects>>

\* node.driver = std::make_unique<...> (...).
Adopt(t, d, p) ==
    LET path == driver[d].path
        old == node[path]
    IN  /\ node' = [node EXCEPT ![path] = d]
        /\ driver' = [Marked({old}) EXCEPT ![d].state = "live",
                                           ![d].pads = IF path \in Mice THEN {p} ELSE @]
        /\ work' = [work EXCEPT ![t] = DestroyDriver(old) \o Tail(@)]
        /\ twice' = IF old = 0 THEN twice ELSE twice \cup driver[old].pads
        /\ UNCHANGED <<raw, touchVars, unreached>>

\* ~Driver of the driver of a node, then the end of ~node.
Gone(t, d) ==
    /\ driver' = [driver EXCEPT ![d].state = "gone", ![d].listens = {}]
    /\ node' = [path \in Paths |-> IF node[path] = d THEN 0 ELSE node[path]]
    /\ Done(t)
    /\ UNCHANGED effects

Perform(t, s) ==
    \/ s.op = "probe" /\ Probe(t, s.driver, s.pad)
    \/ s.op = "listen" /\ Listen(t, s.driver, s.pad)
    \/ s.op = "enable" /\ Enable(t, s.driver, s.pad)
    \/ s.op = "disable" /\ Disable(t, s.driver, s.pad)
    \/ s.op = "unlisten" /\ Unlisten(t, s.driver, s.pad)
    \/ s.op = "emplace" /\ Emplace(t, s.driver, s.pad)
    \/ s.op = "erase" /\ Erase(t, s.driver, s.pad)
    \/ s.op = "addEvent" /\ AddEvent(t, s.driver, s.pad)
    \/ s.op = "adopt" /\ Adopt(t, s.driver, s.pad)
    \/ s.op = "gone" /\ Gone(t, s.driver)

Work(t) ==
    /\ Running /\ Busy(t)
    /\ Usable(t, Head(work[t]).driver)
    /\ Perform(t, Head(work[t]))
    /\ UNCHANGED <<queueVars, program, scan, found, stopping, udev, surroundings>>

\* The driver is gone while the thread works on it, or before its task runs.
Undefined(t) ==
    /\ Running /\ Busy(t)
    /\ ~Usable(t, Head(work[t]).driver)
    /\ program' \in {program, "crashed"}
    /\ Done(t)
    /\ cause' = cause \cup {"destroyed driver"}
    /\ UNCHANGED <<queueVars, scan, found, stopping, driverVars, worldVars, touchVars,
                   unreached, twice, missed, disturbed>>

\* Both threads change the map of a receiver: a data race.
Race ==
    /\ Running
    /\ \A t \in Threads : Busy(t) /\ Head(work[t]).op \in {"emplace", "erase"}
    /\ Head(work["main"]).driver = Head(work["monitor"]).driver
    /\ program' = "crashed"
    /\ cause' = cause \cup {"map"}
    /\ UNCHANGED <<queueVars, scan, found, stopping, work, driverVars, worldVars, touchVars,
                   unreached, twice, missed, disturbed>>

-----------------------------------------------------------------------------
(* The main thread: while (auto task = task_queue.pop ()) task ();         *)
MainIdle == program = "running" /\ ~Busy("main")

\* ReceiverDriver::event: emplace for a connection, erase otherwise.
Task(e) ==
    IF e.linked THEN AddWireless(e.driver, e.pad) ELSE <<Step("erase", e.driver, e.pad)>>

RunTask ==
    /\ MainIdle
    /\ PopEvent
    /\ work' = [work EXCEPT !["main"] = Task(Head(queue))]
    /\ UNCHANGED <<program, scan, found, stopping, driverVars, worldVars, touchVars, history>>

WaitForTask ==
    /\ MainIdle
    /\ PopTest \/ PopWait
    /\ UNCHANGED <<threadVars, driverVars, worldVars, touchVars, history>>

\* The loop ends: monitor.stop ().
LeaveLoop ==
    /\ MainIdle
    /\ PopNothing
    /\ program' = "stopping"
    /\ stopping' = TRUE
    /\ UNCHANGED <<scan, found, work, driverVars, worldVars, touchVars, history>>

\* SIGINT.
SigInt ==
    /\ program = "running"
    /\ left.signals > 0
    /\ left' = [left EXCEPT !.signals = @ - 1]
    /\ Interrupt
    /\ UNCHANGED <<threadVars, driverVars, udev, plugged, linked, raw, touchVars, history>>

NotifyAll ==
    /\ Notify
    /\ missed' = (missed \/ popping = "tested")
    /\ UNCHANGED <<threadVars, driverVars, worldVars, touchVars, unreached, twice, disturbed, cause>>

WakeUp ==
    /\ SpuriousWakeUp
    /\ left.wakeups > 0
    /\ left' = [left EXCEPT !.wakeups = @ - 1]
    /\ UNCHANGED <<threadVars, driverVars, udev, plugged, linked, raw, touchVars, history>>

-----------------------------------------------------------------------------
(* What happens outside.                                                   *)
Plug(path) ==
    /\ left.plugs > 0
    /\ left' = [left EXCEPT !.plugs = @ - 1]
    /\ IF path \in plugged
       THEN /\ plugged' = plugged \ {path}
            /\ driver' = [d \in DOMAIN driver |->
                            [driver[d] EXCEPT !.open = @ /\ driver[d].path # path]]
            /\ raw' = IF path \in Mice THEN raw \ PadsOf(path) ELSE raw
       ELSE plugged' = plugged \cup {path} /\ UNCHANGED <<driver, raw>>
    /\ udev' = Append(udev, [add |-> path \notin plugged, path |-> path])
    /\ disturbed' = (disturbed \/ path \in plugged \/ scan = "start")
    /\ UNCHANGED <<queueVars, threadVars, node, linked, touchVars, unreached, twice, missed, cause>>

\* A wireless touchpad comes, goes, or says again that it is there; a
\* touchpad that was switched off is no longer in raw mode.  The dispatcher
\* thread of the receiver runs the handlers, which queue tasks.
Notified(p, isLinked) ==
    LET ds == SetToSeq({d \in DOMAIN driver : driver[d].open /\ p \in driver[d].listens})
    IN  [i \in DOMAIN ds |-> [driver |-> ds[i], pad |-> p, linked |-> isLinked]]

Link(p) ==
    /\ PathOf[p] \in Receivers
    /\ left.links > 0
    /\ left' = [left EXCEPT !.links = @ - 1]
    /\ \/ linked' = linked \ {p} /\ raw' \in {raw, raw \ {p}}
       \/ linked' = linked \cup {p} /\ UNCHANGED raw
    /\ IF Notified(p, p \in linked') # <<>>
       THEN Push(Notified(p, p \in linked'))
       ELSE UNCHANGED queueVars
    /\ disturbed' = (disturbed \/ p \notin linked' \/ \E d \in DOMAIN driver : driver[d].state = "building")
    /\ UNCHANGED <<threadVars, driverVars, udev, plugged, touchVars, unreached, twice, missed, cause>>

\* MTState::event: tracking ids and tool buttons.
Slots(c) == {c[1], c[2]} \ {0}
Track(s, i) ==
    IF i = 0 \/ s.id[i] # -1 THEN s
    ELSE [s EXCEPT !.id[i] = s.next, !.next = (@ + 1) % IdRange,
                   !.since = [j \in {1, 2} |-> IF j = i THEN 1 ELSE @[j] + 1]]
Tracked(s, c) ==
    LET t == Track(Track(s, c[1]), c[2])
    IN  [t EXCEPT !.id = [i \in {1, 2} |-> IF i \in Slots(c) THEN t.id[i] ELSE -1],
                  !.count = Cardinality(Slots(c))]
Tool(count) == CASE count = 1 -> {"finger"} [] count = 2 -> {"double"} [] OTHER -> {}
\* Faulty variant: a tool button is not released.
ToolsStay(s, c) ==
    LET t == Tracked(s, c)
    IN  [t EXCEPT !.buttons = @ \cup Tool(t.count)]
MultiTouch(s, c) ==
    LET t == Tracked(s, c)
    IN  [t EXCEPT !.buttons = IF t.count = s.count THEN @ ELSE (@ \cup Tool(t.count)) \ Tool(s.count)]
\* STState::event: the first point.
SingleTouch(s, c) ==
    [s EXCEPT !.touching = c[1] # 0,
              !.buttons = IF c[1] # 0 /\ ~s.touching THEN @ \cup {"touch"}
                          ELSE IF c[1] = 0 /\ s.touching THEN @ \ {"touch"}
                          ELSE @]

\* TouchpadDriver::event, on the dispatcher thread of the node.  Of an object
\* that is down to ~Driver, event is a pure virtual function.
Touch(p, c) ==
    LET hearers == {d \in DOMAIN driver : driver[d].open /\ driver[d].heard[p] > 0}
    IN  /\ p \in raw /\ Reached(p) /\ hearers # {}
        /\ left.touches > 0
        /\ left' = [left EXCEPT !.touches = @ - 1]
        /\ IF \E d \in hearers : driver[d].dying[p] > 0
           THEN program' = "crashed" /\ cause' = cause \cup {"pure virtual"} /\ UNCHANGED touchVars
           ELSE /\ contacts' = [contacts EXCEPT ![p] = c]
                /\ touch' = [touch EXCEPT ![p] = MultiTouch(SingleTouch(@, c), c)]
                /\ UNCHANGED <<program, cause>>
    /\ UNCHANGED <<queueVars, scan, found, stopping, work, driverVars, udev, plugged, linked, raw,
                   unreached, twice, missed, disturbed>>

Fingers == {<<0, 0>>, <<1, 0>>, <<2, 0>>, <<0, 1>>, <<0, 2>>, <<1, 2>>, <<2, 1>>}

World ==
    /\ Running
    /\ \/ \E path \in Paths : Plug(path)
       \/ \E p \in Pads : Link(p)
       \/ \E p \in Pads, c \in Fingers : Touch(p, c)

Main == RunTask \/ WaitForTask \/ LeaveLoop \/ Work("main") \/ Undefined("main") \/ MainEnds
Monitor == Enumerate \/ UdevEvent \/ MonitorStops \/ Work("monitor") \/ Undefined("monitor")
Next == Main \/ Monitor \/ SigInt \/ NotifyAll \/ WakeUp \/ Race \/ World

Spec == Init /\ [][Next]_vars
FairSpec == Spec /\ WF_vars(Main) /\ WF_vars(Monitor) /\ WF_vars(NotifyAll)
-----------------------------------------------------------------------------
(* A touchpad in raw mode that can be reached has a driver that hears it:  *)
(* ~TouchpadDriver and the constructor order the command and the handler   *)
(* so (239-242, 59), also when a driver is replaced or built twice, unless *)
(* the touchpad could not be told.  So nothing is left in raw mode by a    *)
(* program that ended.                                                     *)
RawIsHeard ==
    \/ cause # {}
    \/ \A p \in raw : \/ ~Reached(p)
                      \/ p \in unreached
                      \/ \E d \in DOMAIN driver : driver[d].heard[p] > driver[d].dying[p]

(* When nothing is left to do, every touchpad that is there is in raw      *)
(* mode, whatever came and went and in which order the threads saw it: an  *)
(* event of a receiver is heard before its device is tried (275-277).      *)
(* Only a touchpad that got a second driver is not: emplace and            *)
(* make_unique build the new one before an old one is destroyed, and the   *)
(* destructor of either switches raw mode off.                             *)
Settled ==
    /\ program = "running" /\ scan = "listen" /\ udev = <<>> /\ queue = <<>>
    /\ \A t \in Threads : ~Busy(t)
SettledPadsWork ==
    Settled /\ cause = {} =>
        \A p \in Pads : Reached(p) => p \in raw \/ p \in twice

(* After each report the uinput device shows the fingers of that report:   *)
(* contacts, the touch button of the first point and one tool button, and  *)
(* two contacts have two tracking ids, as long as neither of them stays    *)
(* while 2^16 others come: then next_id comes round to its id.             *)
TouchesShown ==
    \A p \in Pads :
        LET fingers == Slots(contacts[p])
            t == touch[p]
        IN  /\ \A i \in {1, 2} : t.id[i] # -1 <=> i \in fingers
            /\ t.buttons = (IF contacts[p][1] # 0 THEN {"touch"} ELSE {}) \cup Tool(Cardinality(fingers))
            /\ fingers = {1, 2} /\ (\A i \in {1, 2} : t.since[i] <= IdRange) => t.id[1] # t.id[2]

(* Undefined behaviour (tasks of destroyed drivers, a map shared by two    *)
(* threads, events for an object down to ~Driver) takes a node unplugged,  *)
(* or plugged in before the enumeration, a touchpad out of reach, or an    *)
(* announcement during ReceiverDriver::ReceiverDriver.  In particular the  *)
(* end of the program is safe at any time.                                 *)
QuietRunIsDefined == cause # {} => disturbed

(* An interrupted program ends: the interruption was notified before the   *)
(* main thread tested for it, or while it was waiting, but not in between. *)
InterruptEnds == interrupted ~> (program \in {"ended", "crashed"} \/ missed)

(* EventQueue.h:91-95: interrupt () makes "the current and future calls to *)
(* pop() return immediately".                                              *)
InterruptEndsPop == interrupted ~> popping = "left"
=============================================================================
