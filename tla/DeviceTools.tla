---------------------------- MODULE DeviceTools ----------------------------
(***************************************************************************)
(* The command line tools of src/src/tools at work on one device.  Every   *)
(* run of a tool has the device's hidraw node open, and reads a copy of    *)
(* every report the device sends: also the answers to the other runs,      *)
(* which it cannot tell from its own, since all of them use the same       *)
(* software ID (HIDPP20::Device::softwareID, or none in HID++1.0).         *)
(*                                                                         *)
(* Runs may be killed, the device may be unplugged, and SIGINT comes to    *)
(* hidpp20-mouse-event-test, whose handlers take over the mouse and put it *)
(* back in their destructors.                                              *)
(***************************************************************************)
EXTENDS ToolCalls, ReportDescriptor

CONSTANTS
    Runs,       \* runs of tools
    Described,  \* by names: HID++ reports of a device and a descriptor of them
    Situations  \* a sequence: the mouse, the job of each run, bounds

Idle == [tool |-> "none"]

VARIABLES
    mouse,      \* the device, and in `settings' what the tools change
    plugged,
    pressed,    \* its button is down
    requests,   \* what it has not processed yet
    inbox,      \* what each run has not read yet
    run,        \* the runs
    left,       \* what may still happen (bounds)
    first,      \* the settings at the beginning (history)
    misled,     \* runs that took an answer unlike their own (history)
    fresh,      \* runs with settings that are as they read them (history)
    stale       \* one was written that was not (history)

vars == <<mouse, plugged, pressed, requests, inbox, run, left, first, misled, fresh, stale>>
world == <<mouse, plugged, pressed, requests>>
history == <<left, first, misled, fresh, stale>>

-----------------------------------------------------------------------------
(* The device. *)

Reports == Described[mouse.described].reports
Has(m, feature) == feature \in ToSet(m.features)
HasID(m, id) == \E feature \in ToSet(m.features) : ID[feature] = id
RegisterOf(q) == <<q.name[2], q.name[3]>>
IsRegister(q) == q.name[1] \in {"get", "set"} /\ q.name # Get(DevicePairingInfo)

Refuses(m, q) ==
    CASE q.name = Ping -> q.arg[1] \notin ({0, m.index} \cup IF m.index = 0 THEN {CordedDevice} ELSE {})
      [] q.name = Get(DevicePairingInfo) -> q.arg[2] # m.index
      [] q.name = GetFeature -> FALSE
      [] IsRegister(q) -> RegisterOf(q) \notin IF q.name[1] = "get" THEN m.readable ELSE m.writable
      [] q.name = Function("AdjustableDPI", "SetSensorDPI") -> q.arg[2] \notin m.dpis
      [] q.name[2] = "MemoryRead" -> q.arg[1] \notin DOMAIN m.settings.pages
      [] q.name[2] = "MemoryAddrWrite" ->
           q.arg[1] \notin DOMAIN m.settings.pages \/ q.arg[2] + q.arg[3] > Lines + 1
      [] q.name[2] = "MemoryWrite" -> m.writing[3] = 0
      [] OTHER -> q.name \in m.refused

\* What a register holds after it is written: unknown flags are not stored,
\* and a resolution of 0 is left as it was.
Written(m, register, value) ==
    CASE register = EnableIndividualFeatures -> [i \in 1 .. 3 |-> IF m.flags[i] = 0 THEN 0 ELSE value[i]]
      [] register = <<"long", 99>> ->
           [i \in 1 .. 3 |-> IF value[i] = 0 THEN m.settings[register][i] ELSE value[i]]
      [] OTHER -> value

Processed(m, q) ==
    LET s == m.settings
        to(setting, value) == [m EXCEPT !.settings[setting] = value]
    IN  CASE q.name[1] = "set" -> to(RegisterOf(q), Written(m, RegisterOf(q), q.arg))
          [] q.name = Function("MouseButtonSpy", "StartMouseButtonSpy") -> to("spy", TRUE)
          [] q.name = Function("MouseButtonSpy", "StopMouseButtonSpy") -> to("spy", FALSE)
          [] q.name = Function("OnboardProfiles", "SetMode") -> to("mode", q.arg[1])
          [] q.name = Function("AdjustableDPI", "SetSensorDPI") -> to("dpi", q.arg[2])
          [] q.name = Function("LEDControl", "SetSWControl") -> to("sw", q.arg[1])
          [] q.name = Function("ReprogControlsV4", "SetControlReporting") ->
               to("control", [on |-> [i \in DOMAIN s.control.on |->
                                  IF q.arg[1 + 2 * i] = 1 THEN q.arg[2 + 2 * i] ELSE s.control.on[i]],
                              remap |-> IF q.arg[2] = 0 THEN s.control.remap ELSE q.arg[2]])
          [] q.name[2] = "MemoryAddrWrite" -> [m EXCEPT !.writing = q.arg]
          [] q.name[2] = "MemoryWrite" ->
               [m EXCEPT !.settings.pages[m.writing[1]][m.writing[2]] = q.arg[1],
                         !.writing = <<@[1], @[2] + 1, @[3] - 1>>]
          [] OTHER -> m

\* The answer, of what the tools look at.
Value(m, q) ==
    CASE q.name = Ping -> <<IF q.arg[1] = 0 /\ m.index # 0 THEN 1 ELSE m.version>>
      [] q.name = Get(DevicePairingInfo) -> q.arg
      [] q.name = GetFeature -> <<Bit(HasID(m, q.arg[1]))>>
      [] q.name = Function("FeatureSet", "GetCount") -> <<Len(m.features)>>
      [] q.name = Function("FeatureSet", "GetFeatureID") -> <<ID[m.features[q.arg[1]]]>>
      [] q.name = Function("OnboardProfiles", "GetMode") -> <<m.settings.mode>>
      [] IsRegister(q) -> m.settings[RegisterOf(q)]
      [] q.name[2] = "GetDescription" -> <<Len(m.settings.pages)>>
      [] q.name[2] = "MemoryRead" -> <<m.settings.pages[q.arg[1]][q.arg[2]]>>
      [] OTHER -> <<>>

\* The pages are written where the last MemoryAddrWrite of a run says.
Memory == <<"memory">>
WritesMemory(q) == q.name[2] \in {"MemoryAddrWrite", "MemoryWrite"}
SettingOf(q) ==
    IF q.name[1] \in {"get", "set"} THEN RegisterOf(q)
    ELSE IF WritesMemory(q) THEN Memory ELSE <<q.name[1]>>

Unlike(a, b) == a.ok # b.ok \/ (a.ok /\ a.value # b.value)

-----------------------------------------------------------------------------
(* Runs. *)

Open(R) == R.state \in {"ready", "waiting"}
Ended(R) == R.state \in {"done", "failed", "died", "killed"}
NewRun(job) ==
    [state |-> "new", job |-> job, reports |-> {}, script |-> <<>>, n |-> 0, saved |-> <<>>,
     listed |-> {}, dump |-> <<>>, handlers |-> {}, shown |-> FALSE, phantom |-> FALSE, unheard |-> FALSE,
     sigint |-> FALSE, pipe |-> 0, interrupted |-> FALSE, pops |-> FALSE, stopped |-> FALSE,
     early |-> FALSE, missed |-> FALSE, disturbed |-> FALSE, thrown |-> FALSE]

IsTest(R) == R.job.tool = "hidpp20-mouse-event-test"
IsThreaded(R) == IsTest(R) /\ R.job.thread
Now(R) == R.script[1]
\* The device index that the call is for.
Index(R) ==
    CASE Now(R).name = Ping -> Now(R).arg[1]
      [] Now(R).name = Get(DevicePairingInfo) -> 0
      [] OTHER -> R.job.index
At(R, what) == R.state = "ready" /\ R.script # <<>> /\ Now(R).name = <<"local", what>>

Finish(R, state) == [R EXCEPT !.state = state, !.script = <<>>]
Go(R, script) == IF script = <<>> THEN Finish(R, "done") ELSE [R EXCEPT !.state = "ready", !.script = script]
\* An exception out of HIDPP::Device::Device: the tools that catch it fail; a
\* ThreadListener is deleted with its thread running.
InitFails(R) ==
    Finish([R EXCEPT !.disturbed = TRUE, !.thrown = TRUE],
           IF R.job.tool = "hidpp-check-device" \/ (IsTest(R) /\ ~R.job.thread)
              THEN "failed" ELSE "died")
\* An exception that is not an error of the device, or is one.
Throws(R) ==
    IF Now(R).caught = "init" THEN InitFails(R)
    ELSE Finish([R EXCEPT !.disturbed = TRUE, !.thrown = TRUE], "died")
\* A std::system_error: hidpp-list-devices goes on with the next path.
Fails(R) ==
    IF R.job.tool = "hidpp-list-devices" THEN Finish([R EXCEPT !.disturbed = TRUE], "failed")
    ELSE Throws(R)
Dropped(R) == SubSeq(R.script, 2 + Now(R).drop, Len(R.script))
\* hidpp-list-devices goes on with wireless devices for a receiver only.
CordedOnly(R) == SubSeq(R.script, 2, 2)
GotError(R) ==
    LET c == Now(R)
        D == [R EXCEPT !.disturbed = TRUE]
    IN  CASE c.caught = "init" -> InitFails(R)
          [] c.caught = "no" -> Finish(D, "died")
          [] c.caught = "fail" -> Finish(D, "failed")
          [] c.caught = "next" /\ c.use = "receiver" -> Go(R, CordedOnly(R))
          [] c.caught = "next" /\ c.use # "receiver" ->
               Go(IF c.use = "save" THEN [R EXCEPT !.saved = Zeros] ELSE R,
                  Dropped(R))

Proceed(R, version) ==
    IF version \notin Versions(R.job) THEN InitFails(R)
    ELSE IF R.job.tool = "hidpp-mouse-resolution" /\ version = 1 /\ mouse.resolution = "none"
    THEN Finish(R, "failed")
    ELSE Go(R, Calls(R.job, version, mouse))
\* The program goes on with an answer.
GotAnswer(R, value) ==
    LET c == Now(R)
        rest == Tail(R.script)
    IN  CASE c.use = "version" -> Proceed(R, value[1])
          [] c.use = "protocol" -> IF value # <<1>> THEN Throws(R) ELSE Go(R, rest)
          [] c.use = "receiver" ->
               Go([R EXCEPT !.listed = @ \cup {0}], IF value[1] = 1 THEN rest ELSE CordedOnly(R))
          [] c.use = "pairing" -> IF value # c.arg THEN Throws(R) ELSE Go(R, rest)
          [] c.use = "list" -> Go([R EXCEPT !.listed = @ \cup {IF c.name = Ping THEN c.arg[1] ELSE value[1]}], rest)
          [] c.use = "description" ->
               IF R.job.tool = "hidpp20-write-page" /\ R.job.page > value[1] THEN Finish(R, "failed")
               ELSE Go(R, rest)
          [] c.use = "dump" -> Go([R EXCEPT !.dump = @ \o value], rest)
          [] c.use = "count" -> Go(R, FeatureIDs(value[1]))
          [] c.use = "save" -> Go([R EXCEPT !.saved = value], rest)
          [] c.use = "type" -> IF value[1] \in {0, 255} THEN Go(R, rest) ELSE Throws(R)
          [] c.name = GetFeature ->
               IF value[1] # 0 THEN Go(R, rest)
               ELSE IF c.lacks > 0 THEN Go(R, SubSeq(rest, 1 + c.lacks, Len(rest)))
               ELSE Finish([R EXCEPT !.disturbed = TRUE], "died")
          [] OTHER -> Go(R, rest)

\* What a handler makes of the reports that are not for a command: it does
\* not see whether function 0 of its feature is an event or an answer.
Hear(R, a) ==
    IF "MouseButtonSpy" \notin R.handlers THEN [R EXCEPT !.unheard = @ \/ a.name = MouseButtonEvent]
    ELSE IF ~a.ok \/ a.index # R.job.index THEN R
    ELSE CASE a.name = MouseButtonEvent -> [R EXCEPT !.shown = a.value = <<1>>]
           [] a.name = Function("MouseButtonSpy", "GetMouseButtonCount") ->
                [R EXCEPT !.shown = FALSE, !.phantom = TRUE]
           [] OTHER -> R
\* Faulty variant: those read before an answer are lost.
HeardNone(R, reports) == R
Heard(R, reports) == FoldLeft(Hear, R, reports)

\* The map of handlers is cleared, in any order.
Closing(R) ==
    {[R EXCEPT !.handlers = {}, !.script = [i \in DOMAIN order |-> Destroyed(order[i])]] :
         order \in SetToSeqs(R.handlers)}

-----------------------------------------------------------------------------
Init ==
    \E i \in DOMAIN Situations :
        LET s == Situations[i]
        IN  /\ mouse = s.mouse
            /\ plugged = TRUE
            /\ pressed = FALSE
            /\ requests = <<>>
            /\ inbox = [r \in Runs |-> <<>>]
            /\ run = [r \in Runs |-> NewRun(s.jobs[r])]
            /\ left = s.left
            /\ first = s.mouse.settings
            /\ misled = {}
            /\ fresh = {}
            /\ stale = FALSE

Broadcast(a) == [r \in Runs |-> IF Open(run[r]) THEN Append(inbox[r], a) ELSE inbox[r]]
Becomes(r, R) == run' = [run EXCEPT ![r] = R]
Reads(r, reports) == inbox' = [inbox EXCEPT ![r] = IF Ended(run'[r]) THEN <<>> ELSE reports]
Matching(r) ==
    {i \in DOMAIN inbox[r] :
        inbox[r][i].index = Index(run[r]) /\ inbox[r][i].name = Now(run[r]).name}

Detected == [d \in DOMAIN Described |-> CheckReportDescriptor(Described[d].descriptor)]
\* The constructors of the dispatchers; hidpp-list-devices is silent about
\* devices without HID++ reports.
Start(r) ==
    LET R == [run[r] EXCEPT !.reports = Detected[mouse.described]]
        lists == R.job.tool = "hidpp-list-devices"
    IN  /\ R.state = "new" /\ R.job # Idle
        /\ Becomes(r, IF ~plugged \/ (R.reports = {} /\ ~lists) THEN Finish(R, "failed")
                      ELSE IF R.reports = {} THEN Finish(R, "done")
                      ELSE Go(R, IF lists THEN ListDevices ELSE DeviceCalls(R.job.index)))
        /\ UNCHANGED <<world, inbox, history>>

\* sendCommand.  HIDPP20::Device::callFunction looks for a report that has room
\* for the parameters; writing a long register of a device without long reports
\* is EPIPE, which only testRegister expects.
Send(r) ==
    LET R == run[r]
        c == Now(R)
        arg == IF c.use = "back" THEN R.saved ELSE c.arg
        unwritable == c.name[1] = "set" /\ c.name[2] = "long" /\ "Long" \notin Reports
        tooLong == c.name[1] \notin {"get", "set"} /\ ~FindReport(R.reports, Parameters(c.name))
        failing == ~tooLong /\ (~plugged \/ R.stopped)
    IN  /\ R.state = "ready" /\ c.name[1] # "local"
        /\ IF tooLong \/ failing \/ unwritable
           THEN /\ Becomes(r, IF failing THEN Fails(R)
                              ELSE IF unwritable /\ c.caught = "next" THEN GotError(R) ELSE Throws(R))
                /\ Reads(r, inbox[r])
                /\ UNCHANGED requests
           ELSE /\ Becomes(r, [R EXCEPT !.state = "waiting", !.n = @ + 1])
                /\ requests' = Append(requests, [name |-> c.name, index |-> Index(R), arg |-> arg, by |-> r,
                                                n |-> R.n + 1, use |-> c.use, taken |-> <<>>])
                /\ UNCHANGED inbox
        /\ UNCHANGED <<mouse, plugged, pressed, history>>

\* The device processes a request and answers it.
Process ==
    /\ requests # <<>>
    /\ LET q == Head(requests)
           ok == ~Refuses(mouse, q)
           a == [name |-> q.name, index |-> q.index, ok |-> ok, value |-> IF ok THEN Value(mouse, q) ELSE <<>>,
                 by |-> q.by, n |-> q.n]
       IN  /\ mouse' = IF ok THEN Processed(mouse, q) ELSE mouse
           /\ inbox' = Broadcast(a)
           /\ misled' = IF q.taken # <<>> /\ Unlike(q.taken[1], a) THEN misled \cup {q.by} ELSE misled
           /\ fresh' = CASE q.name[2] = "MemoryAddrWrite" ->
                              {f \in fresh : f[2] # Memory} \cup IF ok THEN {<<q.by, Memory>>} ELSE {}
                         [] q.use = "save" -> fresh \cup {<<q.by, SettingOf(q)>>}
                         [] mouse' # mouse -> {f \in fresh : f[1] = q.by \/ f[2] # SettingOf(q)}
                         [] OTHER -> fresh
           /\ stale' = (stale \/ ((q.use \in {"change", "back"} \/ q.name[2] = "MemoryWrite") /\ mouse' # mouse /\ <<q.by, SettingOf(q)>> \notin fresh))
    /\ requests' = Tail(requests)
    /\ UNCHANGED <<plugged, pressed, run, left, first>>

\* CommandResponse::get: the first report that could be the answer.
Receive(r) ==
    /\ run[r].state = "waiting"
    /\ \E i \in {j \in Matching(r) : \A k \in Matching(r) : j <= k} :
       \E H \in {Heard(run[r], SubSeq(inbox[r], 1, i - 1))} :
        LET a == inbox[r][i]
            own(q) == q.by = r /\ q.n = run[r].n
        IN  /\ Becomes(r, IF a.ok THEN GotAnswer(H, a.value) ELSE GotError(H))
            /\ Reads(r, SubSeq(inbox[r], i + 1, Len(inbox[r])))
            /\ misled' = IF \E j \in Matching(r) : own(inbox[r][j]) /\ Unlike(a, inbox[r][j])
                         THEN misled \cup {r} ELSE misled
            /\ requests' = [k \in DOMAIN requests |->
                              IF own(requests[k]) THEN [requests[k] EXCEPT !.taken = <<a>>]
                              ELSE requests[k]]
    /\ UNCHANGED <<mouse, plugged, pressed, left, first, fresh, stale>>

\* get (timeout) of HIDPP::Device::Device gives up.
PingTimesOut(r) ==
    /\ run[r].state = "waiting" /\ Now(run[r]).name = Ping
    /\ Matching(r) = {}
    /\ left.timeouts > 0
    /\ left' = [left EXCEPT !.timeouts = @ - 1]
    /\ Becomes(r, GotError([run[r] EXCEPT !.disturbed = TRUE]))
    /\ Reads(r, inbox[r])
    /\ UNCHANGED <<world, first, misled, fresh, stale>>

\* Faulty variant: it is tried again.
ReadsAgain(r) == run[r].state = "waiting" /\ ~plugged /\ UNCHANGED vars
\* The read fails, the device being gone.
ReadFails(r) ==
    /\ run[r].state = "waiting"
    /\ Matching(r) = {} /\ ~plugged
    /\ Becomes(r, Fails(run[r]))
    /\ Reads(r, inbox[r])
    /\ UNCHANGED <<world, history>>

\* A byte that SimpleListener::stop wrote ends the read of a command.
CommandInterrupted(r) ==
    /\ run[r].state = "waiting"
    /\ Matching(r) = {} /\ plugged
    /\ run[r].pipe > 0
    /\ Becomes(r, Finish(run[r], "died"))
    /\ Reads(r, inbox[r])
    /\ UNCHANGED <<world, history>>

-----------------------------------------------------------------------------
(* hidpp20-mouse-event-test. *)

TakeOver(r) ==
    LET R == run[r]
    IN  /\ \/ /\ At(R, "sigaction")
              /\ Becomes(r, Go([R EXCEPT !.sigint = TRUE], Tail(R.script)))
           \/ \E h \in {"MouseButtonSpy", "OnboardProfiles"} :
                 /\ At(R, "addEventHandler " \o h)
                 /\ Becomes(r, Go([R EXCEPT !.handlers = @ \cup {h}], Tail(R.script)))
        /\ UNCHANGED <<world, inbox, history>>

\* Events, read by listen () or by the dispatcher's thread.
ListenEvents(r) ==
    /\ At(run[r], "start")
    /\ inbox[r] # <<>>
    /\ Becomes(r, Heard(run[r], inbox[r]))
    /\ Reads(r, <<>>)
    /\ UNCHANGED <<world, history>>

\* Faulty variant: the byte stays in the pipe.
WokenAgain(R) == R
\* The read takes the byte that SimpleListener::stop wrote.
Woken(R) == [R EXCEPT !.pipe = @ - 1]
\* SimpleListener::start, then removeEventHandlers.
LeaveListen(r) ==
    LET R == run[r]
    IN  /\ At(R, "start") /\ ~IsThreaded(R)
        /\ inbox[r] = <<>>
        /\ \/ ~plugged /\ Becomes(r, Throws(R))
           \/ plugged /\ R.pipe > 0 /\ \E C \in Closing(Woken(R)) : Becomes(r, Go(C, C.script))
        /\ Reads(r, inbox[r])
        /\ UNCHANGED <<world, history>>

\* ThreadListener::start: the queue has no events, only an interruption; the
\* dispatcher is stopped before removeEventHandlers.
Pop(r) ==
    LET R == run[r]
    IN  /\ At(R, "start") /\ IsThreaded(R) /\ ~R.pops
        /\ \/ ~R.interrupted /\ Becomes(r, [R EXCEPT !.pops = TRUE])
           \/ /\ R.interrupted
              /\ \E C \in Closing([R EXCEPT !.stopped = TRUE]) : Becomes(r, Go(C, C.script))
        /\ Reads(r, inbox[r])
        /\ UNCHANGED <<world, history>>

\* The handler of SIGINT: ThreadListener::stop, whose notification may come
\* when pop () is about to wait, or SimpleListener::stop.
SigInt(r) ==
    LET R == run[r]
        early == ~At(R, "start") \/ R.pipe > 0
        S == [R EXCEPT !.early = @ \/ early]
    IN  /\ Open(R) /\ R.sigint
        /\ left.signals > 0 /\ (early => left.early > 0)
        /\ left' = [left EXCEPT !.signals = @ - 1, !.early = @ - IF early THEN 1 ELSE 0]
        /\ IF IsThreaded(R)
           THEN \/ Becomes(r, [S EXCEPT !.interrupted = TRUE, !.pops = FALSE])
                \/ At(R, "start") /\ ~R.pops
                   /\ Becomes(r, [S EXCEPT !.interrupted = TRUE, !.pops = TRUE, !.missed = TRUE])
           ELSE Becomes(r, [S EXCEPT !.pipe = @ + 1])
        /\ UNCHANGED <<world, inbox, first, misled, fresh, stale>>

-----------------------------------------------------------------------------
(* What happens to the runs and the device. *)

Kill(r) ==
    /\ Open(run[r]) /\ left.kills > 0
    /\ left' = [left EXCEPT !.kills = @ - 1]
    /\ Becomes(r, Finish(run[r], "killed"))
    /\ Reads(r, <<>>)
    /\ UNCHANGED <<world, first, misled, fresh, stale>>

Unplug ==
    /\ plugged /\ left.unplugs > 0
    /\ left' = [left EXCEPT !.unplugs = @ - 1]
    /\ plugged' = FALSE
    /\ requests' = <<>>
    /\ UNCHANGED <<mouse, pressed, inbox, run, first, misled, fresh, stale>>

Press ==
    /\ plugged /\ left.presses > 0
    /\ left' = [left EXCEPT !.presses = @ - 1]
    /\ pressed' = ~pressed
    /\ inbox' = IF Has(mouse, "MouseButtonSpy") /\ mouse.settings.spy
                THEN Broadcast([name |-> MouseButtonEvent, index |-> mouse.index, ok |-> TRUE,
                                value |-> <<Bit(pressed')>>, by |-> "mouse", n |-> 0])
                ELSE inbox
    /\ run' = [r \in Runs |-> [run[r] EXCEPT !.unheard = inbox'[r] = inbox[r]]]
    /\ UNCHANGED <<mouse, plugged, requests, first, misled, fresh, stale>>

Program(r) ==
    \/ Send(r) \/ Receive(r) \/ ReadFails(r) \/ CommandInterrupted(r)
    \/ TakeOver(r) \/ ListenEvents(r) \/ LeaveListen(r) \/ Pop(r)
Next ==
    \/ \E r \in Runs : Start(r) \/ Program(r) \/ PingTimesOut(r) \/ SigInt(r) \/ Kill(r)
    \/ Process \/ Unplug \/ Press
Spec == Init /\ [][Next]_vars
Works == Process \/ \E r \in Runs : Program(r)
FairSpec == Spec /\ WF_vars(Works)
-----------------------------------------------------------------------------
\* The settings after a run that did what its job says, from s: options of
\* hidpp20-reprog-controls that are not given, registers and settings that
\* are not named stay, and tests leave nothing behind, but for zeros in
\* registers that cannot be read and a spy that is off.
Distance(sensor, value, dpi) ==
    LET d == ToDPI(sensor, value) - dpi IN IF d < 0 THEN 0 - d ELSE d
NearestDPI(sensor, dpi) ==
    LET values == IF sensor.kind = "list" THEN 128 .. 127 + Len(sensor.list)
                  ELSE 1 .. RoundToNearest(sensor, sensor.max)
        valid == {v \in values : ToDPI(sensor, v) >= sensor.min}
    IN  CHOOSE v \in valid : \A w \in valid : Distance(sensor, v, dpi) <= Distance(sensor, w, dpi)
Says(job, s) ==
    CASE job.tool = "hidpp20-mouse-event-test" ->
           IF Has(mouse, "MouseButtonSpy") THEN [s EXCEPT !.spy = FALSE] ELSE s
      [] job.tool = "hidpp-list-features" /\ mouse.version = 1 /\ job.write ->
           [register \in DOMAIN s |->
               IF register \in mouse.writable \ mouse.readable THEN Zeros ELSE s[register]]
      [] job.tool = "hidpp-mouse-resolution" /\ job.op = "set" /\ mouse.version = 2 -> [s EXCEPT !.dpi = job.x]
      [] job.tool = "hidpp-mouse-resolution" /\ job.op = "set" /\ mouse.resolution = "short" ->
           [s EXCEPT ![<<"short", 99>>] = <<NearestDPI(mouse.sensor, job.x), 0, 0>>]
      [] job.tool = "hidpp-mouse-resolution" /\ job.op = "set" /\ mouse.resolution = "long" ->
           [s EXCEPT ![<<"long", 99>>] =
               <<NearestDPI(mouse.sensor, job.x), NearestDPI(mouse.sensor, job.y), @[3]>>]
      [] job.tool = "hidpp20-write-page" -> [s EXCEPT !.pages[job.page] = Page(job.data)]
      [] job.tool = "hidpp20-write-data" ->
           [s EXCEPT !.pages[job.page] =
               [i \in DOMAIN @ |-> IF i \in job.line .. job.line + Len(job.data) - 1
                                   THEN job.data[i - job.line + 1] ELSE @[i]]]
      [] job.tool = "hidpp20-led-control" /\ job.op = "set control" -> [s EXCEPT !.sw = job.sw]
      [] job.tool = "hidpp20-reprog-controls" /\ job.op = "set" ->
           [s EXCEPT !.control =
               [on |-> [i \in DOMAIN job.flags |->
                           IF job.flags[i] = "NoChange" THEN @.on[i] ELSE Bit(job.flags[i] = "On")],
                remap |-> IF job.remap = 0 THEN @.remap ELSE job.remap]]
      [] job.tool = "hidpp10-active-profile" /\ job.op = "load" -> [s EXCEPT ![CurrentProfile] = <<0, job.profile, 0>>]
      [] job.tool = "hidpp10-active-profile" /\ job.op = "load-address" ->
           [s EXCEPT ![CurrentProfile] = <<1, job.page, job.offset>>]
      [] job.tool = "hidpp10-active-profile" /\ job.op = "load-default" -> [s EXCEPT ![CurrentProfile] = <<255, 0, 0>>]
      [] job.tool = "hidpp10-raw-command" /\ job.op = "write" -> [s EXCEPT ![job.register] = job.value]
      [] OTHER -> s

(* Once every run has ended the settings are what the tools say, the runs  *)
(* one after the other: those that ended well, perhaps one that was cut    *)
(* off, and the tests without a trace.  Unless a test or a write of a page *)
(* was cut off, a setting that one run had read was written by another     *)
(* before the first wrote it back (ProfileHandler 95-105, testRegister,    *)
(* reload), two wrote pages at the same time (write-page 92-107), or a run *)
(* took an answer that is not like its own.                                *)
TestsThatChange(r) ==
    \/ IsTest(run[r])
    \/ run[r].job.tool \in {"hidpp20-write-page", "hidpp20-write-data"}
    \/ run[r].job.tool = "hidpp-list-features" /\ run[r].job.write
Serial(s, rs) == FoldLeft(LAMBDA t, r : Says(run[r].job, t), s, rs)
OneAfterTheOther ==
    LET done == {r \in Runs : run[r].state = "done"}
        cut == {r \in Runs : run[r].state \in {"died", "killed", "failed"}}
        quiet == requests = <<>> /\ \A r \in Runs : ~Open(run[r])
    IN  quiet /\ ~stale /\ misled = {} /\ (\A r \in cut : ~TestsThatChange(r)) =>
            \E rs \in SUBSET cut : \E order \in SetToSeqs(done \cup rs) :
                mouse.settings = Serial(first, order)

(* hidpp20-mouse-event-test without threads survives, and restores the     *)
(* mouse (above), unless the device fails it, or a SIGINT came when it was *)
(* not listening or had another before it: then a command of a constructor *)
(* or a destructor is interrupted.                                         *)
OneSignalIsSafe ==
    \A r \in Runs : IsTest(run[r]) /\ ~IsThreaded(run[r]) /\ run[r].state = "died" =>
        run[r].disturbed \/ run[r].early

(* hidpp-list-features lists every feature, and hidpp20-dump-page prints   *)
(* every line of a page that nobody writes, unless it took an answer to    *)
(* another run; hidpp-list-devices lists each index that something answers *)
(* at unless it gave one up, those of a receiver's devices only if it has  *)
(* the receiver; no refusal of the device ends the tests of registers; and *)
(* whatever its descriptor looks like, the HID++ reports that the device   *)
(* has are found, so that no tool turns it away.                           *)
ListsThemAll ==
    \A r \in Runs :
        LET tool == run[r].job.tool
            undisturbed == /\ run[r].state = "done" /\ ~run[r].disturbed
                           /\ r \notin misled /\ \A i \in DOMAIN requests : requests[i].by # r
            listed == undisturbed /\ mouse.version = 2
        IN  /\ Open(run[r]) => run[r].reports = Reports
            /\ Ended(run[r]) /\ run[r].reports = {} /\ plugged => Reports = {}
            /\ tool = "hidpp-list-features" /\ listed =>
                  run[r].listed = {ID[feature] : feature \in ToSet(mouse.features)}
            /\ tool = "hidpp-list-devices" /\ undisturbed /\ Reports # {} =>
                  run[r].listed = {0, IF mouse.index = 0 THEN CordedDevice ELSE mouse.index}
            /\ tool = "hidpp20-dump-page" /\ listed =>
                  LET page(s) == s.pages[run[r].job.page]
                  IN  page(first) = page(mouse.settings) => run[r].dump = page(first)
            /\ tool = "hidpp-list-features" /\ run[r].state = "died" /\ mouse.version = 1
                /\ run[r].job.index = mouse.index => run[r].thrown

(* What a listening test has shown last is what the button does, also when *)
(* it was pressed during a command, or others get answers: unless it was   *)
(* pressed when the spy was off or the handler was not added yet, or a run *)
(* asked for the number of buttons, whose answer passes for an event.      *)
ButtonShown ==
    \A r \in Runs :
        /\ At(run[r], "start") /\ ~IsThreaded(run[r]) /\ "MouseButtonSpy" \in run[r].handlers
        /\ plugged /\ mouse.settings.spy /\ MouseButtonEvent \notin {inbox[r][i].name : i \in DOMAIN inbox[r]}
        => run[r].shown = pressed \/ run[r].phantom \/ run[r].unheard

(* At last every run has ended, or listens without a signal it knows of,   *)
(* whosever answers it takes and whatever becomes of the device.           *)
Listens(R) == At(R, "start") /\ IF IsThreaded(R) THEN ~R.interrupted \/ R.missed ELSE R.pipe = 0
RunsEnd == <>[](\A r \in Runs : Open(run[r]) => Listens(run[r]))
=============================================================================
