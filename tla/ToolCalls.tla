----------------------------- MODULE ToolCalls -----------------------------
(***************************************************************************)
(* What the command line tools of src/src/tools ask a device, call by      *)
(* call, through the interfaces of libhidpp/hidpp10 and libhidpp/hidpp20,  *)
(* and what each tool says that it does to the device's settings.          *)
(*                                                                         *)
(* A call is named as the dispatchers know its answer: a feature and a     *)
(* function, or get or set, the size and the address of a register; an     *)
(* answer is not told by the parameters it is for.                         *)
(***************************************************************************)
EXTENDS Sensor, FiniteSets, SequencesExt

CONSTANTS
    Addresses,  \* registers hidpp-list-features tries, in this order (0 .. 255)
    Slots,      \* wireless device indices hidpp-list-devices tries (6)
    Lines       \* of a page of a HID++2.0 device (each of LineSize bytes)

Function(feature, name) == <<feature, name>>
Get(register) == <<"get", register[1], register[2]>>
Set(register) == <<"set", register[1], register[2]>>
Ping == Function("Root", "Ping")
GetFeature == Function("Root", "GetFeature")
MouseButtonEvent == Function("MouseButtonSpy", "MouseButtonEvent")

\* The IDs of features.
ID == [FeatureSet |-> 1, LEDControl |-> 4864, ReprogControlsV4 |-> 6916, AdjustableDPI |-> 8705,
       OnboardProfiles |-> 33024, MouseButtonSpy |-> 33040]
\* RegisterAddress, with the size a register is used with; the content is cut
\* to three numbers.
EnableIndividualFeatures == <<"short", 1>>
CurrentProfile == <<"short", 15>>
DevicePairingInfo == <<"receiver", 181>>
SensorResolution(mouse) == <<mouse.resolution, 99>>
Zeros == <<0, 0, 0>>
AllFlags == <<1, 1, 1>>
\* Device indices: 0 stands for the default one.
CordedDevice == 100
\* IOnboardProfiles::Mode.
Onboard == 1
Host == 2

\* A call with its parameters, and what its program does about an error: it
\* is not caught, ends the program with an error code, or drops as many of
\* the calls that follow.  `use' is what the program does with the answer.
Call(name, arg) == [name |-> name, arg |-> arg, caught |-> "no", drop |-> 0, use |-> "none", lacks |-> 0]
Caught(call, how, drop) == [call EXCEPT !.caught = how, !.drop = drop]
Using(call, use) == [call EXCEPT !.use = use]
\* FeatureInterface::FeatureInterface: an UnsupportedFeature drops calls or,
\* if there are none to drop, is not caught.
Feature(feature, drop) ==
    [Using(Call(GetFeature, <<ID[feature]>>), "feature") EXCEPT !.lacks = drop]
\* The bytes of parameters that decide on the report a function is called with.
Parameters(name) ==
    CASE name[2] = "MemoryRead" -> 4
      [] name[2] = "SetControlReporting" -> 5
      [] name[2] = "MemoryAddrWrite" -> 6
      [] name[2] = "MemoryWrite" -> 16
      [] OTHER -> 3
Local(what) == Call(<<"local", what>>, <<>>)

\* HIDPP10::Device::Device of a receiver: it must have protocol version 1.0.
ReceiverPing == Caught(Using(Call(Ping, <<0>>), "protocol"), "init", 3)
\* HIDPP::Device::Device: a wireless device's receiver is asked for its
\* information and its name first.
DeviceCalls(index) ==
    (IF index \in {0, CordedDevice} THEN <<>>
     ELSE <<ReceiverPing,
            Caught(Using(Call(Get(DevicePairingInfo), <<32, index>>), "pairing"), "init", 2),
            Caught(Using(Call(Get(DevicePairingInfo), <<64, index>>), "pairing"), "init", 1)>>)
    \o <<Caught(Using(Call(Ping, <<index>>), "version"), "init", 0)>>

(* The interfaces: a method makes one call. *)
ControlCall(name, arg) == Call(Function("ReprogControlsV4", name), arg)
LEDCall(name, arg) == Call(Function("LEDControl", name), arg)
DPICall(name, arg) == Call(Function("AdjustableDPI", name), arg)
SpyCall(name) == Call(Function("MouseButtonSpy", name), <<>>)
ProfilesCall(name, arg) == Call(Function("OnboardProfiles", name), arg)
MemoryCall(name, arg) == Call(Function("OnboardProfiles", name), arg)
GetFlags == Call(Get(EnableIndividualFeatures), <<>>)
SetFlags(flags) == Call(Set(EnableIndividualFeatures), flags)
GetResolution(mouse) == Call(Get(SensorResolution(mouse)), <<>>)
\* setCurrentResolution leaves zeros in the rest of the register.
SetResolution0(mouse, dpi) ==
    Call(Set(SensorResolution(mouse)), <<FromDPI(mouse.sensor, dpi, 0) % 256, 0, 0>>)
SetResolution3(mouse, x, y) ==
    Call(Set(SensorResolution(mouse)), <<FromDPI(mouse.sensor, x, 0), FromDPI(mouse.sensor, y, 0), 0>>)

-----------------------------------------------------------------------------
(* The calls of each tool after HIDPP::Device::Device.                     *)

\* hidpp20-mouse-event-test: the handlers, whose constructors take over.
ButtonHandler ==
    <<Feature("MouseButtonSpy", 3),
      SpyCall("GetMouseButtonCount"),
      SpyCall("StartMouseButtonSpy"),
      Local("addEventHandler MouseButtonSpy")>>
ProfileHandler ==
    <<Feature("OnboardProfiles", 3),
      Using(ProfilesCall("GetMode", <<>>), "save"),
      Using(ProfilesCall("SetMode", <<Onboard>>), "change"),
      Local("addEventHandler OnboardProfiles")>>
MouseEventTest ==
    <<Local("sigaction")>> \o ButtonHandler \o ProfileHandler \o <<Local("start")>>
\* Faulty variant: the mode is not put back.
ForgetMode(handler) ==
    IF handler = "MouseButtonSpy" THEN SpyCall("StopMouseButtonSpy")
    ELSE ProfilesCall("SetMode", <<Onboard>>)
\* Their destructors.
Destroyed(handler) ==
    IF handler = "MouseButtonSpy" THEN SpyCall("StopMouseButtonSpy")
    ELSE Using(ProfilesCall("SetMode", <<>>), "back")

\* testRegister of hidpp-list-features: what was read is written, or zeros.
TestRegister(register, write) ==
    <<Caught(Using(Call(Get(register), <<>>), "save"), "next", 0)>>
    \o IF write THEN <<Caught(Using(Call(Set(register), <<>>), "back"), "next", 0)>> ELSE <<>>
TestFlags ==
    <<Caught(Using(GetFlags, "save"), "next", 3), Caught(Using(SetFlags(AllFlags), "change"), "next", 2),
      Caught(GetFlags, "next", 1), Caught(Using(SetFlags(<<>>), "back"), "next", 0)>>
ListRegisters(write) ==
    FlattenSeq([i \in DOMAIN Addresses |->
                    TestRegister(<<"short", Addresses[i]>>, write)
                    \o TestRegister(<<"long", Addresses[i]>>, write)])
    \o IF write THEN TestFlags ELSE <<>>
FeatureSet ==
    <<Feature("FeatureSet", 0),
      Using(Call(Function("FeatureSet", "GetCount"), <<>>), "count")>>
\* Faulty variant: the root feature is counted.
FeatureIDsBelow(count) ==
    [i \in 1 .. count - 1 |-> Using(Call(Function("FeatureSet", "GetFeatureID"), <<i>>), "list")]
FeatureIDs(count) ==
    [i \in 1 .. count |-> Using(Call(Function("FeatureSet", "GetFeatureID"), <<i>>), "list")]

\* hidpp-mouse-resolution: Operations20.
AdjustableDPI(job) ==
    <<Feature("AdjustableDPI", 0)>> \o
    CASE job.op = "get" -> <<DPICall("GetSensorDPI", <<>>)>>
      [] job.op = "set" -> <<DPICall("SetSensorDPI", <<0, job.x>>)>>
      [] job.op = "info" -> <<DPICall("GetSensorCount", <<>>),
                              DPICall("GetSensorDPIList", <<>>)>>
\* Operations10Type0 and Operations10Type3.
Resolution10(job, mouse) ==
    CASE job.op = "get" -> <<GetResolution(mouse)>>
      [] job.op = "set" -> <<IF mouse.resolution = "short" THEN SetResolution0(mouse, job.x)
                             ELSE SetResolution3(mouse, job.x, job.y)>>
      [] job.op = "info" -> <<>>

\* hidpp20-led-control: to set a state it only parses it.
LEDControl(job) ==
    LET led(name, arg) == Caught(LEDCall(name, arg), "fail", 0)
    IN  <<Caught(Feature("LEDControl", 0), "fail", 0)>> \o
        CASE job.op = "info" -> <<led("GetCount", <<>>), led("GetInfo", <<0>>)>>
          [] job.op = "get control" -> <<led("GetSWControl", <<>>)>>
          [] job.op = "set control" -> <<led("SetSWControl", <<job.sw>>)>>
          [] job.op = "get state" -> <<led("GetCount", <<>>), led("GetState", <<0>>)>>
          [] job.op = "set state" -> <<>>

\* hidpp20-reprog-controls: the Change flags go with the options given.
Bit(holds) == IF holds THEN 1 ELSE 0
Flags(job) ==
    FlattenSeq([i \in DOMAIN job.flags |-> <<Bit(job.flags[i] # "NoChange"), Bit(job.flags[i] = "On")>>])
ReprogControls(job) ==
    LET irc(name, arg) == Caught(ControlCall(name, arg), "fail", 0)
    IN  <<Caught(Feature("ReprogControlsV4", 0), "fail", 0)>> \o
        CASE job.op = "info" -> <<irc("GetControlCount", <<>>), irc("GetControlInfo", <<0>>)>>
          [] job.op = "get" -> <<irc("GetControlReporting", <<job.cid>>)>>
          [] job.op = "set" -> <<irc("SetControlReporting", <<job.cid, job.remap>> \o Flags(job))>>

\* hidpp10-active-profile; ProfileIndex, ProfileAddress and FactoryDefault.
ProfileValue(job) ==
    CASE job.op = "load" -> <<0, job.profile, 0>>
      [] job.op = "load-address" -> <<1, job.page, job.offset>>
      [] job.op = "load-default" -> <<255, 0, 0>>
ActiveProfile(job) ==
    CASE job.op = "current" -> <<Using(Call(Get(CurrentProfile), <<>>), "type")>>
      [] job.op = "reload" -> <<Using(Call(Get(CurrentProfile), <<>>), "save"),
                                Using(Call(Set(CurrentProfile), <<>>), "back")>>
      [] OTHER -> <<Call(Set(CurrentProfile), ProfileValue(job))>>

RawCommand(job) ==
    <<Caught(Call(IF job.op = "read" THEN Get(job.register) ELSE Set(job.register), job.value),
             "fail", 0)>>
CallFunction(job) == <<Caught(Call(job.function, job.value), "fail", 0)>>
GetDescription ==
    <<Caught(Feature("OnboardProfiles", 0), "fail", 0),
      Caught(ProfilesCall("GetDescription", <<>>), "fail", 0)>>
\* hidpp20-dump-page: a line after the other.
DumpPage(job) ==
    [GetDescription EXCEPT ![2].use = "description"]
    \o [i \in 1 .. Lines |->
           Caught(Using(MemoryCall("MemoryRead", <<job.page, i>>), "dump"), "fail", 0)]
\* hidpp20-write-page, which fills the page with FF and lets a hardware error
\* at the end pass, and hidpp20-write-data.
Written20(page, line, data) ==
    <<MemoryCall("MemoryAddrWrite", <<page, line, Len(data)>>)>>
    \o [i \in DOMAIN data |-> MemoryCall("MemoryWrite", <<data[i]>>)]
    \o <<MemoryCall("MemoryWriteEnd", <<>>)>>
Page(data) == [i \in 1 .. Lines |-> IF i <= Len(data) THEN data[i] ELSE 255]
WritePage(job) ==
    LET lines == Written20(job.page, 1, Page(job.data))
    IN  <<Feature("OnboardProfiles", 0),
          Using(ProfilesCall("GetDescription", <<>>), "description")>>
        \o [lines EXCEPT ![Lines + 2].caught = "next"]
WriteData(job) ==
    LET calls == <<Feature("OnboardProfiles", 0)>> \o Written20(job.page, job.line, job.data)
    IN  [i \in DOMAIN calls |-> Caught(calls[i], "fail", 0)]

\* hidpp-list-devices: an index that fails is passed over; the wireless ones
\* are not tried unless the default one is a receiver's.
ListDevices ==
    LET passed(calls, use) == [i \in DOMAIN calls |->
            [calls[i] EXCEPT !.caught = "next", !.use = IF i = Len(calls) THEN use ELSE @]]
    IN  passed(DeviceCalls(0), "receiver") \o passed(DeviceCalls(CordedDevice), "list")
        \o FlattenSeq([i \in 1 .. Slots |-> passed(DeviceCalls(i), "list")])

\* The versions a tool works with.
Versions(job) ==
    CASE job.tool \in {"hidpp20-mouse-event-test", "hidpp20-led-control", "hidpp20-reprog-controls",
                       "hidpp20-call-function", "hidpp20-onboard-profiles-get-description",
                       "hidpp20-dump-page", "hidpp20-write-page", "hidpp20-write-data"} -> {2}
      [] job.tool \in {"hidpp10-active-profile", "hidpp10-raw-command"} -> {1}
      [] OTHER -> {1, 2}
Calls(job, version, mouse) ==
    CASE job.tool = "hidpp20-mouse-event-test" -> MouseEventTest
      [] job.tool = "hidpp-list-features" -> IF version = 1 THEN ListRegisters(job.write) ELSE FeatureSet
      [] job.tool = "hidpp-mouse-resolution" ->
           IF version = 1 THEN Resolution10(job, mouse) ELSE AdjustableDPI(job)
      [] job.tool = "hidpp20-led-control" -> LEDControl(job)
      [] job.tool = "hidpp20-reprog-controls" -> ReprogControls(job)
      [] job.tool = "hidpp10-active-profile" -> ActiveProfile(job)
      [] job.tool = "hidpp10-raw-command" -> RawCommand(job)
      [] job.tool = "hidpp20-call-function" -> CallFunction(job)
      [] job.tool = "hidpp20-onboard-profiles-get-description" -> GetDescription
      [] job.tool = "hidpp20-dump-page" -> DumpPage(job)
      [] job.tool = "hidpp20-write-page" -> WritePage(job)
      [] job.tool = "hidpp20-write-data" -> WriteData(job)
      [] job.tool = "hidpp-check-device" -> <<>>
=============================================================================
