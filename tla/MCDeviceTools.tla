--------------------------- MODULE MCDeviceTools ---------------------------
(* An instance of DeviceTools for TLC: two runs, on mice of both protocols. *)
EXTENDS DeviceTools

CONSTANTS r1, r2

MCRuns == {r1, r2}
MCAddresses == <<1, 15, 99, 160>>

\* Descriptors: collections of HID++ reports in both schemes, of a mouse with
\* nested collections, padding and pushed contexts, ones to be passed over.
Item(prefix, bytes) == <<prefix + IF Len(bytes) = 4 THEN 3 ELSE Len(bytes)>> \o bytes
Collection(usage, items) == Item(8, usage) \o Item(160, <<1>>) \o items \o Item(192, <<>>)
Fields(type) ==
    Item(132, <<ReportID[type]>>) \o Item(116, <<8>>) \o Item(148, <<ReportLength[type] - 1>>)
    \o Item(8, <<Flag[type]>>) \o Item(128, <<0>>) \o Item(8, <<Flag[type]>>) \o Item(144, <<0>>)
Legacy(type) == Item(4, <<0, 255>>) \o Collection(<<Flag[type]>>, Fields(type))
Modern(type, all) == Item(4, <<67, 255>>) \o Collection(<<Flag[type], all>>, Fields(type))
Delimited(type) ==
    Item(8, <<Flag[type], 0, 67, 255>>) \o Item(160, <<1>>) \o Item(4, <<67, 255>>)
    \o Item(132, <<ReportID[type]>>) \o Item(116, <<8>>) \o Item(148, <<ReportLength[type] - 1, 0>>)
    \o Item(168, <<1>>) \o Item(8, <<Flag[type]>>) \o Item(8, <<9>>) \o Item(168, <<0>>) \o Item(128, <<0>>)
    \o Item(128, <<1>>) \o Item(164, <<>>) \o Item(4, <<1>>) \o Item(180, <<>>) \o Item(8, <<Flag[type]>>) \o Item(144, <<>>) \o Item(192, <<>>)
Pointer ==
    Item(4, <<1>>) \o Collection(<<2>>,
        Item(132, <<16>>) \o Item(164, <<>>) \o Collection(<<1>>,
            Item(4, <<9>>) \o Item(24, <<1>>) \o Item(40, <<16, 0>>) \o Item(116, <<1>>) \o Item(148, <<16>>)
            \o Item(128, <<2>>) \o Item(128, <<1>>))
        \o Item(180, <<>>) \o <<254, 1, 240, 7>>)
D(reports, data) == [reports |-> reports, descriptor |-> data]
MCDescribed ==
    [modern |-> D({"Short", "Long"}, Pointer \o Modern("Short", 3) \o Modern("Long", 3)),
     long |-> D({"Short", "Long"}, Legacy("Short") \o Pointer \o Legacy("Long")),
     short |-> D({"Short"}, Legacy("Short") \o Pointer),
     delimited |-> D({"Long"}, Delimited("Long") \o Pointer),
     mixed |-> D({"Short"}, Legacy("Short") \o Modern("Long", 2)),
     large |-> D({"Long", "VeryLong"}, Modern("Long", 6) \o Modern("Short", 1) \o Modern("VeryLong", 6)),
     none |-> D({}, Pointer),
     cut |-> D({}, Legacy("Short") \o <<5>>),
     wide |-> D({}, Legacy("Short") \o Item(132, <<16, 0>>))]
Like(m, described) == [m EXCEPT !.described = described]

Mouse20(index, features, refused) ==
    [described |-> "modern", index |-> index, version |-> 2, features |-> features, resolution |-> "none", sensor |-> S9808,
     readable |-> {}, writable |-> {}, flags |-> Zeros, writing |-> Zeros, dpis |-> {400, 800}, refused |-> refused,
     settings |-> [spy |-> FALSE, mode |-> Host, dpi |-> 800, sw |-> 0,
                   control |-> [on |-> <<0, 1, 0>>, remap |-> 80], pages |-> <<<<1, 2>>, <<3, 4>>>>]]
Gaming(index) == Mouse20(index, <<"FeatureSet", "MouseButtonSpy", "OnboardProfiles">>, {})
Profiled(refused) == Mouse20(0, <<"OnboardProfiles">>, refused)
Spied == Mouse20(0, <<"MouseButtonSpy">>, {})
Gaming2(refused) == Mouse20(0, <<"FeatureSet", "OnboardProfiles", "MouseButtonSpy">>, refused)
Office(index) == Mouse20(index, <<"FeatureSet", "AdjustableDPI", "LEDControl", "ReprogControlsV4">>, {})
Mouse10(sensor, size, unreadable) ==
    LET rest == {EnableIndividualFeatures, CurrentProfile, <<size, 99>>}
    IN  [described |-> size,
         index |-> 0, version |-> 1, features |-> <<>>, resolution |-> size, sensor |-> sensor,
         readable |-> rest, writable |-> rest \cup unreadable,
         flags |-> <<1, 0, 1>>, writing |-> Zeros, dpis |-> {}, refused |-> {},
         settings |-> [register \in rest \cup unreadable |->
             CASE register = EnableIndividualFeatures -> <<0, 0, 1>>
               [] register = CurrentProfile -> <<0, 2, 0>>
               [] register = <<"long", 99>> -> <<16, 16, 2>>
               [] register = <<"short", 99>> -> <<129, 0, 0>>
               [] OTHER -> <<3, 3, 3>>]]
G500 == Mouse10(S9808, "long", {<<"short", 160>>})
G5 == Mouse10(S6006, "short", {})

J(tool, index) == [tool |-> tool, index |-> index]
Test(index, thread) == J("hidpp20-mouse-event-test", index) @@ [thread |-> thread]
ListFeatures(index, write) == J("hidpp-list-features", index) @@ [write |-> write]
Resolution(index, op, x, y) == J("hidpp-mouse-resolution", index) @@ [op |-> op, x |-> x, y |-> y]
Led(op, sw) == J("hidpp20-led-control", 0) @@ [op |-> op, sw |-> sw]
Reprog(op, divert, persist, remap) ==
    J("hidpp20-reprog-controls", 0) @@
    [op |-> op, cid |-> 80, remap |-> remap,
     flags |-> <<divert, persist, "NoChange">>]
Profile(op) == J("hidpp10-active-profile", 0) @@ [op |-> op, profile |-> 3, page |-> 4, offset |-> 16]
Raw(op, register, value) ==
    J("hidpp10-raw-command", 0) @@ [op |-> op, register |-> register, value |-> value]
Dump(page) == J("hidpp20-dump-page", 0) @@ [page |-> page]
Write(page, data) == J("hidpp20-write-page", 0) @@ [page |-> page, data |-> data]
WriteAt(page, line, data) ==
    J("hidpp20-write-data", 0) @@ [page |-> page, line |-> line, data |-> data]

Situation(m, one, two, signals, early, presses, kills, unplugs, timeouts) ==
    [mouse |-> m, jobs |-> (r1 :> one) @@ (r2 :> two),
     left |-> [signals |-> signals, early |-> early, presses |-> presses, kills |-> kills,
               unplugs |-> unplugs, timeouts |-> timeouts]]
MCSituations == <<
    Situation(Profiled({}), Test(0, FALSE), Test(0, FALSE), 2, 0, 0, 0, 0, 0),
    Situation(Spied, Test(0, TRUE), Test(0, FALSE), 1, 0, 0, 0, 0, 0),
    Situation(Gaming(1), Test(1, FALSE), Idle, 2, 1, 3, 1, 1, 1),
    Situation(Gaming2({Function("OnboardProfiles", "SetMode")}), Test(0, FALSE),
              J("hidpp20-onboard-profiles-get-description", 0), 1, 1, 1, 0, 0, 0),
    Situation(Spied, Test(0, FALSE),
              J("hidpp20-call-function", 0) @@
                  [function |-> Function("MouseButtonSpy", "GetMouseButtonCount"), value |-> <<>>],
              1, 1, 2, 0, 0, 0),
    Situation(Gaming(0), Test(0, TRUE), Idle, 2, 1, 1, 1, 1, 1),
    Situation(Office(0), Test(0, TRUE), ListFeatures(0, FALSE), 1, 1, 0, 0, 0, 0),
    Situation(Office(0), ListFeatures(0, FALSE), ListFeatures(0, FALSE), 0, 0, 0, 0, 0, 0),
    Situation(Office(1), Resolution(1, "set", 400, 400), Resolution(1, "set", 500, 500), 0, 0, 0, 1, 0, 1),
    Situation(Office(0), Resolution(0, "info", 0, 0), Led("set control", 1), 0, 0, 0, 0, 0, 0),
    Situation(Office(0), Led("info", 1), Led("set state", 1), 0, 0, 0, 0, 0, 0),
    Situation(Office(0), Reprog("set", "On", "NoChange", 81), Reprog("set", "NoChange", "Off", 0), 0, 0, 0, 1, 0, 0),
    Situation(Office(0), Reprog("get", "On", "On", 81), Reprog("info", "On", "On", 0), 0, 0, 0, 0, 1, 0),
    Situation(G500, ListFeatures(0, TRUE), Resolution(0, "set", 230, 9000), 0, 0, 0, 0, 0, 0),
    Situation(G500, ListFeatures(0, TRUE), Raw("write", EnableIndividualFeatures, <<1, 0, 0>>), 0, 0, 0, 0, 0, 0),
    Situation(G5, ListFeatures(0, TRUE), Idle, 0, 0, 0, 1, 1, 1),
    Situation(G5, Profile("reload"), Profile("load"), 0, 0, 0, 1, 0, 0),
    Situation(G5, Profile("load-address"), Profile("current"), 0, 0, 0, 0, 0, 1),
    Situation(G5, Resolution(0, "set", 300, 300), Profile("load-default"), 0, 0, 0, 0, 0, 0),
    Situation(G5, Resolution(0, "get", 0, 0), Test(0, FALSE), 0, 0, 0, 0, 0, 0),
    Situation(Profiled({}), Write(1, <<5, 6>>), Write(2, <<7>>), 0, 0, 0, 1, 0, 0),
    Situation(Profiled({Function("OnboardProfiles", "MemoryWriteEnd")}), Write(1, <<5, 6>>), WriteAt(1, 2, <<8>>),
              0, 0, 0, 0, 0, 0),
    Situation(Profiled({}), Dump(1), WriteAt(2, 1, <<5, 6>>), 0, 0, 0, 0, 0, 0),
    Situation(Profiled({}), Dump(1), Dump(2), 0, 0, 0, 0, 0, 0),
    Situation(Profiled({}), Write(3, <<5>>), WriteAt(1, 2, <<5, 6>>), 0, 0, 0, 0, 1, 0),
    Situation(Office(1), J("hidpp-list-devices", 0), J("hidpp-check-device", 2), 0, 0, 0, 0, 0, 1),
    Situation(G5, J("hidpp-list-devices", 0), J("hidpp-check-device", 0), 0, 0, 0, 0, 1, 1),
    Situation(Like(Profiled({}), "delimited"), Dump(1), Write(1, <<5>>), 0, 0, 0, 0, 0, 0),
    Situation(Like(Profiled({}), "mixed"), Dump(1), Write(1, <<5>>), 0, 0, 0, 0, 0, 0),
    Situation(Like(Spied, "large"),
              J("hidpp-check-device", 2), Test(0, FALSE), 0, 0, 0, 0, 0, 0),
    Situation(Like(G5, "none"), J("hidpp-list-devices", 0), J("hidpp-check-device", 0), 0, 0, 0, 0, 0, 0),
    Situation(Like(G5, "cut"), J("hidpp-list-devices", 0), ListFeatures(0, FALSE),
              0, 0, 0, 0, 0, 0),
    Situation(Like(G5, "wide"), J("hidpp-check-device", 0), Resolution(0, "get", 0, 0), 0, 0, 0, 0, 0, 0) >>
=============================================================================
