------------------------ MODULE MCPersistentProfiles ------------------------
(* An instance of PersistentProfiles for TLC: every format, with documents *)
(* that give all settings, some or none.                                   *)
EXTENDS PersistentProfiles

G(format, sensor, profileSize, firstPage) ==
    [format |-> format, protocol |-> 1, sensor |-> sensor, profileSize |-> profileSize,
     firstPage |-> firstPage, pageSize |-> 96, unit |-> 2, step |-> 50]
Onboard(format, profile, gshift, dpishift, power) ==
    [format |-> format, protocol |-> 2, firstPage |-> 1, pageSize |-> 256, unit |-> 1,
     desc |-> [profile_format |-> profile, g_shift |-> gshift, dpi_shift |-> dpishift,
               power_modes |-> power, button_count |-> 3]]
MCMice ==
    {G("G9", S6090, 56, 2), G("G500", S9500, 78, 2), G("G700", S9808, 74, 2),
     Onboard("20", 2, TRUE, TRUE, TRUE), Onboard("20", 1, FALSE, TRUE, FALSE),
     Onboard("20", 3, FALSE, FALSE, FALSE)}

E(name, value) == [name |-> name, value |-> value]
B(type, a, b) == [button |-> [type |-> type, a |-> a, b |-> b], macro |-> <<>>]
M(id, length) == [button |-> [type |-> "macro", a |-> 0, b |-> 0],
                  macro |-> [i \in 1 .. length |-> IF i = length THEN 255 ELSE id]]
PlainButtons == E("buttons", <<B("mouse", 1, 0), B("key", 2, 4), B("consumer", 402, 0),
                               B("special", 1, 0), B("disabled", 0, 0), B("mouse", 256, 0)>>)
Macros(id) == E("buttons", <<M(id, 40), B("key", 0, 7), M(id + 1, 60), B("mouse", 2, 0),
                             M(id + 2, 4), B("consumer", 5, 0)>>)
Named10 == <<E("color", <<1, 2, 3>>), E("unknown0", 77), E("default_dpi", 4),
             E("default_dpi_bit7", TRUE), E("angle", 7), E("angle_snapping", TRUE),
             E("lift_threshold", -15), E("report_rate", 8), E("unknown5", 99), E("power_mode", 200)>>
Axes10(x, y, leds) == [dpi |-> x, dpi_x |-> x, dpi_y |-> y, leds |-> leds]
SixModes == E("modes", <<Axes10(200, 5700, <<TRUE, FALSE, TRUE, FALSE>>), [dpi |-> 100, dpi_x |-> 1000],
                         Axes10(225, 233, NoLeds), Axes10(3200, 400, NoLeds), [leds |-> NoLeds],
                         Axes10(250, 250, NoLeds)>>)
TwoModes == E("modes", <<Axes10(2025, 712, <<TRUE, TRUE, TRUE, TRUE, FALSE>>), Axes10(500, 499, NoLeds)>>)
MCDocuments10 ==
    <<<<Named10 \o <<SixModes, Macros(10), E("leds", <<TRUE, FALSE, FALSE, TRUE>>)>>>>,
      <<<<TwoModes, E("buttons", <<>>), PlainButtons>>, <<E("report_rate", 2), TwoModes, Macros(20)>>>>,
      <<<<E("default_dpi", 3), E("buttons", <<M(30, 4), B("special", 2, 0), M(31, 6)>>)>>>>,
      <<<<E("leds", <<TRUE>>), TwoModes>>>>>>
Effect(type) == [type |-> type, color |-> <<9, 8, 7>>, period |-> 300, brightness |-> 50]
Named20 == <<E("report_rate", 8), E("default_dpi", 4), E("color", <<1, 2, 3>>),
             E("angle_snapping", TRUE), E("revision", 258), E("name", [i \in 1 .. 25 |-> 300 + i]),
             E("switched_dpi", 3), E("power_mode", 255), E("logo_effect", Effect(10)),
             E("side_effect", Effect(3)), E("enabled", FALSE), E("dir_unknown", 200)>>
MCDocuments20 ==
    <<<<Named20 \o <<E("modes", [i \in 1 .. 6 |-> [dpi |-> 1000 * i]]), Macros(10)>>>>,
      <<<<E("logo_effect", Effect(1)), PlainButtons>>,
        <<E("side_effect", Effect(0)), E("modes", <<[dpi |-> 800], [dpi |-> 0], [dpi |-> 3]>>), Macros(20)>>>>,
      <<<<E("buttons", <<B("mouse", 1, 0)>>)>>>>>>
MCDocuments == [format \in {"G9", "G500", "G700", "20"} |->
                   IF format = "20" THEN MCDocuments20 ELSE MCDocuments10]
MCJunk == {[index |-> 5, button |-> [type |-> "mouse", a |-> 3, b |-> 0]]}
=============================================================================
