---------------------------- MODULE ProfileFormat ----------------------------
(***************************************************************************)
(* The formats of the profiles in a mouse: HIDPP10::ProfileFormatG9, G500  *)
(* and G700, HIDPP20::ProfileFormat, the two directory formats, and the    *)
(* settings they are made of (SettingDesc, SettingLookup, EnumDesc).       *)
(*                                                                         *)
(* A page is a function from offsets to bytes; a profile is                *)
(*   settings: values by name, those left out have their default,          *)
(*   modes:    a sequence of values by name,                               *)
(*   buttons:  a sequence of [type, a, b], where a macro has its page and  *)
(*             offset, and another button its codes.                       *)
(* Writing is a sequence of pieces [at, bytes] in the order of the code:   *)
(* fields may overlap.                                                     *)
(***************************************************************************)
EXTENDS Sensor, SequencesExt

-----------------------------------------------------------------------------
(* Field, ArrayField, StructArrayField *)

At(offset, bytes) == [at |-> offset, bytes |-> bytes]
Byte(x) == <<x % 256>>
LE(x) == <<x % 256, (x \div 256) % 256>>
BE(x) == <<(x \div 256) % 256, x % 256>>
LEAt(page, at) == page[at] + 256 * page[at + 1]
BEAt(page, at) == 256 * page[at] + page[at + 1]
ColorAt(page, at) == <<page[at], page[at + 1], page[at + 2]>>
Put(page, piece) ==
    [i \in DOMAIN page |->
        IF i \in piece.at .. piece.at + Len(piece.bytes) - 1
        THEN piece.bytes[i - piece.at + 1] ELSE page[i]]
Written(page, pieces) == FoldLeft(Put, page, pieces)
Filled(n, byte) == [i \in 1 .. n |-> byte]

-----------------------------------------------------------------------------
(* SettingDesc *)

IntDesc(min, max, default) == [kind |-> "int", min |-> min, max |-> max, default |-> default]
BoolDesc(default) == [kind |-> "bool", default |-> default]
ColorDesc(default) == [kind |-> "color", default |-> default]
NameDesc(default) == [kind |-> "name", default |-> default]
LedsDesc(default) == [kind |-> "leds", count |-> Len(default), default |-> default]
EnumDesc(values, default) == [kind |-> "enum", values |-> values, default |-> default]
ComposedDesc(parts) == [kind |-> "composed", parts |-> parts, default |-> <<>>]

InEnum(desc, v) == v \in desc.values
SimpleCheck(desc, v) ==
    CASE desc.kind = "int" -> v \in desc.min .. desc.max
      [] desc.kind = "leds" -> Len(v) = desc.count
      [] desc.kind = "enum" -> InEnum(desc, v)
      [] OTHER -> TRUE
Check(desc, v) ==
    IF desc.kind = "composed"
    THEN \A name \in DOMAIN v : name \in DOMAIN desc.parts /\ SimpleCheck(desc.parts[name], v[name])
    ELSE SimpleCheck(desc, v)

\* SettingLookup::get.  There must be a description of that name.
LookupOr(settings, descs, name, default) ==
    IF name \in DOMAIN settings /\ Check(descs[name], settings[name])
    THEN settings[name] ELSE default
Lookup(settings, descs, name) == LookupOr(settings, descs, name, descs[name].default)

\* What is read of the text of a value that was printed.  A printed name ends
\* at its first NUL; a LED vector must not be shorter than described; a value
\* that an EnumDesc lacks has no text.
HasText(desc, v) ==
    CASE desc.kind = "leds" -> Len(v) >= desc.count
      [] desc.kind \in {"int", "enum"} -> SimpleCheck(desc, v)
      [] OTHER -> TRUE
Reread(desc, v) ==
    CASE desc.kind = "leds" -> SubSeq(v, 1, desc.count)
      [] desc.kind = "name" -> SubSeq(v, 1, Cardinality({i \in DOMAIN v : \A j \in 1 .. i : v[j] # 0}))
      [] OTHER -> v

-----------------------------------------------------------------------------
(* ProfileFormatCommon: the formats of HID++1.0                            *)

MaxModeCount == 5
NoLeds == <<FALSE, FALSE, FALSE, FALSE>>
Disabled == [type |-> "disabled", a |-> 0, b |-> 0]

DpiDesc(sensor) ==
    IntDesc(sensor.min, sensor.max, IF sensor.max < 800 THEN sensor.max ELSE 800)

ParseButton(page, at) ==
    CASE page[at] = 129 -> [type |-> "mouse", a |-> LEAt(page, at + 1), b |-> 0]
      [] page[at] = 130 -> [type |-> "key", a |-> page[at + 1], b |-> page[at + 2]]
      [] page[at] = 131 -> [type |-> "special", a |-> LEAt(page, at + 1), b |-> 0]
      [] page[at] = 132 -> [type |-> "consumer", a |-> LEAt(page, at + 1), b |-> 0]
      [] page[at] = 143 -> Disabled
      [] OTHER -> [type |-> "macro", a |-> page[at], b |-> page[at + 1]]
\* Faulty variant: codes are big endian.
ButtonBigEndian(button) ==
    CASE button.type = "disabled" -> <<143, 0, 0>>
      [] button.type = "mouse" -> <<129>> \o BE(button.a)
      [] button.type = "key" -> <<130, button.a, button.b>>
      [] button.type = "special" -> <<131>> \o BE(button.a)
      [] button.type = "consumer" -> <<132>> \o BE(button.a)
      [] button.type = "macro" -> <<button.a, button.b, 0>>
WriteButton(button) ==
    CASE button.type = "disabled" -> <<143, 0, 0>>
      [] button.type = "mouse" -> <<129>> \o LE(button.a)
      [] button.type = "key" -> <<130, button.a, button.b>>
      [] button.type = "special" -> <<131>> \o LE(button.a)
      [] button.type = "consumer" -> <<132>> \o LE(button.a)
      [] button.type = "macro" -> <<button.a, button.b, 0>>
Buttons(page, at, count) == [i \in 1 .. count |-> ParseButton(page, at + 3 * (i - 1))]
\* Buttons the profile does not have are disabled.
ButtonPieces(p, at, count) ==
    [i \in 1 .. count |->
        At(at + 3 * (i - 1), WriteButton(IF i <= Len(p.buttons) THEN p.buttons[i] ELSE Disabled))]

\* The LED flags of a mode: four bits for each LED, 0 after the last one.
Leds(flags) ==
    LET nibble(j) == (flags \div 16 ^ (j - 1)) % 16
        count == Cardinality({j \in 1 .. 4 : \A i \in 1 .. j : nibble(i) # 0})
    IN  [j \in 1 .. count |-> nibble(j) = 2]
LedFlags(leds) ==
    FoldLeft(LAMBDA flags, j : flags + (IF leds[j] THEN 2 ELSE 1) * 16 ^ (j - 1), 0,
             [j \in 1 .. (IF Len(leds) < 4 THEN Len(leds) ELSE 4) |-> j])

\* The modes there are, of these resolutions: up to the first that has none,
\* but for mode 1.
ModeCount(dpis) ==
    Cardinality({i \in 1 .. MaxModeCount : \A j \in 2 .. i : dpis[j] # 0})
\* Modes the profile does not have are filled with zeros.
ModePieces(modes, at, size) ==
    [i \in 1 .. MaxModeCount |->
        At(at + size * (i - 1), IF i <= Len(modes) THEN modes[i] ELSE Filled(size, 0))]

\* default_dpi of a profile: one of its modes, or -1 if it has none.
DefaultDpi(p, value) == IF value >= Len(p.modes) THEN Len(p.modes) - 1 ELSE value

-----------------------------------------------------------------------------
(* ProfileFormatG9 *)

G9Settings ==
    [color |-> ColorDesc(<<255, 0, 0>>), unknown0 |-> IntDesc(0, 255, 16),
     default_dpi |-> IntDesc(0, MaxModeCount - 1, 0), default_dpi_bit7 |-> BoolDesc(FALSE),
     unknown1 |-> IntDesc(0, 255, 33), unknown2 |-> IntDesc(0, 255, 162),
     report_rate |-> IntDesc(1, 8, 4), unknown3 |-> IntDesc(0, 255, 143),
     unknown4 |-> IntDesc(0, 255, 0), unknown5 |-> IntDesc(0, 255, 0)]
G9Modes(sensor) == [dpi |-> DpiDesc(sensor), leds |-> LedsDesc(NoLeds)]

\* Faulty variant: bit 7 is taken for a part of the number.
WholeByte(byte) == byte
\* The mode that default_dpi tells, without its bit 7.
ModeIndex(byte) == byte % 128

ReadG9(page, sensor) ==
    LET mode(i) == 2 + 3 * (i - 1)
    IN  [settings |->
           [color |-> ColorAt(page, 0), unknown0 |-> page[1], default_dpi |-> ModeIndex(page[19]),
            default_dpi_bit7 |-> page[19] >= 128, unknown1 |-> page[20], unknown2 |-> page[21],
            report_rate |-> page[22], unknown3 |-> page[53], unknown4 |-> page[54],
            unknown5 |-> page[55]],
         modes |-> [i \in 1 .. ModeCount([j \in 1 .. MaxModeCount |-> page[mode(j)]]) |->
                       [dpi |-> ToDPI(sensor, page[mode(i)]), leds |-> Leds(LEAt(page, mode(i) + 1))]],
         buttons |-> Buttons(page, 23, 10)]

WriteG9(p, sensor, junk) ==
    LET get(name) == Lookup(p.settings, G9Settings, name)
        mode(m) == Byte(FromDPI(sensor, Lookup(m, G9Modes(sensor), "dpi"), junk))
                   \o LE(LedFlags(Lookup(m, G9Modes(sensor), "leds")))
        modes == [i \in DOMAIN p.modes |-> mode(p.modes[i])]
        dpi == DefaultDpi(p, get("default_dpi")) % 256
    IN  <<At(0, get("color")), At(1, Byte(get("unknown0")))>>
        \o ModePieces(modes, 2, 3)
        \o <<At(19, Byte(IF get("default_dpi_bit7") THEN 128 + (dpi % 128) ELSE dpi)),
             At(20, Byte(get("unknown1"))), At(21, Byte(get("unknown2"))),
             At(22, Byte(get("report_rate")))>>
        \o ButtonPieces(p, 23, 10)
        \o <<At(53, Byte(get("unknown3"))), At(54, Byte(get("unknown4"))),
             At(55, Byte(get("unknown5")))>>

-----------------------------------------------------------------------------
(* ProfileFormatG500 *)

G500Settings ==
    [color |-> ColorDesc(<<255, 0, 0>>), angle |-> IntDesc(0, 255, 128),
     angle_snapping |-> BoolDesc(FALSE), default_dpi |-> IntDesc(0, MaxModeCount - 1, 0),
     lift_threshold |-> IntDesc(-15, 15, 0), unknown |-> IntDesc(0, 255, 16),
     report_rate |-> IntDesc(1, 8, 4)]
TwoAxesModes(sensor) ==
    [dpi_x |-> DpiDesc(sensor), dpi_y |-> DpiDesc(sensor), leds |-> LedsDesc(NoLeds)]
\* The resolutions of a mode, as the sensor has them: by default y is x.
Axes(m, sensor, junk) ==
    LET x == Lookup(m, TwoAxesModes(sensor), "dpi_x")
        y == LookupOr(m, TwoAxesModes(sensor), "dpi_y", x)
    IN  [x |-> FromDPI(sensor, x, junk), y |-> FromDPI(sensor, y, junk)]
ModeLeds(m, sensor) == LE(LedFlags(Lookup(m, TwoAxesModes(sensor), "leds")))

ReadG500(page, sensor) ==
    LET mode(i) == 4 + 6 * (i - 1)
    IN  [settings |->
           [color |-> ColorAt(page, 0), angle |-> page[3], angle_snapping |-> page[34] = 2,
            default_dpi |-> page[35], lift_threshold |-> page[36] - 16,
            unknown |-> page[37], report_rate |-> page[38]],
         modes |-> [i \in 1 .. ModeCount([j \in 1 .. MaxModeCount |-> BEAt(page, mode(j))]) |->
                       [dpi_x |-> ToDPI(sensor, BEAt(page, mode(i))),
                        dpi_y |-> ToDPI(sensor, BEAt(page, mode(i) + 2)),
                        leds |-> Leds(LEAt(page, mode(i) + 4))]],
         buttons |-> Buttons(page, 39, 13)]

WriteG500(p, sensor, junk) ==
    LET get(name) == Lookup(p.settings, G500Settings, name)
        mode(m) == BE(Axes(m, sensor, junk).x) \o BE(Axes(m, sensor, junk).y) \o ModeLeds(m, sensor)
        modes == [i \in DOMAIN p.modes |-> mode(p.modes[i])]
    IN  <<At(0, get("color")), At(3, Byte(get("angle")))>>
        \o ModePieces(modes, 4, 6)
        \o <<At(34, Byte(IF get("angle_snapping") THEN 1 ELSE 2)),
             At(35, Byte(DefaultDpi(p, get("default_dpi")))),
             At(36, Byte(16 + get("lift_threshold"))), At(37, Byte(get("unknown"))),
             At(38, Byte(get("report_rate")))>>
        \o ButtonPieces(p, 39, 13)

-----------------------------------------------------------------------------
(* ProfileFormatG700 *)

\* The settings that are a byte, and where: they do not overlap.
G700Bytes ==
    [angle |-> 21, unknown0 |-> 23, report_rate |-> 24, unknown1 |-> 25, unknown2 |-> 26,
     unknown3 |-> 27, unknown4 |-> 28, power_mode |-> 29, unknown5 |-> 30, unknown6 |-> 31,
     unknown7 |-> 32, unknown8 |-> 33, unknown9 |-> 34]
G700Settings ==
    [default_dpi |-> IntDesc(0, MaxModeCount - 1, 0), angle |-> IntDesc(0, 255, 128),
     angle_snapping |-> BoolDesc(FALSE), unknown0 |-> IntDesc(0, 255, 16),
     report_rate |-> IntDesc(1, 8, 4), unknown1 |-> IntDesc(0, 255, 0),
     unknown2 |-> IntDesc(0, 255, 44), unknown3 |-> IntDesc(0, 255, 0),
     unknown4 |-> IntDesc(0, 255, 88), power_mode |-> IntDesc(50, 200, 100),
     unknown5 |-> IntDesc(0, 255, 255), unknown6 |-> IntDesc(0, 255, 188),
     unknown7 |-> IntDesc(0, 255, 0), unknown8 |-> IntDesc(0, 255, 9),
     unknown9 |-> IntDesc(0, 255, 49)]

ReadG700(page, sensor) ==
    LET mode(i) == 4 * (i - 1)
    IN  [settings |->
           [default_dpi |-> page[20], angle_snapping |-> page[22] = 2]
           @@ [name \in DOMAIN G700Bytes |-> page[G700Bytes[name]]],
         modes |-> [i \in 1 .. ModeCount([j \in 1 .. MaxModeCount |-> page[mode(j)]]) |->
                       [dpi_x |-> ToDPI(sensor, page[mode(i)]),
                        dpi_y |-> ToDPI(sensor, page[mode(i) + 1]),
                        leds |-> Leds(LEAt(page, mode(i) + 2))]],
         buttons |-> Buttons(page, 35, 13)]

WriteG700(p, sensor, junk) ==
    LET get(name) == Lookup(p.settings, G700Settings, name)
        mode(m) == Byte(Axes(m, sensor, junk).x) \o Byte(Axes(m, sensor, junk).y) \o ModeLeds(m, sensor)
        modes == [i \in DOMAIN p.modes |-> mode(p.modes[i])]
    IN  ModePieces(modes, 0, 4)
        \o <<At(20, Byte(DefaultDpi(p, get("default_dpi")))),
             At(22, Byte(IF get("angle_snapping") THEN 1 ELSE 2))>>
        \o FoldSet(LAMBDA name, pieces : Append(pieces, At(G700Bytes[name], Byte(get(name)))),
                   <<>>, DOMAIN G700Bytes)
        \o ButtonPieces(p, 35, 13)

-----------------------------------------------------------------------------
(* HIDPP20::ProfileFormat.  desc is IOnboardProfiles::Description, with    *)
(* the bits of mechanical_layout and various_info that the format tests:   *)
(* g_shift, dpi_shift, power_modes.                                        *)

HasEffects(desc) == desc.profile_format >= 2
ProfileLength(desc) == IF desc.profile_format = 1 THEN 208 ELSE 230
Layers(desc) == IF desc.g_shift THEN 2 ELSE 1
NameLength == 24

\* RGBEffectOff, Constant, Pulse, Cycle.
Off == 0
Constant == 1
Pulse == 10
Cycle == 3
EffectDescs ==
    [type |-> EnumDesc({Off, Constant, Pulse, Cycle}, Constant),
     color |-> ColorDesc(<<255, 255, 255>>), period |-> IntDesc(0, 65535, 10000),
     brightness |-> IntDesc(0, 100, 100)]

\* "profile name"
ProfileName == <<112, 114, 111, 102, 105, 108, 101, 32, 110, 97, 109, 101>>
\* The settings there are for a device.
Settings20(desc) ==
    [report_rate |-> IntDesc(1, 8, 4), default_dpi |-> IntDesc(0, MaxModeCount - 1, 0),
     color |-> ColorDesc(<<255, 255, 255>>), angle_snapping |-> BoolDesc(FALSE),
     revision |-> IntDesc(0, 65535, 65535), name |-> NameDesc(ProfileName)]
    @@ (IF HasEffects(desc) THEN [logo_effect |-> ComposedDesc(EffectDescs),
                                  side_effect |-> ComposedDesc(EffectDescs)] ELSE <<>>)
    @@ (IF desc.dpi_shift THEN [switched_dpi |-> IntDesc(0, MaxModeCount - 1, 0)] ELSE <<>>)
    @@ (IF desc.power_modes THEN [power_mode |-> EnumDesc({255}, -1)] ELSE <<>>)
Modes20 == [dpi |-> IntDesc(0, 50000, 1200)]

ReadButton20(page, at) ==
    CASE page[at] = 128 /\ page[at + 1] = 1 -> [type |-> "mouse", a |-> BEAt(page, at + 2), b |-> 0]
      [] page[at] = 128 /\ page[at + 1] = 2 -> [type |-> "key", a |-> page[at + 2], b |-> page[at + 3]]
      [] page[at] = 128 /\ page[at + 1] = 3 -> [type |-> "consumer", a |-> BEAt(page, at + 2), b |-> 0]
      [] page[at] = 144 -> [type |-> "special", a |-> page[at + 1], b |-> 0]
      [] page[at] = 0 -> [type |-> "macro", a |-> page[at + 1], b |-> BEAt(page, at + 2)]
      [] OTHER -> Disabled
WriteButton20(button) ==
    CASE button.type = "disabled" -> <<255>>
      [] button.type = "mouse" -> <<128, 1>> \o BE(button.a)
      [] button.type = "key" -> <<128, 2, button.a, button.b>>
      [] button.type = "consumer" -> <<128, 3>> \o BE(button.a)
      [] button.type = "special" -> <<144, button.a>>
      [] button.type = "macro" -> <<0, button.a>> \o BE(button.b)

\* An effect of no known type is read without its type.
ReadRGBEffect(page, at) ==
    (IF page[at] \in EffectDescs.type.values THEN [type |-> page[at]] ELSE <<>>)
    @@ CASE page[at] = Constant -> [color |-> ColorAt(page, at + 1)]
         [] page[at] = Pulse -> [color |-> ColorAt(page, at + 1), period |-> BEAt(page, at + 4),
                                 brightness |-> page[at + 7]]
         [] page[at] = Cycle -> [period |-> BEAt(page, at + 6), brightness |-> page[at + 8]]
         [] OTHER -> <<>>
WriteRGBEffect(effect) ==
    LET get(name) == Lookup(effect, EffectDescs, name)
        type == get("type")
    IN  <<type>> \o CASE type = Constant -> get("color") \o Filled(7, 0)
                      [] type = Pulse -> get("color") \o BE(get("period"))
                                         \o <<0, get("brightness"), 0, 0, 0>>
                      [] type = Cycle -> Filled(5, 0) \o BE(get("period"))
                                         \o <<get("brightness"), 0, 0>>
                      [] OTHER -> Filled(10, 0)

\* Where button j of layer i is.
Button20(i, j) == 32 + 4 * (16 * (i - 1) + j - 1)

Read20(page, desc) ==
    [settings |->
       [report_rate |-> page[0], default_dpi |-> page[1], switched_dpi |-> page[2],
        color |-> ColorAt(page, 13), angle_snapping |-> page[17] # 0,
        revision |-> LEAt(page, 18),
        name |-> [i \in 1 .. NameLength |-> LEAt(page, 160 + 2 * (i - 1))]]
       @@ (IF desc.power_modes THEN [power_mode |-> page[16]] ELSE <<>>)
       @@ (IF HasEffects(desc) THEN [logo_effect |-> ReadRGBEffect(page, 208),
                                     side_effect |-> ReadRGBEffect(page, 219)] ELSE <<>>),
     modes |->
       LET dpi(i) == LEAt(page, 3 + 2 * (i - 1))
           count == Cardinality({i \in 1 .. MaxModeCount : \A j \in 1 .. i : dpi(j) \notin {0, 65535}})
       IN  [i \in 1 .. count |-> [dpi |-> dpi(i)]],
     buttons |->
       [k \in 1 .. Layers(desc) * desc.button_count |->
           ReadButton20(page, Button20((k - 1) \div desc.button_count + 1,
                                       ((k - 1) % desc.button_count) + 1))]]

\* write asks for the setting switched_dpi whether or not the device has it,
\* and for all buttons: without the one it throws, without the others it is
\* undefined.
Throws20(desc) == "switched_dpi" \notin DOMAIN Settings20(desc)
Write20Defined(p, desc) == Len(p.buttons) >= Layers(desc) * desc.button_count
Write20(p, desc) ==
    LET get(name) == Lookup(p.settings, Settings20(desc), name)
        dpi(i) == IF i <= Len(p.modes) THEN Lookup(p.modes[i], Modes20, "dpi") ELSE 0
        unit(i) == IF i <= Len(get("name")) THEN get("name")[i] ELSE 0
    IN  <<At(0, Filled(ProfileLength(desc), 255)), At(0, Byte(get("report_rate"))),
          At(1, Byte(get("default_dpi"))), At(2, Byte(get("switched_dpi")))>>
        \o [i \in 1 .. MaxModeCount |-> At(3 + 2 * (i - 1), LE(dpi(i)))]
        \o <<At(13, get("color"))>>
        \o (IF desc.power_modes THEN <<At(16, Byte(get("power_mode")))>> ELSE <<>>)
        \o <<At(17, Byte(IF get("angle_snapping") THEN 1 ELSE 0)), At(18, LE(get("revision")))>>
        \o FlattenSeq([i \in 1 .. Layers(desc) |-> [j \in 1 .. desc.button_count |->
               At(Button20(i, j), WriteButton20(p.buttons[(i - 1) * desc.button_count + j]))]])
        \o [i \in 1 .. NameLength |-> At(160 + 2 * (i - 1), LE(unit(i)))]
        \o (IF HasEffects(desc) THEN <<At(208, WriteRGBEffect(get("logo_effect"))),
                                       At(219, WriteRGBEffect(get("side_effect")))>> ELSE <<>>)

-----------------------------------------------------------------------------
(* The directories: an entry has the page of its profile and settings; the *)
(* first byte after the last entry is 0xFF.                                *)

DirectorySettings10 == [leds |-> LedsDesc(NoLeds)]
DirectorySettings20 == [enabled |-> BoolDesc(TRUE), dir_unknown |-> IntDesc(0, 255, 0)]

EntryCount(page, size) ==
    LET last(k) == page[size * k] = 255
    IN  CHOOSE k \in 0 .. Cardinality(DOMAIN page) \div size :
            last(k) /\ \A j \in 0 .. k - 1 : ~last(j)
ReadDirectory10(page) ==
    [k \in 1 .. EntryCount(page, 3) |->
        LET at == 3 * (k - 1)
        IN  [page |-> page[at],
             settings |-> [leds |-> [j \in 1 .. 4 |-> (page[at + 2] \div 2 ^ (j - 1)) % 2 = 1]]]]
ReadDirectory20(page) ==
    [k \in 1 .. EntryCount(page, 4) |->
        LET at == 4 * (k - 1)
        IN  [page |-> page[at + 1],
             settings |-> [enabled |-> page[at + 2] # 0, dir_unknown |-> page[at + 3]]]]

LedBits(leds) ==
    FoldLeft(LAMBDA bits, j : bits + (IF leds[j] THEN 2 ^ (j - 1) ELSE 0), 0, <<1, 2, 3, 4>>)
WriteDirectory10(entries) ==
    LET get(e, name) == Lookup(e.settings, DirectorySettings10, name)
    IN  <<At(0, FlattenSeq([k \in DOMAIN entries |->
                    <<entries[k].page, 0, LedBits(get(entries[k], "leds"))>>]) \o <<255>>)>>
WriteDirectory20(entries) ==
    LET get(e, name) == Lookup(e.settings, DirectorySettings20, name)
    IN  <<At(0, FlattenSeq([k \in DOMAIN entries |->
                    <<0, entries[k].page, IF get(entries[k], "enabled") THEN 1 ELSE 0>>
                    \o Byte(get(entries[k], "dir_unknown"))]) \o <<255, 255>>)>>
=============================================================================
