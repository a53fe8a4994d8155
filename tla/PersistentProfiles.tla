-------------------------- MODULE PersistentProfiles --------------------------
(***************************************************************************)
(* The tools hidpp-persistent-profiles and hidpp10-load-temp-profile, with *)
(* ProfileXML (src/src/tools): profiles and their macros are read from a   *)
(* document, laid out in a copy of the mouse's pages, and synced page by   *)
(* page; or read from the mouse and printed as a document.                 *)
(*                                                                         *)
(* A document is a sequence of profile elements, each a sequence of        *)
(* [name, value]: "modes" has a sequence of settings by name, "buttons"    *)
(* one of [button, macro], and any other name is that of a setting.        *)
(* A macro is its bytes; each is an instruction and the END one.  How      *)
(* pages are read and written is the matter of IMemory and MemoryMapping,  *)
(* how long macros are split that of Macro.                                *)
(***************************************************************************)
EXTENDS ProfileFormat

CONSTANTS
    Mice,      \* the devices
    Documents, \* by mouse format: a sequence of documents
    LastPage,  \* bound: the pages of the device
    Junk,      \* what an undefined search or button may come to
    MaxRuns    \* bound: how often a tool is run

DirectoryPage(m) == IF m.protocol = 1 THEN 1 ELSE 0
Pages == 0 .. LastPage
CRCLength == 2
EndOfMacro == 255

VARIABLES
    mouse,     \* the mouse
    flash,     \* its pages
    ram,       \* its RAM: page 0, and the profile loaded from there if loaded
    loaded,    \* the profile that was loaded from RAM, if any
    tool,      \* "idle", "layout", "sync", or how the last run ended
    source,    \* the dump that run wrote back, if that is what it did
    doc,       \* the profiles it writes
    next,      \* the one to lay out next
    address,   \* macro_address
    cache,     \* the memory mapping's pages
    dirty,     \* the pages it has to write
    last,      \* what the last sync that ended wrote (history)
    held,      \* pages that hold a profile (history)
    cut,       \* a sync was cut short since (history)
    named,     \* how many profiles the mouse had when the tool started (history)
    grown,     \* ... one with more profiles than that (history)
    dump,      \* the profiles that were read from the mouse
    runs

toolVars == <<tool, source, doc, next, address, cache, dirty>>
history == <<last, held, cut, named, grown>>
vars == <<mouse, flash, ram, loaded, toolVars, history, dump, runs>>

-----------------------------------------------------------------------------
(* getProfileFormat, getProfileDirectoryFormat                             *)

Settings(m) ==
    CASE m.format = "G9" -> G9Settings
      [] m.format = "G500" -> G500Settings
      [] m.format = "G700" -> G700Settings
      [] OTHER -> Settings20(m.desc)
ModeSettings(m) ==
    CASE m.format = "G9" -> G9Modes(m.sensor)
      [] m.format \in {"G500", "G700"} -> TwoAxesModes(m.sensor)
      [] OTHER -> Modes20
EntrySettings(m) == IF m.protocol = 1 THEN DirectorySettings10 ELSE DirectorySettings20
ReadProfile(m, page) ==
    CASE m.format = "G9" -> ReadG9(page, m.sensor)
      [] m.format = "G500" -> ReadG500(page, m.sensor)
      [] m.format = "G700" -> ReadG700(page, m.sensor)
      [] OTHER -> Read20(page, m.desc)
WriteProfile(m, p, page, junk) ==
    Written(page, CASE m.format = "G9" -> WriteG9(p, m.sensor, junk.index)
                    [] m.format = "G500" -> WriteG500(p, m.sensor, junk.index)
                    [] m.format = "G700" -> WriteG700(p, m.sensor, junk.index)
                    [] OTHER -> Write20([p EXCEPT !.buttons = @ \o [i \in 1 .. 32 |-> junk.button]],
                                        m.desc))
ReadEntries(m, page) == IF m.protocol = 1 THEN ReadDirectory10(page) ELSE ReadDirectory20(page)
WriteEntries(m, entries, page) ==
    Written(page, IF m.protocol = 1 THEN WriteDirectory10(entries) ELSE WriteDirectory20(entries))

\* The formats give an exception, or undefined behaviour.
Throws(m) == m.protocol = 2 /\ Throws20(m.desc)
Defined(m, p) ==
    IF m.protocol = 2 THEN Write20Defined(p, m.desc)
    ELSE \A i \in 1 .. Len(p.modes) :
            i <= MaxModeCount =>
               \A name \in DOMAIN ModeSettings(m) \ {"leds"} :
                   FromDPIDefined(m.sensor, Lookup(p.modes[i], ModeSettings(m), name))

-----------------------------------------------------------------------------
(* ProfileXML *)

Known(element, descs) == element.name \in DOMAIN descs
\* buttonMask throws when it is given the mask of several buttons, or of none.
OneButton(mask) == \E b \in 0 .. 15 : mask = 2 ^ b
\* readSetting has a value for each setting of this element that is known.
Readable(element, m) ==
    CASE element.name = "modes" ->
           \A i \in DOMAIN element.value :
              \A name \in DOMAIN element.value[i] \cap DOMAIN ModeSettings(m) :
                  HasText(ModeSettings(m)[name], element.value[i][name])
      [] element.name = "buttons" ->
           \A i \in DOMAIN element.value :
              element.value[i].button.type = "mouse" => OneButton(element.value[i].button.a)
      [] Known(element, EntrySettings(m)) -> HasText(EntrySettings(m)[element.name], element.value)
      [] Known(element, Settings(m)) -> HasText(Settings(m)[element.name], element.value)
      [] OTHER -> TRUE

\* Of several elements for a setting the first one counts.
Named(elements, name) == {i \in DOMAIN elements : elements[i].name = name}
Values(elements, descs) ==
    [name \in {n \in DOMAIN descs : Named(elements, n) # {}} |->
        Reread(descs[name], elements[Min(Named(elements, name))].value)]
ReadMode(m, mode) ==
    [name \in DOMAIN mode \cap DOMAIN ModeSettings(m) |-> Reread(ModeSettings(m)[name], mode[name])]
\* ProfileXML::read: modes add up, the last buttons count.
ReadXML(m, elements) ==
    LET buttons == IF Named(elements, "buttons") = {} THEN <<>>
                   ELSE elements[Max(Named(elements, "buttons"))].value
    IN  [settings |-> Values(elements, [n \in DOMAIN Settings(m) \ DOMAIN EntrySettings(m) |-> Settings(m)[n]]),
         entry |-> Values(elements, EntrySettings(m)),
         modes |-> FlattenSeq([i \in DOMAIN elements |->
                       IF elements[i].name = "modes"
                       THEN [j \in DOMAIN elements[i].value |-> ReadMode(m, elements[i].value[j])]
                       ELSE <<>>]),
         buttons |-> [i \in DOMAIN buttons |-> buttons[i].button],
         macros |-> [i \in DOMAIN buttons |-> buttons[i].macro]]

\* insertButton keeps a byte of a consumer control.
PrintedButton(button) ==
    IF button.type = "consumer" THEN [button EXCEPT !.a = @ % 256] ELSE button
Elements(settings) ==
    FoldSet(LAMBDA name, elements : Append(elements, [name |-> name, value |-> settings[name]]),
            <<>>, DOMAIN settings)
\* ProfileXML::write.
WriteXML(p) ==
    Elements(p.entry) \o <<[name |-> "modes", value |-> p.modes]>> \o Elements(p.settings)
    \o <<[name |-> "buttons",
          value |-> [i \in DOMAIN p.buttons |-> [button |-> PrintedButton(p.buttons[i]),
                                                 macro |-> p.macros[i]]]]>>

-----------------------------------------------------------------------------
Init ==
    /\ mouse \in Mice
    /\ flash = [page \in Pages |-> [i \in 0 .. mouse.pageSize - 1 |-> 255]]
    /\ ram = [i \in 0 .. mouse.pageSize - 1 |-> 0]
    /\ loaded = <<>>
    /\ tool = "idle" /\ source = <<>>
    /\ doc = <<>> /\ next = 1 /\ address = <<0, 0>>
    /\ cache = <<>> /\ dirty = {}
    /\ last = <<>> /\ held = {} /\ cut = FALSE /\ named = 0 /\ grown = FALSE
    /\ dump = <<>>
    /\ runs = 0

Ended == tool \in {"idle", "refused", "threw", "died"}
ProfilePage(k) == mouse.firstPage + k - 1

\* The tool is started and reads its document; one that it cannot read ends
\* it.  Pages are read as they are needed: nobody else writes to the mouse.
Start(elements, from) ==
    /\ Ended /\ runs < MaxRuns
    /\ runs' = runs + 1
    /\ source' = from
    /\ IF \A k \in DOMAIN elements : \A i \in DOMAIN elements[k] : Readable(elements[k][i], mouse)
       THEN /\ tool' = "layout"
            /\ doc' = [k \in DOMAIN elements |-> ReadXML(mouse, elements[k])]
            /\ next' = 1
            /\ address' = <<ProfilePage(Len(elements) + 1), 0>>
            /\ cache' = flash
            /\ dirty' = {}
       ELSE tool' = "refused" /\ UNCHANGED <<doc, next, address, cache, dirty>>
    /\ named' = Len(ReadEntries(mouse, flash[DirectoryPage(mouse)]))
    /\ UNCHANGED <<mouse, flash, ram, loaded, last, held, cut, grown, dump>>

WriteFile ==
    \E i \in DOMAIN Documents[mouse.format] : Start(Documents[mouse.format][i], <<>>)
WriteDump ==
    /\ dump # <<>>
    /\ Start([k \in DOMAIN dump |-> WriteXML(dump[k])], dump)

\* Where Macro::write puts a macro: it moves to the next page if it does not
\* fit in this one.
Place(size, place, bytes) ==
    IF place[2] + Len(bytes) + CRCLength > size THEN <<place[1] + 1, 0>> ELSE place
\* The macros of the buttons of a profile, from an address.
PlaceMacros(size, p, start) ==
    FoldLeft(LAMBDA acc, i :
        IF p.buttons[i].type # "macro" THEN acc
        ELSE LET place == Place(size, acc.next, p.macros[i])
             IN  [next |-> <<place[1], place[2] + Len(p.macros[i])>>,
                  at |-> acc.at @@ (i :> place)],
        [next |-> start, at |-> <<>>], [i \in DOMAIN p.buttons |-> i])
\* The buttons get the addresses in the units of the mouse.
WithMacros(m, p, at) ==
    [p EXCEPT !.buttons = [i \in DOMAIN @ |->
        IF i \in DOMAIN at THEN [type |-> "macro", a |-> at[i][1], b |-> at[i][2] \div m.unit] ELSE @[i]]]
PutMacros(pages, p, at) ==
    [page \in DOMAIN pages |->
        Written(pages[page], [i \in DOMAIN p.buttons |->
            IF i \in DOMAIN at /\ at[i][1] = page THEN At(at[i][2], p.macros[i]) ELSE At(0, <<>>)])]

\* The macros of the next profile, then the profile.
LayOut ==
    /\ tool = "layout" /\ next <= Len(doc)
    /\ LET p == doc[next]
           placed == PlaceMacros(mouse.pageSize, p, address)
           pages == {placed.at[i][1] : i \in DOMAIN placed.at} \cup {ProfilePage(next)}
       IN  IF Throws(mouse) \/ ~(pages \subseteq Pages)
           THEN tool' = "threw" /\ UNCHANGED <<next, address, cache, dirty>>
           ELSE \/ /\ \E junk \in Junk :
                        cache' = [PutMacros(cache, p, placed.at) EXCEPT
                            ![ProfilePage(next)] = WriteProfile(mouse, WithMacros(mouse, p, placed.at), @, junk)]
                   /\ address' = placed.next
                   /\ dirty' = dirty \cup pages
                   /\ next' = next + 1
                   /\ UNCHANGED tool
                \/ ~Defined(mouse, p) /\ tool' = "died" /\ UNCHANGED <<next, address, cache, dirty>>
    /\ UNCHANGED <<mouse, flash, ram, loaded, source, doc, history, dump, runs>>

LayOutDirectory ==
    /\ tool = "layout" /\ next > Len(doc)
    /\ LET entries == [k \in DOMAIN doc |-> [page |-> ProfilePage(k), settings |-> doc[k].entry]]
       IN  cache' = [cache EXCEPT ![DirectoryPage(mouse)] = WriteEntries(mouse, entries, @)]
    /\ dirty' = dirty \cup {DirectoryPage(mouse)}
    /\ tool' = "sync"
    /\ UNCHANGED <<mouse, flash, ram, loaded, source, doc, next, address, history, dump, runs>>

ProfilePages == {ProfilePage(k) : k \in DOMAIN doc}
\* Faulty variant: the last page first.
LastFirst(pages) == Max(pages)
\* AbstractMemoryMapping::sync: the pages in the order of their addresses,
\* each with its CRC.
NextPage(pages) == Min(pages)
WithCrc(page) == Put(page, At(mouse.pageSize - CRCLength, Filled(CRCLength, 170)))
SyncPage ==
    /\ tool = "sync" /\ dirty # {}
    /\ LET page == NextPage(dirty)
       IN  /\ flash' = [flash EXCEPT ![page] = WithCrc(cache[page])]
           /\ dirty' = dirty \ {page}
           /\ held' = IF page \in ProfilePages THEN held \cup {page} ELSE held \ {page}
    /\ UNCHANGED <<mouse, ram, loaded, tool, source, doc, next, address, cache, last, cut, named,
                   grown, dump, runs>>
SyncEnds ==
    /\ tool = "sync" /\ dirty = {}
    /\ tool' = "idle"
    /\ last' = doc
    /\ cut' = FALSE /\ grown' = FALSE
    /\ UNCHANGED <<mouse, flash, ram, loaded, source, doc, next, address, cache, dirty, held, named,
                   dump, runs>>

\* The tool is killed, or the mouse unplugged.
Killed ==
    /\ tool \in {"layout", "sync"}
    /\ tool' = "idle"
    /\ cut' = (cut \/ tool = "sync")
    /\ grown' = (grown \/ (tool = "sync" /\ Len(doc) > named))
    /\ UNCHANGED <<mouse, flash, ram, loaded, source, doc, next, address, cache, dirty, last, held,
                   named, dump, runs>>

-----------------------------------------------------------------------------
\* The bytes of a macro, from an address to its END.
MacroAt(pages, page, offset) ==
    LET end == Min({i \in DOMAIN pages[page] : i >= offset /\ pages[page][i] = EndOfMacro})
    IN  [i \in 1 .. end - offset + 1 |-> pages[page][offset + i - 1]]
\* A profile of the mouse, its macros and its entry in the directory.
Stored(m, pages, page, settings) ==
    LET p == ReadProfile(m, pages[page])
    IN  [settings |-> p.settings, modes |-> p.modes, buttons |-> p.buttons, entry |-> settings,
         macros |-> [i \in DOMAIN p.buttons |->
                        IF p.buttons[i].type = "macro"
                        THEN MacroAt(pages, p.buttons[i].a, p.buttons[i].b * m.unit) ELSE <<>>]]
StoredProfiles ==
    LET entries == ReadEntries(mouse, flash[DirectoryPage(mouse)])
    IN  [k \in DOMAIN entries |-> Stored(mouse, flash, entries[k].page, entries[k].settings)]

\* hidpp-persistent-profiles read.  Of a mouse whose pages do not belong
\* together it is not modelled.
Dump ==
    /\ Ended /\ ~cut /\ runs < MaxRuns
    /\ dump # StoredProfiles
    /\ dump' = StoredProfiles
    /\ runs' = runs + 1
    /\ UNCHANGED <<mouse, flash, ram, loaded, toolVars, history>>

\* hidpp10-load-temp-profile: the macros follow the profile in page 0.
LoadTemporary ==
    /\ Ended /\ runs < MaxRuns
    /\ mouse.protocol = 1
    /\ \E i \in DOMAIN Documents[mouse.format] :
         LET elements == Documents[mouse.format][i][1]
             p == ReadXML(mouse, elements)
             placed == PlaceMacros(mouse.pageSize, p, <<0, 2 * ((mouse.profileSize + 1) \div 2)>>)
         IN  /\ \A j \in DOMAIN elements : Readable(elements[j], mouse)
             /\ \A j \in DOMAIN placed.at : placed.at[j][1] = 0
             /\ \E junk \in Junk :
                    ram' = WriteProfile(mouse, WithMacros(mouse, p, placed.at),
                                        PutMacros(0 :> ram, p, placed.at)[0], junk)
             /\ loaded' = <<p>>
    /\ runs' = runs + 1
    /\ UNCHANGED <<mouse, flash, toolVars, history, dump>>

Next ==
    \/ WriteFile \/ WriteDump
    \/ LayOut \/ LayOutDirectory \/ SyncPage \/ SyncEnds
    \/ Killed
    \/ Dump \/ LoadTemporary

Spec == Init /\ [][Next]_vars

-----------------------------------------------------------------------------
(* A setting that is not given, or not valid, has its default.  Of a G9    *)
(* the second and third byte of the color are those of unknown0 and of the *)
(* first mode; a G500 or G700 is told the opposite of angle_snapping;      *)
(* an effect has the values of its type, a name 24 units.                  *)
EffectShown(written, read) ==
    LET type == Lookup(written, EffectDescs, "type")
        shown == {"type"} \cup CASE type = Constant -> {"color"}
                                 [] type = Pulse -> {"color", "period", "brightness"}
                                 [] type = Cycle -> {"period", "brightness"}
                                 [] OTHER -> {}
    IN  read = [name \in shown |-> Lookup(written, EffectDescs, name)]
SettingShown(m, p, r, name) ==
    LET value == Lookup(p.settings, Settings(m), name)
        read == r.settings[name]
    IN  CASE name = "color" /\ m.format = "G9" -> read[1] = value[1]
          [] name = "angle_snapping" /\ m.format \in {"G500", "G700"} -> read = ~value
          [] name = "default_dpi" /\ m.protocol = 1 ->
               IF p.modes = <<>> THEN read \notin 0 .. MaxModeCount - 1
               ELSE read = IF value < Len(p.modes) THEN value ELSE Len(p.modes) - 1
          [] name = "default_dpi_bit7" -> read = (value \/ p.modes = <<>>)
          [] name \in {"logo_effect", "side_effect"} -> EffectShown(value, read)
          [] name = "name" -> \A i \in 1 .. NameLength : read[i] = IF i <= Len(value) THEN value[i] ELSE 0
          [] name = "power_mode" -> read = value % 256
          [] OTHER -> read = value

\* A resolution is the nearest one the sensor has; an undefined search leaves
\* any; a HID++2.0 mode without resolution ends the list, and a HID++1.0
\* profile without modes is read as one without resolution.
ModeShown(m, mode, read) ==
    \A name \in DOMAIN ModeSettings(m) :
        LET x == LookupOr(mode, ModeSettings(m), name,
                          IF name = "dpi_y" THEN Lookup(mode, ModeSettings(m), "dpi_x")
                          ELSE ModeSettings(m)[name].default)
        IN  CASE name = "leds" -> read.leds = x
              [] m.protocol = 2 -> read[name] = x
              [] m.sensor.kind = "list" -> FromDPIDefined(m.sensor, x) => read[name] = 200
              [] OTHER -> read[name] - x \in -m.step \div 2 .. m.step \div 2
ModesShown(m, p, r) ==
    LET given == Cardinality({i \in 1 .. MaxModeCount :
                     /\ i <= Len(p.modes)
                     /\ m.protocol = 2 => \A j \in 1 .. i : Lookup(p.modes[j], Modes20, "dpi") # 0})
    IN  IF m.protocol = 1 /\ p.modes = <<>>
        THEN Len(r.modes) = 1 /\ r.modes[1].leds = <<>>
        ELSE Len(r.modes) = given /\ \A i \in 1 .. given : ModeShown(m, p.modes[i], r.modes[i])

\* Buttons that are not given are disabled; a macro is found where its button
\* says.  Those of HID++2.0 profiles are then undefined.
ButtonsShown(m, p, r) ==
    \A i \in DOMAIN r.buttons :
        IF i > Len(p.buttons) THEN m.protocol = 2 \/ r.buttons[i] = Disabled
        ELSE IF p.buttons[i].type = "macro"
             THEN r.buttons[i].type = "macro" /\ r.macros[i] = p.macros[i]
             ELSE r.buttons[i] = p.buttons[i]

\* r is what profile p, written to mouse m, must be read as.
Shown(m, p, r) ==
    /\ \A name \in DOMAIN Settings(m) : SettingShown(m, p, r, name)
    /\ ModesShown(m, p, r)
    /\ ButtonsShown(m, p, r)

(* Between runs the mouse has the profiles of the last document that was   *)
(* written, all settings, modes, buttons and macros of them, but for what  *)
(* Shown tells; and one in RAM, with its macros, is the one to be loaded.  *)
ReadsBack ==
    /\ Ended /\ ~cut /\ last # <<>> =>
          /\ Len(StoredProfiles) = Len(last)
          /\ \A k \in DOMAIN last : Shown(mouse, last[k], StoredProfiles[k])
          /\ \A k \in DOMAIN last : \A name \in DOMAIN EntrySettings(mouse) :
                StoredProfiles[k].entry[name] = Lookup(last[k].entry, EntrySettings(mouse), name)
    /\ loaded # <<>> => Shown(mouse, loaded[1], Stored(mouse, 0 :> ram, 0, <<>>))

(* What the tool read of a mouse it can write again, and then reads the    *)
(* same, but for angle_snapping of a G500 or G700, which turns over, for   *)
(* consumer controls, of which insertButton prints a byte, and for the     *)
(* resolutions of a G9, for which the search of its sensor is undefined    *)
(* (the first is also a byte of its color).                                *)
(* What is refused has a button that stands for several mouse buttons, or  *)
(* was written without modes, to a HID++1.0 mouse: the one mode it has     *)
(* then has no LEDs, and its default_dpi is none.                          *)
Again(m, r) ==
    [r EXCEPT !.buttons = [i \in DOMAIN @ |-> PrintedButton(@[i])],
              !.settings = [name \in DOMAIN @ |->
                  IF name = "angle_snapping" /\ m.format \in {"G500", "G700"} THEN ~@[name] ELSE @[name]]]
Leaving(m, r) ==
    IF m.format # "G9" THEN r
    ELSE [r EXCEPT !.modes = [i \in DOMAIN @ |-> @[i].leds], !.settings.color = SubSeq(@, 1, 2)]
DumpRestores ==
    source # <<>> =>
        /\ tool = "refused" => \E k \in DOMAIN source :
              \/ mouse.protocol = 1 /\ source[k].modes[1].leds = <<>>
              \/ \E i \in DOMAIN source[k].buttons :
                    source[k].buttons[i].type = "mouse" /\ ~OneButton(source[k].buttons[i].a)
        /\ tool = "died" => mouse.format = "G9"
        /\ tool # "threw"
        /\ tool = "idle" /\ ~cut /\ last = doc =>
              \A k \in DOMAIN source :
                 Leaving(mouse, StoredProfiles[k]) = Leaving(mouse, Again(mouse, source[k]))

(* The directory never names a page without a profile, though it is synced *)
(* before the profiles it names (the lowest address first): only a sync of *)
(* more profiles than there were can leave such an entry, if it is cut.    *)
NamedProfilesStored ==
    LET entries == ReadEntries(mouse, flash[DirectoryPage(mouse)])
    IN  ~grown /\ tool # "sync" => \A k \in DOMAIN entries : entries[k].page \in held
=============================================================================
