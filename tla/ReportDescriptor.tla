------------------------- MODULE ReportDescriptor --------------------------
(***************************************************************************)
(* How a program finds out which HID++ reports a device has: hidraw's      *)
(* report descriptor, a sequence of bytes, is parsed into the top-level    *)
(* collections with their reports (HID::ReportDescriptor::fromRawData),    *)
(* and the collections that the manufacturer marked are looked for         *)
(* (HIDPP::Dispatcher::checkReportDescriptor).                             *)
(*                                                                         *)
(* Descriptors that pop more contexts than they push, or that have a field *)
(* before their first collection, are undefined behaviour of the parser    *)
(* and are none of its inputs here.                                        *)
(***************************************************************************)
EXTENDS Integers, SequencesExt, TLC

-----------------------------------------------------------------------------
(* Items. *)

CutOff == [type |-> "cut off"]
Types == <<"Main", "Global", "Local", "Long">>
\* The first item of data, and where the next one begins.
ReadItem(data) ==
    LET long == data[1] = 254
        size == IF long THEN (IF Len(data) < 2 THEN 0 ELSE data[2])
                ELSE <<0, 1, 2, 4>>[1 + (data[1] % 4)]
        header == IF long THEN 3 ELSE 1
    IN  IF Len(data) < header + size THEN CutOff
        ELSE [type |-> Types[IF long THEN 4 ELSE 1 + ((data[1] \div 4) % 4)],
              tag |-> IF long THEN data[3] ELSE data[1] \div 16,
              data |-> SubSeq(data, header + 1, header + size),
              next |-> header + size + 1]
RECURSIVE Items(_)
Items(data) ==
    IF data = <<>> THEN <<>>
    ELSE LET item == ReadItem(data)
         IN  <<item>> \o IF item = CutOff THEN <<>> ELSE Items(SubSeq(data, item.next, Len(data)))

Number(bytes) == FoldRight(LAMBDA byte, n : byte + 256 * n, bytes, 0)
ItemUsage(item, page) ==
    IF Len(item.data) = 4 THEN <<Number(SubSeq(item.data, 3, 4)), Number(SubSeq(item.data, 1, 2))>>
    ELSE <<page, Number(item.data)>>

-----------------------------------------------------------------------------
(* The parser.  `global' is a stack of contexts; `usages', `min' and `max' *)
(* are the local context, which ends with each main item; `fields' of a    *)
(* collection are those of its reports, by type and ID.                    *)

Unset == <<0, 0>>
Start0 ==
    [global |-> <<[page |-> 0, size |-> 0, id |-> 0, count |-> 0]>>,
     usages |-> <<>>, min |-> Unset, max |-> Unset,
     delimiter |-> "Closed", collections |-> <<>>, depth |-> 0, thrown |-> FALSE]
Throw(s) == [s EXCEPT !.thrown = TRUE]
SetGlobal(s, name, item, width) ==
    IF Len(item.data) > width THEN Throw(s)
    ELSE [s EXCEPT !.global[Len(s.global)][name] = Number(item.data)]

\* Input, Output and Feature; constant fields without usages are padding.
AddField(s, item) ==
    LET context == Last(s.global)
        report == <<item.tag, context.id>>
        fields == Last(s.collections).fields
        old == IF report \in DOMAIN fields THEN fields[report] ELSE <<>>
        flags == Number(item.data)
        field == [flags |-> flags, count |-> context.count, size |-> context.size, usages |-> s.usages]
        padding == s.usages = <<>> /\ s.min = Unset /\ s.max = Unset /\ flags % 2 = 1
    IN  [s EXCEPT !.collections[Len(s.collections)].fields =
            (report :> IF padding THEN old ELSE Append(old, field)) @@ fields]
OpenCollection(s) ==
    IF s.depth > 0 THEN [s EXCEPT !.depth = @ + 1]
    ELSE IF Len(s.usages) # 1 THEN Throw(s)
    ELSE [s EXCEPT !.depth = 1,
                   !.collections = Append(@, [usage |-> s.usages[1], fields |-> <<>>])]
MainItem(s, item) ==
    LET done == CASE item.tag \in {8, 9, 11} -> AddField(s, item)
                  [] item.tag = 10 -> OpenCollection(s)
                  [] item.tag = 12 -> IF s.depth = 0 THEN Throw(s) ELSE [s EXCEPT !.depth = @ - 1]
                  [] OTHER -> s
    IN  [done EXCEPT !.usages = <<>>, !.min = Unset, !.max = Unset]
GlobalItem(s, item) ==
    CASE item.tag = 0 -> SetGlobal(s, "page", item, 2)
      [] item.tag = 7 -> SetGlobal(s, "size", item, 4)
      [] item.tag = 8 -> SetGlobal(s, "id", item, 1)
      [] item.tag = 9 -> SetGlobal(s, "count", item, 4)
      [] item.tag = 10 -> [s EXCEPT !.global = Append(@, Last(@))]
      [] item.tag = 11 -> [s EXCEPT !.global = Front(@)]
      [] OTHER -> s
\* Of the alternatives between two delimiters the first is taken.
LocalItem(s, item) ==
    LET usage == ItemUsage(item, Last(s.global).page)
        named == item.tag \in {1, 2} \/ (item.tag = 0 /\ s.delimiter # "OpenedOthers")
    IN  CASE named /\ item.data = <<>> -> Throw(s)
          [] item.tag = 0 /\ s.delimiter = "OpenedOthers" -> s
          [] item.tag = 0 /\ s.delimiter # "OpenedOthers" ->
               [s EXCEPT !.usages = Append(@, usage),
                         !.delimiter = IF @ = "OpenedFirst" THEN "OpenedOthers" ELSE @]
          [] item.tag = 1 -> [s EXCEPT !.min = usage]
          [] item.tag = 2 -> [s EXCEPT !.max = usage]
          [] item.tag = 10 /\ Number(item.data) = 1 ->
               IF s.delimiter # "Closed" THEN Throw(s) ELSE [s EXCEPT !.delimiter = "OpenedFirst"]
          [] item.tag = 10 /\ Number(item.data) = 0 ->
               IF s.delimiter = "Closed" THEN Throw(s) ELSE [s EXCEPT !.delimiter = "Closed"]
          [] OTHER -> s
ParseItem(s, item) ==
    CASE s.thrown -> s
      [] ~s.thrown /\ item.type = "cut off" -> Throw(s)
      [] ~s.thrown /\ item.type = "Main" -> MainItem(s, item)
      [] ~s.thrown /\ item.type = "Global" -> GlobalItem(s, item)
      [] ~s.thrown /\ item.type = "Local" -> LocalItem(s, item)
      [] OTHER -> s
FromRawData(data) == FoldLeft(ParseItem, Start0, Items(data))

\* RawDevice::RawDevice takes a descriptor that cannot be parsed for an empty
\* one; collections that are not closed are fine.
Collections(data) ==
    LET parsed == FromRawData(data) IN IF parsed.thrown THEN <<>> ELSE parsed.collections

-----------------------------------------------------------------------------
(* The HID++ reports.  A report's flag is also its usage, and a part of    *)
(* that of its collection.                                                 *)

ReportTypes == {"Short", "Long", "VeryLong"}
ReportID == [Short |-> 16, Long |-> 17, VeryLong |-> 18]
Flag == [Short |-> 1, Long |-> 2, VeryLong |-> 4]
ReportLength == [Short |-> 7, Long |-> 20, VeryLong |-> 64]
ParameterLength(type) == ReportLength[type] - 4

\* One field of data, an array of bytes.
HasReport(collection, way, type, usage) ==
    LET report == <<way, ReportID[type]>>
    IN  /\ report \in DOMAIN collection.fields
        /\ Len(collection.fields[report]) = 1
        /\ LET field == collection.fields[report][1]
           IN  /\ field.flags % 4 = 0
               /\ field.count = ReportLength[type] - 1 /\ field.size = 8
               /\ field.usages = <<usage>>

\* The collections that take part: the first one decides on the scheme, and
\* in the modern one on the reports to expect.
Scheme(page) == IF page = 65347 THEN "Modern" ELSE IF page = 65280 THEN "Legacy" ELSE "Unknown"
CheckCollection(s, collection) ==
    LET page == collection.usage[1]
        expected == collection.usage[2] \div 256
        found == {type \in ReportTypes :
                    /\ Flag[type] = collection.usage[2] % 256
                    /\ \A way \in {8, 9} : HasReport(collection, way, type, <<page, Flag[type]>>)}
        first == s.scheme = "Unknown"
        agrees == s.scheme = Scheme(page) /\ expected = IF s.scheme = "Modern" THEN s.expected ELSE 0
    IN  IF Scheme(page) = "Unknown" \/ ~(first \/ agrees) THEN s
        ELSE [scheme |-> Scheme(page), expected |-> IF first THEN expected ELSE s.expected,
              reports |-> s.reports \cup found]
CheckReportDescriptor(data) ==
    FoldLeft(CheckCollection, [scheme |-> "Unknown", expected |-> 0, reports |-> {}],
             Collections(data)).reports

\* Some report has room for that many bytes of parameters.
FindReport(reports, length) == \E type \in reports : length <= ParameterLength(type)
=============================================================================
