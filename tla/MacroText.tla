------------------------------ MODULE MacroText ------------------------------
(***************************************************************************)
(* Macros as the text of a profile (tools/profile/MacroText.cpp, with the  *)
(* names of hid/UsageStrings.cpp).  A text is a sequence of lines: a label *)
(* (0 for none), an instruction and its parameters.  Keys, controls and    *)
(* integers have one value for all their spellings, a list of modifiers or *)
(* buttons separated by '+' is the set of their numbers.                   *)
(***************************************************************************)
EXTENDS Integers, Sequences, SequencesExt, FiniteSetsExt

(* Items: parameters a and b, and the index of a jump's destination. *)

Item(op, a, b, dest) == [op |-> op, a |-> a, b |-> b, dest |-> dest]
Control(op) == Item(op, 0, 0, 0)
Keys == {"KeyPress", "KeyRelease"}
Modifiers == {"ModifiersPress", "ModifiersRelease"}
ModifiersKeys == {"ModifiersKeyPress", "ModifiersKeyRelease"}
Buttons == {"MouseButtonPress", "MouseButtonRelease"}
Consumers == {"ConsumerControl", "ConsumerControlPress", "ConsumerControlRelease"}
Controls == {"WaitRelease", "RepeatUntilRelease", "RepeatForever", "Jump",
             "JumpIfPressed", "JumpIfReleased", "End"}
Jumps == {"Jump", "JumpIfPressed", "JumpIfReleased"}
IsSimpleItem(item) == item.op \notin Controls
IsJump(item) == item.op \in Jumps

-----------------------------------------------------------------------------
Line(label, op, params) == [label |-> label, op |-> op, params |-> params]

\* modifierString and buttonString; modifierMask.
Bits(mask) == {b \in 0 .. 15 : (mask \div 2 ^ b) % 2 = 1}
Mask(bits) == MapThenSumSet(LAMBDA b : 2 ^ b, bits)
\* buttonMask searches for the '+' it has found before: after the first button
\* of several it takes an empty number, and stoul throws; so does no button.
ButtonMaskDefined(bits) == Cardinality(bits) = 1

\* The destinations of jumps, in the order in which macroToText names them.
Destinations(macro) ==
    FoldLeft(LAMBDA found, item :
                 IF IsJump(item) /\ ~Contains(found, item.dest) THEN Append(found, item.dest)
                 ELSE found,
             <<>>, macro)
LabelOf(macro, i) ==
    LET found == Destinations(macro)
    IN  IF Contains(found, i) THEN CHOOSE k \in DOMAIN found : found[k] = i ELSE 0
Parameters(macro, item) ==
    CASE item.op \in Modifiers \cup Buttons -> <<Bits(item.a)>>
      [] item.op \in ModifiersKeys -> <<Bits(item.a), item.b>>
      [] item.op = "MousePointer" -> <<item.a, item.b>>
      [] item.op = "JumpIfReleased" -> <<item.a, LabelOf(macro, item.dest)>>
      [] item.op \in Jumps \ {"JumpIfReleased"} -> <<LabelOf(macro, item.dest)>>
      [] item.op \in Controls \cup {"NoOp"} -> <<>>
      [] OTHER -> <<item.a>>
\* Faulty variant: the items are numbered, not the destinations.
NumberedText(macro) ==
    [i \in DOMAIN macro |-> Line(i, macro[i].op, Parameters(macro, macro[i]))]
MacroToText(macro) ==
    [i \in DOMAIN macro |->
        Line(LabelOf(macro, i), macro[i].op, Parameters(macro, macro[i]))]

\* The setters keep a byte of a key, and two of buttons and controls.
Value(op, x) ==
    CASE op \in Keys \cup ModifiersKeys -> x % 256
      [] op \in Consumers -> x % 65536
      [] OTHER -> x
FirstOf(line) ==
    CASE line.op \in Modifiers \cup ModifiersKeys \cup Buttons -> Mask(line.params[1])
      [] line.params = <<>> \/ line.op \in Jumps \ {"JumpIfReleased"} -> 0
      [] OTHER -> Value(line.op, line.params[1])
SecondOf(line) ==
    IF line.op \in ModifiersKeys \cup {"MousePointer"} THEN Value(line.op, line.params[2]) ELSE 0
\* Of several lines with a label the first one counts.
Labeled(text, label) == {i \in DOMAIN text : label # 0 /\ text[i].label = label}
ReadsAs(text, line) ==
    Item(line.op, FirstOf(line), SecondOf(line),
         IF line.op \in Jumps THEN Min(Labeled(text, Last(line.params))) ELSE 0)

\* textToMacro: an exception, or the items; none if a jump has no destination.
TextThrows(text) ==
    \E i \in DOMAIN text :
        text[i].op \in Buttons /\ ~ButtonMaskDefined(text[i].params[1])
TextToMacro(text) ==
    IF \E i \in DOMAIN text :
           text[i].op \in Jumps /\ Labeled(text, Last(text[i].params)) = {}
    THEN <<>>
    ELSE [i \in DOMAIN text |-> ReadsAs(text, text[i])]
=============================================================================
