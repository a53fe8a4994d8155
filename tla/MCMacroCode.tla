----------------------------- MODULE MCMacroCode -----------------------------
(* An instance of MacroCode for TLC. *)
EXTENDS MacroCode

Ops1(ops, values) == {Item(op, v, 0, 0) : op \in ops, v \in values}
\* Items with the values at which bytes, signs and roundings change.
MCItems ==
    Ops1(Keys \cup Modifiers, {0, 1, 255})
    \cup {Item(op, a, b, 0) : op \in ModifiersKeys, a \in {0, 2, 255}, b \in {0, 4}}
    \cup Ops1({"MouseWheel"}, {-128, -1, 0, 127})
    \cup Ops1({"MouseHWheel"}, {-1, 1})
    \cup Ops1(Buttons, {1, 3, 128, 256, 32768})
    \cup Ops1({"ConsumerControl", "ConsumerControlPress", "ConsumerControlRelease"},
              {0, 255, 659})
    \cup Ops1({"Delay"}, {0, 128, 255, 256, 65535})
    \cup Ops1({"ShortDelay"}, {0, 8, 9, 10, 131, 132, 135, 136, 387, 388, 395, 396,
                               500, 899, 900, 915, 916, 1000, 1891, 1892, 3000})
    \cup {Item("MousePointer", a, b, 0) : a \in {-32768, -1, 32767}, b \in {0, 255}}

\* Items of one, two and three bytes in HID++1.0, and one of every kind of
\* translation.
MCParts ==
    LET short == Item("ShortDelay", 16, 0, 0)
        key == Item("KeyPress", 4, 0, 0)
        wheel == Item("MouseWheel", 1, 0, 0)
        both == Item("ModifiersKeyRelease", 2, 4, 0)
    IN  {<<>>, <<short>>, <<key>>, <<wheel, short>>, <<short, both>>}

Simple(items) == [type |-> "simple", text |-> MacroToText(items)]
Loop(pre, loop, post, delay) ==
    [type |-> "loop", pre |-> MacroToText(pre), loop |-> MacroToText(loop),
     post |-> MacroToText(post), delay |-> delay]
\* Advanced macros, with jumps of both kinds in both directions, to a label
\* that is given twice, and to one that is missing.
Key(op) == Line(0, op, <<4>>)
MCAdvanced ==
    {<<Key("KeyPress"), Line(7, "MouseWheel", <<1>>), Line(0, "JumpIfReleased", <<300, 9>>),
       Line(7, "ModifiersKeyPress", <<{1}, 4>>), Line(0, "JumpIfPressed", <<7>>),
       Line(9, "KeyRelease", <<4>>), Line(0, "JumpIfPressed", <<8>>),
       Line(8, "End", <<>>)>>,
     <<Line(1, "KeyPress", <<260>>), Line(0, "WaitRelease", <<>>), Key("KeyRelease"),
       Line(0, "RepeatUntilRelease", <<>>), Line(0, "End", <<>>)>>,
     <<Line(3, "KeyPress", <<4>>), Line(0, "JumpIfPressed", <<5>>), Line(0, "End", <<>>)>>}

MCSources ==
    {Simple(s) : s \in {<<>>} \cup {<<a>> : a \in MCItems}}
    \cup {Simple(<<a, Item("KeyPress", 4, 0, 0), a>>) : a \in MCItems}
    \cup {Loop(a, b, c, d) : a \in MCParts, b \in MCParts, c \in MCParts, d \in {0, 300}}
    \cup {[type |-> "advanced", text |-> text] : text \in MCAdvanced}
MCBase == [mem_type |-> 0, page |-> 3]
=============================================================================
