------------------------------ MODULE MacroCode ------------------------------
(***************************************************************************)
(* What a macro goes through between two profile files: it is read from a  *)
(* <macro> element, built from its parts (Macro::buildSimple, buildLoop),  *)
(* written as the byte code of HID++ 1.0 or 2.0 (hidpp10/MacroFormat.cpp,  *)
(* hidpp20/MacroFormat.cpp), parsed, simplified, recognized by isSimple    *)
(* and isLoop and printed again.  Then the device plays it, with a button  *)
(* that is released at some time.                                          *)
(*                                                                         *)
(* Pages and jumps between them are Macro's subject; here the code is in   *)
(* one page, from its beginning.                                           *)
(***************************************************************************)
EXTENDS MacroText

CONSTANTS
    Sources,    \* <macro> elements: [type, text], or [type, pre, loop, post, delay]
    Base,       \* the page: [mem_type, page]
    MaxPlayed   \* bound: what is played before the button is released

VARIABLES
    format,     \* "HID++1.0" or "HID++2.0"
    element,    \* the <macro> element
    pc,
    macro,      \* the list of items (of the writer, then of the parser)
    next,       \* index of the next item to write
    code,       \* bytes written so far
    offsets,    \* of items that were written, by index
    holes,      \* positions of the jumps' addresses, by index
    places,     \* positions of the items that were parsed
    ip,         \* the item the device executes
    pressed,    \* the button
    played,     \* what the macro did
    releasedAt  \* how much of it when the button was released

writeVars == <<next, code, offsets, holes>>
playVars == <<ip, pressed, played, releasedAt>>
vars == <<format, element, pc, macro, writeVars, places, playVars>>

-----------------------------------------------------------------------------
(* Macro::buildSimple and buildLoop: a destination is an index, and         *)
(* list::insert gives the iterator behind the list when it inserts nothing. *)

BuildSimple(items) == items \o <<Control("End")>>

\* The position of what insert returned, when the list then has n items.
Inserted(before, what, n) == IF what = <<>> THEN n + 1 ELSE Len(before) + 1

\* Faulty variant: the loop jumps back to the beginning of the macro.
BuildLoopFromStart(p) ==
    IF p.loop = <<>>
      THEN p.pre \o <<Control("WaitRelease")>> \o p.post \o <<Control("End")>>
      ELSE p.pre \o p.loop \o <<Item("JumpIfPressed", 0, 0, 1)>> \o p.post
           \o <<Control("End")>>
BuildLoop(p) ==
    CASE p.loop = <<>> ->
           p.pre \o <<Control("WaitRelease")>> \o p.post \o <<Control("End")>>
      [] p.loop # <<>> /\ p.delay > 0 ->
           LET length == Len(p.pre) + Len(p.loop) + Len(p.post) + 3
               loopStart == Len(p.pre) + 2
               upToLoop == p.pre \o <<Control("JumpIfReleased")>> \o p.loop
                           \o <<Control("JumpIfPressed")>>
           IN  p.pre
               \o <<Item("JumpIfReleased", p.delay, 0, Inserted(upToLoop, p.post, length))>>
               \o p.loop \o <<Item("JumpIfPressed", 0, 0, loopStart)>>
               \o p.post \o <<Control("End")>>
      [] p.loop # <<>> /\ p.delay = 0 /\ p.pre = <<>> ->
           p.loop \o <<Control("RepeatUntilRelease")>> \o p.post \o <<Control("End")>>
      [] OTHER ->
           p.pre \o p.loop \o <<Item("JumpIfPressed", 0, 0, Len(p.pre) + 1)>>
           \o p.post \o <<Control("End")>>

-----------------------------------------------------------------------------
(* Macro::isSimple and isLoop *)

IsSimple(m) ==
    /\ m # <<>> /\ m[Len(m)].op = "End"
    /\ \A i \in 1 .. Len(m) - 1 : IsSimpleItem(m[i])

ControlsOf(m) == SelectSeq([i \in DOMAIN m |-> i], LAMBDA i : ~IsSimpleItem(m[i]))
\* The items up to the first End.
UpToEnd(m) ==
    SubSeq(m, 1, CHOOSE i \in DOMAIN m : m[i].op = "End" /\ \A j \in 1 .. i - 1 : m[j].op # "End")
NoParts == [pre |-> <<>>, loop |-> <<>>, post |-> <<>>, delay |-> -1]
Split(m, preEnd, loopBegin, loopEnd, delay) ==
    [pre |-> SubSeq(m, 1, preEnd - 1), loop |-> SubSeq(m, loopBegin, loopEnd - 1),
     post |-> SubSeq(m, loopEnd + 1, Len(m) - 1), delay |-> delay]
\* The parts of a loop: it has one control item, or two of a delayed loop,
\* before the End that isLoop meets first.
LoopParts(list) ==
    LET m == UpToEnd(list)
        c == ControlsOf(m)
        op(k) == m[c[k]].op
        dest(k) == m[c[k]].dest
    IN  CASE Len(c) = 2 /\ op(1) = "RepeatUntilRelease" /\ op(2) = "End" ->
               Split(m, 1, 1, c[1], 0)
          [] Len(c) = 2 /\ op(1) = "WaitRelease" /\ op(2) = "End" ->
               Split(m, c[1], c[1], c[1], 0)
          [] /\ Len(c) = 2 /\ op(1) = "JumpIfPressed" /\ op(2) = "End"
             /\ dest(1) \in 1 .. c[1] - 1 -> Split(m, dest(1), dest(1), c[1], 0)
          [] /\ Len(c) = 3 /\ op(1) = "JumpIfReleased" /\ op(2) = "JumpIfPressed"
             /\ op(3) = "End" /\ dest(1) = c[2] + 1 /\ dest(2) = c[1] + 1 ->
               Split(m, c[1], c[1] + 1, c[2], m[c[1]].a)
          [] OTHER -> NoParts
IsLoop(m) == LoopParts(m) # NoParts

-----------------------------------------------------------------------------
(* ProfileXML: readButton and insertButton *)

IsLoopElement(e) == e.type = "loop"
Texts(e) == IF IsLoopElement(e) THEN {e.pre, e.loop, e.post} ELSE {e.text}
Parts(e) ==
    [pre |-> TextToMacro(e.pre), loop |-> TextToMacro(e.loop),
     post |-> TextToMacro(e.post), delay |-> e.delay]
ReadElement(e) ==
    CASE e.type = "simple" -> BuildSimple(TextToMacro(e.text))
      [] e.type = "loop" -> BuildLoop(Parts(e))
      [] OTHER -> TextToMacro(e.text)

\* insertButton.
PrintedElement(m) ==
    CASE IsSimple(m) -> [type |-> "simple", text |-> MacroToText(SubSeq(m, 1, Len(m) - 1))]
      [] ~IsSimple(m) /\ IsLoop(m) ->
           LET q == LoopParts(m)
           IN  [type |-> "loop", pre |-> MacroToText(q.pre), loop |-> MacroToText(q.loop),
                post |-> MacroToText(q.post), delay |-> q.delay]
      [] OTHER -> [type |-> "advanced", text |-> MacroToText(m)]

-----------------------------------------------------------------------------
(* The macro formats. *)

OpCodes10 ==
    [NoOp |-> 0, WaitRelease |-> 1, RepeatUntilRelease |-> 2, RepeatForever |-> 3,
     KeyPress |-> 32, KeyRelease |-> 33, ModifiersPress |-> 34,
     ModifiersRelease |-> 35, MouseWheel |-> 36, MouseButtonPress |-> 64,
     MouseButtonRelease |-> 65, ConsumerControl |-> 66, Delay |-> 67, Jump |-> 68,
     JumpIfPressed |-> 69, MousePointer |-> 96, JumpIfReleased |-> 97, End |-> 255]
OpCodes20 ==
    [NoOp |-> 0, WaitRelease |-> 1, RepeatUntilRelease |-> 2, RepeatForever |-> 3,
     MouseWheel |-> 32, MouseHWheel |-> 33, Delay |-> 64, MouseButtonPress |-> 65,
     MouseButtonRelease |-> 66, ModifiersKeyPress |-> 67, ModifiersKeyRelease |-> 68,
     ConsumerControlPress |-> 69, ConsumerControlRelease |-> 70, Jump |-> 96,
     MousePointer |-> 97, End |-> 255]
OpCodes == IF format = "HID++1.0" THEN OpCodes10 ELSE OpCodes20
\* Offsets of addresses count 16-bit words in HID++1.0.
Unit == IF format = "HID++1.0" THEN 2 ELSE 1

OpLength(opCode) ==
    CASE opCode \div 32 = 1 -> 2
      [] opCode \div 32 = 2 -> 3
      [] opCode \div 32 = 3 -> 5
      [] OTHER -> 1

\* HID++1.0 has no combined key and modifiers, HID++2.0 nothing else.
ForModifiers(op) == IF op = "ModifiersKeyPress" THEN "ModifiersPress" ELSE "ModifiersRelease"
ForKey(op) == IF op = "ModifiersKeyPress" THEN "KeyPress" ELSE "KeyRelease"
Combined(op) ==
    IF op \in {"KeyPress", "ModifiersPress"} THEN "ModifiersKeyPress" ELSE "ModifiersKeyRelease"
Translated(item) ==
    CASE format = "HID++1.0" /\ item.op \in ModifiersKeys ->
           (IF item.a # 0 THEN <<Item(ForModifiers(item.op), item.a, 0, 0)>> ELSE <<>>)
           \o (IF item.b # 0 \/ item.a = 0
                 THEN <<Item(ForKey(item.op), item.b, 0, 0)>> ELSE <<>>)
      [] format = "HID++2.0" /\ item.op \in Keys ->
           <<Item(Combined(item.op), 0, item.a, 0)>>
      [] format = "HID++2.0" /\ item.op \in Modifiers ->
           <<Item(Combined(item.op), item.a, 0, 0)>>
      [] OTHER -> <<item>>

IsShortDelay(item) == format = "HID++1.0" /\ item.op = "ShortDelay"
Supported(item) ==
    IsShortDelay(item) \/ \A i \in DOMAIN Translated(item) :
                              Translated(item)[i].op \in DOMAIN OpCodes

\* Faulty variant: modifiers and a key always take two instructions.
LengthOfTwo(item) ==
    CASE format = "HID++1.0" /\ item.op \in ModifiersKeys -> 4
      [] IsShortDelay(item) -> 1
      [] OTHER -> OpLength(OpCodes[Translated(item)[1].op])
GetLength(item) ==
    CASE format = "HID++1.0" /\ item.op \in ModifiersKeys ->
           IF item.a = 0 \/ item.b = 0 THEN 2 ELSE 4
      [] IsShortDelay(item) -> 1
      [] OTHER -> OpLength(OpCodes[Translated(item)[1].op])

\* Faulty variant: durations are rounded down.
ShortDelayCodeDown(delay) ==
    CASE delay < 8 -> 128
      [] delay >= 8 /\ delay < 132 -> 128 + (delay - 8) \div 4
      [] delay >= 132 /\ delay < 388 -> 159 + (delay - 132) \div 8
      [] delay >= 388 /\ delay < 900 -> 191 + (delay - 388) \div 16
      [] delay >= 900 /\ delay < 1892 -> 223 + (delay - 900) \div 32
      [] OTHER -> 254
ShortDelayCode(delay) ==
    CASE delay < 8 -> 128
      [] delay >= 8 /\ delay < 132 -> 128 + (delay - 8 + 2) \div 4
      [] delay >= 132 /\ delay < 388 -> 159 + (delay - 132 + 4) \div 8
      [] delay >= 388 /\ delay < 900 -> 191 + (delay - 388 + 8) \div 16
      [] delay >= 900 /\ delay < 1892 -> 223 + (delay - 900 + 16) \div 32
      [] OTHER -> 254
\* 0 when the op-code is no short delay.
ShortDelayDuration(opCode) ==
    CASE opCode \in 128 .. 159 -> 8 + (opCode - 128) * 4
      [] opCode \in 160 .. 191 -> 132 + (opCode - 159) * 8
      [] opCode \in 192 .. 223 -> 388 + (opCode - 191) * 16
      [] opCode \in 224 .. 254 -> 900 + (opCode - 223) * 32
      [] OTHER -> 0

BigEndian(x) == <<(x \div 256) % 256, x % 256>>
LittleEndian(x) == <<x % 256, (x \div 256) % 256>>
Signed(x, range) == IF x >= range \div 2 THEN x - range ELSE x

\* writeItem: the parameters behind the op-code; a jump's address comes later.
AddressLength == IF format = "HID++1.0" THEN 2 ELSE 4
NoAddress == [i \in 1 .. AddressLength |-> 0]
Operands(item) ==
    CASE item.op \in Keys \cup Modifiers \cup {"MouseWheel", "MouseHWheel"} ->
           <<item.a % 256>>
      [] item.op \in ModifiersKeys -> <<item.a, item.b>>
      [] item.op \in Buttons ->
           IF format = "HID++1.0" THEN LittleEndian(item.a) ELSE BigEndian(item.a)
      [] item.op \in {"ConsumerControl", "ConsumerControlPress",
                      "ConsumerControlRelease", "Delay"} -> BigEndian(item.a)
      [] item.op = "MousePointer" -> BigEndian(item.a) \o BigEndian(item.b)
      [] item.op = "JumpIfReleased" -> BigEndian(item.a) \o NoAddress
      [] item.op \in {"Jump", "JumpIfPressed"} -> NoAddress
      [] OTHER -> <<>>
Encoded(item) ==
    LET whole(i) == <<OpCodes[i.op]>> \o Operands(i)
        items == Translated(item)
    IN  CASE IsShortDelay(item) -> <<ShortDelayCode(item.a)>>
          [] Len(items) = 2 -> whole(items[1]) \o whole(items[2])
          [] OTHER -> whole(items[1])

\* parseItem: the item at a position, its length, and its jump's address.
Parsed(op, a, b, len, address) ==
    [item |-> Item(op, a, b, 0), len |-> len, address |-> address]
Misread == Parsed("Invalid", 0, 0, 0, <<>>)
ByteAt(p, i) == code[p + i + 1]
WordAt(p, i) == 256 * ByteAt(p, i) + ByteAt(p, i + 1)
ButtonsAt(p) ==
    IF format = "HID++1.0" THEN ByteAt(p, 1) + 256 * ByteAt(p, 2) ELSE WordAt(p, 1)
AddressAt(p, i) ==
    IF format = "HID++1.0"
      THEN [mem_type |-> 0, page |-> ByteAt(p, i), offset |-> ByteAt(p, i + 1)]
      ELSE [mem_type |-> ByteAt(p, i), page |-> ByteAt(p, i + 1), offset |-> WordAt(p, i + 2)]
ParseItem(p) ==
    LET opCode == ByteAt(p, 0) IN
    IF \E op \in DOMAIN OpCodes : OpCodes[op] = opCode
    THEN LET op == CHOOSE o \in DOMAIN OpCodes : OpCodes[o] = opCode IN
         CASE op \in Keys \cup Modifiers -> Parsed(op, ByteAt(p, 1), 0, 2, <<>>)
           [] op \in {"MouseWheel", "MouseHWheel"} ->
                Parsed(op, Signed(ByteAt(p, 1), 256), 0, 2, <<>>)
           [] op \in ModifiersKeys -> Parsed(op, ByteAt(p, 1), ByteAt(p, 2), 3, <<>>)
           [] op \in Buttons ->
                Parsed(op, ButtonsAt(p), 0, 3, <<>>)
           [] op \in {"ConsumerControl", "ConsumerControlPress",
                      "ConsumerControlRelease", "Delay"} ->
                Parsed(op, WordAt(p, 1), 0, 3, <<>>)
           [] op = "MousePointer" ->
                Parsed(op, Signed(WordAt(p, 1), 65536), Signed(WordAt(p, 3), 65536), 5, <<>>)
           [] op \in {"Jump", "JumpIfPressed"} ->
                Parsed(op, 0, 0, 1 + AddressLength, AddressAt(p, 1))
           [] op = "JumpIfReleased" ->
                Parsed(op, WordAt(p, 1), 0, 3 + AddressLength, AddressAt(p, 3))
           [] OTHER -> Parsed(op, 0, 0, 1, <<>>)
    ELSE IF format = "HID++1.0" /\ ShortDelayDuration(opCode) # 0
           THEN Parsed("ShortDelay", ShortDelayDuration(opCode), 0, 1, <<>>)
           ELSE Misread

-----------------------------------------------------------------------------
Init ==
    /\ format \in {"HID++1.0", "HID++2.0"}
    /\ element \in Sources
    /\ pc = "read"
    /\ macro = <<>>
    /\ next = 1
    /\ code = <<>>
    /\ offsets = <<>>
    /\ holes = <<>>
    /\ places = <<>>
    /\ ip = 1
    /\ pressed = TRUE
    /\ played = <<>>
    /\ releasedAt = 0

\* readButton: a text that it cannot read ends the tool.
ReadMacro ==
    /\ pc = "read"
    /\ IF \E text \in Texts(element) : TextThrows(text)
         THEN pc' = "threw" /\ UNCHANGED macro
         ELSE pc' = "write" /\ macro' = ReadElement(element)
    /\ UNCHANGED <<format, element, writeVars, places, playVars>>

-----------------------------------------------------------------------------
(* Macro::write, in one page. *)

IsDest(i) == \E j \in DOMAIN macro : IsJump(macro[j]) /\ macro[j].dest = i
Padding == IF IsDest(next) /\ Len(code) % Unit # 0 THEN <<OpCodes["NoOp"]>> ELSE <<>>

WriteItem ==
    /\ pc = "write"
    /\ next <= Len(macro)
    /\ Supported(macro[next])
    /\ LET here == Len(code) + Len(Padding)
           bytes == Encoded(macro[next])
       IN  /\ code' = code \o Padding \o bytes
           /\ offsets' = Append(offsets, here)
           /\ holes' = Append(holes, here + Len(bytes) - AddressLength)
    /\ next' = next + 1
    /\ UNCHANGED <<format, element, pc, macro, places, playVars>>

\* getLength throws, out of write.
RefuseItem ==
    /\ pc = "write"
    /\ next <= Len(macro)
    /\ ~Supported(macro[next])
    /\ pc' = "unsupported"
    /\ UNCHANGED <<format, element, macro, writeVars, places, playVars>>

\* The address of a destination that is not an item of the list is the one
\* jump_dests was initialized with: all zeros.
AddressBytes(i) ==
    LET written == i \in DOMAIN offsets
        offset == IF written THEN offsets[i] \div Unit ELSE 0
        page == IF written THEN Base.page ELSE 0
        type == IF written THEN Base.mem_type ELSE 0
    IN  IF format = "HID++1.0" THEN <<page, offset % 256>>
                               ELSE <<type, page>> \o BigEndian(offset)
\* writeAddress, for every jump.
ResolveJumps ==
    /\ pc = "write"
    /\ next > Len(macro)
    /\ code' = [p \in DOMAIN code |->
         IF \E j \in DOMAIN macro : IsJump(macro[j]) /\ p - holes[j] \in 1 .. AddressLength
           THEN LET j == CHOOSE k \in DOMAIN macro :
                           IsJump(macro[k]) /\ p - holes[k] \in 1 .. AddressLength
                IN  AddressBytes(macro[j].dest)[p - holes[j]]
           ELSE code[p]]
    /\ macro' = <<>>
    /\ ip' = 1
    /\ pc' = "parse"
    /\ UNCHANGED <<format, element, next, offsets, holes, places, pressed, played, releasedAt>>

-----------------------------------------------------------------------------
(* Macro::Macro (format, mem, address): no item of these macros is without a *)
(* successor but the last, so that parsing goes straight on.                 *)

\* Where the parser is: behind the last item.
Position ==
    IF places = <<>> THEN 0
    ELSE places[Len(places)].at + places[Len(places)].len
ParsedAll == macro # <<>> /\ macro[Len(macro)].op = "End"
ParseOne ==
    /\ pc = "parse"
    /\ ~ParsedAll
    /\ LET found == IF Position < Len(code) THEN ParseItem(Position) ELSE Misread IN
       IF found = Misread
         THEN pc' = "misread" /\ UNCHANGED <<macro, places>>
         ELSE /\ macro' = Append(macro, found.item)
              /\ places' = Append(places, [at |-> Position, len |-> found.len,
                                          address |-> found.address])
              /\ UNCHANGED pc
    /\ UNCHANGED <<format, element, writeVars, playVars>>

\* The items at the addresses of the jumps; an address that was not parsed
\* leads out of the macro.
IsAt(i, address) ==
    /\ address.page = Base.page /\ address.mem_type = Base.mem_type
    /\ places[i].at = address.offset * Unit
LeadsTo(k) ==
    IF IsJump(macro[k])
      THEN {i \in DOMAIN places : IsAt(i, places[k].address)} ELSE {0}
ParseEnd ==
    /\ pc = "parse"
    /\ ParsedAll
    /\ IF \E k \in DOMAIN macro : LeadsTo(k) = {}
         THEN pc' = "strayed" /\ UNCHANGED macro
         ELSE /\ pc' = "simplify"
              /\ macro' = [k \in DOMAIN macro |->
                             [macro[k] EXCEPT !.dest = CHOOSE i \in LeadsTo(k) : TRUE]]
    /\ UNCHANGED <<format, element, writeVars, places, playVars>>

\* Macro::simplify: padding and jumps to what follows go; no jump leads to them.
Simplify ==
    /\ pc = "simplify"
    /\ LET kept == SelectSeq([i \in DOMAIN macro |-> i], LAMBDA i :
                      macro[i].op # "NoOp" /\ ~(macro[i].op = "Jump" /\ macro[i].dest = i + 1))
           rank(i) == IF i = 0 THEN 0 ELSE CHOOSE r \in DOMAIN kept : kept[r] = i
       IN  macro' = [r \in DOMAIN kept |->
                       [macro[kept[r]] EXCEPT !.dest = rank(macro[kept[r]].dest)]]
    /\ pc' = "play"
    /\ UNCHANGED <<format, element, writeVars, places, playVars>>

-----------------------------------------------------------------------------
(* The device plays the macro, as Macro.h says of the instructions. *)

\* What an item does.  Pressing no key does nothing.
Act(do, v) == <<[do |-> do, v |-> v]>>
KeyEffect(op, key) == IF key = 0 THEN <<>> ELSE Act(op, key)
Effects(item) ==
    CASE item.op \in Keys \cup Modifiers -> KeyEffect(item.op, item.a)
      [] item.op \in ModifiersKeys ->
           KeyEffect(ForModifiers(item.op), item.a) \o KeyEffect(ForKey(item.op), item.b)
      [] item.op = "NoOp" -> <<>>
      [] item.op = "MousePointer" -> Act("MousePointer", <<item.a, item.b>>)
      [] OTHER -> Act(item.op, item.a)
\* What the first n items do.
EffectsUpTo(items) ==
    LET f[n \in 0 .. Len(items)] ==
          IF n = 0 THEN <<>> ELSE f[n - 1] \o Effects(items[n])
    IN  f[Len(items)]

Current == macro[ip]
\* Bound: the button is not held for longer than MaxPlayed.
MayPlay == pc = "play" /\ (pressed => Len(played) < MaxPlayed)
Continue(to) == ip' = to /\ UNCHANGED played
Play ==
    /\ MayPlay
    /\ \/ /\ IsSimpleItem(Current)
          /\ played' = played \o Effects(Current)
          /\ ip' = ip + 1
       \/ /\ Current.op = "RepeatUntilRelease"
          /\ Continue(IF pressed THEN 1 ELSE ip + 1)
       \/ /\ Current.op = "WaitRelease"
          /\ ~pressed
          /\ Continue(ip + 1)
       \/ /\ Current.op = "JumpIfPressed"
          /\ Continue(IF pressed THEN Current.dest ELSE ip + 1)
       \/ /\ Current.op = "JumpIfReleased"  \* now, or when the delay has passed
          /\ Continue(IF pressed THEN ip + 1 ELSE Current.dest)
    /\ UNCHANGED <<format, element, pc, macro, writeVars, places, pressed, releasedAt>>
PlayEnd ==
    /\ pc = "play"
    /\ Current.op = "End"
    /\ pc' = "done"
    /\ UNCHANGED <<format, element, macro, writeVars, places, playVars>>
Release ==
    /\ pc = "play"
    /\ pressed
    /\ pressed' = FALSE
    /\ releasedAt' = Len(played)
    /\ UNCHANGED <<format, element, pc, macro, writeVars, places, ip, played>>

Next ==
    \/ ReadMacro
    \/ WriteItem \/ RefuseItem \/ ResolveJumps
    \/ ParseOne \/ ParseEnd \/ Simplify
    \/ Play \/ PlayEnd \/ Release

Spec == Init /\ [][Next]_vars

-----------------------------------------------------------------------------
(* Properties. *)

\* Macro::write decides by getLength whether an item fits, and advances by
\* what writeItem returns: they agree, for every item of both formats.
LengthExact ==
    pc = "write" => \A i \in 1 .. next - 1 :
        GetLength(macro[i]) = Len(Encoded(macro[i]))

\* Short delays are rounded to the nearest that has an op-code.
Durations == {ShortDelayDuration(c) : c \in 128 .. 254}
Distance(x, y) == IF x < y THEN y - x ELSE x - y
Alike(e, f) ==
    /\ e.do = f.do
    /\ \/ e.v = f.v
       \/ /\ e.do = "ShortDelay" /\ f.v \in Durations
          /\ \A d \in Durations : Distance(e.v, f.v) <= Distance(e.v, d)
SameEffects(s, t) ==
    Len(s) = Len(t) /\ \A i \in DOMAIN s : Alike(s[i], t[i])
SameParts(p, q) == SameEffects(EffectsUpTo(p), EffectsUpTo(q))
\* All that a macro does and where it goes: destinations are counted in
\* effects, since formats split and join items.
Course(m) ==
    LET f[n \in 0 .. Len(m)] ==
          IF n = 0 THEN <<>>
          ELSE f[n - 1] \o IF IsSimpleItem(m[n]) THEN Effects(m[n]) ELSE Act(m[n].op, m[n].a)
        to(i) == IF m[i].dest = 0 THEN 0 ELSE 1 + Len(f[m[i].dest - 1])
    IN  f[Len(m)] \o [k \in 1 .. Len(SelectSeq(m, IsJump)) |->
            [do |-> "to", v |-> to(SetToSortSeq({i \in DOMAIN m : IsJump(m[i])}, <)[k])]]

\* A macro read back from a device is printed as an element that is read as
\* the same macro, whatever the format did to its items, and a loop as one of
\* the same parts: a delay is kept where there is a loop to delay.  What is not
\* read back is a text with a jump to no label, and a delayed loop without
\* epilogue.
PartsKept ==
    /\ pc = "misread" => ReadElement(element) = <<>>
    /\ pc = "strayed" =>
          IsLoopElement(element) /\ element.post = <<>> /\ element.delay > 0
    /\ pc = "play" =>
        LET again == PrintedElement(macro) IN
        /\ \A text \in Texts(again) : ~TextThrows(text)
        /\ SameEffects(Course(ReadElement(element)), Course(ReadElement(again)))
        /\ element.type # "advanced" => again.type = element.type
        /\ IsLoopElement(element) =>
              LET p == Parts(element)
                  q == Parts(again)
              IN  /\ SameParts(p.pre, q.pre) /\ SameParts(p.loop, q.loop)
                  /\ SameParts(p.post, q.post)
                  /\ q.delay = IF p.loop = <<>> THEN 0 ELSE p.delay

\* And it does what Macro.h:37-53 says: the prologue, the inner loop while the
\* button is pressed (once at least, if it is not delayed; not at all, if the
\* button was released before the end of the delay), the epilogue.
Repeated(s, n) ==
    LET f[k \in 0 .. n] == IF k = 0 THEN <<>> ELSE f[k - 1] \o s IN f[n]
PlaysLoop(p, n) ==
    LET pre == EffectsUpTo(p.pre)
        loop == EffectsUpTo(p.loop)
        begin(k) == Len(pre) + k * Len(loop)
    IN  /\ SameEffects(pre \o Repeated(loop, n) \o EffectsUpTo(p.post), played)
        /\ IF p.loop = <<>> THEN n = 0
           ELSE /\ n = 0 => p.delay > 0 /\ releasedAt <= begin(0)
                /\ n > 0 => releasedAt <= begin(n)
                /\ n > 1 \/ (n = 1 /\ p.delay > 0) => releasedAt >= begin(n - 1)
PlaysItsParts ==
    pc = "done" =>
        CASE element.type = "simple" ->
               SameEffects(EffectsUpTo(TextToMacro(element.text)), played)
          [] element.type = "loop" ->
               \E n \in 0 .. MaxPlayed : PlaysLoop(Parts(element), n)
          [] OTHER -> TRUE

\* Macro.h:401: any part of a loop may be empty; its jumps lead into it.
PartsMayBeEmpty == pc # "strayed"
=============================================================================
