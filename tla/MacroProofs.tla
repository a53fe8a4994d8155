----------------------------- MODULE MacroProofs -----------------------------
(***************************************************************************)
(* What Macro::write and the parser do for every page size, macro and      *)
(* start.                                                                  *)
(*                                                                         *)
(* The first part is about space: write puts nothing over the CRC at the   *)
(* end of a page, nor past the page.  The argument is about the two ways   *)
(* in which the end of a page is approached.  While check_end_of_page_jump *)
(* holds, every item leaves room for a jump and the CRC after it; once it  *)
(* is given up, all the items that follow were found to fit, each with its *)
(* padding.                                                                *)
(*                                                                         *)
(* The second part is about paths: every item is in memory once, and       *)
(* whoever reads on after it comes to the next one, over the padding and   *)
(* the jump between pages that write may have put there.  The list of the  *)
(* parser follows these paths, in runs that begin at the start of the      *)
(* macro or where a jump leads.                                            *)
(***************************************************************************)
EXTENDS Macro, QueueFacts, TLAPS

-----------------------------------------------------------------------------
(* Positions.  A layout of the items i .. n of a macro m gives the position *)
(* after each of them when they are written one after another from x.      *)

DestIn(m, i) == \E j \in DOMAIN m : IsJump(m[j]) /\ m[j].dest = i
PlacedIn(m, i, x) == IF DestIn(m, i) THEN AlignUp(x) ELSE x
IsLayout(m, i, x, n, g) ==
    /\ g \in [i .. n -> Int]
    /\ g[i] = PlacedIn(m, i, x) + m[i].len
    /\ \A j \in i + 1 .. n : g[j] = PlacedIn(m, j, g[j - 1]) + m[j].len

Item == [op : STRING, len : Nat \ {0}, dest : Nat]

LEMMA AlignFacts ==
    ASSUME NEW x \in Int
    PROVE  AlignUp(x) \in Int /\ AlignUp(x) >= x /\ AlignUp(x) <= x + Align - 1
<1>1. CASE Align = 1
    BY <1>1 DEF AlignUp
<1>2. CASE Align = 2
    BY <1>2 DEF AlignUp
<1>3. QED
    BY <1>1, <1>2, SizeAssumption

LEMMA AlignedFits ==
    ASSUME NEW x \in 0 .. PageSize
    PROVE  AlignUp(x) \in 0 .. PageSize
<1>1. CASE Align = 1
    BY <1>1 DEF AlignUp
<1>2. CASE Align = 2
    <2>1. PageSize % 2 = 0
        BY <1>2, SizeAssumption
    <2>2. QED
        BY <1>2, <2>1, SizeAssumption DEF AlignUp
<1>3. QED
    BY <1>1, <1>2, SizeAssumption

LEMMA PlacedFacts ==
    ASSUME NEW m, NEW i, NEW x \in Int
    PROVE  /\ PlacedIn(m, i, x) \in Int
           /\ PlacedIn(m, i, x) >= x
           /\ PlacedIn(m, i, x) <= x + Align - 1
BY AlignFacts, SizeAssumption DEF PlacedIn

LEMMA PlacedAtZero ==
    ASSUME NEW m, NEW i
    PROVE  PlacedIn(m, i, 0) = 0
<1>1. AlignUp(0) = 0
    <2>1. CASE Align = 1
        BY <2>1 DEF AlignUp
    <2>2. CASE Align = 2
        BY <2>2 DEF AlignUp
    <2>3. QED
        BY <2>1, <2>2, SizeAssumption
<1>2. QED
    BY <1>1 DEF PlacedIn

LEMMA LengthFacts ==
    ASSUME NEW m \in Seq(Item), NEW j \in 1 .. Len(m)
    PROVE  m[j].len \in Nat
<1>1. m[j] \in Item
    OBVIOUS
<1>2. QED
    BY <1>1 DEF Item

\* There is a layout of any number of items: the recursion of PositionAfter is
\* well defined.
LEMMA LayoutExists ==
    ASSUME NEW m \in Seq(Item), NEW i \in 1 .. Len(m), NEW x \in Int
    PROVE  \E g : IsLayout(m, i, x, Len(m), g)
<1> DEFINE T == {k \in Nat : i + k <= Len(m) => \E g : IsLayout(m, i, x, i + k, g)}
<1>1. 0 \in T
    <2> DEFINE g == [j \in i .. i |-> PlacedIn(m, i, x) + m[i].len]
    <2>1. PlacedIn(m, i, x) + m[i].len \in Int
        <3>1. PlacedIn(m, i, x) \in Int /\ m[i].len \in Nat
            BY PlacedFacts, LengthFacts
        <3>2. QED
            BY <3>1
    <2>2. IsLayout(m, i, x, i, g)
        BY <2>1 DEF IsLayout
    <2>3. QED
        BY <2>2
<1>2. ASSUME NEW k \in T
      PROVE  k + 1 \in T
    <2> SUFFICES ASSUME i + (k + 1) <= Len(m)
                 PROVE  \E h : IsLayout(m, i, x, i + (k + 1), h)
        OBVIOUS
    <2>1. k \in Nat /\ i + k \in 1 .. Len(m) /\ i + (k + 1) \in 1 .. Len(m)
        OBVIOUS
    <2>2. PICK g : IsLayout(m, i, x, i + k, g)
        BY <2>1
    <2> DEFINE last == PlacedIn(m, i + (k + 1), g[i + k]) + m[i + (k + 1)].len
               h == [j \in i .. i + (k + 1) |-> IF j = i + (k + 1) THEN last ELSE g[j]]
    <2>3. g[i + k] \in Int
        BY <2>1, <2>2 DEF IsLayout
    <2>4. last \in Int
        <3>1. /\ PlacedIn(m, i + (k + 1), g[i + k]) \in Int
              /\ m[i + (k + 1)].len \in Nat
            BY <2>1, <2>3, PlacedFacts, LengthFacts
        <3>2. QED
            BY <3>1
    <2> HIDE DEF last
    <2>5. h \in [i .. i + (k + 1) -> Int]
        BY <2>1, <2>2, <2>4 DEF IsLayout
    <2>6. h[i] = PlacedIn(m, i, x) + m[i].len
        <3>1. i \in i .. i + (k + 1) /\ i # i + (k + 1)
            BY <2>1
        <3>2. h[i] = g[i]
            BY <3>1
        <3>3. QED
            BY <3>2, <2>2 DEF IsLayout
    <2>7. ASSUME NEW j \in i + 1 .. i + (k + 1)
          PROVE  h[j] = PlacedIn(m, j, h[j - 1]) + m[j].len
        <3>1. CASE j = i + (k + 1)
            <4>1. j - 1 = i + k /\ i + k \in i .. i + (k + 1) /\ i + k # i + (k + 1)
                BY <3>1, <2>1
            <4>2. h[j] = last /\ h[j - 1] = g[i + k]
                BY <3>1, <4>1
            <4>3. QED
                BY <3>1, <4>2 DEF last
        <3>2. CASE j # i + (k + 1)
            <4>1. j \in i + 1 .. i + k /\ j - 1 \in i .. i + k
                BY <3>2, <2>1
            <4>2. h[j] = g[j] /\ h[j - 1] = g[j - 1]
                BY <4>1, <2>1
            <4>3. QED
                BY <4>1, <4>2, <2>2 DEF IsLayout
        <3>3. QED
            BY <3>1, <3>2
    <2>8. IsLayout(m, i, x, i + (k + 1), h)
        BY <2>5, <2>6, <2>7 DEF IsLayout
    <2>9. QED
        BY <2>8
<1>3. Len(m) - i \in Nat
    OBVIOUS
<1> HIDE DEF T
<1>4. Len(m) - i \in T
    <2>1. T \in SUBSET Nat
        BY DEF T
    <2>2. QED
        BY <1>1, <1>2, <1>3, <2>1, SetInduction
<1>5. QED
    BY <1>3, <1>4 DEF T

\* A state in which macro has an item to write.
AtItem == /\ macro \in Seq(Item)
          /\ it \in 1 .. Len(macro)
          /\ pos \in 0 .. PageSize

LEMMA PlacedIsPlacedIn == ASSUME NEW i, NEW x PROVE Placed(i, x) = PlacedIn(macro, i, x)
BY DEF Placed, PlacedIn, IsDest, DestIn

\* What the second condition of NeedJump looks at.
LEMMA PositionFacts ==
    ASSUME AtItem
    PROVE  IsLayout(macro, it, pos, Len(macro), PositionAfter)
<1> DEFINE After(f) == [i \in it .. Len(macro) |->
                          IF i = it THEN Placed(it, pos) + item.len
                                    ELSE Placed(i, f[i - 1]) + macro[i].len]
<1>1. PICK g : IsLayout(macro, it, pos, Len(macro), g)
    BY LayoutExists, SizeAssumption DEF AtItem
<1>2. g = After(g)
    <2>1. g \in [it .. Len(macro) -> Int]
        BY <1>1 DEF IsLayout
    <2>2. ASSUME NEW i \in it .. Len(macro)
          PROVE  g[i] = After(g)[i]
        <3>1. CASE i = it
            BY <3>1, <1>1, PlacedIsPlacedIn DEF IsLayout, item
        <3>2. CASE i # it
            <4>1. i \in it + 1 .. Len(macro)
                BY <3>2 DEF AtItem
            <4>2. g[i] = PlacedIn(macro, i, g[i - 1]) + macro[i].len
                BY <4>1, <1>1 DEF IsLayout
            <4>3. QED
                BY <3>2, <4>2, PlacedIsPlacedIn
        <3>3. QED
            BY <3>1, <3>2
    <2>3. QED
        BY <2>1, <2>2
<1>3. PositionAfter = CHOOSE f : f = After(f)
    BY DEF PositionAfter
<1>4. PositionAfter = After(PositionAfter)
    <2> HIDE DEF After
    <2>1. \E f : f = After(f)
        BY <1>2
    <2>2. QED
        BY <2>1, <1>3
<1> DEFINE p == PositionAfter
<1> HIDE DEF p
<1>5. p = After(p)
    BY <1>4 DEF p
<1>6. \A i \in it .. Len(macro) :
        p[i] = IF i = it THEN PlacedIn(macro, it, pos) + macro[it].len
                         ELSE PlacedIn(macro, i, p[i - 1]) + macro[i].len
    BY <1>5, PlacedIsPlacedIn DEF item
<1>7. ASSUME NEW i \in it .. Len(macro)
      PROVE  p[i] = g[i]
    <2> DEFINE T == {k \in Nat : it + k <= Len(macro) => p[it + k] = g[it + k]}
    <2>1. 0 \in T
        BY <1>1, <1>6 DEF IsLayout, AtItem
    <2>2. ASSUME NEW k \in T
          PROVE  k + 1 \in T
        <3> SUFFICES ASSUME it + (k + 1) <= Len(macro)
                     PROVE  p[it + (k + 1)] = g[it + (k + 1)]
            OBVIOUS
        <3> DEFINE j == it + (k + 1)
        <3>1. j \in it + 1 .. Len(macro) /\ j \in it .. Len(macro) /\ j # it /\ j - 1 = it + k
            BY DEF AtItem
        <3>2. p[it + k] = g[it + k]
            BY DEF AtItem
        <3> HIDE DEF j
        <3>3. p[j] = PlacedIn(macro, j, p[j - 1]) + macro[j].len
            BY <3>1, <1>6
        <3>4. g[j] = PlacedIn(macro, j, g[j - 1]) + macro[j].len
            BY <3>1, <1>1 DEF IsLayout
        <3>5. p[j] = g[j]
            BY <3>1, <3>2, <3>3, <3>4
        <3>6. QED
            BY <3>5 DEF j
    <2>3. i - it \in Nat /\ it + (i - it) = i
        BY DEF AtItem
    <2>4. T \in SUBSET Nat
        OBVIOUS
    <2> HIDE DEF T
    <2>5. i - it \in T
        BY <2>1, <2>2, <2>3, <2>4, SetInduction
    <2>6. QED
        BY <2>3, <2>5 DEF T
<1>8. p = g
    BY <1>1, <1>2, <1>5, <1>7 DEF IsLayout
<1>9. QED
    BY <1>1, <1>8 DEF p

-----------------------------------------------------------------------------
(* The invariant.                                                          *)

\* The last CRCLength bytes of every page are free.
ByteInv(b, x) == "kind" \in DOMAIN b /\ (x >= PageSize - CRCLength => b.kind = "free")
PageInv(bytes) ==
    /\ bytes = [x \in 0 .. PageSize - 1 |-> bytes[x]]
    /\ \A x \in 0 .. PageSize - 1 : ByteInv(bytes[x], x)
Space(mem) ==
    /\ mem = [p \in 0 .. PageCount - 1 |-> mem[p]]
    /\ \A p \in 0 .. PageCount - 1 : PageInv(mem[p])

\* All the items from the i-th on fit between x and the CRC.
Fits(m, i, x) ==
    \E g : /\ IsLayout(m, i, x, Len(m), g)
          /\ \A j \in i .. Len(m) : g[j] <= PageSize - CRCLength

AllTerminated == \A m \in DOMAIN program : Terminated(program[m])

\* Before an item, other than the first of a macro, there is room for a jump
\* and a CRC, or the rest is known to fit.
RoomInv ==
    /\ checking \in BOOLEAN
    /\ it = 1 => checking
    /\ checking /\ it > 1 /\ it <= Len(macro) =>
           pos + JumpLength + CRCLength <= PageSize
    /\ ~checking /\ it <= Len(macro) => Fits(macro, it, pos)

WriteInv ==
    /\ pc # "overrun"
    /\ Space(memory)
    /\ pc = "write" =>
         /\ current \in 1 .. Len(program)
         /\ it \in 1 .. Len(macro) + 1
         /\ pos \in 0 .. PageSize
         /\ RoomInv

Inv == /\ program \in Programs
       /\ AllTerminated => WriteInv

-----------------------------------------------------------------------------

LEMMA ProgramFacts ==
    ASSUME NEW m \in Programs, NEW c \in 1 .. Len(m)
    PROVE  /\ m \in Seq(Seq(Item))
           /\ m[c] \in Seq(Item)
           /\ \A i \in 1 .. Len(m[c]) :
                 /\ m[c][i].len \in Nat
                 /\ m[c][i].len + JumpLength + CRCLength <= PageSize
                 /\ m[c][i].op = "end" => m[c][i].len + Align - 1 <= JumpLength
<1>1. m \in Seq(Seq(Item))
    BY ProgramAssumption DEF Item
<1>2. m[c] \in Seq(Item)
    BY <1>1
<1>3. c \in DOMAIN m /\ DOMAIN m[c] = 1 .. Len(m[c])
    BY <1>1, <1>2
<1>4. QED
    BY <1>1, <1>2, <1>3, LengthFacts, ProgramAssumption

LEMMA PutFacts ==
    ASSUME NEW mem, Space(mem), NEW p, NEW x \in Int, NEW len \in Int,
           x + len <= PageSize - CRCLength, NEW kind, NEW i, NEW to
    PROVE  Space(Put(mem, p, x, kind, i, len, to))
<1> DEFINE new == [y \in DOMAIN mem[p] |->
                     IF y \in x .. x + len - 1 THEN Byte(kind, i, y - x + 1, to) ELSE mem[p][y]]
<1>1. Put(mem, p, x, kind, i, len, to) = [mem EXCEPT ![p] = new]
    BY DEF Put
<1>2. ASSUME p \in 0 .. PageCount - 1
      PROVE  PageInv(new)
    <2>1. mem[p] = [y \in 0 .. PageSize - 1 |-> mem[p][y]]
        BY <1>2 DEF Space, PageInv
    <2>2. DOMAIN mem[p] = 0 .. PageSize - 1
        BY <2>1
    <2>3. new = [y \in 0 .. PageSize - 1 |-> new[y]]
        BY <2>2
    <2>4. ASSUME NEW y \in 0 .. PageSize - 1
          PROVE  ByteInv(new[y], y)
        <3>1. CASE y \in x .. x + len - 1
            <4>1. new[y] = Byte(kind, i, y - x + 1, to)
                BY <3>1, <2>2
            <4>2. "kind" \in DOMAIN new[y]
                BY <4>1 DEF Byte
            <4>3. ~(y >= PageSize - CRCLength)
                BY <3>1, SizeAssumption
            <4>4. QED
                BY <4>2, <4>3 DEF ByteInv
        <3>2. CASE y \notin x .. x + len - 1
            BY <3>2, <2>2, <1>2 DEF Space, PageInv
        <3>3. QED
            BY <3>1, <3>2
    <2>5. QED
        BY <2>3, <2>4 DEF PageInv
<1> HIDE DEF new
<1>3. QED
    BY <1>1, <1>2 DEF Space

\* An item that ends before the CRC is written with its padding.
LEMMA WriteFacts ==
    ASSUME AtItem, macro[it].len \in Nat, NEW mem, Space(mem), NEW p, NEW x \in 0 .. PageSize,
           NEW address, Write(mem, p, x, address),
           PlacedIn(macro, it, x) + macro[it].len <= PageSize - CRCLength
    PROVE  /\ pc' = pc
           /\ Space(memory')
           /\ it' = it + 1
           /\ pos' = PlacedIn(macro, it, x) + macro[it].len
           /\ pos' \in 0 .. PageSize
<1> DEFINE y == PlacedIn(macro, it, x)
           padded == Put(mem, p, x, "noop", 0, y - x, Wild)
<1>1. y \in Int /\ y >= x
    BY PlacedFacts
<1>2. y = Placed(it, x) /\ item.len = macro[it].len
    BY PlacedIsPlacedIn DEF item
<1> HIDE DEF y
<1>3. ~(y + macro[it].len > PageSize)
    BY <1>1, SizeAssumption DEF y
<1>4. /\ memory' = Put(padded, p, y, "item", it, macro[it].len, Wild)
      /\ pc' = pc
      /\ it' = it + 1
      /\ pos' = y + macro[it].len
    BY <1>2, <1>3 DEF Write
<1>5. Space(padded)
    <2>1. y - x \in Int /\ x + (y - x) <= PageSize - CRCLength
        BY <1>1, SizeAssumption DEF y
    <2>2. QED
        BY <2>1, PutFacts
<1> HIDE DEF padded
<1>6. Space(memory')
    <2>1. y + macro[it].len <= PageSize - CRCLength /\ macro[it].len \in Int
        BY DEF y
    <2>2. Space(Put(padded, p, y, "item", it, macro[it].len, Wild))
        BY <2>1, <1>1, <1>5, PutFacts
    <2>3. memory' = Put(padded, p, y, "item", it, macro[it].len, Wild)
        BY <1>4
    <2>4. QED
        BY <2>2, <2>3 DEF Space
<1>7. pos' \in 0 .. PageSize
    <2>1. y + macro[it].len \in 0 .. PageSize
        BY <1>1, <1>3, SizeAssumption
    <2>2. QED
        BY <2>1, <1>4
<1>8. QED
    BY <1>4, <1>6, <1>7 DEF y

\* A layout that fits leaves a layout that fits once its first item is written.
LEMMA FitsFacts ==
    ASSUME NEW m \in Seq(Item), NEW i \in 1 .. Len(m), NEW x, Fits(m, i, x)
    PROVE  /\ PlacedIn(m, i, x) + m[i].len <= PageSize - CRCLength
           /\ i + 1 <= Len(m) => Fits(m, i + 1, PlacedIn(m, i, x) + m[i].len)
<1>1. PICK g : /\ IsLayout(m, i, x, Len(m), g)
               /\ \A j \in i .. Len(m) : g[j] <= PageSize - CRCLength
    BY DEF Fits
<1>2. i \in i .. Len(m) /\ g[i] = PlacedIn(m, i, x) + m[i].len
    BY <1>1 DEF IsLayout
<1>3. ASSUME i + 1 <= Len(m)
      PROVE  Fits(m, i + 1, g[i])
    <2> DEFINE h == [j \in i + 1 .. Len(m) |-> g[j]]
    <2>1. \A j \in i + 1 .. Len(m) : j \in i .. Len(m) /\ h[j] = g[j]
        OBVIOUS
    <2>2. h \in [i + 1 .. Len(m) -> Int]
        BY <1>1, <2>1 DEF IsLayout
    <2>3. h[i + 1] = PlacedIn(m, i + 1, g[i]) + m[i + 1].len
        <3>1. i + 1 \in i + 1 .. Len(m) /\ (i + 1) - 1 = i
            BY <1>3
        <3>2. QED
            BY <3>1, <2>1, <1>1 DEF IsLayout
    <2>4. ASSUME NEW j \in i + 2 .. Len(m)
          PROVE  h[j] = PlacedIn(m, j, h[j - 1]) + m[j].len
        <3>1. j \in i + 1 .. Len(m) /\ j - 1 \in i + 1 .. Len(m)
            OBVIOUS
        <3>2. QED
            BY <3>1, <2>1, <1>1 DEF IsLayout
    <2>5. (i + 1) + 1 = i + 2
        OBVIOUS
    <2>6. IsLayout(m, i + 1, g[i], Len(m), h)
        BY <2>2, <2>3, <2>4, <2>5 DEF IsLayout
    <2>7. QED
        BY <2>1, <2>6, <1>1 DEF Fits
<1>4. QED
    BY <1>1, <1>2, <1>3

\* What the check at the end of a page finds out: the item fits, and either it
\* leaves room for a jump, or all the items after it fit as well.
LEMMA StayFacts ==
    ASSUME AtItem, \A i \in 1 .. Len(macro) : macro[i].len \in Nat,
           checking, ~NeedJump, it < Len(macro)
    PROVE  /\ PlacedIn(macro, it, pos) + macro[it].len <= PageSize - CRCLength
           /\ LacksSpace => Fits(macro, it, pos)
           /\ ~LacksSpace => PlacedIn(macro, it, pos) + macro[it].len + JumpLength + CRCLength <= PageSize
<1> DEFINE y == PlacedIn(macro, it, pos)
<1>1. y \in Int /\ y >= pos /\ macro[it].len \in Nat
    BY PlacedFacts, SizeAssumption DEF AtItem
<1>2. LacksSpace <=> macro[it].len + JumpLength + CRCLength > PageSize - y
    BY PlacedIsPlacedIn DEF LacksSpace, Remaining, item
<1> HIDE DEF y
<1>3. CASE ~LacksSpace
    <2>1. ~(macro[it].len + JumpLength + CRCLength > PageSize - y)
        BY <1>2, <1>3
    <2>a. /\ y \in Int /\ macro[it].len \in Nat /\ JumpLength \in Nat
          /\ CRCLength \in Nat /\ PageSize \in Nat
        BY <1>1, SizeAssumption
    <2> DEFINE len == macro[it].len
    <2>b. y \in Int /\ len \in Nat /\ ~(len + JumpLength + CRCLength > PageSize - y)
        BY <2>a, <2>1
    <2> HIDE DEF len
    <2>c. y + len + JumpLength + CRCLength <= PageSize
        BY <2>a, <2>b
    <2>d. y + len <= PageSize - CRCLength
        BY <2>a, <2>b, <2>c
    <2>2. y + macro[it].len + JumpLength + CRCLength <= PageSize
        BY <2>c DEF len
    <2>3. y + macro[it].len <= PageSize - CRCLength
        BY <2>d DEF len
    <2>4. QED
        BY <2>2, <2>3, <1>3 DEF y
<1>4. CASE LacksSpace
    <2> DEFINE g == PositionAfter
    <2>1. IsLayout(macro, it, pos, Len(macro), g)
        BY PositionFacts
    <2>2. \A i \in it + 1 .. Len(macro) : ~(CRCLength > PageSize - g[i])
        BY <1>4 DEF NeedJump, Remaining
    <2> HIDE DEF g
    <2>3. \A i \in it .. Len(macro) : g[i] \in Int
        BY <2>1 DEF IsLayout
    <2>4. it \in it .. Len(macro) /\ it + 1 \in it + 1 .. Len(macro) /\ (it + 1) - 1 = it
          /\ it + 1 \in 1 .. Len(macro) /\ it + 1 \in it .. Len(macro)
        BY DEF AtItem
    <2>5. g[it + 1] = PlacedIn(macro, it + 1, g[it]) + macro[it + 1].len
        BY <2>1, <2>4 DEF IsLayout
    <2>6. g[it + 1] >= g[it]
        <3>1. PlacedIn(macro, it + 1, g[it]) \in Int /\ PlacedIn(macro, it + 1, g[it]) >= g[it]
            BY <2>3, <2>4, PlacedFacts
        <3>2. macro[it + 1].len \in Nat
            BY <2>4
        <3>3. QED
            BY <2>3, <2>4, <2>5, <3>1, <3>2
    <2>7. ASSUME NEW i \in it .. Len(macro)
          PROVE  g[i] <= PageSize - CRCLength
        <3>1. CASE i = it
            <4>1. g[it] \in Int /\ g[it + 1] \in Int /\ ~(CRCLength > PageSize - g[it + 1])
                BY <2>2, <2>3, <2>4
            <4>2. g[it] <= PageSize - CRCLength
                BY <4>1, <2>6, SizeAssumption
            <4>3. QED
                BY <4>2, <3>1
        <3>2. CASE i # it
            <4>1. i \in it + 1 .. Len(macro)
                BY <3>2 DEF AtItem
            <4>2. QED
                BY <4>1, <2>2, <2>3, SizeAssumption
        <3>3. QED
            BY <3>1, <3>2
    <2>8. Fits(macro, it, pos)
        BY <2>1, <2>7 DEF Fits
    <2>9. y + macro[it].len <= PageSize - CRCLength
        BY <2>1, <2>4, <2>7 DEF IsLayout, y
    <2>10. QED
        BY <2>8, <2>9, <1>4 DEF y
<1>5. QED
    BY <1>3, <1>4

-----------------------------------------------------------------------------
(* The steps of write.                                                     *)

LEMMA WriteInit == Init => Inv
<1> SUFFICES ASSUME Init
             PROVE  Inv
    OBVIOUS
<1>1. program \in Programs /\ current = 1 /\ it = 1 /\ pc = "write" /\ checking = TRUE
    BY DEF Init
<1>2. 1 \in 1 .. Len(program)
    BY <1>1, ProgramAssumption
<1>3. macro \in Seq(Item) /\ it \in 1 .. Len(macro) + 1
    <2>1. program[1] \in Seq(Item)
        BY <1>1, <1>2, ProgramFacts
    <2>2. QED
        BY <1>1, <2>1 DEF macro
<1>4. pos \in 0 .. PageSize
    BY SizeAssumption DEF Init
<1>5. Space(memory)
    <2>1. memory = [p \in 0 .. PageCount - 1 |-> [x \in 0 .. PageSize - 1 |-> Free]]
        BY DEF Init
    <2>2. "kind" \in DOMAIN Free /\ Free.kind = "free"
        BY DEF Free
    <2>3. QED
        BY <2>1, <2>2 DEF Space, PageInv, ByteInv
<1>6. RoomInv
    BY <1>1 DEF RoomInv
<1>7. QED
    BY <1>1, <1>2, <1>3, <1>4, <1>5, <1>6 DEF Inv, WriteInv

\* What is known in a state where an item is to be written.
LEMMA WritingFacts ==
    ASSUME Inv, AllTerminated, Writing
    PROVE  /\ AtItem
           /\ current \in 1 .. Len(program)
           /\ \A i \in 1 .. Len(macro) :
                 /\ macro[i].len \in Nat
                 /\ macro[i].len + JumpLength + CRCLength <= PageSize
           /\ Len(macro) > 1
           /\ macro[Len(macro)].len + Align - 1 <= JumpLength
<1>1. /\ program \in Programs
      /\ current \in 1 .. Len(program)
      /\ it \in 1 .. Len(macro) + 1
      /\ pos \in 0 .. PageSize
      /\ it <= Len(macro)
    BY DEF Inv, WriteInv, Writing
<1>2. program[current] \in Seq(Item) /\ program \in Seq(Seq(Item))
    BY <1>1, ProgramFacts
<1>3. Terminated(program[current])
    BY <1>1, <1>2 DEF AllTerminated
<1>4. \A i \in 1 .. Len(macro) :
        /\ macro[i].len \in Nat
        /\ macro[i].len + JumpLength + CRCLength <= PageSize
        /\ macro[i].op = "end" => macro[i].len + Align - 1 <= JumpLength
    BY <1>1, ProgramFacts DEF macro
<1>5. Len(macro) > 1 /\ macro[Len(macro)].op = "end"
    BY <1>3 DEF Terminated, macro
<1>6. Len(macro) \in 1 .. Len(macro)
    BY <1>2, <1>5 DEF macro
<1>7. AtItem
    BY <1>1, <1>2 DEF AtItem, macro
<1>8. QED
    BY <1>1, <1>4, <1>5, <1>6, <1>7

\* The last item is not checked, but fits where a jump would.
LEMMA LastFits ==
    ASSUME Inv, AllTerminated, Writing, checking, it = Len(macro)
    PROVE  PlacedIn(macro, it, pos) + macro[it].len <= PageSize - CRCLength
<1>1. /\ pos \in 0 .. PageSize
      /\ macro[it].len \in Nat
      /\ macro[it].len + Align - 1 <= JumpLength
      /\ it > 1
      /\ it \in 1 .. Len(macro)
    BY WritingFacts DEF AtItem
<1>2. pos + JumpLength + CRCLength <= PageSize
    BY <1>1 DEF Inv, WriteInv, RoomInv, Writing
<1> DEFINE y == PlacedIn(macro, it, pos)
<1>3. y \in Int /\ y <= pos + Align - 1
    BY <1>1, PlacedFacts, SizeAssumption
<1> HIDE DEF y
<1>4. y + macro[it].len <= PageSize - CRCLength
    BY <1>1, <1>2, <1>3, SizeAssumption
<1>5. QED
    BY <1>4 DEF y

LEMMA HereStep ==
    ASSUME Inv, AllTerminated, WriteHere
    PROVE  WriteInv'
<1>1. Writing /\ ~NeedJump /\ checking' = (checking /\ ~LacksSpace)
      /\ Write(memory, page, pos, At(page, Placed(it, pos)))
      /\ program' = program /\ current' = current
    BY DEF WriteHere
<1>2. AtItem /\ macro[it].len \in Nat /\ it \in 1 .. Len(macro) /\ macro \in Seq(Item)
    BY <1>1, WritingFacts DEF AtItem
<1>3. Space(memory) /\ RoomInv /\ pos \in 0 .. PageSize /\ pc = "write" /\ it <= Len(macro)
      /\ current \in 1 .. Len(program)
    BY <1>1 DEF Inv, WriteInv, Writing
<1> DEFINE after == PlacedIn(macro, it, pos) + macro[it].len
<1>4. /\ after <= PageSize - CRCLength
      /\ it < Len(macro) /\ checking /\ LacksSpace => Fits(macro, it, pos)
      /\ it < Len(macro) /\ checking /\ ~LacksSpace => after + JumpLength + CRCLength <= PageSize
      /\ it < Len(macro) /\ ~checking => Fits(macro, it, pos)
    <2>1. CASE ~checking
        <3>1. Fits(macro, it, pos)
            BY <2>1, <1>3 DEF RoomInv
        <3>2. after <= PageSize - CRCLength
            BY <3>1, <1>2, FitsFacts
        <3>3. QED
            BY <2>1, <3>1, <3>2
    <2>2. CASE checking /\ it = Len(macro)
        <3>1. after <= PageSize - CRCLength
            BY <2>2, <1>1, LastFits
        <3>2. ~(it < Len(macro))
            BY <2>2, <1>2
        <3>3. QED
            BY <3>1, <3>2
    <2>3. CASE checking /\ it # Len(macro)
        <3>1. it < Len(macro)
            BY <2>3, <1>2
        <3>2. \A i \in 1 .. Len(macro) : macro[i].len \in Nat
            BY <1>1, WritingFacts
        <3>3. QED
            BY <2>3, <3>1, <3>2, <1>1, <1>2, StayFacts
    <2>4. QED
        BY <2>1, <2>2, <2>3
<1>5. it < Len(macro) /\ ~(checking /\ ~LacksSpace) => Fits(macro, it + 1, after)
    BY <1>2, <1>4, FitsFacts
<1>6. /\ pc' = pc /\ Space(memory') /\ it' = it + 1 /\ pos' = after /\ pos' \in 0 .. PageSize
    BY <1>1, <1>2, <1>3, <1>4, WriteFacts
<1> HIDE DEF after
<1>7. macro' = macro
    BY <1>1 DEF macro
<1> DEFINE m == macro
           b == checking /\ ~LacksSpace
<1>8. Len(m) \in Nat
    BY <1>2
<1> HIDE DEF m, b
<1>9. RoomInv'
    <2>1. checking' = b /\ b \in BOOLEAN /\ it' = it + 1 /\ pos' = after /\ macro' = m
        BY <1>1, <1>6, <1>7, <1>3 DEF b, m, RoomInv
    <2>2. it \in Nat /\ it # 0 /\ it + 1 # 1
        BY <1>2
    <2>3. it + 1 <= Len(m) => it < Len(m)
        BY <2>2, <1>8
    <2>4. b /\ it + 1 <= Len(m) => after + JumpLength + CRCLength <= PageSize
        BY <2>3, <1>4 DEF b, m
    <2>5. ~b /\ it + 1 <= Len(m) => Fits(m, it + 1, after)
        BY <2>3, <1>5 DEF b, m
    <2>6. QED
        BY <2>1, <2>2, <2>4, <2>5 DEF RoomInv
<1>10. it' \in 1 .. Len(macro') + 1
    BY <1>2, <1>6, <1>7
<1>11. QED
    BY <1>1, <1>3, <1>6, <1>9, <1>10 DEF WriteInv

LEMMA MoveStep ==
    ASSUME Inv, AllTerminated, MoveToNextPage
    PROVE  WriteInv'
<1> DEFINE mem == IF it = 1 THEN memory
                  ELSE Put(memory, page, pos, "pagejump", 0, JumpLength, At(page + 1, 0))
<1>1. Writing /\ NeedJump /\ checking /\ checking' = checking
      /\ Write(mem, page + 1, 0, Wild)
      /\ program' = program /\ current' = current
    BY DEF MoveToNextPage, NeedJump
<1>2. AtItem /\ macro[it].len \in Nat /\ it \in 1 .. Len(macro)
      /\ macro[it].len + JumpLength + CRCLength <= PageSize
    BY <1>1, WritingFacts DEF AtItem
<1>3. Space(memory) /\ RoomInv /\ pos \in 0 .. PageSize /\ pc = "write" /\ it <= Len(macro)
      /\ current \in 1 .. Len(program) /\ checking \in BOOLEAN
    BY <1>1 DEF Inv, WriteInv, Writing, RoomInv
<1>4. Space(mem)
    <2>1. CASE it = 1
        BY <2>1, <1>3
    <2>2. CASE it # 1
        <3>1. it > 1
            BY <2>2, <1>2
        <3>2. pos + JumpLength + CRCLength <= PageSize
            BY <3>1, <1>1, <1>3 DEF RoomInv
        <3>3. pos \in Int /\ JumpLength \in Int /\ pos + JumpLength <= PageSize - CRCLength
            BY <3>2, <1>3, SizeAssumption
        <3>4. Space(Put(memory, page, pos, "pagejump", 0, JumpLength, At(page + 1, 0)))
            BY <3>3, <1>3, PutFacts
        <3>5. QED
            BY <2>2, <3>4
    <2>3. QED
        BY <2>1, <2>2
<1> HIDE DEF mem
<1>5. PlacedIn(macro, it, 0) + macro[it].len = macro[it].len
    BY <1>2, PlacedAtZero
<1>6. macro[it].len <= PageSize - CRCLength /\ 0 \in 0 .. PageSize
    BY <1>2, SizeAssumption
<1>7. /\ pc' = pc /\ Space(memory') /\ it' = it + 1 /\ pos' = macro[it].len
      /\ pos' \in 0 .. PageSize
    BY <1>1, <1>2, <1>4, <1>5, <1>6, WriteFacts
<1>8. macro' = macro
    BY <1>1 DEF macro
<1>9. RoomInv'
    <2>1. checking' /\ it + 1 # 1
        BY <1>1, <1>2
    <2>2. checking' \in BOOLEAN
        BY <1>1, <1>3
    <2>3. QED
        BY <2>1, <2>2, <1>2, <1>7 DEF RoomInv
<1>10. it' \in 1 .. Len(macro') + 1
    BY <1>2, <1>7, <1>8
<1>11. QED
    BY <1>1, <1>3, <1>7, <1>9, <1>10 DEF WriteInv

LEMMA EndStep ==
    ASSUME Inv, AllTerminated, EndMacro
    PROVE  WriteInv'
<1>1. /\ pc = "write" /\ memory' = ResolveJumps(memory) /\ checking' = TRUE /\ it' = 1
      /\ program' = program
    BY DEF EndMacro
<1>2. /\ Space(memory) /\ pos \in 0 .. PageSize /\ current \in 1 .. Len(program)
      /\ program \in Programs
    BY <1>1 DEF Inv, WriteInv
<1>3. Space(memory')
    <2> DEFINE Now(b) == IF b.macro = current /\ b.kind = "item" /\ IsJump(macro[b.item])
                           THEN [b EXCEPT !.to = dests[macro[b.item].dest]] ELSE b
    <2>1. memory' = [p \in DOMAIN memory |-> [x \in DOMAIN memory[p] |-> Now(memory[p][x])]]
        BY <1>1 DEF ResolveJumps
    <2>2. \A b, x : ByteInv(b, x) => ByteInv(Now(b), x)
        BY DEF ByteInv
    <2> HIDE DEF Now
    <2>3. /\ DOMAIN memory = 0 .. PageCount - 1
          /\ \A p \in 0 .. PageCount - 1 : DOMAIN memory[p] = 0 .. PageSize - 1
        BY <1>2 DEF Space, PageInv
    <2>4. memory' = [p \in 0 .. PageCount - 1 |-> [x \in 0 .. PageSize - 1 |-> Now(memory[p][x])]]
        BY <2>1, <2>3
    <2>5. QED
        BY <1>2, <2>2, <2>4 DEF Space, PageInv
<1>4. CASE current < Len(program)
    <2>1. current' = current + 1 /\ pos' = AlignUp(pos) /\ pc' = pc
        BY <1>4 DEF EndMacro
    <2>2. program \in Seq(Seq(Item))
        BY <1>2, ProgramFacts
    <2>3. current + 1 \in 1 .. Len(program)
        BY <1>2, <1>4, <2>2
    <2>4. program[current + 1] \in Seq(Item)
        BY <2>2, <2>3
    <2>5. macro' = program[current + 1]
        BY <1>1, <2>1 DEF macro
    <2>6. it' \in 1 .. Len(macro') + 1
        BY <1>1, <2>4, <2>5
    <2>7. pos' \in 0 .. PageSize
        BY <2>1, <1>2, AlignedFits
    <2>8. RoomInv'
        BY <1>1 DEF RoomInv
    <2>9. QED
        BY <1>1, <1>3, <2>1, <2>3, <2>6, <2>7, <2>8 DEF WriteInv
<1>5. CASE ~(current < Len(program))
    <2>1. pc' = "parse"
        BY <1>5 DEF EndMacro
    <2>2. QED
        BY <1>3, <2>1 DEF WriteInv
<1>6. QED
    BY <1>4, <1>5

\* The parser, and a writer that gives up, leave the memory alone.
LEMMA OtherStep ==
    ASSUME Inv, AllTerminated,
           AssertFails \/ NoNextPage \/ ParseItem \/ Misread \/ ParseNext \/ UNCHANGED vars
    PROVE  WriteInv'
<1>1. pc # "overrun" /\ Space(memory)
    BY DEF Inv, WriteInv
<1>2. CASE AssertFails \/ NoNextPage \/ ParseItem \/ Misread \/ ParseNext
    <2>1. memory' = memory /\ pc' # "write" /\ pc' # "overrun"
        BY <1>1, <1>2 DEF AssertFails, NoNextPage, ParseItem, Misread, ParseNext, writeVars
    <2>2. QED
        BY <1>1, <2>1 DEF WriteInv
<1>3. CASE UNCHANGED vars
    BY <1>3 DEF Inv, WriteInv, RoomInv, Space, vars, writeVars, macro
<1>4. QED
    BY <1>2, <1>3

LEMMA WriteStep == Inv /\ [Next]_vars => Inv'
<1> SUFFICES ASSUME Inv, [Next]_vars
             PROVE  Inv'
    OBVIOUS
<1>1. program' = program
    BY DEF Next, WriteHere, MoveToNextPage, AssertFails, NoNextPage, EndMacro, ParseItem, Misread,
           ParseNext, vars
<1>2. AllTerminated' = AllTerminated
    BY <1>1 DEF AllTerminated
<1>3. ASSUME AllTerminated
      PROVE  WriteInv'
    BY <1>3, HereStep, MoveStep, EndStep, OtherStep DEF Next
<1>4. QED
    BY <1>1, <1>2, <1>3 DEF Inv

-----------------------------------------------------------------------------

\* While macros that end with End are written, whatever their number, items,
\* lengths and destinations, the position of the first and the size of the
\* pages, there is room for a jump and the CRC after the current item, or the
\* rest of the macro is known to fit in the page.
THEOREM WriterHasRoom == Spec => []Inv
<1>1. QED
    BY WriteInit, WriteStep, PTL DEF Spec

\* Macro::write leaves the bytes of the CRC, and those after the page, alone.
THEOREM CrcIsKept == Spec => []CrcKept
<1>1. Inv => CrcKept
    <2> SUFFICES ASSUME Inv, AllTerminated
                 PROVE  /\ pc # "overrun"
                        /\ \A p \in DOMAIN memory : \A x \in PageSize - CRCLength .. PageSize - 1 :
                               memory[p][x].kind = "free"
        BY DEF CrcKept, AllTerminated
    <2>1. pc # "overrun" /\ Space(memory)
        BY DEF Inv, WriteInv
    <2>2. ASSUME NEW p \in DOMAIN memory, NEW x \in PageSize - CRCLength .. PageSize - 1
          PROVE  memory[p][x].kind = "free"
        <3>1. x \in 0 .. PageSize - 1 /\ x >= PageSize - CRCLength
            BY SizeAssumption
        <3>2. DOMAIN memory = 0 .. PageCount - 1
            BY <2>1 DEF Space
        <3>3. ByteInv(memory[p][x], x)
            BY <2>1, <3>1, <3>2 DEF Space, PageInv
        <3>4. QED
            BY <3>1, <3>3 DEF ByteInv
    <2>3. QED
        BY <2>1, <2>2
<1>2. QED
    BY <1>1, WriterHasRoom, PTL
-----------------------------------------------------------------------------
(* Where the items are.  Macro m of the program prog has items in memory    *)
(* mem when it is before macro c, or m = c and the item is one of the first n. *)

Loc == [page : 0 .. PageCount - 1, pos : 0 .. PageSize - 1]
Past(l, n) == At(l.page, l.pos + n)
Aligned(l) == l.pos % Align = 0
Place == [page : Nat, pos : Nat] \cup {Wild}
Kinds == {"free", "noop", "pagejump", "item"}
Mark == [macro : Nat, kind : Kinds, item : Nat, byte : Nat, to : Place]
Memories == [0 .. PageCount - 1 -> [0 .. PageSize - 1 -> Mark]]
Cell(mem, l) == mem[l.page][l.pos]

\* The first byte of something, or of the i-th item of macro m, is at l.
First(mem, l, kind) == l \in Loc /\ Cell(mem, l).kind = kind /\ Cell(mem, l).byte = 1
ItemAt(mem, l, m, i) ==
    First(mem, l, "item") /\ Cell(mem, l).macro = m /\ Cell(mem, l).item = i
\* Whoever reads from l comes to that item, over padding or a jump between pages.
Reaches(mem, l, m, i) ==
    \/ ItemAt(mem, l, m, i)
    \/ First(mem, l, "noop") /\ ItemAt(mem, Past(l, 1), m, i)
    \/ First(mem, l, "pagejump") /\ ItemAt(mem, Cell(mem, l).to, m, i)

Upto(c, n, m, i) == m < c \/ (m = c /\ i <= n)

\* Every item was written once.
ItemsInv(mem, prog, c, n) ==
    /\ \A l \in Loc : Cell(mem, l).kind = "item" =>
          /\ Cell(mem, l).macro \in DOMAIN prog
          /\ Cell(mem, l).item \in DOMAIN prog[Cell(mem, l).macro]
          /\ Upto(c, n, Cell(mem, l).macro, Cell(mem, l).item)
    /\ \A k, l \in Loc :
          /\ First(mem, k, "item") /\ First(mem, l, "item")
          /\ Cell(mem, k).macro = Cell(mem, l).macro /\ Cell(mem, k).item = Cell(mem, l).item
          => k = l

\* Jumps between pages lead to items; so do those of the macros before c, each
\* to its destination, unless the address is wild.
JumpsInv(mem, prog, c) ==
    \A l \in Loc :
        /\ Cell(mem, l).kind = "pagejump" =>
              Aligned(Cell(mem, l).to) /\ First(mem, Cell(mem, l).to, "item")
        /\ /\ Cell(mem, l).kind = "item"
           /\ Cell(mem, l).macro < c
           /\ IsJump(prog[Cell(mem, l).macro][Cell(mem, l).item])
           /\ Cell(mem, l).to # Wild
           => /\ Aligned(Cell(mem, l).to)
              /\ ItemAt(mem, Cell(mem, l).to, Cell(mem, l).macro,
                        prog[Cell(mem, l).macro][Cell(mem, l).item].dest)

\* A macro begins at its address, and each item is followed by the next one.
ChainInv(mem, prog, st, c, n) ==
    /\ \A m \in DOMAIN prog : Upto(c, n, m, 1) => ItemAt(mem, st[m], m, 1)
    /\ \A l \in Loc, m \in DOMAIN prog : \A i \in DOMAIN prog[m] :
          ItemAt(mem, l, m, i) /\ i + 1 \in DOMAIN prog[m] /\ Upto(c, n, m, i + 1) =>
              Reaches(mem, Past(l, prog[m][i].len), m, i + 1)

Frontier(mem, p, x) ==
    \A l \in Loc : l.page > p \/ (l.page = p /\ l.pos >= x) => Cell(mem, l).kind = "free"

\* The addresses that write gave back.
Origin == {a \in [page : 0 .. PageCount - 1, pos : 0 .. PageSize] : Aligned(a)}

\* jump_dests has the addresses of the destinations that were written.
DestsInv ==
    /\ DOMAIN dests = {i \in 1 .. it - 1 : DestIn(macro, i)}
    /\ \A i \in DOMAIN dests :
          dests[i] # Wild => Aligned(dests[i]) /\ ItemAt(memory, dests[i], current, i)

PlaceInv ==
    /\ page \in 0 .. PageCount - 1
    /\ pos \in 0 .. PageSize
    /\ current \in 1 .. Len(program)
    /\ it \in 1 .. Len(macro) + 1
    /\ memory \in Memories
    /\ Frontier(memory, page, pos)
    /\ ItemsInv(memory, program, current, it - 1)
    /\ JumpsInv(memory, program, current)
    /\ DestsInv
    /\ start \in Seq(Origin) /\ Len(start) = current
    /\ it = 1 => start[current] = At(page, pos)
    /\ list = <<>> /\ parsed = <<>> /\ stack = <<>>

\* The item that was written last ends where the next one is to be written.
PathInv ==
    /\ ChainInv(memory, program, start, current, it - 1)
    /\ it > 1 => \A l \in Loc : ItemAt(memory, l, current, it - 1) =>
                     Past(l, macro[it - 1].len) = At(page, pos)

WrittenInv == pc = "write" => PlaceInv /\ (AllTerminated => PathInv)

-----------------------------------------------------------------------------
(* What a write adds to the memory. *)

\* Item i of macro c, of some length, is put at l, maybe after padding or a jump
\* to it; what was there stays.
Added(mem, new, c, i, len, l) ==
    /\ new \in Memories
    /\ l \in Loc
    /\ \A k \in Loc : Cell(mem, k).kind # "free" => Cell(new, k) = Cell(mem, k)
    /\ ItemAt(new, l, c, i)
    /\ \A k \in Loc : Cell(new, k).kind = "item" /\ Cell(new, k) # Cell(mem, k) =>
          /\ Cell(new, k).macro = c
          /\ Cell(new, k).item = i
          /\ Cell(new, k).byte = 1 => k = l
    /\ \A k \in Loc : Cell(new, k).kind = "pagejump" /\ Cell(new, k) # Cell(mem, k) =>
          Cell(new, k).to = l /\ Aligned(l)
    /\ Frontier(new, l.page, l.pos + len)

LEMMA FirstKept ==
    ASSUME NEW mem, NEW new, NEW c, NEW i, NEW len, NEW l0, Added(mem, new, c, i, len, l0)
    PROVE  /\ \A l : First(mem, l, "item") => First(new, l, "item")
           /\ \A l, m, j : ItemAt(mem, l, m, j) => ItemAt(new, l, m, j)
           /\ \A l, m, j : Reaches(mem, l, m, j) => Reaches(new, l, m, j)
<1>1. \A k \in Loc : Cell(mem, k).kind # "free" => Cell(new, k) = Cell(mem, k)
    BY DEF Added
<1>2. \A k, s : s # "free" /\ First(mem, k, s) => First(new, k, s)
    BY <1>1 DEF First
<1>3. \A k, m, j : ItemAt(mem, k, m, j) => ItemAt(new, k, m, j)
    BY <1>1 DEF First, ItemAt
<1>4. \A k, s : s # "free" /\ First(mem, k, s) => Cell(new, k) = Cell(mem, k)
    BY <1>1 DEF First
<1>5. ASSUME NEW l, NEW m, NEW j, Reaches(mem, l, m, j)
      PROVE  Reaches(new, l, m, j)
    <2>1. CASE ItemAt(mem, l, m, j)
        BY <2>1, <1>3 DEF Reaches
    <2>2. CASE First(mem, l, "noop") /\ ItemAt(mem, Past(l, 1), m, j)
        BY <2>2, <1>2, <1>3 DEF Reaches
    <2>3. CASE First(mem, l, "pagejump") /\ ItemAt(mem, Cell(mem, l).to, m, j)
        <3>1. First(new, l, "pagejump") /\ Cell(new, l) = Cell(mem, l)
            BY <2>3, <1>2, <1>4
        <3>2. ItemAt(new, Cell(new, l).to, m, j)
            BY <3>1, <2>3, <1>3
        <3>3. QED
            BY <3>1, <3>2 DEF Reaches
    <2>4. QED
        BY <1>5, <2>1, <2>2, <2>3 DEF Reaches
<1>6. \A l : First(mem, l, "item") => First(new, l, "item")
    BY <1>2
<1>7. QED
    BY <1>3, <1>5, <1>6

LEMMA ItemsAdded ==
    ASSUME NEW mem, NEW new, NEW prog, NEW c \in DOMAIN prog, c \in Nat,
           NEW i \in DOMAIN prog[c], i \in Nat, NEW len, NEW l0,
           Added(mem, new, c, i, len, l0), mem \in Memories,
           ItemsInv(mem, prog, c, i - 1)
    PROVE  ItemsInv(new, prog, c, i)
<1>1. \A k \in Loc : Cell(mem, k) \in Mark /\ Cell(new, k) \in Mark
    BY DEF Cell, Loc, Memories, Added
<1>2. \A k \in Loc : Cell(mem, k).macro \in Nat /\ Cell(mem, k).item \in Nat
    BY <1>1 DEF Mark
<1>3. \A m, j \in Nat : /\ Upto(c, i - 1, m, j) => Upto(c, i, m, j) /\ ~(m = c /\ j = i)
                        /\ Upto(c, i, c, i)
    BY DEF Upto
<1>4. ASSUME NEW l \in Loc, Cell(new, l).kind = "item"
      PROVE  /\ Cell(new, l).macro \in DOMAIN prog
             /\ Cell(new, l).item \in DOMAIN prog[Cell(new, l).macro]
             /\ Upto(c, i, Cell(new, l).macro, Cell(new, l).item)
    <2>1. CASE Cell(new, l) = Cell(mem, l)
        BY <2>1, <1>2, <1>3, <1>4 DEF ItemsInv
    <2>2. CASE Cell(new, l) # Cell(mem, l)
        <3>1. Cell(new, l).macro = c /\ Cell(new, l).item = i
            BY <2>2, <1>4 DEF Added
        <3>2. Upto(c, i, c, i)
            BY DEF Upto
        <3>3. QED
            BY <3>1, <3>2
    <2>3. QED
        BY <2>1, <2>2
<1>5. ASSUME NEW k \in Loc, NEW l \in Loc, First(new, k, "item"), First(new, l, "item"),
             Cell(new, k).macro = Cell(new, l).macro, Cell(new, k).item = Cell(new, l).item
      PROVE  k = l
    <2>1. \A x \in {k, l} : \/ Cell(new, x) = Cell(mem, x) /\ First(mem, x, "item")
                            \/ Cell(new, x).macro = c /\ Cell(new, x).item = i /\ x = l0
        BY <1>5 DEF Added, First
    <2>2. \A x \in {k, l} : First(mem, x, "item") =>
                               ~(Cell(mem, x).macro = c /\ Cell(mem, x).item = i)
        BY <1>2, <1>3 DEF ItemsInv, First
    <2>3. CASE First(mem, k, "item") /\ Cell(new, k) = Cell(mem, k)
        <3>1. First(mem, l, "item") /\ Cell(new, l) = Cell(mem, l)
            BY <2>1, <2>2, <2>3, <1>5
        <3>2. QED
            BY <3>1, <2>3, <1>5 DEF ItemsInv
    <2>4. CASE ~(First(mem, k, "item") /\ Cell(new, k) = Cell(mem, k))
        <3>1. k = l0 /\ Cell(new, k).macro = c /\ Cell(new, k).item = i
            BY <2>1, <2>4
        <3>2. l = l0
            BY <3>1, <2>1, <2>2, <1>5
        <3>3. QED
            BY <3>1, <3>2
    <2>5. QED
        BY <2>3, <2>4
<1>6. QED
    BY <1>4, <1>5 DEF ItemsInv

LEMMA JumpsAdded ==
    ASSUME NEW mem, NEW new, NEW prog, NEW c \in Nat, NEW i, NEW len, NEW l0,
           Added(mem, new, c, i, len, l0), JumpsInv(mem, prog, c)
    PROVE  JumpsInv(new, prog, c)
<1> SUFFICES ASSUME NEW l \in Loc
             PROVE  /\ Cell(new, l).kind = "pagejump" =>
                          Aligned(Cell(new, l).to) /\ First(new, Cell(new, l).to, "item")
                    /\ /\ Cell(new, l).kind = "item"
                       /\ Cell(new, l).macro < c
                       /\ IsJump(prog[Cell(new, l).macro][Cell(new, l).item])
                       /\ Cell(new, l).to # Wild
                       => /\ Aligned(Cell(new, l).to)
                          /\ ItemAt(new, Cell(new, l).to, Cell(new, l).macro,
                                    prog[Cell(new, l).macro][Cell(new, l).item].dest)
    BY DEF JumpsInv
<1>1. \A k : First(mem, k, "item") => First(new, k, "item")
    BY FirstKept
<1>2. \A k, m, j : ItemAt(mem, k, m, j) => ItemAt(new, k, m, j)
    BY FirstKept
<1>3. CASE Cell(new, l) = Cell(mem, l)
    BY <1>1, <1>2, <1>3 DEF JumpsInv
<1>4. CASE Cell(new, l) # Cell(mem, l)
    <2>1. Cell(new, l).kind = "item" => ~(Cell(new, l).macro < c)
        BY <1>4 DEF Added
    <2>2. Cell(new, l).kind = "pagejump" =>
              Aligned(Cell(new, l).to) /\ First(new, Cell(new, l).to, "item")
        BY <1>4 DEF Added, ItemAt
    <2>3. QED
        BY <2>1, <2>2
<1>5. QED
    BY <1>3, <1>4

LEMMA ChainAdded ==
    ASSUME NEW mem, NEW new, NEW prog, NEW c \in Nat, NEW i \in Nat \ {0}, NEW len, NEW l0,
           Added(mem, new, c, i, len, l0), mem \in Memories,
           DOMAIN prog \subseteq Nat, \A m \in DOMAIN prog : DOMAIN prog[m] \subseteq Nat \ {0},
           NEW st, ChainInv(mem, prog, st, c, i - 1),
           NEW st2, \A m \in DOMAIN prog : m < c => st2[m] = st[m],
           st2[c] = IF i = 1 THEN l0 ELSE st[c],
           i > 1 => \A l \in Loc : ItemAt(mem, l, c, i - 1) =>
                        Reaches(new, Past(l, prog[c][i - 1].len), c, i)
    PROVE  ChainInv(new, prog, st2, c, i)
<1>1. \A k, m, j : /\ ItemAt(mem, k, m, j) => ItemAt(new, k, m, j)
                   /\ Reaches(mem, k, m, j) => Reaches(new, k, m, j)
    BY FirstKept
<1>2. ASSUME NEW m \in DOMAIN prog, Upto(c, i, m, 1)
      PROVE  ItemAt(new, st2[m], m, 1)
    <2>1. CASE m = c /\ i = 1
        BY <2>1 DEF Added
    <2>2. CASE ~(m = c /\ i = 1)
        <3>1. Upto(c, i - 1, m, 1)
            BY <1>2, <2>2 DEF Upto
        <3>2. st2[m] = st[m]
            BY <1>2, <2>2 DEF Upto
        <3>3. QED
            BY <3>1, <3>2, <1>1 DEF ChainInv
    <2>3. QED
        BY <2>1, <2>2
<1>3. ASSUME NEW l \in Loc, NEW m \in DOMAIN prog, NEW j \in DOMAIN prog[m],
             ItemAt(new, l, m, j), j + 1 \in DOMAIN prog[m], Upto(c, i, m, j + 1)
      PROVE  Reaches(new, Past(l, prog[m][j].len), m, j + 1)
    <2>1. ItemAt(mem, l, m, j)
        <3>1. m \in Nat /\ j \in Nat
            OBVIOUS
        <3>2. ~(m = c /\ j = i)
            BY <1>3, <3>1 DEF Upto
        <3>3. Cell(new, l) = Cell(mem, l)
            BY <1>3, <3>2 DEF Added, ItemAt, First
        <3>4. QED
            BY <1>3, <3>3 DEF ItemAt, First
    <2>2. CASE m = c /\ j + 1 = i
        <3>1. j = i - 1 /\ i > 1
            BY <2>2
        <3>2. QED
            BY <3>1, <2>1, <2>2
    <2>3. CASE ~(m = c /\ j + 1 = i)
        <3>1. m \in Nat /\ j \in Nat
            OBVIOUS
        <3>2. Upto(c, i - 1, m, j + 1)
            BY <1>3, <2>3, <3>1 DEF Upto
        <3>3. QED
            BY <3>2, <2>1, <1>1, <1>3 DEF ChainInv
    <2>4. QED
        BY <2>2, <2>3
<1>4. QED
    BY <1>2, <1>3 DEF ChainInv

LEMMA PutCells ==
    ASSUME NEW mem \in Memories, NEW p, NEW x \in Int, NEW len \in Int, NEW kind \in Kinds,
           NEW i \in Nat, NEW to \in Place, current \in Nat
    PROVE  /\ Put(mem, p, x, kind, i, len, to) \in Memories
           /\ \A l \in Loc : Cell(Put(mem, p, x, kind, i, len, to), l) =
                  IF l.page = p /\ l.pos \in x .. x + len - 1
                    THEN Byte(kind, i, l.pos - x + 1, to) ELSE Cell(mem, l)
<1> DEFINE bytes == [y \in DOMAIN mem[p] |->
                        IF y \in x .. x + len - 1 THEN Byte(kind, i, y - x + 1, to)
                                                  ELSE mem[p][y]]
           new == [mem EXCEPT ![p] = bytes]
<1>1. Put(mem, p, x, kind, i, len, to) = new
    BY DEF Put
<1>2. DOMAIN mem = 0 .. PageCount - 1
    BY DEF Memories
<1>3. ASSUME p \in 0 .. PageCount - 1
      PROVE  /\ bytes \in [0 .. PageSize - 1 -> Mark]
             /\ \A y \in 0 .. PageSize - 1 :
                   bytes[y] = IF y \in x .. x + len - 1 THEN Byte(kind, i, y - x + 1, to)
                                                        ELSE mem[p][y]
    <2>1. mem[p] \in [0 .. PageSize - 1 -> Mark]
        BY <1>3 DEF Memories
    <2>2. \A y \in x .. x + len - 1 : Byte(kind, i, y - x + 1, to) \in Mark
        BY DEF Byte, Mark
    <2>3. QED
        BY <2>1, <2>2
<1> HIDE DEF bytes
<1>4. new \in Memories
    BY <1>2, <1>3 DEF Memories
<1>5. ASSUME NEW l \in Loc
      PROVE  Cell(new, l) = IF l.page = p /\ l.pos \in x .. x + len - 1
                              THEN Byte(kind, i, l.pos - x + 1, to) ELSE Cell(mem, l)
    <2>1. l.page \in 0 .. PageCount - 1 /\ l.pos \in 0 .. PageSize - 1
        BY DEF Loc
    <2>2. CASE l.page = p
        <3>1. new[l.page] = bytes
            BY <2>1, <2>2, <1>2
        <3>2. Cell(new, l) = bytes[l.pos]
            BY <3>1 DEF Cell
        <3>3. bytes[l.pos] = IF l.pos \in x .. x + len - 1
                               THEN Byte(kind, i, l.pos - x + 1, to) ELSE mem[p][l.pos]
            BY <2>1, <2>2, <1>3
        <3>4. QED
            BY <2>2, <3>2, <3>3 DEF Cell
    <2>3. CASE l.page # p
        BY <2>1, <2>3, <1>2 DEF Cell
    <2>4. QED
        BY <2>2, <2>3
<1> HIDE DEF new
<1>6. QED
    BY <1>1, <1>4, <1>5

LEMMA WriteCells ==
    ASSUME NEW mem \in Memories, NEW p \in 0 .. PageCount - 1, NEW x \in 0 .. PageSize,
           NEW address, Write(mem, p, x, address), pc' # "overrun",
           macro \in Seq(Item), it \in 1 .. Len(macro), current \in Nat
    PROVE  LET y == PlacedIn(macro, it, x)
               len == macro[it].len
           IN  /\ y \in Nat /\ y >= x /\ y <= x + Align - 1 /\ len \in Nat \ {0}
               /\ y + len <= PageSize
               /\ At(p, y) \in Loc
               /\ memory' \in Memories
               /\ it' = it + 1 /\ page' = p /\ pos' = y + len
               /\ dests' = IF DestIn(macro, it)
                             THEN [i \in DOMAIN dests \cup {it} |->
                                     IF i = it THEN address ELSE dests[i]]
                             ELSE dests
               /\ pc' = pc
               /\ \A l \in Loc : Cell(memory', l) =
                     IF l.page = p /\ l.pos \in y .. y + len - 1
                       THEN Byte("item", it, l.pos - y + 1, Wild)
                     ELSE IF l.page = p /\ l.pos \in x .. y - 1
                       THEN Byte("noop", 0, l.pos - x + 1, Wild)
                     ELSE Cell(mem, l)
<1> DEFINE y == PlacedIn(macro, it, x)
           len == macro[it].len
           padded == Put(mem, p, x, "noop", 0, y - x, Wild)
<1>1. y \in Nat /\ y >= x /\ y <= x + Align - 1
    BY PlacedFacts, SizeAssumption
<1>2. len \in Nat \ {0}
    <2>1. macro[it] \in Item
        OBVIOUS
    <2>2. QED
        BY <2>1 DEF Item
<1>3. y = Placed(it, x) /\ item.len = len /\ (IsDest(it) <=> DestIn(macro, it))
    BY PlacedIsPlacedIn DEF item, IsDest, DestIn
<1> HIDE DEF y, len
<1>4. ~(y + len > PageSize)
    BY <1>3 DEF Write, padded
<1>5. /\ memory' = Put(padded, p, y, "item", it, len, Wild)
      /\ it' = it + 1 /\ page' = p /\ pos' = y + len /\ pc' = pc
      /\ dests' = IF DestIn(macro, it)
                    THEN [i \in DOMAIN dests \cup {it} |-> IF i = it THEN address ELSE dests[i]]
                    ELSE dests
    BY <1>3, <1>4 DEF Write, padded
<1>6. Wild \in Place /\ "noop" \in Kinds /\ "item" \in Kinds
    BY DEF Place, Kinds
<1>7. /\ padded \in Memories
      /\ \A l \in Loc : Cell(padded, l) =
            IF l.page = p /\ l.pos \in x .. x + (y - x) - 1
              THEN Byte("noop", 0, l.pos - x + 1, Wild) ELSE Cell(mem, l)
    BY <1>1, <1>6, PutCells
<1> HIDE DEF padded
<1> DEFINE full == Put(padded, p, y, "item", it, len, Wild)
<1>8. /\ full \in Memories
      /\ \A l \in Loc : Cell(full, l) =
            IF l.page = p /\ l.pos \in y .. y + len - 1
              THEN Byte("item", it, l.pos - y + 1, Wild) ELSE Cell(padded, l)
    <2>1. y \in Int /\ len \in Int /\ it \in Nat
        BY <1>1, <1>2
    <2>2. QED
        BY <2>1, <1>6, <1>7, PutCells
<1> HIDE DEF full
<1>9. x + (y - x) - 1 = y - 1
    BY <1>1
<1>10. \A l \in Loc : Cell(full, l) =
            IF l.page = p /\ l.pos \in y .. y + len - 1
              THEN Byte("item", it, l.pos - y + 1, Wild)
            ELSE IF l.page = p /\ l.pos \in x .. y - 1
              THEN Byte("noop", 0, l.pos - x + 1, Wild)
            ELSE Cell(mem, l)
    BY <1>7, <1>8, <1>9
<1>11. At(p, y) \in Loc /\ y + len <= PageSize
    BY <1>1, <1>2, <1>4, SizeAssumption DEF At, Loc
<1>12. memory' = full
    BY <1>5 DEF full
<1>13. \A l : Cell(memory', l) = Cell(full, l)
    BY <1>12 DEF Cell
<1>14. QED
    BY <1>1, <1>2, <1>5, <1>8, <1>10, <1>11, <1>12, <1>13 DEF y, len

\* What write adds, when what was put before it in this step is a jump to it.
LEMMA WriteAdds ==
    ASSUME memory \in Memories, Frontier(memory, page, pos), page \in Nat, pos \in Nat,
           NEW mem \in Memories, NEW p \in 0 .. PageCount - 1, NEW x \in 0 .. PageSize,
           NEW address, Write(mem, p, x, address), pc' # "overrun",
           macro \in Seq(Item), it \in 1 .. Len(macro), current \in Nat,
           (p = page /\ x = pos /\ mem = memory) \/ (p = page + 1 /\ x = 0),
           \A l \in Loc : \/ Cell(mem, l) = Cell(memory, l)
                          \/ /\ l.page = page /\ l.pos >= pos
                             /\ Cell(mem, l).kind = "pagejump" /\ Cell(mem, l).to = At(p, 0)
                             /\ p = page + 1
    PROVE  Added(memory, memory', current, it, macro[it].len, At(p, PlacedIn(macro, it, x)))
<1> DEFINE y == PlacedIn(macro, it, x)
           len == macro[it].len
<1>1. /\ y \in Nat /\ y >= x /\ len \in Nat \ {0}
      /\ y + len <= PageSize
      /\ At(p, y) \in Loc
      /\ memory' \in Memories
      /\ \A l \in Loc : Cell(memory', l) =
            IF l.page = p /\ l.pos \in y .. y + len - 1
              THEN Byte("item", it, l.pos - y + 1, Wild)
            ELSE IF l.page = p /\ l.pos \in x .. y - 1
              THEN Byte("noop", 0, l.pos - x + 1, Wild)
            ELSE Cell(mem, l)
    BY WriteCells
<1>2. p = page + 1 => y = 0
    BY PlacedAtZero
<1> HIDE DEF y, len
<1> DEFINE new == memory'
<1>3. \A l \in Loc : Cell(new, l) =
            IF l.page = p /\ l.pos \in y .. y + len - 1
              THEN Byte("item", it, l.pos - y + 1, Wild)
            ELSE IF l.page = p /\ l.pos \in x .. y - 1
              THEN Byte("noop", 0, l.pos - x + 1, Wild)
            ELSE Cell(mem, l)
    BY <1>1
<1> HIDE DEF new
<1>4. /\ At(p, y).page = p /\ At(p, y).pos = y
      /\ \A l \in Loc : l.page \in Nat /\ l.pos \in Nat /\ (l.page = p /\ l.pos = y => l = At(p, y))
    BY DEF At, Loc
<1>5. ASSUME NEW k \in Loc, Cell(memory, k).kind # "free"
      PROVE  Cell(new, k) = Cell(memory, k)
    <2>1. ~(k.page > page) /\ ~(k.page = page /\ k.pos >= pos)
        BY <1>5 DEF Frontier
    <2>2. Cell(mem, k) = Cell(memory, k)
        BY <2>1
    <2>3. ~(k.page = p /\ k.pos >= x)
        BY <2>1, <1>4
    <2>4. QED
        BY <2>2, <2>3, <1>1, <1>3, <1>4
<1>6. ItemAt(new, At(p, y), current, it)
    <2>1. At(p, y).pos \in y .. y + len - 1 /\ At(p, y).pos - y + 1 = 1
        BY <1>1, <1>4
    <2>2. Cell(new, At(p, y)) = Byte("item", it, 1, Wild)
        BY <2>1, <1>1, <1>3, <1>4
    <2>3. QED
        BY <2>2, <1>1 DEF ItemAt, First, Byte
<1>7. ASSUME NEW k \in Loc, Cell(new, k).kind = "item", Cell(new, k) # Cell(memory, k)
      PROVE  /\ Cell(new, k).macro = current
             /\ Cell(new, k).item = it
             /\ Cell(new, k).byte = 1 => k = At(p, y)
    <2>1. k.page = p /\ k.pos \in y .. y + len - 1
        <3>1. Byte("noop", 0, k.pos - x + 1, Wild).kind # "item"
            BY DEF Byte
        <3>2. Cell(mem, k).kind = "item" => Cell(mem, k) = Cell(memory, k)
            OBVIOUS
        <3>3. QED
            BY <3>1, <3>2, <1>3, <1>7
    <2>2. Cell(new, k) = Byte("item", it, k.pos - y + 1, Wild)
        BY <2>1, <1>3
    <2>3. /\ Cell(new, k).macro = current /\ Cell(new, k).item = it
          /\ Cell(new, k).byte = k.pos - y + 1
        BY <2>2 DEF Byte
    <2>4. k.pos - y + 1 = 1 => k.pos = y
        BY <1>1, <1>4
    <2>5. QED
        BY <2>1, <2>3, <2>4, <1>4
<1>8. ASSUME NEW k \in Loc, Cell(new, k).kind = "pagejump", Cell(new, k) # Cell(memory, k)
      PROVE  Cell(new, k).to = At(p, y) /\ Aligned(At(p, y))
    <2>1. Byte("noop", 0, k.pos - x + 1, Wild).kind # "pagejump"
          /\ Byte("item", it, k.pos - y + 1, Wild).kind # "pagejump"
        BY DEF Byte
    <2>2. Cell(new, k) = Cell(mem, k)
        BY <2>1, <1>3, <1>8
    <2>3. Cell(mem, k).to = At(p, 0) /\ p = page + 1
        BY <2>2, <1>8
    <2>4. 0 % Align = 0
        BY SizeAssumption
    <2>5. QED
        BY <2>2, <2>3, <2>4, <1>2, <1>4 DEF Aligned
<1>9. Frontier(new, At(p, y).page, At(p, y).pos + len)
    <2> SUFFICES ASSUME NEW l \in Loc, l.page > p \/ (l.page = p /\ l.pos >= y + len)
                 PROVE  Cell(new, l).kind = "free"
        BY <1>4 DEF Frontier
    <2>1. ~(l.page = p /\ l.pos \in y .. y + len - 1) /\ ~(l.page = p /\ l.pos \in x .. y - 1)
        BY <1>1, <1>4
    <2>2. Cell(new, l) = Cell(mem, l)
        BY <2>1, <1>3
    <2>3. l.page > page \/ (l.page = page /\ l.pos >= pos)
        BY <1>1, <1>4
    <2>4. Cell(memory, l).kind = "free"
        BY <2>3 DEF Frontier
    <2>5. Cell(mem, l) = Cell(memory, l)
        BY <1>4
    <2>6. QED
        BY <2>2, <2>4, <2>5
<1>10. new \in Memories
    BY <1>1 DEF new
<1>11. Added(memory, new, current, it, len, At(p, y))
    BY <1>1, <1>5, <1>6, <1>7, <1>8, <1>9, <1>10 DEF Added
<1>12. QED
    BY <1>11 DEF new, y, len

-----------------------------------------------------------------------------
(* The steps of write keep the items where they are.                       *)

LEMMA AlignedFacts ==
    ASSUME NEW x \in Nat
    PROVE  /\ AlignUp(x) % Align = 0
           /\ x % Align = 0 => AlignUp(x) = x
<1>1. CASE Align = 1
    BY <1>1 DEF AlignUp
<1>2. CASE Align = 2
    BY <1>2 DEF AlignUp
<1>3. QED
    BY <1>1, <1>2, SizeAssumption

\* An item is written to page p from position x on, after a jump to there if
\* that is the next page.
Writes(mem, p, x, address) ==
    /\ Writing
    /\ mem \in Memories /\ p \in 0 .. PageCount - 1 /\ x \in 0 .. PageSize
    /\ (p = page /\ x = pos /\ mem = memory) \/ (p = page + 1 /\ x = 0)
    /\ \A l \in Loc : \/ Cell(mem, l) = Cell(memory, l)
                      \/ /\ l.page = page /\ l.pos >= pos
                         /\ Cell(mem, l).kind = "pagejump" /\ Cell(mem, l).to = At(p, 0)
                         /\ p = page + 1
    /\ address # Wild => address = At(p, Placed(it, x))
    /\ Write(mem, p, x, address)
    /\ pc' = "write"
    /\ start' \in Seq(Origin) /\ Len(start') = current
    /\ \A m \in 1 .. current :
          start'[m] = IF it = 1 /\ m = current THEN At(p, x) ELSE start[m]
    /\ program' = program /\ current' = current /\ UNCHANGED parseVars

LEMMA MacroTypes ==
    ASSUME program \in Programs, PlaceInv
    PROVE  /\ macro \in Seq(Item) /\ current \in DOMAIN program /\ current \in Nat
           /\ DOMAIN macro = 1 .. Len(macro) /\ DOMAIN program \subseteq Nat
           /\ DOMAIN program = 1 .. Len(program)
           /\ \A m \in DOMAIN program : /\ program[m] \in Seq(Item)
                                        /\ DOMAIN program[m] \subseteq Nat \ {0}
                                        /\ DOMAIN program[m] = 1 .. Len(program[m])
<1>1. program \in Seq(Seq(Item)) /\ current \in 1 .. Len(program)
    BY ProgramFacts DEF PlaceInv
<1>2. \A m \in DOMAIN program : program[m] \in Seq(Item)
    BY <1>1
<1>3. \A s \in Seq(Item) : DOMAIN s = 1 .. Len(s) /\ DOMAIN s \subseteq Nat \ {0}
    OBVIOUS
<1>4. QED
    BY <1>1, <1>2, <1>3 DEF macro

LEMMA WritesAdds ==
    ASSUME program \in Programs, PlaceInv, NEW mem, NEW p, NEW x, NEW address,
           Writes(mem, p, x, address)
    PROVE  /\ Added(memory, memory', current, it, macro[it].len, At(p, PlacedIn(macro, it, x)))
           /\ PlacedIn(macro, it, x) + macro[it].len <= PageSize
           /\ it' = it + 1 /\ page' = p /\ pos' = PlacedIn(macro, it, x) + macro[it].len
           /\ dests' = IF DestIn(macro, it)
                         THEN [i \in DOMAIN dests \cup {it} |->
                                 IF i = it THEN address ELSE dests[i]]
                         ELSE dests
           /\ it \in 1 .. Len(macro) /\ macro' = macro /\ macro[it].len \in Nat
           /\ PlacedIn(macro, it, x) \in Nat
<1>1. /\ memory \in Memories /\ Frontier(memory, page, pos) /\ page \in Nat /\ pos \in Nat
      /\ it \in 1 .. Len(macro) + 1
    BY SizeAssumption DEF PlaceInv
<1>2. macro \in Seq(Item) /\ current \in Nat
    BY MacroTypes
<1>3. it \in 1 .. Len(macro)
    BY <1>1, <1>2 DEF Writes, Writing
<1>4. /\ mem \in Memories /\ p \in 0 .. PageCount - 1 /\ x \in 0 .. PageSize
      /\ Write(mem, p, x, address) /\ pc' # "overrun"
    BY DEF Writes
<1>5. Added(memory, memory', current, it, macro[it].len, At(p, PlacedIn(macro, it, x)))
    BY <1>1, <1>2, <1>3, <1>4, WriteAdds DEF Writes
<1>6. macro' = macro
    BY DEF Writes, macro
<1> DEFINE y == PlacedIn(macro, it, x)
           len == macro[it].len
<1>7. /\ y \in Nat /\ len \in Nat \ {0} /\ y + len <= PageSize
      /\ it' = it + 1 /\ page' = p /\ pos' = y + len
    BY <1>2, <1>3, <1>4, WriteCells
<1>8. dests' = IF DestIn(macro, it)
                 THEN [i \in DOMAIN dests \cup {it} |-> IF i = it THEN address ELSE dests[i]]
                 ELSE dests
    <2>1. dests' = IF IsDest(it)
                     THEN [i \in DOMAIN dests \cup {it} |-> IF i = it THEN address ELSE dests[i]]
                     ELSE dests
        BY <1>4 DEF Write
    <2>2. IsDest(it) <=> DestIn(macro, it)
        BY DEF IsDest, DestIn
    <2>3. QED
        BY <2>1, <2>2
<1>9. QED
    BY <1>3, <1>5, <1>6, <1>7, <1>8

LEMMA PlaceStep ==
    ASSUME program \in Programs, PlaceInv, NEW mem, NEW p, NEW x, NEW address,
           Writes(mem, p, x, address)
    PROVE  PlaceInv'
<1> DEFINE y == PlacedIn(macro, it, x)
           len == macro[it].len
           l0 == At(p, y)
<1>1. /\ Added(memory, memory', current, it, len, l0)
      /\ it \in 1 .. Len(macro) /\ macro' = macro /\ len \in Nat /\ y \in Nat
      /\ y + len <= PageSize
      /\ it' = it + 1 /\ page' = p /\ pos' = y + len
      /\ dests' = IF DestIn(macro, it)
                    THEN [i \in DOMAIN dests \cup {it} |-> IF i = it THEN address ELSE dests[i]]
                    ELSE dests
    BY WritesAdds
<1>2. DestIn(macro, it) => y % Align = 0
    <2>1. x \in Nat
        BY SizeAssumption DEF Writes
    <2>2. QED
        BY <2>1, AlignedFacts DEF PlacedIn
<1>3. address # Wild => address = l0
    BY PlacedIsPlacedIn DEF Writes
<1>4. l0.page = p /\ l0.pos = y
    BY DEF At
<1> HIDE DEF y, len, l0
<1>5. /\ macro \in Seq(Item) /\ current \in DOMAIN program /\ current \in Nat
      /\ DOMAIN macro = 1 .. Len(macro) /\ DOMAIN program = 1 .. Len(program)
    BY MacroTypes
<1>6. /\ program' = program /\ current' = current
      /\ start' \in Seq(Origin) /\ Len(start') = current
      /\ list' = list /\ parsed' = parsed /\ stack' = stack
      /\ p \in 0 .. PageCount - 1
    BY DEF Writes, parseVars
<1>7. memory \in Memories /\ memory' \in Memories /\ Frontier(memory', p, y + len)
    BY <1>1, <1>4 DEF PlaceInv, Added
<1>8. ItemsInv(memory', program, current, it)
    <2>1. ItemsInv(memory, program, current, it - 1)
        BY DEF PlaceInv
    <2>2. it \in DOMAIN program[current] /\ it \in Nat
        BY <1>1, <1>5 DEF macro
    <2>3. QED
        BY <1>1, <1>5, <1>7, <2>1, <2>2, ItemsAdded
<1>9. JumpsInv(memory', program, current)
    <2>1. JumpsInv(memory, program, current)
        BY DEF PlaceInv
    <2>2. QED
        BY <1>1, <1>5, <2>1, JumpsAdded
<1>10. DestsInv'
    <2>1. it' - 1 = it /\ it - 1 \in Nat
        BY <1>1
    <2>2. DOMAIN dests' = {i \in 1 .. it : DestIn(macro, i)}
        <3>1. DOMAIN dests = {i \in 1 .. it - 1 : DestIn(macro, i)}
            BY DEF PlaceInv, DestsInv
        <3>2. 1 .. it = (1 .. it - 1) \cup {it}
            BY <1>1
        <3>3. CASE DestIn(macro, it)
            <4>1. DOMAIN dests' = DOMAIN dests \cup {it}
                BY <1>1, <3>3
            <4>2. QED
                BY <4>1, <3>1, <3>2, <3>3
        <3>4. CASE ~DestIn(macro, it)
            <4>1. DOMAIN dests' = DOMAIN dests
                BY <1>1, <3>4
            <4>2. QED
                BY <4>1, <3>1, <3>2, <3>4
        <3>5. QED
            BY <3>3, <3>4
    <2>3. ASSUME NEW i \in DOMAIN dests', dests'[i] # Wild
          PROVE  Aligned(dests'[i]) /\ ItemAt(memory', dests'[i], current, i)
        <3>1. CASE i = it
            <4>1. DestIn(macro, it)
                BY <3>1, <2>2
            <4>2. dests'[i] = address
                BY <4>1, <3>1, <1>1
            <4>3. dests'[i] = l0
                BY <4>2, <2>3, <1>3
            <4>4. Aligned(l0) /\ ItemAt(memory', l0, current, it)
                BY <4>1, <1>1, <1>2, <1>4 DEF Aligned, Added
            <4>5. QED
                BY <4>3, <4>4, <3>1
        <3>2. CASE i # it
            <4>1. i \in DOMAIN dests /\ dests'[i] = dests[i]
                BY <3>2, <1>1
            <4>2. Aligned(dests[i]) /\ ItemAt(memory, dests[i], current, i)
                BY <4>1, <2>3 DEF PlaceInv, DestsInv
            <4>3. ItemAt(memory', dests[i], current, i)
                BY <4>2, <1>1, FirstKept
            <4>4. QED
                BY <4>1, <4>2, <4>3
        <3>3. QED
            BY <3>1, <3>2
    <2>4. QED
        BY <2>1, <2>2, <2>3, <1>1, <1>6 DEF DestsInv
<1>11. /\ page' \in 0 .. PageCount - 1 /\ pos' \in 0 .. PageSize
       /\ it' \in 1 .. Len(macro') + 1 /\ it' # 1 /\ it' - 1 = it
    <2>1. y + len \in 0 .. PageSize
        BY <1>1, SizeAssumption
    <2>2. it + 1 \in 1 .. Len(macro) + 1 /\ it + 1 # 1 /\ (it + 1) - 1 = it
        BY <1>1, <1>5
    <2>3. QED
        BY <1>1, <1>6, <2>1, <2>2
<1>12. current \in 1 .. Len(program) /\ list = <<>> /\ parsed = <<>> /\ stack = <<>>
    BY DEF PlaceInv
<1>13. QED
    BY <1>1, <1>6, <1>7, <1>8, <1>9, <1>10, <1>11, <1>12 DEF PlaceInv

LEMMA PathStep ==
    ASSUME program \in Programs, PlaceInv, PathInv, NEW mem, NEW p, NEW x, NEW address,
           Writes(mem, p, x, address),
           it > 1 => Reaches(memory', At(page, pos), current, it)
    PROVE  PathInv'
<1> DEFINE y == PlacedIn(macro, it, x)
           len == macro[it].len
           l0 == At(p, y)
<1>1. /\ Added(memory, memory', current, it, len, l0)
      /\ it \in 1 .. Len(macro) /\ macro' = macro
      /\ it' = it + 1 /\ page' = p /\ pos' = y + len
    BY WritesAdds
<1>2. /\ current \in Nat /\ current \in DOMAIN program /\ DOMAIN program \subseteq Nat
      /\ \A m \in DOMAIN program : DOMAIN program[m] \subseteq Nat \ {0}
      /\ DOMAIN program = 1 .. Len(program)
    BY MacroTypes
<1>3. it = 1 => l0 = At(p, x)
    <2> SUFFICES ASSUME it = 1 PROVE y = x
        OBVIOUS
    <2>1. x = pos \/ x = 0
        BY DEF Writes
    <2>2. x \in Nat /\ x % Align = 0
        <3>1. start[current] = At(page, pos) /\ start[current] \in Origin
            BY <1>2 DEF PlaceInv
        <3>2. pos % Align = 0
            BY <3>1 DEF Origin, Aligned, At
        <3>3. 0 % Align = 0
            BY SizeAssumption
        <3>4. x \in Nat
            BY SizeAssumption DEF Writes
        <3>5. QED
            BY <2>1, <3>2, <3>3, <3>4
    <2>3. QED
        BY <2>2, AlignedFacts DEF PlacedIn
<1>4. l0.page = p /\ l0.pos = y /\ Past(l0, len) = At(p, y + len)
    BY DEF At, Past
<1> HIDE DEF y, len, l0
<1>5. /\ \A m \in DOMAIN program : m < current => start'[m] = start[m]
      /\ start'[current] = IF it = 1 THEN l0 ELSE start[current]
    BY <1>2, <1>3 DEF Writes
<1>6. program' = program /\ current' = current
    BY DEF Writes
<1>7. ASSUME it > 1, NEW l \in Loc, ItemAt(memory, l, current, it - 1)
      PROVE  Reaches(memory', Past(l, program[current][it - 1].len), current, it)
    BY <1>7 DEF PathInv, macro
<1>8. ChainInv(memory, program, start, current, it - 1) /\ memory \in Memories /\ it \in Nat \ {0}
    BY <1>1 DEF PathInv, PlaceInv
<1>9. ChainInv(memory', program, start', current, it)
    BY <1>1, <1>2, <1>5, <1>7, <1>8, ChainAdded
<1>10. ASSUME NEW l \in Loc, ItemAt(memory', l, current, it)
       PROVE  Past(l, len) = At(p, y + len)
    <2>1. ItemsInv(memory', program, current, it)
        <3>1. ItemsInv(memory, program, current, it - 1) /\ it \in DOMAIN program[current]
              /\ it \in Nat
            BY <1>1, MacroTypes DEF PlaceInv, macro
        <3>2. QED
            BY <3>1, <1>1, <1>2, <1>8, ItemsAdded
    <2>2. l0 \in Loc /\ ItemAt(memory', l0, current, it)
        BY <1>1 DEF Added
    <2>3. l = l0
        BY <2>1, <2>2, <1>10 DEF ItemsInv, ItemAt
    <2>4. QED
        BY <2>3, <1>4
<1>11. it' - 1 = it /\ macro'[it].len = len
    BY <1>1 DEF len
<1>12. QED
    BY <1>1, <1>6, <1>9, <1>10, <1>11 DEF PathInv

LEMMA WrittenInit == Init => WrittenInv
<1> SUFFICES ASSUME Init PROVE PlaceInv /\ PathInv
    BY DEF WrittenInv
<1>1. /\ program \in Programs /\ current = 1 /\ it = 1 /\ page = 0 /\ dests = <<>>
      /\ list = <<>> /\ parsed = <<>> /\ stack = <<>>
    BY DEF Init
<1>2. PICK s \in Starts : pos = s /\ start = <<At(0, s)>>
    BY DEF Init
<1>3. s \in 0 .. PageSize /\ s % Align = 0
    BY SizeAssumption
<1>4. program \in Seq(Seq(Item)) /\ program # <<>> /\ 1 \in 1 .. Len(program)
    BY <1>1, ProgramAssumption DEF Item
<1>5. macro \in Seq(Item) /\ it \in 1 .. Len(macro) + 1
    BY <1>1, <1>4 DEF macro
<1>6. page \in 0 .. PageCount - 1
    BY <1>1, SizeAssumption
<1>7. start \in Seq(Origin) /\ Len(start) = 1 /\ start[1] = At(0, s)
    <2>1. At(0, s) \in Origin
        BY <1>1, <1>3, <1>6 DEF Origin, Aligned, At
    <2>2. QED
        BY <2>1, <1>2
<1>8. memory \in Memories /\ \A l \in Loc : Cell(memory, l).kind = "free"
    <2>1. memory = [p \in 0 .. PageCount - 1 |-> [x \in 0 .. PageSize - 1 |-> Free]]
        BY DEF Init
    <2>2. Free \in Mark /\ Free.kind = "free"
        BY DEF Free, Mark, Kinds, Place
    <2>3. memory \in Memories
        BY <2>1, <2>2 DEF Memories
    <2>4. \A l \in Loc : Cell(memory, l) = Free
        BY <2>1 DEF Cell, Loc
    <2>5. QED
        BY <2>2, <2>3, <2>4
<1>9. Frontier(memory, page, pos) /\ JumpsInv(memory, program, current)
    BY <1>8 DEF Frontier, JumpsInv
<1>10. ItemsInv(memory, program, current, it - 1)
    BY <1>8 DEF ItemsInv, First
<1>11. DestsInv
    <2>1. 1 .. it - 1 = {}
        BY <1>1
    <2>2. DOMAIN dests = {}
        BY <1>1
    <2>3. QED
        BY <2>1, <2>2 DEF DestsInv
<1>12. PathInv
    <2>1. \A m \in DOMAIN program : \A i \in Nat \ {0} : ~Upto(current, it - 1, m, i)
        BY <1>1, <1>4 DEF Upto
    <2>2. \A l, m, i : ~ItemAt(memory, l, m, i)
        BY <1>8 DEF ItemAt, First
    <2>3. QED
        BY <1>1, <2>1, <2>2 DEF PathInv, ChainInv
<1>13. PlaceInv
    BY <1>1, <1>2, <1>3, <1>4, <1>5, <1>6, <1>7, <1>8, <1>9, <1>10, <1>11 DEF PlaceInv
<1>14. QED
    BY <1>12, <1>13

LEMMA PlaceHere ==
    ASSUME program \in Programs, WrittenInv, WriteHere
    PROVE  WrittenInv'
<1> SUFFICES ASSUME pc' = "write" PROVE PlaceInv' /\ (AllTerminated => PathInv')
    <2>1. AllTerminated' = AllTerminated
        BY DEF WriteHere, AllTerminated
    <2>2. QED
        BY <2>1 DEF WrittenInv
<1>1. PlaceInv /\ (AllTerminated => PathInv) /\ Writing
    BY DEF WriteHere, Writing, WrittenInv
<1> DEFINE address == At(page, Placed(it, pos))
<1>2. Writes(memory, page, pos, address)
    <2>1. /\ start' = start /\ program' = program /\ current' = current /\ UNCHANGED parseVars
          /\ Write(memory, page, pos, address)
        BY DEF WriteHere
    <2>2. /\ memory \in Memories /\ page \in 0 .. PageCount - 1 /\ pos \in 0 .. PageSize
          /\ start \in Seq(Origin) /\ Len(start) = current
          /\ it = 1 => start[current] = At(page, pos)
        BY <1>1 DEF PlaceInv
    <2> HIDE DEF address
    <2>3. address # Wild => address = At(page, Placed(it, pos))
        BY DEF address
    <2>4. QED
        BY <1>1, <2>1, <2>2, <2>3 DEF Writes
<1>3. PlaceInv'
    BY <1>1, <1>2, PlaceStep
<1>4. ASSUME AllTerminated
      PROVE  PathInv'
    <2> DEFINE y == PlacedIn(macro, it, pos)
               len == macro[it].len
    <2>1. Added(memory, memory', current, it, len, At(page, y)) /\ it \in 1 .. Len(macro)
        BY <1>1, <1>2, WritesAdds
    <2>2. /\ memory \in Memories /\ page \in 0 .. PageCount - 1 /\ pos \in 0 .. PageSize
          /\ macro \in Seq(Item) /\ current \in Nat /\ Write(memory, page, pos, address)
        BY <1>1, MacroTypes DEF PlaceInv, WriteHere
    <2>3. /\ y \in Nat /\ y >= pos /\ y <= pos + Align - 1 /\ len \in Nat \ {0}
          /\ y + len <= PageSize
          /\ \A l \in Loc : Cell(memory', l) =
                IF l.page = page /\ l.pos \in y .. y + len - 1
                  THEN Byte("item", it, l.pos - y + 1, Wild)
                ELSE IF l.page = page /\ l.pos \in pos .. y - 1
                  THEN Byte("noop", 0, l.pos - pos + 1, Wild)
                ELSE Cell(memory, l)
        BY <2>1, <2>2, WriteCells
    <2> HIDE DEF y, len
    <2>4. Reaches(memory', At(page, pos), current, it)
        <3>1. CASE y = pos
            BY <3>1, <2>1 DEF Added, Reaches
        <3>2. CASE y # pos
            <4>1. y = pos + 1
                BY <3>2, <2>2, <2>3, SizeAssumption
            <4>2. At(page, pos) \in Loc
                BY <4>1, <2>2, <2>3, SizeAssumption DEF At, Loc
            <4>3. At(page, pos).page = page /\ At(page, pos).pos = pos
                BY DEF At
            <4>4. pos \in pos .. y - 1 /\ ~(pos \in y .. y + len - 1) /\ pos - pos + 1 = 1
                BY <4>1, <2>2, <2>3
            <4>5. Cell(memory', At(page, pos)) = Byte("noop", 0, 1, Wild)
                BY <4>2, <4>3, <4>4, <2>3
            <4>6. First(memory', At(page, pos), "noop")
                BY <4>2, <4>5 DEF First, Byte
            <4>7. Past(At(page, pos), 1) = At(page, y)
                BY <4>1, <4>3 DEF Past
            <4>8. QED
                BY <4>6, <4>7, <2>1 DEF Added, Reaches
        <3>3. QED
            BY <3>1, <3>2
    <2>5. QED
        BY <1>1, <1>2, <1>4, <2>4, PathStep
<1>5. QED
    BY <1>3, <1>4

LEMMA PlaceMove ==
    ASSUME Inv, WrittenInv, MoveToNextPage
    PROVE  WrittenInv'
<1> SUFFICES ASSUME pc' = "write" PROVE PlaceInv' /\ (AllTerminated => PathInv')
    <2>1. AllTerminated' = AllTerminated
        BY DEF MoveToNextPage, AllTerminated
    <2>2. QED
        BY <2>1 DEF WrittenInv
<1>1. PlaceInv /\ (AllTerminated => PathInv) /\ Writing /\ program \in Programs
    BY DEF MoveToNextPage, Writing, WrittenInv, Inv
<1> DEFINE put == Put(memory, page, pos, "pagejump", 0, JumpLength, At(page + 1, 0))
           mem == IF it = 1 THEN memory ELSE put
<1>2. /\ memory \in Memories /\ page \in 0 .. PageCount - 1 /\ pos \in 0 .. PageSize
      /\ start \in Seq(Origin) /\ Len(start) = current /\ current \in 1 .. Len(start)
      /\ it \in Nat
    <2>1. current \in 1 .. Len(program) /\ Len(start) = current /\ it \in 1 .. Len(macro) + 1
        BY <1>1 DEF PlaceInv
    <2>2. QED
        BY <2>1, <1>1 DEF PlaceInv
<1>3. /\ page + 1 \in 0 .. PageCount - 1 /\ 0 \in 0 .. PageSize
      /\ Write(mem, page + 1, 0, Wild)
      /\ program' = program /\ current' = current /\ UNCHANGED parseVars
      /\ start' = IF it = 1 THEN [start EXCEPT ![current] = At(page + 1, 0)] ELSE start
    <2>1. page + 1 < PageCount
        BY DEF MoveToNextPage
    <2>2. page + 1 \in 0 .. PageCount - 1 /\ 0 \in 0 .. PageSize
        BY <2>1, <1>2, SizeAssumption
    <2>3. QED
        BY <2>2 DEF MoveToNextPage
<1>4. /\ put \in Memories
      /\ \A l \in Loc : Cell(put, l) =
            IF l.page = page /\ l.pos \in pos .. pos + JumpLength - 1
              THEN Byte("pagejump", 0, l.pos - pos + 1, At(page + 1, 0)) ELSE Cell(memory, l)
    <2>1. "pagejump" \in Kinds /\ At(page + 1, 0) \in Place /\ JumpLength \in Int /\ pos \in Int
          /\ current \in Nat
        BY <1>2, SizeAssumption DEF Kinds, Place, At
    <2>2. QED
        BY <2>1, <1>2, PutCells
<1> HIDE DEF put
<1>5. mem \in Memories
    BY <1>2, <1>4
<1>6. ASSUME NEW l \in Loc
      PROVE  \/ Cell(mem, l) = Cell(memory, l)
             \/ /\ l.page = page /\ l.pos >= pos
                /\ Cell(mem, l).kind = "pagejump" /\ Cell(mem, l).to = At(page + 1, 0)
    <2>1. CASE it # 1 /\ l.page = page /\ l.pos \in pos .. pos + JumpLength - 1
        <3>1. Cell(mem, l) = Byte("pagejump", 0, l.pos - pos + 1, At(page + 1, 0))
            BY <2>1, <1>4
        <3>2. QED
            BY <2>1, <3>1, <1>2, SizeAssumption DEF Byte
    <2>2. CASE ~(it # 1 /\ l.page = page /\ l.pos \in pos .. pos + JumpLength - 1)
        BY <2>2, <1>4
    <2>3. QED
        BY <2>1, <2>2
<1>7. /\ start' \in Seq(Origin) /\ Len(start') = current
      /\ \A m \in 1 .. current :
            start'[m] = IF it = 1 /\ m = current THEN At(page + 1, 0) ELSE start[m]
    <2>1. At(page + 1, 0) \in Origin
        <3>1. 0 % Align = 0
            BY SizeAssumption
        <3>2. QED
            BY <3>1, <1>3 DEF Origin, Aligned, At
    <2>2. CASE it = 1
        <3>1. start' = [start EXCEPT ![current] = At(page + 1, 0)]
            BY <2>2, <1>3
        <3>2. QED
            BY <2>1, <2>2, <3>1, <1>2
    <2>3. CASE it # 1
        BY <2>3, <1>2, <1>3
    <2>4. QED
        BY <2>2, <2>3
<1> HIDE DEF mem
<1>8. Writes(mem, page + 1, 0, Wild)
    BY <1>1, <1>3, <1>5, <1>6, <1>7 DEF Writes
<1>9. PlaceInv'
    BY <1>1, <1>8, PlaceStep
<1>10. ASSUME AllTerminated
       PROVE  PathInv'
    <2>1. ASSUME it > 1
          PROVE  Reaches(memory', At(page, pos), current, it)
        <3>1. pos + JumpLength + CRCLength <= PageSize /\ it <= Len(macro) /\ checking
            BY <2>1, <1>1, <1>10 DEF Inv, WriteInv, RoomInv, Writing, MoveToNextPage, NeedJump
        <3>2. JumpLength >= 1
            <4>1. /\ macro \in Seq(Item) /\ Len(macro) > 1
                  /\ macro[Len(macro)].len + Align - 1 <= JumpLength
                BY <1>1, <1>10, WritingFacts DEF AtItem
            <4>2. macro[Len(macro)].len \in Nat \ {0}
                <5>1. macro[Len(macro)] \in Item
                    BY <4>1
                <5>2. QED
                    BY <5>1 DEF Item
            <4>3. QED
                BY <4>1, <4>2, SizeAssumption
        <3>3. At(page, pos) \in Loc /\ At(page, pos).page = page /\ At(page, pos).pos = pos
            BY <3>1, <3>2, <1>2, SizeAssumption DEF At, Loc
        <3>4. pos \in pos .. pos + JumpLength - 1 /\ pos - pos + 1 = 1
            BY <3>2, <1>2, SizeAssumption
        <3>5. Cell(mem, At(page, pos)) = Byte("pagejump", 0, 1, At(page + 1, 0))
            <4>1. mem = put
                BY <2>1 DEF mem
            <4>2. QED
                BY <4>1, <3>3, <3>4, <1>4
        <3>6. Cell(memory', At(page, pos)) = Cell(mem, At(page, pos))
            <4>1. macro \in Seq(Item) /\ it \in 1 .. Len(macro) /\ current \in Nat /\ pc' # "overrun"
                <5>1. it \in 1 .. Len(macro)
                    BY <1>1, <1>8, WritesAdds
                <5>2. macro \in Seq(Item) /\ current \in Nat
                    BY <1>1, MacroTypes
                <5>3. QED
                    BY <5>1, <5>2
            <4>2. page # page + 1
                BY <1>2
            <4>3. QED
                BY <4>1, <4>2, <1>3, <1>5, <3>3, WriteCells
        <3>7. At(page + 1, PlacedIn(macro, it, 0)) = At(page + 1, 0)
            BY PlacedAtZero
        <3>8. ItemAt(memory', At(page + 1, 0), current, it)
            BY <1>1, <1>8, <3>7, WritesAdds DEF Added
        <3>9. First(memory', At(page, pos), "pagejump")
              /\ Cell(memory', At(page, pos)).to = At(page + 1, 0)
            BY <3>3, <3>5, <3>6 DEF First, Byte
        <3>10. QED
            BY <3>8, <3>9 DEF Reaches
    <2>2. QED
        BY <1>1, <1>8, <1>10, <2>1, PathStep
<1>11. QED
    BY <1>9, <1>10

\* What the end of a macro does to the memory: the addresses of its jumps.
LEMMA ResolvedCells ==
    ASSUME program \in Programs, PlaceInv, pc = "write", it > Len(macro)
    PROVE  /\ ResolveJumps(memory) \in Memories
           /\ \A l \in Loc :
                 /\ Cell(ResolveJumps(memory), l).kind = Cell(memory, l).kind
                 /\ Cell(ResolveJumps(memory), l).byte = Cell(memory, l).byte
                 /\ Cell(ResolveJumps(memory), l).macro = Cell(memory, l).macro
                 /\ Cell(ResolveJumps(memory), l).item = Cell(memory, l).item
                 /\ Cell(ResolveJumps(memory), l).to =
                       IF /\ Cell(memory, l).kind = "item" /\ Cell(memory, l).macro = current
                          /\ IsJump(macro[Cell(memory, l).item])
                         THEN dests[macro[Cell(memory, l).item].dest]
                         ELSE Cell(memory, l).to
           /\ \A i \in DOMAIN macro : IsJump(macro[i]) =>
                 /\ dests[macro[i].dest] \in Place
                 /\ dests[macro[i].dest] # Wild =>
                       /\ Aligned(dests[macro[i].dest])
                       /\ ItemAt(memory, dests[macro[i].dest], current, macro[i].dest)
<1> DEFINE Jump(b) == b.macro = current /\ b.kind = "item" /\ IsJump(macro[b.item])
           Now(b) == IF Jump(b) THEN [b EXCEPT !.to = dests[macro[b.item].dest]] ELSE b
<1>1. /\ memory \in Memories
      /\ \A l \in Loc : Cell(memory, l) \in Mark
    BY DEF PlaceInv, Memories, Cell, Loc
<1>2. ASSUME NEW i \in DOMAIN macro, IsJump(macro[i])
      PROVE  /\ dests[macro[i].dest] \in Place
             /\ dests[macro[i].dest] # Wild =>
                   /\ Aligned(dests[macro[i].dest])
                   /\ ItemAt(memory, dests[macro[i].dest], current, macro[i].dest)
    <2> DEFINE d == macro[i].dest
    <2>1. d \in DOMAIN macro
        <3>1. current \in DOMAIN program
            BY MacroTypes
        <3>2. program[current][i].dest \in DOMAIN program[current]
            BY <3>1, <1>2, ProgramAssumption DEF IsJump, macro
        <3>3. QED
            BY <3>2 DEF macro
    <2>2. d \in 1 .. it - 1
        <3>1. DOMAIN macro = 1 .. Len(macro) /\ Len(macro) \in Nat
            BY MacroTypes
        <3>2. it \in Nat
            BY <3>1 DEF PlaceInv
        <3>3. QED
            BY <2>1, <3>1, <3>2
    <2>3. DestIn(macro, d)
        BY <1>2 DEF DestIn
    <2>4. d \in DOMAIN dests
        BY <2>2, <2>3 DEF PlaceInv, DestsInv
    <2>5. dests[d] # Wild => Aligned(dests[d]) /\ ItemAt(memory, dests[d], current, d)
        BY <2>4 DEF PlaceInv, DestsInv
    <2>6. \A l \in Loc : l \in Place
        BY SizeAssumption DEF Loc, Place
    <2>7. Wild \in Place
        BY DEF Place
    <2>8. dests[d] \in Place
        BY <2>5, <2>6, <2>7 DEF ItemAt, First
    <2>9. QED
        BY <2>5, <2>8
<1>3. ASSUME NEW l \in Loc
      PROVE  /\ Now(Cell(memory, l)) \in Mark
             /\ Now(Cell(memory, l)).kind = Cell(memory, l).kind
             /\ Now(Cell(memory, l)).byte = Cell(memory, l).byte
             /\ Now(Cell(memory, l)).macro = Cell(memory, l).macro
             /\ Now(Cell(memory, l)).item = Cell(memory, l).item
             /\ Now(Cell(memory, l)).to =
                   IF Jump(Cell(memory, l)) THEN dests[macro[Cell(memory, l).item].dest]
                                            ELSE Cell(memory, l).to
    <2> DEFINE b == Cell(memory, l)
    <2>1. b \in Mark
        BY <1>1
    <2>2. CASE Jump(b)
        <3>1. b.item \in DOMAIN macro
            <4>1. b.item \in DOMAIN program[b.macro]
                BY <2>2 DEF PlaceInv, ItemsInv
            <4>2. QED
                BY <4>1, <2>2 DEF macro
        <3>2. dests[macro[b.item].dest] \in Place
            BY <3>1, <2>2, <1>2
        <3> HIDE DEF b
        <3>3. Now(b) = [b EXCEPT !.to = dests[macro[b.item].dest]]
            BY <2>2
        <3> HIDE DEF Now, Jump
        <3>4. QED
            BY <2>1, <2>2, <3>2, <3>3 DEF Mark, b
    <2>3. CASE ~Jump(b)
        <3> HIDE DEF b, Jump
        <3>1. Now(b) = b
            BY <2>3
        <3>2. QED
            BY <2>1, <2>3, <3>1 DEF b
    <2>4. QED
        BY <2>2, <2>3
<1>4. ResolveJumps(memory) = [p \in 0 .. PageCount - 1 |-> [x \in 0 .. PageSize - 1 |-> Now(memory[p][x])]]
    <2>1. DOMAIN memory = 0 .. PageCount - 1
          /\ \A p \in 0 .. PageCount - 1 : DOMAIN memory[p] = 0 .. PageSize - 1
        BY <1>1 DEF Memories
    <2>2. QED
        BY <2>1 DEF ResolveJumps
<1> DEFINE new == ResolveJumps(memory)
<1> HIDE DEF Now, new
<1>5. \A l \in Loc : Cell(new, l) = Now(Cell(memory, l))
    BY <1>4 DEF Cell, Loc, new
<1>6. \A p \in 0 .. PageCount - 1, x \in 0 .. PageSize - 1 : Now(memory[p][x]) \in Mark
    <2> SUFFICES ASSUME NEW p \in 0 .. PageCount - 1, NEW x \in 0 .. PageSize - 1
                 PROVE  Now(memory[p][x]) \in Mark
        OBVIOUS
    <2>1. At(p, x) \in Loc /\ Cell(memory, At(p, x)) = memory[p][x]
        BY DEF At, Loc, Cell
    <2>2. QED
        BY <2>1, <1>3
<1>7. new \in Memories
    BY <1>4, <1>6 DEF Memories, new
<1>8. QED
    BY <1>2, <1>3, <1>5, <1>7 DEF new

\* The whole memory once every macro is written.
Parsing == {"parse", "done", "misread"}
ReadInv ==
    pc \in Parsing =>
        /\ current \in 1 .. Len(program)
        /\ memory \in Memories
        /\ ItemsInv(memory, program, Len(program) + 1, 0)
        /\ JumpsInv(memory, program, Len(program) + 1)
        /\ start \in Seq(Origin) /\ Len(start) = Len(program)
        /\ AllTerminated => ChainInv(memory, program, start, Len(program) + 1, 0)

LEMMA EndCells ==
    ASSUME program \in Programs, PlaceInv, pc = "write", it > Len(macro)
    PROVE  /\ ItemsInv(ResolveJumps(memory), program, current + 1, 0)
           /\ JumpsInv(ResolveJumps(memory), program, current + 1)
           /\ \A x \in Nat : x >= pos => Frontier(ResolveJumps(memory), page, x)
           /\ ResolveJumps(memory) \in Memories
           /\ \A st : /\ PathInv /\ AllTerminated
                      /\ \A m \in 1 .. current : st[m] = start[m]
                      => ChainInv(ResolveJumps(memory), program, st, current + 1, 0)
<1> DEFINE new == ResolveJumps(memory)
<1>1. /\ new \in Memories
      /\ \A l \in Loc :
            /\ Cell(new, l).kind = Cell(memory, l).kind
            /\ Cell(new, l).byte = Cell(memory, l).byte
            /\ Cell(new, l).macro = Cell(memory, l).macro
            /\ Cell(new, l).item = Cell(memory, l).item
            /\ Cell(new, l).to =
                  IF /\ Cell(memory, l).kind = "item" /\ Cell(memory, l).macro = current
                     /\ IsJump(macro[Cell(memory, l).item])
                    THEN dests[macro[Cell(memory, l).item].dest]
                    ELSE Cell(memory, l).to
    BY ResolvedCells
<1>2. \A i \in DOMAIN macro : IsJump(macro[i]) /\ dests[macro[i].dest] # Wild =>
              /\ Aligned(dests[macro[i].dest])
              /\ ItemAt(memory, dests[macro[i].dest], current, macro[i].dest)
    BY ResolvedCells
<1> HIDE DEF new
<1>3. /\ \A l, kind : First(new, l, kind) <=> First(memory, l, kind)
      /\ \A l, m, i : ItemAt(new, l, m, i) <=> ItemAt(memory, l, m, i)
    BY <1>1 DEF First, ItemAt
<1>4. /\ macro \in Seq(Item) /\ current \in Nat /\ current \in DOMAIN program
      /\ DOMAIN macro = 1 .. Len(macro) /\ Len(macro) \in Nat
      /\ DOMAIN program = 1 .. Len(program) /\ Len(program) \in Nat
      /\ \A m \in DOMAIN program : /\ DOMAIN program[m] = 1 .. Len(program[m])
                                   /\ Len(program[m]) \in Nat
    <2>1. /\ macro \in Seq(Item) /\ current \in Nat /\ current \in DOMAIN program
          /\ DOMAIN macro = 1 .. Len(macro)
          /\ DOMAIN program = 1 .. Len(program)
          /\ \A m \in DOMAIN program : /\ program[m] \in Seq(Item)
                                       /\ DOMAIN program[m] = 1 .. Len(program[m])
        BY MacroTypes
    <2>2. program \in Seq(Seq(Item))
        BY ProgramFacts, <2>1
    <2>3. QED
        BY <2>1, <2>2
<1>5. it - 1 = Len(macro)
    <2>1. it \in 1 .. Len(macro) + 1
        BY DEF PlaceInv
    <2>2. QED
        BY <2>1, <1>4
<1>6. ItemsInv(memory, program, current, Len(macro)) /\ JumpsInv(memory, program, current)
    BY <1>5 DEF PlaceInv
<1>7. ItemsInv(new, program, current + 1, 0)
    <2>1. ASSUME NEW l \in Loc, Cell(new, l).kind = "item"
          PROVE  /\ Cell(new, l).macro \in DOMAIN program
                 /\ Cell(new, l).item \in DOMAIN program[Cell(new, l).macro]
                 /\ Upto(current + 1, 0, Cell(new, l).macro, Cell(new, l).item)
        <3>1. /\ Cell(memory, l).macro \in DOMAIN program
              /\ Cell(memory, l).item \in DOMAIN program[Cell(memory, l).macro]
              /\ Upto(current, Len(macro), Cell(memory, l).macro, Cell(memory, l).item)
            BY <2>1, <1>1, <1>6 DEF ItemsInv
        <3>2. Upto(current + 1, 0, Cell(memory, l).macro, Cell(memory, l).item)
            BY <3>1, <1>4 DEF Upto
        <3>3. QED
            BY <3>1, <3>2, <1>1
    <2>2. ASSUME NEW k \in Loc, NEW l \in Loc, First(new, k, "item"), First(new, l, "item"),
                 Cell(new, k).macro = Cell(new, l).macro, Cell(new, k).item = Cell(new, l).item
          PROVE  k = l
        BY <2>2, <1>1, <1>3, <1>6 DEF ItemsInv
    <2>3. QED
        BY <2>1, <2>2 DEF ItemsInv
<1>8. JumpsInv(new, program, current + 1)
    <2> SUFFICES ASSUME NEW l \in Loc
                 PROVE  /\ Cell(new, l).kind = "pagejump" =>
                              Aligned(Cell(new, l).to) /\ First(new, Cell(new, l).to, "item")
                        /\ /\ Cell(new, l).kind = "item"
                           /\ Cell(new, l).macro < current + 1
                           /\ IsJump(program[Cell(new, l).macro][Cell(new, l).item])
                           /\ Cell(new, l).to # Wild
                           => /\ Aligned(Cell(new, l).to)
                              /\ ItemAt(new, Cell(new, l).to, Cell(new, l).macro,
                                        program[Cell(new, l).macro][Cell(new, l).item].dest)
        BY DEF JumpsInv
    <2>1. ASSUME Cell(new, l).kind = "pagejump"
          PROVE  Aligned(Cell(new, l).to) /\ First(new, Cell(new, l).to, "item")
        <3>1. Cell(memory, l).kind = "pagejump" /\ Cell(new, l).to = Cell(memory, l).to
            BY <2>1, <1>1
        <3>2. QED
            BY <3>1, <1>3, <1>6 DEF JumpsInv
    <2>2. ASSUME Cell(new, l).kind = "item", Cell(new, l).macro < current + 1,
                 IsJump(program[Cell(new, l).macro][Cell(new, l).item]),
                 Cell(new, l).to # Wild
          PROVE  /\ Aligned(Cell(new, l).to)
                 /\ ItemAt(new, Cell(new, l).to, Cell(new, l).macro,
                           program[Cell(new, l).macro][Cell(new, l).item].dest)
        <3> DEFINE m == Cell(memory, l).macro
                   i == Cell(memory, l).item
        <3>1. Cell(memory, l).kind = "item" /\ Cell(new, l).macro = m /\ Cell(new, l).item = i
              /\ IsJump(program[m][i]) /\ m < current + 1
            BY <2>2, <1>1
        <3>2. m \in DOMAIN program /\ i \in DOMAIN program[m] /\ m \in Nat
            BY <3>1, <1>4, <1>6 DEF ItemsInv
        <3>3. CASE m = current
            <4>1. Cell(new, l).to = dests[macro[i].dest] /\ i \in DOMAIN macro /\ IsJump(macro[i])
                BY <3>1, <3>2, <3>3, <1>1 DEF macro
            <4>2. Aligned(Cell(new, l).to) /\ ItemAt(memory, Cell(new, l).to, m, program[m][i].dest)
                BY <4>1, <3>3, <2>2, <1>2 DEF macro
            <4>3. QED
                BY <4>2, <3>1, <1>3
        <3>4. CASE m # current
            <4>1. m < current
                BY <3>1, <3>2, <3>4, <1>4
            <4>2. Cell(new, l).to = Cell(memory, l).to
                BY <3>4, <1>1
            <4>3. Aligned(Cell(new, l).to) /\ ItemAt(memory, Cell(new, l).to, m, program[m][i].dest)
                BY <4>1, <4>2, <3>1, <2>2, <1>6 DEF JumpsInv
            <4>4. QED
                BY <4>3, <3>1, <1>3
        <3>5. QED
            BY <3>3, <3>4
    <2>3. QED
        BY <2>1, <2>2
<1>9. ASSUME NEW x \in Nat, x >= pos
      PROVE  Frontier(new, page, x)
    <2>1. \A l \in Loc : l.pos \in Nat
        BY DEF Loc
    <2>2. pos \in Nat /\ Frontier(memory, page, pos)
        BY SizeAssumption DEF PlaceInv
    <2>3. QED
        BY <2>1, <2>2, <1>1, <1>9 DEF Frontier
<1>10. ASSUME NEW st, PathInv, AllTerminated, \A m \in 1 .. current : st[m] = start[m]
       PROVE  ChainInv(new, program, st, current + 1, 0)
    <2>1. ChainInv(memory, program, start, current, Len(macro))
        BY <1>5, <1>10 DEF PathInv
    <2>2. Len(macro) > 1
        BY <1>4, <1>10 DEF AllTerminated, Terminated, macro
    <2>3. ASSUME NEW m \in DOMAIN program, Upto(current + 1, 0, m, 1)
          PROVE  ItemAt(new, st[m], m, 1)
        <3>1. m \in 1 .. current /\ Upto(current, Len(macro), m, 1)
            BY <2>2, <2>3, <1>4 DEF Upto
        <3>2. ItemAt(memory, start[m], m, 1)
            BY <3>1, <2>1 DEF ChainInv
        <3>3. QED
            BY <3>1, <3>2, <1>3, <1>10
    <2>4. ASSUME NEW l \in Loc, NEW m \in DOMAIN program, NEW i \in DOMAIN program[m],
                 ItemAt(new, l, m, i), i + 1 \in DOMAIN program[m], Upto(current + 1, 0, m, i + 1)
          PROVE  Reaches(new, Past(l, program[m][i].len), m, i + 1)
        <3> DEFINE k == Past(l, program[m][i].len)
        <3>1. Upto(current, Len(macro), m, i + 1)
            <4>1. m <= current /\ m \in Nat /\ i \in Nat /\ i + 1 \in 1 .. Len(program[m])
                BY <2>4, <1>4 DEF Upto
            <4>2. m = current => Len(program[m]) = Len(macro)
                BY DEF macro
            <4>3. QED
                BY <4>1, <4>2, <1>4 DEF Upto
        <3>2. Reaches(memory, k, m, i + 1)
            BY <3>1, <2>1, <2>4, <1>3 DEF ChainInv
        <3> HIDE DEF k
        <3>3. First(memory, k, "pagejump") => Cell(new, k).to = Cell(memory, k).to
            BY <1>1 DEF First
        <3>4. Reaches(new, k, m, i + 1)
            BY <3>2, <3>3, <1>3 DEF Reaches
        <3>5. QED
            BY <3>4 DEF k
    <2>5. QED
        BY <2>3, <2>4 DEF ChainInv
<1>11. QED
    BY <1>1, <1>7, <1>8, <1>9, <1>10 DEF new

LEMMA PlaceEnd ==
    ASSUME program \in Programs, WrittenInv, EndMacro
    PROVE  WrittenInv' /\ ReadInv'
<1>1. /\ PlaceInv /\ (AllTerminated => PathInv) /\ pc = "write" /\ it > Len(macro)
      /\ memory' = ResolveJumps(memory) /\ dests' = <<>> /\ it' = 1
      /\ program' = program /\ list' = list /\ parsed' = parsed /\ stack' = stack
    BY DEF EndMacro, WrittenInv, parseVars
<1>2. /\ ItemsInv(memory', program, current + 1, 0)
      /\ JumpsInv(memory', program, current + 1)
      /\ \A x \in Nat : x >= pos => Frontier(memory', page, x)
      /\ memory' \in Memories
      /\ \A st : /\ PathInv /\ AllTerminated
                 /\ \A m \in 1 .. current : st[m] = start[m]
                 => ChainInv(memory', program, st, current + 1, 0)
    BY <1>1, EndCells
<1>3. /\ page \in 0 .. PageCount - 1 /\ pos \in 0 .. PageSize /\ current \in 1 .. Len(program)
      /\ start \in Seq(Origin) /\ Len(start) = current
      /\ list = <<>> /\ parsed = <<>> /\ stack = <<>>
    BY <1>1 DEF PlaceInv
<1>4. AllTerminated' = AllTerminated
    BY <1>1 DEF AllTerminated
<1>5. Len(program) \in Nat /\ \A m \in DOMAIN program : program[m] \in Seq(Item)
    BY ProgramFacts, <1>1, MacroTypes
<1>6. CASE current < Len(program)
    <2> DEFINE x == AlignUp(pos)
               a == At(page, x)
    <2>1. current' = current + 1 /\ pos' = x /\ start' = Append(start, a) /\ pc' = pc /\ page' = page
        BY <1>6 DEF EndMacro
    <2>2. x \in 0 .. PageSize /\ x >= pos /\ x % Align = 0
        <3>1. pos \in Nat /\ pos <= PageSize
            BY <1>3, SizeAssumption
        <3>2. x % Align = 0
            BY <3>1, AlignedFacts
        <3>3. x \in Nat /\ x >= pos
            BY <3>1, AlignFacts
        <3>4. x <= PageSize
            BY <3>1, AlignedFits
        <3>5. QED
            BY <3>2, <3>3, <3>4, SizeAssumption
    <2>3. a \in Origin
        BY <2>2, <1>3 DEF Origin, Aligned, At
    <2> HIDE DEF x, a
    <2>4. /\ start' \in Seq(Origin) /\ Len(start') = current + 1 /\ start'[current + 1] = a
          /\ \A m \in 1 .. current : start'[m] = start[m]
        BY <2>1, <2>3, <1>3
    <2>5. current + 1 \in 1 .. Len(program)
        BY <1>3, <1>5, <1>6
    <2>6. macro' = program[current + 1] /\ program[current + 1] \in Seq(Item)
        <3>1. current + 1 \in DOMAIN program
            BY <2>5, MacroTypes, <1>1
        <3>2. QED
            BY <3>1, <2>1, <1>1, <1>5 DEF macro
    <2>7. it' \in 1 .. Len(macro') + 1 /\ it' - 1 = 0
        BY <2>6, <1>1
    <2>8. DestsInv'
        <3>1. 1 .. it' - 1 = {}
            BY <2>7
        <3>2. DOMAIN dests' = {}
            BY <1>1
        <3>3. QED
            BY <3>1, <3>2 DEF DestsInv
    <2>9. Frontier(memory', page, x)
        BY <2>2, <1>2, SizeAssumption
    <2>10. PlaceInv'
        <3>1. start'[current + 1] = At(page, x)
            BY <2>4 DEF a
        <3>2. QED
            BY <1>1, <1>2, <1>3, <2>1, <2>2, <2>4, <2>5, <2>7, <2>8, <2>9, <3>1 DEF PlaceInv
    <2>11. ASSUME AllTerminated
           PROVE  PathInv'
        <3>1. ChainInv(memory', program, start', current + 1, 0)
            BY <2>4, <2>11, <1>1, <1>2
        <3>2. QED
            BY <3>1, <2>1, <2>7, <1>1 DEF PathInv
    <2>12. pc' \notin Parsing
        BY <2>1, <1>1 DEF Parsing
    <2>13. QED
        BY <2>10, <2>11, <2>12, <1>4 DEF WrittenInv, ReadInv
<1>7. CASE ~(current < Len(program))
    <2>1. pc' = "parse" /\ current' = 1 /\ start' = start
        BY <1>7 DEF EndMacro
    <2>2. current = Len(program) /\ 1 \in 1 .. Len(program)
        BY <1>3, <1>5, <1>7
    <2>3. AllTerminated => ChainInv(memory', program, start, current + 1, 0)
        BY <1>1, <1>2
    <2>4. QED
        BY <2>1, <2>2, <2>3, <1>1, <1>2, <1>3, <1>4 DEF WrittenInv, ReadInv
<1>8. QED
    BY <1>6, <1>7

-----------------------------------------------------------------------------
(* What is left of the stack of the parser, and what is executed.           *)

\* The first address from the top that was not parsed, and what is under it.
LEMMA UnparsedFacts ==
    ASSUME NEW S, NEW st \in Seq(S), NEW done
    PROVE  \/ /\ Unparsed(st, done) = <<>>
              /\ \A j \in 1 .. Len(st) : st[j] \in done
           \/ \E m \in 1 .. Len(st) :
                 /\ Unparsed(st, done) = SubSeq(st, 1, m)
                 /\ st[m] \notin done
                 /\ \A j \in m + 1 .. Len(st) : st[j] \in done
<1> DEFINE Step(f) == [n \in 0 .. Len(st) |->
                          IF n = 0 THEN <<>>
                          ELSE IF st[n] \in done THEN f[n - 1] ELSE SubSeq(st, 1, n)]
           Last(n, m) == /\ m \in 0 .. n
                         /\ m > 0 => st[m] \notin done
                         /\ \A j \in m + 1 .. n : st[j] \in done
           T == {n \in Nat : \E m \in 0 .. n : Last(n, m)}
<1>1. Len(st) \in Nat
    OBVIOUS
<1>2. \A n \in Nat : \E m \in 0 .. n : Last(n, m)
    <2>1. 0 \in T
        <3>1. Last(0, 0)
            OBVIOUS
        <3>2. QED
            BY <3>1
    <2>2. ASSUME NEW n \in T
          PROVE  n + 1 \in T
        <3>1. n \in Nat
            OBVIOUS
        <3>2. CASE st[n + 1] \in done
            <4>1. PICK m \in 0 .. n : Last(n, m)
                OBVIOUS
            <4>2. \A j \in m + 1 .. n + 1 : j \in m + 1 .. n \/ j = n + 1
                BY <3>1
            <4>3. Last(n + 1, m) /\ m \in 0 .. n + 1
                BY <3>1, <3>2, <4>1, <4>2
            <4>4. n + 1 \in Nat /\ \E k \in 0 .. n + 1 : Last(n + 1, k)
                <5> HIDE DEF Last
                <5>1. QED
                    BY <3>1, <4>3
            <4>5. QED
                BY <4>4
        <3>3. CASE st[n + 1] \notin done
            <4>1. Last(n + 1, n + 1) /\ n + 1 \in 0 .. n + 1
                BY <3>1, <3>3
            <4>2. QED
                BY <3>1, <4>1
        <3>4. QED
            BY <3>2, <3>3
    <2>3. T \in SUBSET Nat
        OBVIOUS
    <2> HIDE DEF T
    <2>4. \A n \in Nat : n \in T
        BY <2>1, <2>2, <2>3, SetInduction
    <2>5. QED
        BY <2>4 DEF T
<1> DEFINE M(n) == CHOOSE m \in 0 .. n : Last(n, m)
           w == [n \in 0 .. Len(st) |-> IF M(n) = 0 THEN <<>> ELSE SubSeq(st, 1, M(n))]
<1>3. \A n \in Nat : M(n) \in 0 .. n /\ Last(n, M(n))
    BY <1>2
<1>4. \A n \in Nat : \A k, m \in 0 .. n : Last(n, k) /\ Last(n, m) => k = m
    <2>1. SUFFICES ASSUME NEW n \in Nat, NEW k \in 0 .. n, NEW m \in 0 .. n,
                          Last(n, k), Last(n, m), k < m
                   PROVE  FALSE
        OBVIOUS
    <2>2. m \in k + 1 .. n /\ m > 0
        BY <2>1
    <2>3. st[m] \in done /\ st[m] \notin done
        BY <2>1, <2>2
    <2>4. QED
        BY <2>3
<1> HIDE DEF M
<1>5. w = Step(w)
    <2> SUFFICES ASSUME NEW n \in 0 .. Len(st)
                 PROVE  w[n] = IF n = 0 THEN <<>>
                               ELSE IF st[n] \in done THEN w[n - 1] ELSE SubSeq(st, 1, n)
        OBVIOUS
    <2>1. n \in Nat
        BY <1>1
    <2>2. CASE n = 0
        BY <2>2, <1>3
    <2>3. CASE n # 0 /\ st[n] \notin done
        <3>1. Last(n, n) /\ n \in 0 .. n
            BY <2>1, <2>3
        <3>2. M(n) = n
            BY <3>1, <2>1, <1>3, <1>4
        <3>3. QED
            BY <3>2, <2>3
    <2>4. CASE n # 0 /\ st[n] \in done
        <3>1. n - 1 \in Nat /\ n - 1 \in 0 .. Len(st)
            BY <2>1, <2>4, <1>1
        <3>2. M(n - 1) \in 0 .. n - 1 /\ Last(n - 1, M(n - 1))
            BY <3>1, <1>3
        <3>3. \A j \in M(n - 1) + 1 .. n : j \in M(n - 1) + 1 .. n - 1 \/ j = n
            BY <3>1, <3>2, <2>1
        <3>4. Last(n, M(n - 1)) /\ M(n - 1) \in 0 .. n
            BY <3>1, <3>2, <3>3, <2>1, <2>4
        <3>5. M(n) = M(n - 1)
            BY <3>4, <2>1, <1>3, <1>4
        <3>6. QED
            BY <3>1, <3>5, <2>4
    <2>5. QED
        BY <2>2, <2>3, <2>4
<1> DEFINE f == CHOOSE g : g = Step(g)
<1>6. f = Step(f)
    <2> HIDE DEF w, Step
    <2>1. QED
        BY <1>5
<1>7. Unparsed(st, done) = f[Len(st)]
    BY DEF Unparsed
<1> HIDE DEF f, w
<1>8. \A n \in 0 .. Len(st) :
          f[n] = IF n = 0 THEN <<>>
                 ELSE IF st[n] \in done THEN f[n - 1] ELSE SubSeq(st, 1, n)
    BY <1>6
<1>9. \A n \in 0 .. Len(st) :
          w[n] = IF n = 0 THEN <<>>
                 ELSE IF st[n] \in done THEN w[n - 1] ELSE SubSeq(st, 1, n)
    BY <1>5
<1> DEFINE V == {n \in Nat : n <= Len(st) => f[n] = w[n]}
<1>10. \A n \in Nat : n \in V
    <2>1. 0 \in V
        BY <1>1, <1>8, <1>9
    <2>2. ASSUME NEW n \in V
          PROVE  n + 1 \in V
        <3>1. n \in Nat /\ (n + 1) - 1 = n /\ n + 1 # 0
            OBVIOUS
        <3>2. CASE n + 1 <= Len(st)
            <4>1. n + 1 \in 0 .. Len(st) /\ f[n] = w[n]
                BY <3>1, <3>2, <1>1
            <4>2. f[n + 1] = w[n + 1]
                BY <4>1, <3>1, <1>8, <1>9
            <4>3. QED
                BY <4>2, <3>1
        <3>3. QED
            BY <3>1, <3>2
    <2>3. V \in SUBSET Nat
        OBVIOUS
    <2> HIDE DEF V
    <2>4. QED
        BY <2>1, <2>2, <2>3, SetInduction
<1> DEFINE m == M(Len(st))
<1>11. Unparsed(st, done) = IF m = 0 THEN <<>> ELSE SubSeq(st, 1, m)
    <2>1. f[Len(st)] = w[Len(st)]
        BY <1>1, <1>10
    <2>2. Len(st) \in 0 .. Len(st)
        BY <1>1
    <2>3. w[Len(st)] = IF m = 0 THEN <<>> ELSE SubSeq(st, 1, m)
        BY <2>2 DEF w
    <2>4. QED
        BY <2>1, <2>3, <1>7
<1>12. m \in 0 .. Len(st) /\ Last(Len(st), m)
    BY <1>1, <1>3
<1> HIDE DEF m, M
<1>13. CASE m = 0
    BY <1>11, <1>12, <1>13
<1>14. CASE m # 0
    <2>1. m \in 1 .. Len(st) /\ st[m] \notin done
        BY <1>1, <1>12, <1>14
    <2>2. QED
        BY <2>1, <1>11, <1>12, <1>14
<1>15. QED
    BY <1>13, <1>14

\* An entry of the list that is padding, or a jump between pages, leads to the
\* item of another entry; an item is executed where it is.
LEMMA ExecutedFacts ==
    ASSUME Len(list) \in Nat, DOMAIN list = 1 .. Len(list),
           NEW k \in DOMAIN list, NEW j \in DOMAIN list, list[j].kind = "item",
           \/ j = k
           \/ list[k].kind = "noop" /\ j = k + 1
           \/ list[k].kind = "pagejump" /\ j = parsed[list[k].to]
    PROVE  Executed(k) = j
<1> DEFINE After(i) == IF i \notin DOMAIN list THEN i
                       ELSE CASE list[i].kind = "noop" -> i + 1
                              [] list[i].kind = "pagejump" -> parsed[list[i].to]
                              [] OTHER -> i
           Step(f) == [n \in 0 .. Len(list) |-> IF n = 0 THEN k ELSE After(f[n - 1])]
           w == [n \in 0 .. Len(list) |-> IF n = 0 THEN k ELSE j]
           f == CHOOSE g : g = Step(g)
<1>1. After(k) = j /\ After(j) = j
    OBVIOUS
<1>2. Executed(k) = f[Len(list)]
    BY DEF Executed
<1> HIDE DEF After
<1>3. w = Step(w)
    <2>1. ASSUME NEW n \in 0 .. Len(list)
          PROVE  w[n] = IF n = 0 THEN k ELSE After(w[n - 1])
        <3>1. CASE n = 0
            BY <3>1
        <3>2. CASE n # 0
            <4>1. n - 1 \in 0 .. Len(list) /\ w[n] = j
                BY <3>2
            <4>2. w[n - 1] \in {j, k}
                BY <4>1
            <4>3. QED
                BY <4>1, <4>2, <3>2, <1>1
        <3>3. QED
            BY <3>1, <3>2
    <2>2. QED
        BY <2>1
<1>4. f = Step(f)
    <2> HIDE DEF w, Step
    <2>1. QED
        BY <1>3
<1> HIDE DEF f, w
<1>5. \A n \in 0 .. Len(list) : f[n] = IF n = 0 THEN k ELSE After(f[n - 1])
    BY <1>4
<1> DEFINE V == {n \in Nat : n + 1 <= Len(list) => f[n + 1] = j}
<1>6. 0 \in V
    <2>1. 0 \in 0 .. Len(list) /\ 1 \in 0 .. Len(list) /\ 0 + 1 = 1 /\ 1 - 1 = 0
        OBVIOUS
    <2>2. f[0] = k
        BY <2>1, <1>5
    <2>3. f[1] = j
        BY <2>1, <2>2, <1>1, <1>5
    <2>4. QED
        BY <2>1, <2>3
<1>7. ASSUME NEW n \in V
      PROVE  n + 1 \in V
    <2>1. n \in Nat /\ (n + 1) + 1 # 0 /\ ((n + 1) + 1) - 1 = n + 1
        OBVIOUS
    <2>2. CASE (n + 1) + 1 <= Len(list)
        <3>1. (n + 1) + 1 \in 0 .. Len(list) /\ f[n + 1] = j
            BY <2>1, <2>2
        <3>2. f[(n + 1) + 1] = j
            BY <3>1, <2>1, <1>1, <1>5
        <3>3. QED
            BY <3>2, <2>1
    <2>3. QED
        BY <2>1, <2>2
<1>8. V \in SUBSET Nat
    OBVIOUS
<1> HIDE DEF V
<1>9. \A n \in Nat : n \in V
    BY <1>6, <1>7, <1>8, SetInduction
<1>10. Len(list) - 1 \in Nat /\ (Len(list) - 1) + 1 = Len(list)
    OBVIOUS
<1>11. f[Len(list)] = j
    <2>1. Len(list) - 1 \in V
        BY <1>9, <1>10
    <2>2. (Len(list) - 1) + 1 <= Len(list)
        BY <1>10
    <2>3. f[(Len(list) - 1) + 1] = j
        BY <2>1, <2>2 DEF V
    <2>4. QED
        BY <2>3, <1>10
<1>12. QED
    BY <1>2, <1>11

-----------------------------------------------------------------------------
(* What the parser has read: its k-th item was at loc[k], and belongs to the *)
(* run of items that began at first[k].                                      *)

Token == [macro : Nat, item : Nat, kind : Kinds, to : Place]
TokenOf(b) == [macro |-> b.macro, item |-> b.item, kind |-> b.kind, to |-> b.to]
JumpToken(prog, e) ==
    e.kind = "pagejump" \/ (e.kind = "item" /\ IsJump(prog[e.macro][e.item]))
OpenToken(prog, e) ==
    e.kind = "noop" \/ (e.kind = "item" /\ HasSuccessor(prog[e.macro][e.item]))
LengthOf(prog, e) == IF e.kind = "noop" THEN 1 ELSE prog[e.macro][e.item].len
\* The addresses that the items of a list refer to.
Goals(prog, s) == {s[k].to : k \in {k \in DOMAIN s : JumpToken(prog, s[k])}}
\* Reading from there comes to an item of macro c.
Good(mem, prog, c, l) == \E i \in DOMAIN prog[c] : Reaches(mem, l, c, i)

ListInv(loc, first) ==
    /\ list \in Seq(Token)
    /\ DOMAIN loc = DOMAIN list /\ DOMAIN first = DOMAIN list
    /\ \A k \in DOMAIN list :
          /\ loc[k] \in Loc
          /\ Cell(memory, loc[k]).kind # "free" /\ Cell(memory, loc[k]).byte = 1
          /\ list[k] = TokenOf(Cell(memory, loc[k]))
          /\ first[k] \in DOMAIN parsed
          /\ first[k] \in {start[current]} \cup Goals(program, list)
    /\ \A j, k \in DOMAIN list : j < k /\ first[j] = first[k] =>
          loc[j].page = loc[k].page /\ loc[j].pos < loc[k].pos
    /\ list # <<>> => loc[1] = start[current] /\ start[current] \in DOMAIN parsed
    /\ \A a \in DOMAIN parsed : parsed[a] \in DOMAIN list /\ loc[parsed[a]] = a
    /\ pc = "done" => list # <<>> /\ Goals(program, list) \subseteq DOMAIN parsed

\* The run that is being read goes on, or a new one begins.
Going == list # <<>> /\ OpenToken(program, list[Len(list)])
RunInv(loc, first) ==
    /\ page \in Nat /\ pos \in Nat
    /\ stack \in Seq(Goals(program, list))
    /\ list = <<>> => At(page, pos) = start[current]
    /\ Going => \A j \in DOMAIN list : first[j] = first[Len(list)] =>
                   loc[j].page = page /\ loc[j].pos < pos
    /\ ~Going => /\ Aligned(At(page, pos))
                 /\ At(page, pos) \notin DOMAIN parsed
                 /\ At(page, pos) \in {start[current]} \cup Goals(program, list)

\* Every item of the list leads to the next one of the macro, and everything
\* that was referred to was read or will be.
ReadPath(loc) ==
    /\ pc # "misread"
    /\ \A k \in DOMAIN list : Good(memory, program, current, loc[k])
    /\ \A k \in DOMAIN list : OpenToken(program, list[k]) =>
          \/ k < Len(list) /\ loc[k + 1] = Past(loc[k], LengthOf(program, list[k]))
          \/ /\ k = Len(list) /\ pc = "parse"
             /\ At(page, pos) = Past(loc[k], LengthOf(program, list[k]))
    /\ pc = "parse" =>
          /\ Good(memory, program, current, At(page, pos))
          /\ Goals(program, list) \subseteq
                DOMAIN parsed \cup Elements(stack) \cup {At(page, pos)}

ListedInv ==
    pc \in Parsing => \E loc, first :
        /\ ListInv(loc, first)
        /\ pc = "parse" => RunInv(loc, first)
        /\ AllTerminated /\ ~WildJumps => ReadPath(loc)

\* What one entry refers to, and what comes after it.
LEMMA TokenFacts ==
    ASSUME program \in Programs, ReadInv, pc \in Parsing,
           NEW l \in Loc, Cell(memory, l).kind # "free", Cell(memory, l).byte = 1,
           NEW e, e = TokenOf(Cell(memory, l))
    PROVE  /\ e \in Token
           /\ JumpToken(program, e) /\ e.to # Wild =>
                 Aligned(e.to) /\ First(memory, e.to, "item")
           /\ JumpToken(program, e) /\ e.to = Wild => WildJumps
           /\ OpenToken(program, e) => LengthOf(program, e) \in Nat \ {0}
           /\ Good(memory, program, current, l) /\ JumpToken(program, e) /\ e.to # Wild =>
                 Good(memory, program, current, e.to)
           /\ Good(memory, program, current, l) /\ OpenToken(program, e) /\ AllTerminated =>
                 Good(memory, program, current, Past(l, LengthOf(program, e)))
<1> DEFINE b == Cell(memory, l)
<1>1. /\ memory \in Memories /\ current \in 1 .. Len(program)
      /\ ItemsInv(memory, program, Len(program) + 1, 0)
      /\ JumpsInv(memory, program, Len(program) + 1)
      /\ AllTerminated => ChainInv(memory, program, start, Len(program) + 1, 0)
    BY DEF ReadInv
<1>2. b \in Mark
    BY <1>1 DEF Memories, Cell, Loc
<1>3. /\ e.macro = b.macro /\ e.item = b.item /\ e.kind = b.kind /\ e.to = b.to
      /\ e \in Token
    BY <1>2 DEF TokenOf, Token, Mark
<1>4. /\ program \in Seq(Seq(Item)) /\ Len(program) \in Nat
      /\ DOMAIN program = 1 .. Len(program)
      /\ \A m \in DOMAIN program : /\ program[m] \in Seq(Item)
                                   /\ DOMAIN program[m] = 1 .. Len(program[m])
                                   /\ Len(program[m]) \in Nat
    <2>1. program \in Seq(Seq(Item))
        BY <1>1, ProgramFacts
    <2>2. \A s \in Seq(Item) : DOMAIN s = 1 .. Len(s) /\ Len(s) \in Nat
        OBVIOUS
    <2>3. \A m \in DOMAIN program : program[m] \in Seq(Item)
        BY <2>1
    <2>4. QED
        BY <2>1, <2>2, <2>3
<1>5. b.kind = "item" => /\ b.macro \in DOMAIN program /\ b.macro < Len(program) + 1
                         /\ b.item \in DOMAIN program[b.macro]
    <2>1. b.kind = "item" => b.macro \in DOMAIN program /\ b.item \in DOMAIN program[b.macro]
        BY <1>1 DEF ItemsInv
    <2>2. QED
        BY <2>1, <1>4
<1>6. First(memory, l, b.kind) /\ b.kind \in {"noop", "pagejump", "item"}
    BY <1>2 DEF First, Mark, Kinds
<1>7. JumpToken(program, e) /\ e.to # Wild => Aligned(e.to) /\ First(memory, e.to, "item")
    BY <1>1, <1>3, <1>5 DEF JumpToken, JumpsInv, ItemAt
<1>8. b.kind = "pagejump" => b.to # Wild
    <2>1. Wild \notin Loc
        <3>1. \A x \in Loc : x \in [page : Nat, pos : Nat]
            BY SizeAssumption DEF Loc
        <3>2. QED
            BY <3>1, WildAssumption
    <2>2. QED
        BY <2>1, <1>1 DEF JumpsInv, First
<1>9. JumpToken(program, e) /\ e.to = Wild => WildJumps
    <2>1. SUFFICES ASSUME b.kind = "item", IsJump(program[b.macro][b.item]), b.to = Wild
                   PROVE  WildJumps
        BY <1>3, <1>8 DEF JumpToken
    <2>2. l.page \in DOMAIN memory /\ l.pos \in DOMAIN memory[l.page]
        BY <1>1 DEF Loc, Memories
    <2>3. memory[l.page][l.pos] = b
        BY DEF Cell
    <2>4. QED
        BY <2>1, <2>2, <2>3 DEF WildJumps
<1>10. OpenToken(program, e) => LengthOf(program, e) \in Nat \ {0}
    <2>1. b.kind = "item" => program[b.macro][b.item] \in Item
        BY <1>4, <1>5
    <2>2. \A x \in Item : x.len \in Nat \ {0}
        BY DEF Item
    <2>3. QED
        BY <2>1, <2>2, <1>3 DEF OpenToken, LengthOf
<1>11. ASSUME NEW i \in DOMAIN program[current], Reaches(memory, l, current, i)
       PROVE  \/ b.kind = "item" /\ b.macro = current /\ b.item = i
                  /\ ItemAt(memory, l, current, i)
              \/ b.kind = "noop" /\ ItemAt(memory, Past(l, 1), current, i)
              \/ b.kind = "pagejump" /\ ItemAt(memory, b.to, current, i)
    BY <1>11 DEF Reaches, ItemAt, First
<1>12. \A k : \A i \in DOMAIN program[current] :
           ItemAt(memory, k, current, i) => Good(memory, program, current, k)
    BY DEF Good, Reaches
<1>13. ASSUME Good(memory, program, current, l), JumpToken(program, e), e.to # Wild
       PROVE  Good(memory, program, current, e.to)
    <2>1. PICK i \in DOMAIN program[current] : Reaches(memory, l, current, i)
        BY <1>13 DEF Good
    <2>2. CASE b.kind = "pagejump"
        BY <2>1, <2>2, <1>3, <1>11, <1>12
    <2>3. CASE b.kind = "item"
        <3>1. b.macro = current /\ b.item = i /\ IsJump(program[current][i])
            BY <2>1, <2>3, <1>3, <1>11, <1>13 DEF JumpToken
        <3>2. ItemAt(memory, b.to, current, program[current][i].dest)
            BY <3>1, <2>3, <1>1, <1>3, <1>5, <1>13 DEF JumpsInv
        <3>3. program[current][i].dest \in DOMAIN program[current]
            BY <3>1, <1>1, <1>4, <2>1, ProgramAssumption DEF IsJump
        <3>4. QED
            BY <3>2, <3>3, <1>3, <1>12
    <2>4. QED
        BY <2>2, <2>3, <1>3, <1>13 DEF JumpToken
<1>14. ASSUME Good(memory, program, current, l), OpenToken(program, e), AllTerminated
       PROVE  Good(memory, program, current, Past(l, LengthOf(program, e)))
    <2>1. PICK i \in DOMAIN program[current] : Reaches(memory, l, current, i)
        BY <1>14 DEF Good
    <2>2. CASE b.kind = "noop"
        BY <2>1, <2>2, <1>3, <1>11, <1>12 DEF LengthOf
    <2>3. CASE b.kind = "item"
        <3>1. /\ b.macro = current /\ b.item = i /\ ItemAt(memory, l, current, i)
              /\ HasSuccessor(program[current][i])
            BY <2>1, <2>3, <1>3, <1>11, <1>14 DEF OpenToken
        <3>2. current \in DOMAIN program
            BY <1>1, <1>4
        <3>3. program[current][Len(program[current])].op = "end"
            BY <3>2, <1>14 DEF AllTerminated, Terminated
        <3>4. i # Len(program[current])
            BY <3>1, <3>3 DEF HasSuccessor
        <3>5. i + 1 \in DOMAIN program[current]
            BY <3>2, <3>4, <1>4
        <3>6. Upto(Len(program) + 1, 0, current, i + 1)
            BY <1>1, <1>4 DEF Upto
        <3>7. Reaches(memory, Past(l, program[current][i].len), current, i + 1)
            BY <3>1, <3>2, <3>5, <3>6, <1>1, <1>14 DEF ChainInv
        <3>8. LengthOf(program, e) = program[current][i].len
            BY <3>1, <2>3, <1>3 DEF LengthOf
        <3>9. QED
            BY <3>5, <3>7, <3>8 DEF Good
    <2>4. QED
        BY <2>2, <2>3, <1>3, <1>14 DEF OpenToken
<1>15. QED
    BY <1>3, <1>7, <1>9, <1>10, <1>13, <1>14

-----------------------------------------------------------------------------
(* One step of the parser. *)

\* It appends what it found, and remembers where that was if the position has
\* an address.
LEMMA ItemIsListed ==
    ASSUME program \in Programs, ReadInv, NEW loc, NEW first, ListInv(loc, first),
           RunInv(loc, first), ParseItem, NEW e, e = TokenOf(Found)
    PROVE  /\ pc = "parse" /\ program' = program /\ memory' = memory
           /\ start' = start /\ current' = current
           /\ At(page, pos) \in Loc
           /\ Cell(memory, At(page, pos)).kind # "free" /\ Cell(memory, At(page, pos)).byte = 1
           /\ e = TokenOf(Cell(memory, At(page, pos))) /\ e \in Token
           /\ list' \in Seq(Token) /\ Len(list) \in Nat /\ Len(list') = Len(list) + 1
           /\ DOMAIN list = 1 .. Len(list) /\ DOMAIN list' = 1 .. Len(list) + 1
           /\ \A k \in DOMAIN list : list'[k] = list[k]
           /\ list'[Len(list) + 1] = e
           /\ Goals(program, list') =
                 Goals(program, list) \cup (IF JumpToken(program, e) THEN {e.to} ELSE {})
           /\ DOMAIN parsed' =
                 DOMAIN parsed \cup (IF Aligned(At(page, pos)) THEN {At(page, pos)} ELSE {})
           /\ \A a \in DOMAIN parsed : parsed'[a] = parsed[a]
           /\ At(page, pos) \in DOMAIN parsed' \ DOMAIN parsed =>
                 parsed'[At(page, pos)] = Len(list) + 1
<1> DEFINE here == At(page, pos)
<1>1. /\ pc = "parse" /\ program' = program /\ memory' = memory
      /\ start' = start /\ current' = current /\ Parsable
      /\ list' = Append(list, e)
    BY DEF ParseItem, TokenOf
<1>2. pc \in Parsing
    BY <1>1 DEF Parsing
<1>3. here \in Loc /\ Cell(memory, here) = Found
    <2>1. page \in Nat /\ pos \in Nat /\ pos < PageSize /\ page < PageCount
        BY <1>1 DEF RunInv, Parsable
    <2>2. QED
        BY <2>1, SizeAssumption DEF Loc, At, Cell, Found
<1>4. Cell(memory, here).kind # "free" /\ Cell(memory, here).byte = 1
    BY <1>1, <1>3 DEF Parsable
<1>5. e = TokenOf(Cell(memory, here)) /\ e \in Token
    <2>1. e = TokenOf(Cell(memory, here))
        BY <1>3
    <2>2. QED
        BY <2>1, <1>2, <1>3, <1>4, TokenFacts
<1>6. list \in Seq(Token)
    BY DEF ListInv
<1>7. /\ list' \in Seq(Token) /\ Len(list) \in Nat /\ Len(list') = Len(list) + 1
      /\ DOMAIN list = 1 .. Len(list) /\ DOMAIN list' = 1 .. Len(list) + 1
      /\ \A k \in DOMAIN list : list'[k] = list[k]
      /\ list'[Len(list) + 1] = e
    BY <1>1, <1>5, <1>6
<1>8. Goals(program, list') =
          Goals(program, list) \cup (IF JumpToken(program, e) THEN {e.to} ELSE {})
    <2>1. \A k : k \in DOMAIN list' <=> k \in DOMAIN list \/ k = Len(list) + 1
        BY <1>7
    <2>2. ASSUME NEW a, a \in Goals(program, list')
          PROVE  a \in Goals(program, list) \/ (JumpToken(program, e) /\ a = e.to)
        <3>1. PICK k \in DOMAIN list' : JumpToken(program, list'[k]) /\ a = list'[k].to
            BY <2>2 DEF Goals
        <3>2. QED
            BY <3>1, <2>1, <1>7 DEF Goals
    <2>3. ASSUME NEW a, a \in Goals(program, list)
          PROVE  a \in Goals(program, list')
        <3>1. PICK k \in DOMAIN list : JumpToken(program, list[k]) /\ a = list[k].to
            BY <2>3 DEF Goals
        <3>2. QED
            BY <3>1, <2>1, <1>7 DEF Goals
    <2>4. JumpToken(program, e) => e.to \in Goals(program, list')
        BY <2>1, <1>7 DEF Goals
    <2>5. QED
        BY <2>2, <2>3, <2>4
<1>9. parsed' = IF pos % Align = 0 /\ here \notin DOMAIN parsed
                  THEN [a \in DOMAIN parsed \cup {here} |->
                          IF a = here THEN Len(list) + 1 ELSE parsed[a]]
                  ELSE parsed
    BY DEF ParseItem
<1>10. Aligned(here) <=> pos % Align = 0
    BY DEF Aligned, At
<1> HIDE DEF here
<1>11. /\ DOMAIN parsed' = DOMAIN parsed \cup (IF Aligned(here) THEN {here} ELSE {})
       /\ \A a \in DOMAIN parsed : parsed'[a] = parsed[a]
       /\ here \in DOMAIN parsed' \ DOMAIN parsed => parsed'[here] = Len(list) + 1
    <2>1. CASE pos % Align = 0 /\ here \notin DOMAIN parsed
        BY <2>1, <1>9, <1>10
    <2>2. CASE ~(pos % Align = 0 /\ here \notin DOMAIN parsed)
        BY <2>2, <1>9, <1>10
    <2>3. QED
        BY <2>1, <2>2
<1>12. QED
    BY <1>1, <1>3, <1>4, <1>5, <1>7, <1>8, <1>11 DEF here

\* Where it goes on: after the item, at an address of the stack that was not
\* parsed, or nowhere.
LEMMA WhereItGoesOn ==
    ASSUME program \in Programs, ReadInv, NEW loc, NEW first, ListInv(loc, first),
           RunInv(loc, first), ParseItem, NEW e, e = TokenOf(Found)
    PROVE  \E pushed \in Seq(Goals(program, list')) :
           /\ Elements(stack) \cup (IF JumpToken(program, e) THEN {e.to} ELSE {})
                 \subseteq Elements(pushed)
           /\ \/ /\ OpenToken(program, e)
                 /\ pc' = "parse" /\ page' = page /\ pos' = pos + LengthOf(program, e)
                 /\ stack' = pushed
              \/ /\ ~OpenToken(program, e)
                 /\ Elements(pushed) \subseteq DOMAIN parsed'
                 /\ pc' = IF \A x \in Elements(list') : Target(x) \in DOMAIN parsed'
                             THEN "done" ELSE "misread"
              \/ /\ ~OpenToken(program, e)
                 /\ \E a \in Goals(program, list') :
                       /\ a \notin DOMAIN parsed'
                       /\ stack' \in Seq(Goals(program, list'))
                       /\ Elements(pushed) \subseteq DOMAIN parsed' \cup Elements(stack') \cup {a}
                       /\ \/ a = Wild /\ pc' = "misread"
                          \/ a # Wild /\ pc' = "parse" /\ page' = a.page /\ pos' = a.pos
<1> DEFINE pushed == IF FoundJump THEN Append(stack, Found.to) ELSE stack
           left == Unparsed(pushed, DOMAIN parsed')
           G == Goals(program, list')
<1>1. /\ e.macro = Found.macro /\ e.item = Found.item /\ e.kind = Found.kind /\ e.to = Found.to
    BY DEF TokenOf
<1>2. /\ FoundJump <=> JumpToken(program, e)
      /\ FoundSuccessor <=> OpenToken(program, e)
    BY <1>1 DEF FoundJump, JumpToken, FoundSuccessor, OpenToken
<1>3. FoundSuccessor => FoundLength = LengthOf(program, e)
    <2>1. CASE Found.kind = "noop"
        BY <2>1, <1>1 DEF FoundLength, LengthOf
    <2>2. CASE Found.kind = "item"
        BY <2>2, <1>1 DEF FoundLength, LengthOf
    <2>3. QED
        BY <2>1, <2>2 DEF FoundSuccessor
<1>4. G = Goals(program, list) \cup (IF JumpToken(program, e) THEN {e.to} ELSE {})
    BY ItemIsListed
<1>5. stack \in Seq(G) /\ (FoundJump => Found.to \in G)
    <2>1. stack \in Seq(Goals(program, list)) /\ Goals(program, list) \subseteq G
        BY <1>4 DEF RunInv
    <2>2. QED
        BY <2>1, <1>1, <1>2, <1>4
<1>6. pushed \in Seq(G)
    BY <1>5
<1>7. Elements(stack) \cup (IF JumpToken(program, e) THEN {e.to} ELSE {}) \subseteq Elements(pushed)
    <2>1. \A k \in DOMAIN stack : k \in DOMAIN pushed /\ pushed[k] = stack[k]
        BY <1>5
    <2>2. FoundJump => Len(stack) + 1 \in DOMAIN pushed /\ pushed[Len(stack) + 1] = Found.to
        BY <1>5
    <2>3. QED
        BY <2>1, <2>2, <1>1, <1>2 DEF Elements
<1>8. \/ /\ FoundSuccessor
         /\ pos' = pos + FoundLength
         /\ stack' = pushed
         /\ UNCHANGED <<pc, page>>
      \/ /\ ~FoundSuccessor /\ left = <<>>
         /\ pc' = IF \A x \in Elements(list') : Target(x) \in DOMAIN parsed'
                     THEN "done" ELSE "misread"
      \/ /\ ~FoundSuccessor /\ left # <<>>
         /\ LET address == left[Len(left)] IN
            IF address = Wild THEN pc' = "misread" /\ UNCHANGED <<page, pos>>
            ELSE page' = address.page /\ pos' = address.pos /\ UNCHANGED pc
         /\ stack' = SubSeq(left, 1, Len(left) - 1)
    BY DEF ParseItem
<1>9. pc = "parse"
    BY DEF ParseItem
<1>10. \/ /\ left = <<>>
          /\ \A j \in 1 .. Len(pushed) : pushed[j] \in DOMAIN parsed'
       \/ \E m \in 1 .. Len(pushed) :
             /\ left = SubSeq(pushed, 1, m)
             /\ pushed[m] \notin DOMAIN parsed'
             /\ \A j \in m + 1 .. Len(pushed) : pushed[j] \in DOMAIN parsed'
    <2> HIDE DEF pushed, G
    <2>1. QED
        BY <1>6, UnparsedFacts
<1> HIDE DEF pushed, left, G
<1>11. DOMAIN pushed = 1 .. Len(pushed) /\ Len(pushed) \in Nat
    BY <1>6
<1>12. CASE FoundSuccessor
    <2>1. pc' = "parse" /\ page' = page /\ pos' = pos + LengthOf(program, e) /\ stack' = pushed
        BY <1>12, <1>3, <1>8, <1>9
    <2>2. QED
        BY <2>1, <1>2, <1>6, <1>7, <1>12 DEF G
<1>13. CASE ~FoundSuccessor /\ left = <<>>
    <2>1. Elements(pushed) \subseteq DOMAIN parsed'
        <3>1. \A m \in 1 .. Len(pushed) : SubSeq(pushed, 1, m) # <<>>
            <4>1. \A m \in 1 .. Len(pushed) : Len(SubSeq(pushed, 1, m)) = m /\ m # 0
                BY <1>6, <1>11
            <4>2. Len(<<>>) = 0
                OBVIOUS
            <4>3. QED
                BY <4>1, <4>2
        <3>2. QED
            BY <3>1, <1>10, <1>11, <1>13 DEF Elements
    <2>2. pc' = IF \A x \in Elements(list') : Target(x) \in DOMAIN parsed'
                   THEN "done" ELSE "misread"
        BY <1>8, <1>13
    <2>3. QED
        BY <2>1, <2>2, <1>2, <1>6, <1>7, <1>13 DEF G
<1>14. CASE ~FoundSuccessor /\ left # <<>>
    <2>1. PICK m \in 1 .. Len(pushed) :
             /\ left = SubSeq(pushed, 1, m)
             /\ pushed[m] \notin DOMAIN parsed'
             /\ \A j \in m + 1 .. Len(pushed) : pushed[j] \in DOMAIN parsed'
        BY <1>10, <1>14
    <2>2. Len(left) = m /\ left[m] = pushed[m] /\ left \in Seq(G)
        BY <2>1, <1>6, <1>11
    <2>3. /\ stack' = SubSeq(left, 1, m - 1)
          /\ IF pushed[m] = Wild THEN pc' = "misread"
             ELSE page' = pushed[m].page /\ pos' = pushed[m].pos /\ pc' = "parse"
        BY <2>2, <1>8, <1>9, <1>14
    <2>4. /\ stack' \in Seq(G) /\ DOMAIN stack' = 1 .. m - 1
          /\ \A j \in 1 .. m - 1 : stack'[j] = pushed[j]
        BY <2>1, <2>2, <2>3, <1>6, <1>11
    <2>5. Elements(pushed) \subseteq DOMAIN parsed' \cup Elements(stack') \cup {pushed[m]}
        <3>1. \A j \in DOMAIN pushed : j \in 1 .. m - 1 \/ j = m \/ j \in m + 1 .. Len(pushed)
            BY <1>11
        <3>2. \A j \in 1 .. m - 1 : pushed[j] \in Elements(stack')
            BY <2>4 DEF Elements
        <3>3. QED
            BY <3>1, <3>2, <2>1 DEF Elements
    <2>6. pushed[m] \in G
        BY <1>6, <1>11
    <2>7. QED
        BY <2>1, <2>3, <2>4, <2>5, <2>6, <1>2, <1>6, <1>7, <1>14 DEF G
<1>15. QED
    BY <1>8, <1>12, <1>13, <1>14

\* The steps of the two functions that tell where the items of the list were.
Extends(s, n, x, s2) == s2 = [k \in 1 .. n + 1 |-> IF k = n + 1 THEN x ELSE s[k]]

LEMMA ListGrows ==
    ASSUME program \in Programs, ReadInv, NEW loc, NEW first, ListInv(loc, first),
           RunInv(loc, first), ParseItem,
           NEW loc2, Extends(loc, Len(list), At(page, pos), loc2),
           NEW first2, Extends(first, Len(list),
                               IF Going THEN first[Len(list)] ELSE At(page, pos), first2)
    PROVE  ListInv(loc2, first2)'
<1>0. PICK here, e : here = At(page, pos) /\ e = TokenOf(Found)
    OBVIOUS
<1> DEFINE n == Len(list)
<1>1. /\ pc = "parse" /\ program' = program /\ memory' = memory
      /\ start' = start /\ current' = current
      /\ here \in Loc
      /\ Cell(memory, here).kind # "free" /\ Cell(memory, here).byte = 1
      /\ e = TokenOf(Cell(memory, here)) /\ e \in Token
      /\ list' \in Seq(Token) /\ n \in Nat /\ Len(list') = n + 1
      /\ DOMAIN list = 1 .. n /\ DOMAIN list' = 1 .. n + 1
      /\ \A k \in DOMAIN list : list'[k] = list[k]
      /\ list'[n + 1] = e
      /\ Goals(program, list') =
            Goals(program, list) \cup (IF JumpToken(program, e) THEN {e.to} ELSE {})
      /\ DOMAIN parsed' = DOMAIN parsed \cup (IF Aligned(here) THEN {here} ELSE {})
      /\ \A a \in DOMAIN parsed : parsed'[a] = parsed[a]
      /\ here \in DOMAIN parsed' \ DOMAIN parsed => parsed'[here] = n + 1
    BY <1>0, ItemIsListed
<1>2. /\ DOMAIN loc = 1 .. n /\ DOMAIN first = 1 .. n
      /\ \A k \in 1 .. n :
            /\ loc[k] \in Loc
            /\ Cell(memory, loc[k]).kind # "free" /\ Cell(memory, loc[k]).byte = 1
            /\ list[k] = TokenOf(Cell(memory, loc[k]))
            /\ first[k] \in DOMAIN parsed
            /\ first[k] \in {start[current]} \cup Goals(program, list)
      /\ \A j, k \in 1 .. n : j < k /\ first[j] = first[k] =>
            loc[j].page = loc[k].page /\ loc[j].pos < loc[k].pos
      /\ list # <<>> => loc[1] = start[current] /\ start[current] \in DOMAIN parsed
      /\ \A a \in DOMAIN parsed : parsed[a] \in 1 .. n /\ loc[parsed[a]] = a
    BY <1>1 DEF ListInv
<1>3. /\ list = <<>> => here = start[current]
      /\ Going => list # <<>> /\ \A j \in 1 .. n : first[j] = first[n] =>
                     loc[j].page = here.page /\ loc[j].pos < here.pos
      /\ ~Going => /\ Aligned(here)
                   /\ here \notin DOMAIN parsed
                   /\ here \in {start[current]} \cup Goals(program, list)
    BY <1>0, <1>1 DEF RunInv, Going, At
<1>4. /\ DOMAIN loc2 = 1 .. n + 1 /\ DOMAIN first2 = 1 .. n + 1
      /\ \A k \in 1 .. n : loc2[k] = loc[k] /\ first2[k] = first[k]
      /\ loc2[n + 1] = here
      /\ first2[n + 1] = IF Going THEN first[n] ELSE here
    <2>1. n + 1 \in 1 .. n + 1 /\ \A k \in 1 .. n : k \in 1 .. n + 1 /\ k # n + 1
        BY <1>1
    <2>2. QED
        BY <2>1, <1>0 DEF Extends
<1>5. list # <<>> => n \in 1 .. n
    BY <1>1 DEF ListInv
<1>6. list = <<>> => n = 0
    OBVIOUS
<1>7. \A k \in 1 .. n + 1 : k \in 1 .. n \/ k = n + 1
    BY <1>1
<1> HIDE DEF n
<1>8. ASSUME NEW k \in 1 .. n + 1
      PROVE  /\ loc2[k] \in Loc
             /\ Cell(memory, loc2[k]).kind # "free" /\ Cell(memory, loc2[k]).byte = 1
             /\ list'[k] = TokenOf(Cell(memory, loc2[k]))
             /\ first2[k] \in DOMAIN parsed'
             /\ first2[k] \in {start[current]} \cup Goals(program, list')
    <2>1. CASE k \in 1 .. n
        BY <2>1, <1>1, <1>2, <1>4
    <2>2. CASE k = n + 1
        <3>1. /\ loc2[k] \in Loc
              /\ Cell(memory, loc2[k]).kind # "free" /\ Cell(memory, loc2[k]).byte = 1
              /\ list'[k] = TokenOf(Cell(memory, loc2[k]))
            BY <2>2, <1>1, <1>4
        <3>2. CASE Going
            BY <2>2, <3>1, <3>2, <1>1, <1>2, <1>3, <1>4, <1>5
        <3>3. CASE ~Going
            BY <2>2, <3>1, <3>3, <1>1, <1>3, <1>4
        <3>4. QED
            BY <3>2, <3>3
    <2>3. QED
        BY <2>1, <2>2, <1>7
<1>9. ASSUME NEW j \in 1 .. n + 1, NEW k \in 1 .. n + 1, j < k, first2[j] = first2[k]
      PROVE  loc2[j].page = loc2[k].page /\ loc2[j].pos < loc2[k].pos
    <2>1. j \in 1 .. n
        BY <1>9, <1>1
    <2>2. CASE k \in 1 .. n
        BY <2>1, <2>2, <1>2, <1>4, <1>9
    <2>3. CASE k = n + 1
        <3>1. first[j] = first2[k] /\ loc2[k] = here /\ loc2[j] = loc[j]
            BY <2>1, <2>3, <1>4, <1>9
        <3>2. Going
            BY <3>1, <2>1, <2>3, <1>2, <1>3, <1>4
        <3>3. QED
            BY <3>1, <3>2, <2>1, <2>3, <1>3, <1>4
    <2>4. QED
        BY <2>2, <2>3, <1>7
<1>10. loc2[1] = start[current] /\ start[current] \in DOMAIN parsed'
    <2>1. CASE list = <<>>
        <3>1. ~Going
            BY <2>1 DEF Going
        <3>2. QED
            BY <3>1, <2>1, <1>1, <1>3, <1>4, <1>6
    <2>2. CASE list # <<>>
        <3>1. 1 \in 1 .. n
            BY <2>2, <1>1, <1>5
        <3>2. QED
            BY <3>1, <2>2, <1>1, <1>2, <1>4
    <2>3. QED
        BY <2>1, <2>2
<1>11. ASSUME NEW a \in DOMAIN parsed'
       PROVE  parsed'[a] \in 1 .. n + 1 /\ loc2[parsed'[a]] = a
    <2>1. CASE a \in DOMAIN parsed
        <3>1. parsed'[a] = parsed[a] /\ parsed[a] \in 1 .. n /\ loc[parsed[a]] = a
            BY <2>1, <1>1, <1>2
        <3>2. QED
            BY <3>1, <1>1, <1>4
    <2>2. CASE a \notin DOMAIN parsed
        <3>1. a = here /\ here \in DOMAIN parsed' \ DOMAIN parsed
            BY <2>2, <1>1
        <3>2. n + 1 \in 1 .. n + 1
            BY <1>1
        <3>3. QED
            BY <3>1, <3>2, <1>1, <1>4
    <2>3. QED
        BY <2>1, <2>2
<1>12. pc' = "done" => Goals(program, list') \subseteq DOMAIN parsed'
    <2> SUFFICES ASSUME pc' = "done", NEW a, a \in Goals(program, list')
                 PROVE  a \in DOMAIN parsed'
        OBVIOUS
    <2>1. \A x \in Elements(list') : Target(x) \in DOMAIN parsed'
        BY <1>0, WhereItGoesOn
    <2>2. PICK k \in DOMAIN list' : JumpToken(program, list'[k]) /\ a = list'[k].to
        BY DEF Goals
    <2>3. Target(list'[k]) = a
        BY <2>2 DEF Target, JumpToken
    <2>4. QED
        BY <2>1, <2>2, <2>3 DEF Elements
<1>13. list' # <<>>
    BY <1>1
<1>14. QED
    BY <1>1, <1>4, <1>8, <1>9, <1>10, <1>11, <1>12, <1>13 DEF ListInv

\* Addresses that items refer to are whole units, and have items.
LEMMA GoalFacts ==
    ASSUME program \in Programs, ReadInv, pc \in Parsing, NEW loc, NEW first, ListInv(loc, first),
           NEW a, a \in Goals(program, list)
    PROVE  /\ a = Wild => WildJumps
           /\ a # Wild => /\ a \in Loc /\ Aligned(a)
                          /\ (\A k \in DOMAIN list : Good(memory, program, current, loc[k])) =>
                                 Good(memory, program, current, a)
<1>1. PICK k \in DOMAIN list : JumpToken(program, list[k]) /\ a = list[k].to
    BY DEF Goals
<1>2. /\ loc[k] \in Loc /\ Cell(memory, loc[k]).kind # "free" /\ Cell(memory, loc[k]).byte = 1
      /\ list[k] = TokenOf(Cell(memory, loc[k]))
    BY DEF ListInv
<1>3. PICK l, e : l = loc[k] /\ e = list[k]
    OBVIOUS
<1>4. /\ JumpToken(program, e) /\ e.to # Wild =>
            Aligned(e.to) /\ First(memory, e.to, "item")
      /\ JumpToken(program, e) /\ e.to = Wild => WildJumps
      /\ Good(memory, program, current, l) /\ JumpToken(program, e) /\ e.to # Wild =>
            Good(memory, program, current, e.to)
    BY <1>2, <1>3, TokenFacts
<1>5. QED
    BY <1>1, <1>3, <1>4 DEF First

LEMMA NewGoalFacts ==
    ASSUME program \in Programs, ReadInv, NEW loc, NEW first, ListInv(loc, first),
           RunInv(loc, first), ParseItem, NEW a, a \in Goals(program, list')
    PROVE  /\ a = Wild => WildJumps
           /\ a # Wild => /\ a \in Loc /\ Aligned(a)
                          /\ /\ \A k \in DOMAIN list : Good(memory, program, current, loc[k])
                             /\ Good(memory, program, current, At(page, pos))
                             => Good(memory, program, current, a)
<1>1. PICK here, e : here = At(page, pos) /\ e = TokenOf(Found)
    OBVIOUS
<1>2. /\ pc \in Parsing /\ here \in Loc
      /\ Cell(memory, here).kind # "free" /\ Cell(memory, here).byte = 1
      /\ e = TokenOf(Cell(memory, here))
      /\ Goals(program, list') =
            Goals(program, list) \cup (IF JumpToken(program, e) THEN {e.to} ELSE {})
    BY <1>1, ItemIsListed DEF Parsing
<1>3. CASE a \in Goals(program, list)
    BY <1>2, <1>3, GoalFacts
<1>4. CASE JumpToken(program, e) /\ a = e.to
    BY <1>1, <1>2, <1>4, TokenFacts DEF First
<1>5. QED
    BY <1>2, <1>3, <1>4

LEMMA RunGoesOn ==
    ASSUME program \in Programs, ReadInv, NEW loc, NEW first, ListInv(loc, first),
           RunInv(loc, first), ParseItem,
           NEW loc2, Extends(loc, Len(list), At(page, pos), loc2),
           NEW first2, Extends(first, Len(list),
                               IF Going THEN first[Len(list)] ELSE At(page, pos), first2),
           pc' = "parse"
    PROVE  RunInv(loc2, first2)'
<1>0. PICK here, e : here = At(page, pos) /\ e = TokenOf(Found)
    OBVIOUS
<1> DEFINE n == Len(list)
           G == Goals(program, list')
<1>1. /\ pc = "parse" /\ program' = program /\ memory' = memory
      /\ start' = start /\ current' = current
      /\ here \in Loc
      /\ Cell(memory, here).kind # "free" /\ Cell(memory, here).byte = 1
      /\ e = TokenOf(Cell(memory, here)) /\ e \in Token
      /\ list' \in Seq(Token) /\ n \in Nat /\ Len(list') = n + 1
      /\ DOMAIN list = 1 .. n /\ DOMAIN list' = 1 .. n + 1
      /\ \A k \in DOMAIN list : list'[k] = list[k]
      /\ list'[n + 1] = e
    BY <1>0, ItemIsListed
<1>2. page \in Nat /\ pos \in Nat /\ here.page = page /\ here.pos = pos
    BY <1>0 DEF RunInv, At
<1>3. PICK pushed \in Seq(G) :
        \/ /\ OpenToken(program, e)
           /\ pc' = "parse" /\ page' = page /\ pos' = pos + LengthOf(program, e)
           /\ stack' = pushed
        \/ /\ ~OpenToken(program, e)
           /\ pc' = IF \A x \in Elements(list') : Target(x) \in DOMAIN parsed'
                       THEN "done" ELSE "misread"
        \/ /\ ~OpenToken(program, e)
           /\ \E a \in G :
                 /\ a \notin DOMAIN parsed'
                 /\ stack' \in Seq(G)
                 /\ \/ a = Wild /\ pc' = "misread"
                    \/ a # Wild /\ pc' = "parse" /\ page' = a.page /\ pos' = a.pos
    <2>1. \E pushed \in Seq(Goals(program, list')) :
           /\ Elements(stack) \cup (IF JumpToken(program, e) THEN {e.to} ELSE {})
                 \subseteq Elements(pushed)
           /\ \/ /\ OpenToken(program, e)
                 /\ pc' = "parse" /\ page' = page /\ pos' = pos + LengthOf(program, e)
                 /\ stack' = pushed
              \/ /\ ~OpenToken(program, e)
                 /\ Elements(pushed) \subseteq DOMAIN parsed'
                 /\ pc' = IF \A x \in Elements(list') : Target(x) \in DOMAIN parsed'
                             THEN "done" ELSE "misread"
              \/ /\ ~OpenToken(program, e)
                 /\ \E a \in Goals(program, list') :
                       /\ a \notin DOMAIN parsed'
                       /\ stack' \in Seq(Goals(program, list'))
                       /\ Elements(pushed) \subseteq DOMAIN parsed' \cup Elements(stack') \cup {a}
                       /\ \/ a = Wild /\ pc' = "misread"
                          \/ a # Wild /\ pc' = "parse" /\ page' = a.page /\ pos' = a.pos
        BY <1>0, WhereItGoesOn
    <2>2. QED
        BY <2>1
<1>4. list' # <<>> /\ (Going' <=> OpenToken(program, e))
    <2>1. list' # <<>>
        BY <1>1
    <2>2. QED
        BY <2>1, <1>1 DEF Going
<1> HIDE DEF n
<1>5. CASE OpenToken(program, e)
    <2>1. page' = page /\ pos' = pos + LengthOf(program, e) /\ stack' = pushed
        BY <1>3, <1>5
    <2>2. LengthOf(program, e) \in Nat \ {0}
        BY <1>1, <1>5, TokenFacts DEF Parsing
    <2>3. /\ loc2[n + 1] = here /\ \A k \in 1 .. n : loc2[k] = loc[k] /\ first2[k] = first[k]
          /\ first2[n + 1] = IF Going THEN first[n] ELSE here
        <3>1. n + 1 \in 1 .. n + 1 /\ \A k \in 1 .. n : k \in 1 .. n + 1 /\ k # n + 1
            BY <1>1
        <3>2. QED
            BY <3>1, <1>0 DEF Extends, n
    <2>4. ASSUME NEW j \in 1 .. n + 1, first2[j] = first2[n + 1]
          PROVE  loc2[j].page = page' /\ loc2[j].pos < pos'
        <3>1. CASE j = n + 1
            BY <3>1, <2>1, <2>2, <2>3, <1>2
        <3>2. CASE j # n + 1
            <4>1. j \in 1 .. n
                BY <3>2, <1>1
            <4>2. first[j] = first2[n + 1] /\ first[j] \in DOMAIN parsed
                BY <4>1, <2>3, <2>4, <1>1 DEF ListInv
            <4>3. Going
                BY <4>2, <2>3, <1>0 DEF RunInv
            <4>4. loc[j].page = page /\ loc[j].pos < pos /\ loc[j] \in Loc
                BY <4>1, <4>2, <4>3, <2>3, <1>1 DEF RunInv, ListInv, n
            <4>5. loc[j].pos \in Int
                BY <4>4 DEF Loc
            <4>6. QED
                BY <4>1, <4>4, <4>5, <2>1, <2>2, <2>3, <1>2
        <3>3. QED
            BY <3>1, <3>2
    <2>5. page' \in Nat /\ pos' \in Nat
        BY <2>1, <2>2, <1>2
    <2>6. QED
        BY <2>1, <2>4, <2>5, <1>1, <1>4, <1>5 DEF RunInv, n
<1>6. CASE ~OpenToken(program, e)
    <2>1. PICK a \in G : /\ a \notin DOMAIN parsed'
                         /\ stack' \in Seq(G)
                         /\ a # Wild /\ page' = a.page /\ pos' = a.pos
        BY <1>3, <1>6
    <2>2. a \in Goals(program, list')
        BY <2>1
    <2>3. a \in Loc /\ Aligned(a)
        BY <2>1, <2>2, NewGoalFacts
    <2>4. a.page \in Nat /\ a.pos \in Nat /\ At(a.page, a.pos) = a
        BY <2>3, SizeAssumption DEF Loc, At
    <2>5. At(page', pos') = a
        BY <2>1, <2>4
    <2>6. QED
        BY <2>1, <2>3, <2>4, <2>5, <1>1, <1>4, <1>6 DEF RunInv
<1>7. QED
    BY <1>5, <1>6

LEMMA PathGoesOn ==
    ASSUME program \in Programs, ReadInv, NEW loc, NEW first, ListInv(loc, first),
           RunInv(loc, first), ParseItem,
           NEW loc2, Extends(loc, Len(list), At(page, pos), loc2),
           AllTerminated, ~WildJumps, ReadPath(loc)
    PROVE  ReadPath(loc2)'
<1>0. PICK here, e : here = At(page, pos) /\ e = TokenOf(Found)
    OBVIOUS
<1> DEFINE n == Len(list)
           G == Goals(program, list')
           good(l) == Good(memory, program, current, l)
<1>1. /\ pc = "parse" /\ program' = program /\ memory' = memory
      /\ start' = start /\ current' = current
      /\ here \in Loc
      /\ Cell(memory, here).kind # "free" /\ Cell(memory, here).byte = 1
      /\ e = TokenOf(Cell(memory, here)) /\ e \in Token
      /\ n \in Nat /\ Len(list') = n + 1
      /\ DOMAIN list = 1 .. n /\ DOMAIN list' = 1 .. n + 1
      /\ \A k \in DOMAIN list : list'[k] = list[k]
      /\ list'[n + 1] = e
      /\ G = Goals(program, list) \cup (IF JumpToken(program, e) THEN {e.to} ELSE {})
      /\ DOMAIN parsed' = DOMAIN parsed \cup (IF Aligned(here) THEN {here} ELSE {})
    BY <1>0, ItemIsListed
<1>2. PICK pushed \in Seq(G) :
        /\ Elements(stack) \cup (IF JumpToken(program, e) THEN {e.to} ELSE {})
              \subseteq Elements(pushed)
        /\ \/ /\ OpenToken(program, e)
              /\ pc' = "parse" /\ page' = page /\ pos' = pos + LengthOf(program, e)
              /\ stack' = pushed
           \/ /\ ~OpenToken(program, e)
              /\ Elements(pushed) \subseteq DOMAIN parsed'
              /\ pc' = IF \A x \in Elements(list') : Target(x) \in DOMAIN parsed'
                          THEN "done" ELSE "misread"
           \/ /\ ~OpenToken(program, e)
              /\ \E a \in G :
                    /\ a \notin DOMAIN parsed'
                    /\ stack' \in Seq(G)
                    /\ Elements(pushed) \subseteq DOMAIN parsed' \cup Elements(stack') \cup {a}
                    /\ \/ a = Wild /\ pc' = "misread"
                       \/ a # Wild /\ pc' = "parse" /\ page' = a.page /\ pos' = a.pos
    BY <1>0, WhereItGoesOn
<1>3. /\ \A k \in 1 .. n : good(loc[k])
      /\ good(here)
      /\ Goals(program, list) \subseteq DOMAIN parsed \cup Elements(stack) \cup {here}
      /\ \A k \in 1 .. n : OpenToken(program, list[k]) =>
            \/ k < n /\ loc[k + 1] = Past(loc[k], LengthOf(program, list[k]))
            \/ k = n /\ here = Past(loc[k], LengthOf(program, list[k]))
    BY <1>0, <1>1 DEF ReadPath
<1>4. /\ DOMAIN loc2 = 1 .. n + 1 /\ loc2[n + 1] = here
      /\ \A k \in 1 .. n : loc2[k] = loc[k]
    <2>1. n + 1 \in 1 .. n + 1 /\ \A k \in 1 .. n : k \in 1 .. n + 1 /\ k # n + 1
        BY <1>1
    <2>2. QED
        BY <2>1, <1>0 DEF Extends
<1>5. \A a \in G : a \in Loc /\ Aligned(a) /\ good(a) /\ a # Wild
    <2> SUFFICES ASSUME NEW a, a \in G
                 PROVE  a \in Loc /\ Aligned(a) /\ good(a) /\ a # Wild
        OBVIOUS
    <2>1. a # Wild
        BY NewGoalFacts
    <2>2. QED
        BY <2>1, <1>0, <1>1, <1>3, NewGoalFacts
\* What was referred to is parsed, or in the stack with what was just found.
<1>6. G \subseteq DOMAIN parsed' \cup Elements(pushed)
    <2> SUFFICES ASSUME NEW a, a \in G, a \notin Elements(pushed)
                 PROVE  a \in DOMAIN parsed'
        OBVIOUS
    <2>1. a \in DOMAIN parsed \cup {here}
        BY <1>1, <1>2, <1>3
    <2>2. Aligned(a)
        BY <1>5
    <2>3. QED
        BY <2>1, <2>2, <1>1
<1>7. \A k \in 1 .. n + 1 : good(loc2[k])
    <2>1. \A k \in 1 .. n + 1 : k \in 1 .. n \/ k = n + 1
        BY <1>1
    <2>2. QED
        BY <2>1, <1>3, <1>4
<1>8. OpenToken(program, e) =>
          /\ LengthOf(program, e) \in Nat \ {0}
          /\ good(Past(here, LengthOf(program, e)))
    BY <1>1, <1>3, TokenFacts DEF Parsing
<1>9. \A k \in 1 .. n : OpenToken(program, list'[k]) =>
          loc2[k + 1] = Past(loc2[k], LengthOf(program, list'[k]))
    <2>1. \A k \in 1 .. n : k < n => k + 1 \in 1 .. n
        BY <1>1
    <2>2. QED
        BY <2>1, <1>1, <1>3, <1>4
<1>10. \A x \in Elements(list') : Target(x) \in G \cup {start[current]}
    <2> SUFFICES ASSUME NEW k \in DOMAIN list'
                 PROVE  Target(list'[k]) \in G \cup {start[current]}
        BY DEF Elements
    <2>1. CASE JumpToken(program, list'[k])
        BY <2>1 DEF Goals, JumpToken, Target
    <2>2. CASE ~JumpToken(program, list'[k])
        BY <2>2 DEF JumpToken, Target
    <2>3. QED
        BY <2>1, <2>2
<1>11. start[current] \in DOMAIN parsed'
    <2>1. CASE list = <<>>
        BY <2>1, <1>0, <1>1 DEF RunInv, Going
    <2>2. CASE list # <<>>
        BY <2>2, <1>1 DEF ListInv
    <2>3. QED
        BY <2>1, <2>2
<1>12. \A k \in 1 .. n + 1 : k \in 1 .. n \/ k = n + 1
    BY <1>1
<1> HIDE DEF n, G, good
<1>13. CASE OpenToken(program, e)
    <2>1. pc' = "parse" /\ page' = page /\ pos' = pos + LengthOf(program, e) /\ stack' = pushed
        BY <1>2, <1>13
    <2>2. At(page', pos') = Past(here, LengthOf(program, e))
        BY <2>1, <1>0 DEF Past, At
    <2>3. good(At(page', pos'))
        BY <2>2, <1>8, <1>13
    <2>4. ASSUME NEW k \in 1 .. n + 1, OpenToken(program, list'[k])
          PROVE  \/ k < n + 1 /\ loc2[k + 1] = Past(loc2[k], LengthOf(program, list'[k]))
                 \/ k = n + 1 /\ At(page', pos') = Past(loc2[k], LengthOf(program, list'[k]))
        <3>1. CASE k \in 1 .. n
            BY <3>1, <2>4, <1>1, <1>9
        <3>2. CASE k = n + 1
            BY <3>2, <2>2, <1>1, <1>4
        <3>3. QED
            BY <3>1, <3>2, <1>12
    <2>5. G \subseteq DOMAIN parsed' \cup Elements(stack') \cup {At(page', pos')}
        BY <2>1, <1>6
    <2>6. Elements(stack') = Elements(stack)'
        OBVIOUS
    <2>7. QED
        BY <2>1, <2>3, <2>4, <2>5, <1>1, <1>7 DEF ReadPath, G, good, n
<1>14. CASE ~OpenToken(program, e)
    <2>1. ASSUME NEW k \in 1 .. n + 1, OpenToken(program, list'[k])
          PROVE  k < n + 1 /\ loc2[k + 1] = Past(loc2[k], LengthOf(program, list'[k]))
        <3>1. k \in 1 .. n
            BY <2>1, <1>1, <1>12, <1>14
        <3>2. QED
            BY <3>1, <2>1, <1>1, <1>9
    <2>2. CASE /\ Elements(pushed) \subseteq DOMAIN parsed'
               /\ pc' = IF \A x \in Elements(list') : Target(x) \in DOMAIN parsed'
                           THEN "done" ELSE "misread"
        <3>1. \A x \in Elements(list') : Target(x) \in DOMAIN parsed'
            BY <2>2, <1>6, <1>10, <1>11
        <3>2. pc' = "done"
            BY <3>1, <2>2
        <3>3. QED
            BY <3>2, <2>1, <1>1, <1>7 DEF ReadPath, good, n
    <2>3. CASE \E a \in G :
                  /\ a \notin DOMAIN parsed'
                  /\ stack' \in Seq(G)
                  /\ Elements(pushed) \subseteq DOMAIN parsed' \cup Elements(stack') \cup {a}
                  /\ \/ a = Wild /\ pc' = "misread"
                     \/ a # Wild /\ pc' = "parse" /\ page' = a.page /\ pos' = a.pos
        <3>1. PICK a \in G :
                  /\ Elements(pushed) \subseteq DOMAIN parsed' \cup Elements(stack') \cup {a}
                  /\ a # Wild /\ pc' = "parse" /\ page' = a.page /\ pos' = a.pos
            BY <2>3, <1>5
        <3>2. a \in Loc /\ good(a)
            BY <1>5
        <3>3. At(page', pos') = a
            BY <3>1, <3>2 DEF At, Loc
        <3>4. G \subseteq DOMAIN parsed' \cup Elements(stack') \cup {At(page', pos')}
            BY <3>1, <3>3, <1>6
        <3>5. good(At(page', pos'))
            BY <3>2, <3>3
        <3>6. QED
            BY <3>1, <3>4, <3>5, <2>1, <1>1, <1>7 DEF ReadPath, G, good, n
    <2>4. QED
        BY <2>2, <2>3, <1>2, <1>14
<1>15. QED
    BY <1>13, <1>14

-----------------------------------------------------------------------------
(* The steps of the whole. *)

LEMMA ReadingBegins ==
    ASSUME program \in Programs, program' = program, pc' = "parse", ReadInv',
           page' = start'[current'].page, pos' = start'[current'].pos,
           list' = <<>>, parsed' = <<>>, stack' = <<>>
    PROVE  ListedInv'
<1>1. /\ current' \in 1 .. Len(program)
      /\ start' \in Seq(Origin) /\ Len(start') = Len(program)
      /\ AllTerminated => ChainInv(memory', program, start', Len(program) + 1, 0)
    BY DEF ReadInv, Parsing, AllTerminated
<1>2. start'[current'] \in Origin
    BY <1>1
<1>3. /\ page' \in Nat /\ pos' \in Nat /\ At(page', pos') = start'[current']
      /\ Aligned(At(page', pos'))
    <2>1. \A a \in Origin : a.page \in Nat /\ a.pos \in Nat /\ At(a.page, a.pos) = a /\ Aligned(a)
        BY SizeAssumption DEF Origin, At
    <2>2. QED
        BY <2>1, <1>2
<1>4. PICK none : none = <<>>
    OBVIOUS
<1>5. Len(<<>>) = 0 /\ DOMAIN <<>> = {} /\ <<>> \in Seq(Token)
      /\ \A S : <<>> \in Seq(S)
    OBVIOUS
<1>6. ListInv(none, none)'
    BY <1>4, <1>5 DEF ListInv
<1>7. Goals(program, list') = {}
    BY <1>5 DEF Goals
<1>8. RunInv(none, none)'
    BY <1>3, <1>5 DEF RunInv, Going
<1>9. ASSUME AllTerminated
      PROVE  ReadPath(none)'
    <2>1. /\ program \in Seq(Seq(Item)) /\ DOMAIN program = 1 .. Len(program)
          /\ program[current'] \in Seq(Item) /\ Len(program) \in Nat
        BY <1>1, ProgramFacts
    <2>2. 1 \in DOMAIN program[current']
        <3>1. Len(program[current']) > 1
            BY <2>1, <1>1, <1>9 DEF AllTerminated, Terminated
        <3>2. QED
            BY <3>1, <2>1
    <2>3. Upto(Len(program) + 1, 0, current', 1)
        BY <2>1, <1>1 DEF Upto
    <2>4. ItemAt(memory', start'[current'], current', 1)
        BY <2>1, <2>3, <1>1, <1>9 DEF ChainInv
    <2>5. Good(memory', program, current', At(page', pos'))
        BY <2>2, <2>4, <1>3 DEF Good, Reaches
    <2>6. QED
        BY <2>5, <1>5, <1>7 DEF ReadPath
<1>10. AllTerminated' = AllTerminated
    BY DEF AllTerminated
<1>11. QED
    BY <1>6, <1>8, <1>9, <1>10 DEF ListedInv

\* What the conditions of the path are about does not change any more.
LEMMA ReadKept ==
    ASSUME program \in Programs, ReadInv, ParseItem \/ Misread \/ ParseNext \/ UNCHANGED vars
    PROVE  /\ ReadInv'
           /\ AllTerminated' = AllTerminated
           /\ WildJumps' = WildJumps
<1>1. program' = program /\ memory' = memory /\ start' = start
    BY DEF ParseItem, Misread, ParseNext, vars, writeVars
<1>2. AllTerminated' = AllTerminated
    BY <1>1 DEF AllTerminated
<1>3. WildJumps' = WildJumps
    BY <1>1 DEF WildJumps
<1>4. CASE ParseItem \/ Misread \/ ParseNext
    <2>1. pc \in Parsing
        BY <1>4 DEF ParseItem, Misread, ParseNext, Parsing
    <2>2. program \in Seq(Seq(Item))
        BY <2>1, ProgramFacts DEF ReadInv
    <2>3. current' \in 1 .. Len(program)
        <3>1. CASE ParseItem \/ Misread
            BY <3>1, <2>1 DEF ParseItem, Misread, writeVars, ReadInv
        <3>2. CASE ParseNext
            <4>1. current' = current + 1 /\ current < Len(program)
                BY <3>2 DEF ParseNext
            <4>2. QED
                BY <4>1, <2>1, <2>2 DEF ReadInv
        <3>3. QED
            BY <3>1, <3>2, <1>4
    <2>4. QED
        BY <2>1, <2>3, <1>1, <1>2, <1>3 DEF ReadInv
<1>5. CASE UNCHANGED vars
    <2>1. pc' = pc /\ current' = current
        BY <1>5 DEF vars, writeVars
    <2>2. QED
        BY <2>1, <1>1, <1>2, <1>3 DEF ReadInv
<1>6. QED
    BY <1>4, <1>5

LEMMA ListedStep ==
    ASSUME program \in Programs, ReadInv, ListedInv,
           ParseItem \/ Misread \/ ParseNext \/ UNCHANGED vars
    PROVE  ListedInv'
<1>1. ReadInv' /\ AllTerminated' = AllTerminated /\ WildJumps' = WildJumps
    BY ReadKept
<1>2. CASE ParseItem
    <2>1. pc = "parse" /\ pc \in Parsing
        BY <1>2 DEF ParseItem, Parsing
    <2>2. PICK loc, first : /\ ListInv(loc, first)
                            /\ RunInv(loc, first)
                            /\ AllTerminated /\ ~WildJumps => ReadPath(loc)
        BY <2>1 DEF ListedInv
    <2>3. PICK loc2, first2 :
             /\ Extends(loc, Len(list), At(page, pos), loc2)
             /\ Extends(first, Len(list),
                        IF Going THEN first[Len(list)] ELSE At(page, pos), first2)
        BY DEF Extends
    <2>4. ListInv(loc2, first2)'
        BY <2>2, <2>3, <1>2, ListGrows
    <2>5. pc' = "parse" => RunInv(loc2, first2)'
        BY <2>2, <2>3, <1>2, RunGoesOn
    <2>6. AllTerminated /\ ~WildJumps => ReadPath(loc2)'
        BY <2>2, <2>3, <1>2, PathGoesOn
    <2>7. QED
        BY <2>4, <2>5, <2>6, <1>1 DEF ListedInv
<1>3. CASE Misread
    <2>1. /\ pc = "parse" /\ pc \in Parsing /\ pc' = "misread" /\ ~Parsable
          /\ program' = program /\ memory' = memory /\ start' = start /\ current' = current
          /\ list' = list /\ parsed' = parsed
        BY <1>3 DEF Misread, Parsing, writeVars, parseVars
    <2>2. PICK loc, first : /\ ListInv(loc, first)
                            /\ RunInv(loc, first)
                            /\ AllTerminated /\ ~WildJumps => ReadPath(loc)
        BY <2>1 DEF ListedInv
    <2>3. ListInv(loc, first)'
        BY <2>1, <2>2 DEF ListInv
    <2>4. ~(AllTerminated /\ ~WildJumps)
        <3> SUFFICES ASSUME Good(memory, program, current, At(page, pos))
                     PROVE  Parsable
            BY <2>1, <2>2 DEF ReadPath
        <3>1. PICK i : Reaches(memory, At(page, pos), current, i)
            BY DEF Good
        <3>2. PICK kind \in {"item", "noop", "pagejump"} : First(memory, At(page, pos), kind)
            BY <3>1 DEF Reaches, ItemAt
        <3>3. At(page, pos) \in Loc /\ Cell(memory, At(page, pos)) = Found
              /\ page \in Nat /\ pos \in Nat
            BY <3>2, <2>2 DEF First, Cell, At, Found, RunInv
        <3>4. pos < PageSize /\ page < PageCount
            BY <3>3, SizeAssumption DEF Loc, At
        <3>5. QED
            BY <3>2, <3>3, <3>4 DEF First, Parsable
    <2>5. QED
        BY <2>1, <2>3, <2>4, <1>1 DEF ListedInv
<1>4. CASE ParseNext
    <2>1. /\ program' = program /\ pc' = "parse" /\ start' = start /\ current' = current + 1
          /\ page' = start[current + 1].page /\ pos' = start[current + 1].pos
          /\ list' = <<>> /\ parsed' = <<>> /\ stack' = <<>>
        BY <1>4 DEF ParseNext
    <2>2. QED
        BY <2>1, <1>1, ReadingBegins
<1>5. CASE UNCHANGED vars
    <2>1. /\ pc' = pc /\ program' = program /\ memory' = memory /\ start' = start
          /\ current' = current /\ list' = list /\ parsed' = parsed /\ stack' = stack
          /\ page' = page /\ pos' = pos
        BY <1>5 DEF vars, writeVars, parseVars
    <2>2. ASSUME NEW loc, NEW first
          PROVE  /\ ListInv(loc, first) => ListInv(loc, first)'
                 /\ RunInv(loc, first) => RunInv(loc, first)'
                 /\ ReadPath(loc) => ReadPath(loc)'
        <3>1. ListInv(loc, first) => ListInv(loc, first)'
            BY <2>1 DEF ListInv
        <3>2. Going' <=> Going
            BY <2>1 DEF Going
        <3>3. RunInv(loc, first) => RunInv(loc, first)'
            BY <2>1, <3>2 DEF RunInv
        <3>4. ReadPath(loc) => ReadPath(loc)'
            BY <2>1 DEF ReadPath
        <3>5. QED
            BY <3>1, <3>3, <3>4
    <2>3. QED
        BY <2>1, <2>2, <1>1 DEF ListedInv
<1>6. QED
    BY <1>2, <1>3, <1>4, <1>5

LEMMA WrittenEnd ==
    ASSUME program \in Programs, WrittenInv, EndMacro
    PROVE  WrittenInv' /\ ReadInv' /\ ListedInv'
<1>1. WrittenInv' /\ ReadInv'
    BY PlaceEnd
<1>2. /\ pc = "write" /\ program' = program
      /\ list' = list /\ parsed' = parsed /\ stack' = stack
    BY DEF EndMacro, parseVars
<1>3. list = <<>> /\ parsed = <<>> /\ stack = <<>>
    BY <1>2 DEF WrittenInv, PlaceInv
<1>4. CASE current < Len(program)
    <2>1. pc' \notin Parsing
        BY <1>2, <1>4 DEF EndMacro, Parsing
    <2>2. QED
        BY <2>1, <1>1 DEF ListedInv
<1>5. CASE ~(current < Len(program))
    <2>1. /\ pc' = "parse" /\ current' = 1 /\ start' = start
          /\ page' = start[1].page /\ pos' = start[1].pos
        BY <1>5 DEF EndMacro
    <2>2. QED
        BY <2>1, <1>1, <1>2, <1>3, ReadingBegins
<1>6. QED
    BY <1>4, <1>5

PathsInv == Inv /\ WrittenInv /\ ReadInv /\ ListedInv

LEMMA PathsStep == PathsInv /\ [Next]_vars => PathsInv'
<1> SUFFICES ASSUME PathsInv, [Next]_vars
             PROVE  PathsInv'
    OBVIOUS
<1>1. Inv' /\ program \in Programs
    BY WriteStep DEF PathsInv, Inv
<1>2. CASE WriteHere \/ MoveToNextPage
    <2>1. WrittenInv'
        BY <1>1, <1>2, PlaceHere, PlaceMove DEF PathsInv
    <2>2. pc' \notin Parsing
        BY <1>2 DEF WriteHere, MoveToNextPage, Write, Writing, Parsing
    <2>3. QED
        BY <2>1, <2>2, <1>1 DEF PathsInv, ReadInv, ListedInv
<1>3. CASE AssertFails \/ NoNextPage
    <2>1. pc' \notin Parsing /\ pc' # "write"
        BY <1>3 DEF AssertFails, NoNextPage, Parsing
    <2>2. QED
        BY <2>1, <1>1 DEF PathsInv, WrittenInv, ReadInv, ListedInv
<1>4. CASE EndMacro
    BY <1>1, <1>4, WrittenEnd DEF PathsInv
<1>5. CASE ParseItem \/ Misread \/ ParseNext
    <2>1. pc' # "write"
        <3>1. CASE ParseItem
            BY <3>1 DEF ParseItem
        <3>2. CASE Misread \/ ParseNext
            BY <3>2 DEF Misread, ParseNext
        <3>3. QED
            BY <3>1, <3>2, <1>5
    <2>2. ReadInv' /\ ListedInv'
        BY <1>1, <1>5, ReadKept, ListedStep DEF PathsInv
    <2>3. QED
        BY <2>1, <2>2, <1>1 DEF PathsInv, WrittenInv
<1>6. CASE UNCHANGED vars
    <2>1. ReadInv' /\ ListedInv'
        BY <1>1, <1>6, ReadKept, ListedStep DEF PathsInv
    <2>2. WrittenInv'
        BY <1>6 DEF PathsInv, WrittenInv, PlaceInv, PathInv, DestsInv, AllTerminated, macro,
                    vars, writeVars, parseVars
    <2>3. QED
        BY <2>1, <2>2, <1>1 DEF PathsInv
<1>7. QED
    BY <1>2, <1>3, <1>4, <1>5, <1>6 DEF Next

\* Nothing was parsed unless everything was written.
NothingParsed == pc \notin Parsing => list = <<>>

LEMMA NothingParsedStep == NothingParsed /\ [Next]_vars => NothingParsed'
<1> SUFFICES ASSUME NothingParsed, [Next]_vars
             PROVE  NothingParsed'
    OBVIOUS
<1>1. CASE WriteHere \/ MoveToNextPage \/ AssertFails \/ NoNextPage \/ EndMacro
    <2>1. pc = "write" /\ list' = list
        BY <1>1 DEF WriteHere, MoveToNextPage, AssertFails, NoNextPage, EndMacro, Writing, parseVars
    <2>2. QED
        BY <2>1 DEF NothingParsed, Parsing
<1>2. CASE ParseItem
    BY <1>2 DEF ParseItem, NothingParsed, Parsing
<1>3. CASE Misread \/ ParseNext
    BY <1>3 DEF Misread, ParseNext, NothingParsed, Parsing
<1>4. CASE UNCHANGED vars
    BY <1>4 DEF NothingParsed, vars, parseVars
<1>5. QED
    BY <1>1, <1>2, <1>3, <1>4 DEF Next

\* Every macro is where write put it, and the list of the parser is a path
\* through it.
THEOREM PathsAreKept == Spec => [](PathsInv /\ NothingParsed)
<1>1. Init => PathsInv /\ NothingParsed
    <2>1. Init => pc \notin Parsing /\ list = <<>>
        BY DEF Init, Parsing
    <2>2. QED
        BY <2>1, WriteInit, WrittenInit DEF PathsInv, ReadInv, ListedInv, NothingParsed
<1>2. QED
    BY <1>1, PathsStep, NothingParsedStep, PTL DEF Spec

\* An entry from which an item is reached executes it.
LEMMA ReachedRuns ==
    ASSUME program \in Programs, ReadInv, pc = "done", NEW loc, NEW first, ListInv(loc, first),
           ReadPath(loc), NEW k \in DOMAIN list, NEW i, Reaches(memory, loc[k], current, i)
    PROVE  Runs(k, i)
<1>1. /\ list \in Seq(Token) /\ Len(list) \in Nat /\ DOMAIN list = 1 .. Len(list)
      /\ Goals(program, list) \subseteq DOMAIN parsed
      /\ \A j \in DOMAIN list : list[j] = TokenOf(Cell(memory, loc[j]))
      /\ \A a \in DOMAIN parsed : parsed[a] \in DOMAIN list /\ loc[parsed[a]] = a
    BY DEF ListInv
<1>2. \A j \in DOMAIN list : /\ list[j].kind = Cell(memory, loc[j]).kind
                             /\ list[j].to = Cell(memory, loc[j]).to
                             /\ list[j].macro = Cell(memory, loc[j]).macro
                             /\ list[j].item = Cell(memory, loc[j]).item
    BY <1>1 DEF TokenOf
<1>3. SUFFICES ASSUME NEW j \in DOMAIN list, ItemAt(memory, loc[j], current, i),
                      \/ j = k
                      \/ list[k].kind = "noop" /\ j = k + 1
                      \/ list[k].kind = "pagejump" /\ j = parsed[list[k].to]
               PROVE  Runs(k, i)
    <2>1. CASE ItemAt(memory, loc[k], current, i)
        BY <2>1, <1>3
    <2>2. CASE First(memory, loc[k], "noop") /\ ItemAt(memory, Past(loc[k], 1), current, i)
        <3>1. list[k].kind = "noop" /\ OpenToken(program, list[k])
              /\ LengthOf(program, list[k]) = 1
            BY <2>2, <1>2 DEF First, OpenToken, LengthOf
        <3>2. k < Len(list) /\ loc[k + 1] = Past(loc[k], 1)
            BY <3>1 DEF ReadPath
        <3>3. k + 1 \in DOMAIN list
            BY <3>2, <1>1
        <3>4. QED
            BY <3>1, <3>2, <3>3, <2>2, <1>3
    <2>3. CASE /\ First(memory, loc[k], "pagejump")
               /\ ItemAt(memory, Cell(memory, loc[k]).to, current, i)
        <3>1. list[k].kind = "pagejump" /\ list[k].to = Cell(memory, loc[k]).to
            BY <2>3, <1>2 DEF First
        <3>2. list[k].to \in DOMAIN parsed
            BY <3>1, <1>1 DEF Goals, JumpToken
        <3>3. QED
            BY <3>1, <3>2, <2>3, <1>1, <1>3
    <2>4. QED
        BY <2>1, <2>2, <2>3 DEF Reaches
<1>4. list[j].kind = "item" /\ list[j].macro = current /\ list[j].item = i
    BY <1>2, <1>3 DEF ItemAt, First
<1>5. Executed(k) = j
    BY <1>1, <1>3, <1>4, ExecutedFacts
<1>6. QED
    BY <1>4, <1>5 DEF Runs

\* What was written is what is read: whatever padding and jumps between pages
\* were put in, the parsed macro begins with the first item, every item is
\* followed by the next one and every jump leads to its destination.
THEOREM MacroReadsBack == Spec => []ReadsBack
<1>1. PathsInv /\ NothingParsed => ReadsBack
    <2> SUFFICES ASSUME PathsInv, AllTerminated, ~WildJumps
                 PROVE  /\ pc # "misread"
                        /\ pc = "done" =>
                             /\ Runs(1, 1)
                             /\ \A k \in DOMAIN list : IsReal(k) =>
                                  /\ HasSuccessor(Source(k)) => Runs(k + 1, list[k].item + 1)
                                  /\ IsJump(Source(k)) => Runs(parsed[list[k].to], Source(k).dest)
        BY DEF ReadsBack, AllTerminated
    <2>1. pc # "misread"
        BY DEF PathsInv, ListedInv, ReadPath, Parsing
    <2>2. SUFFICES ASSUME pc = "done"
                   PROVE  /\ Runs(1, 1)
                          /\ \A k \in DOMAIN list : IsReal(k) =>
                               /\ HasSuccessor(Source(k)) => Runs(k + 1, list[k].item + 1)
                               /\ IsJump(Source(k)) => Runs(parsed[list[k].to], Source(k).dest)
        BY <2>1
    <2>3. program \in Programs /\ ReadInv /\ pc \in Parsing
        BY <2>2 DEF PathsInv, Inv, Parsing
    <2>4. PICK loc, first : ListInv(loc, first) /\ ReadPath(loc)
        BY <2>3 DEF PathsInv, ListedInv
    <2>5. \A k \in DOMAIN list : \A i : Reaches(memory, loc[k], current, i) => Runs(k, i)
        BY <2>2, <2>3, <2>4, ReachedRuns
    <2>6. /\ current \in 1 .. Len(program) /\ program \in Seq(Seq(Item))
          /\ Len(program) \in Nat /\ DOMAIN program = 1 .. Len(program)
          /\ JumpsInv(memory, program, Len(program) + 1)
          /\ ItemsInv(memory, program, Len(program) + 1, 0)
          /\ ChainInv(memory, program, start, Len(program) + 1, 0)
        BY <2>3, ProgramFacts DEF ReadInv
    <2>7. /\ list \in Seq(Token) /\ DOMAIN list = 1 .. Len(list) /\ Len(list) \in Nat
          /\ list # <<>> /\ loc[1] = start[current]
          /\ Goals(program, list) \subseteq DOMAIN parsed
          /\ \A a \in DOMAIN parsed : parsed[a] \in DOMAIN list /\ loc[parsed[a]] = a
        BY <2>2, <2>4 DEF ListInv
    <2>8. Runs(1, 1)
        <3>1. 1 \in DOMAIN list
            BY <2>7
        <3>2. Upto(Len(program) + 1, 0, current, 1)
            BY <2>6 DEF Upto
        <3>3. ItemAt(memory, loc[1], current, 1)
            BY <3>2, <2>6, <2>7 DEF ChainInv
        <3>4. QED
            BY <3>1, <3>3, <2>5 DEF Reaches
    <2>9. ASSUME NEW k \in DOMAIN list, IsReal(k)
          PROVE  /\ HasSuccessor(Source(k)) => Runs(k + 1, list[k].item + 1)
                 /\ IsJump(Source(k)) => Runs(parsed[list[k].to], Source(k).dest)
        <3>1. PICK l, b : l = loc[k] /\ b = Cell(memory, l)
            OBVIOUS
        <3>2. /\ l \in Loc /\ b.kind = "item" /\ b.byte = 1
              /\ list[k].macro = b.macro /\ list[k].item = b.item /\ list[k].to = b.to
              /\ list[k].kind = "item"
            BY <3>1, <2>4, <2>9 DEF ListInv, TokenOf, IsReal
        <3>3. PICK i \in DOMAIN program[current] : Reaches(memory, l, current, i)
            BY <3>1, <2>4, <2>9 DEF ReadPath, Good
        <3>4. b.macro = current /\ b.item = i /\ ItemAt(memory, l, current, i)
            BY <3>1, <3>2, <3>3 DEF Reaches, First, ItemAt
        <3>5. Source(k) = program[current][i]
            BY <3>2, <3>4 DEF Source
        <3>6. ASSUME HasSuccessor(program[current][i])
              PROVE  Runs(k + 1, i + 1)
            <4>1. OpenToken(program, list[k]) /\ LengthOf(program, list[k]) = program[current][i].len
                BY <3>2, <3>4, <3>6 DEF OpenToken, LengthOf
            <4>2. k < Len(list) /\ loc[k + 1] = Past(l, program[current][i].len)
                BY <4>1, <3>1, <2>2, <2>4 DEF ReadPath
            <4>3. k + 1 \in DOMAIN list
                BY <4>2, <2>7
            <4>4. i + 1 \in DOMAIN program[current]
                <5>1. program[current][Len(program[current])].op = "end"
                    BY <2>6 DEF AllTerminated, Terminated
                <5>2. i # Len(program[current])
                    BY <5>1, <3>6 DEF HasSuccessor
                <5>3. program[current] \in Seq(Item)
                    BY <2>6
                <5>4. QED
                    BY <5>2, <5>3, <3>3
            <4>5. Upto(Len(program) + 1, 0, current, i + 1)
                BY <2>6 DEF Upto
            <4>6. Reaches(memory, loc[k + 1], current, i + 1)
                BY <4>2, <4>4, <4>5, <3>2, <3>3, <3>4, <2>6 DEF ChainInv
            <4>7. QED
                BY <4>3, <4>6, <2>5
        <3>7. ASSUME IsJump(program[current][i])
              PROVE  Runs(parsed[b.to], program[current][i].dest)
            <4>1. b.to \in Goals(program, list)
                BY <3>2, <3>4, <3>7 DEF Goals, JumpToken
            <4>2. b.to # Wild
                BY <4>1, <2>3, <2>4, GoalFacts
            <4>3. b.macro < Len(program) + 1
                BY <3>4, <2>6
            <4>4. ItemAt(memory, b.to, current, program[current][i].dest)
                BY <4>2, <4>3, <3>1, <3>2, <3>4, <3>7, <2>6 DEF JumpsInv
            <4>5. parsed[b.to] \in DOMAIN list /\ loc[parsed[b.to]] = b.to
                BY <4>1, <2>7
            <4>6. QED
                BY <4>4, <4>5, <2>5 DEF Reaches
        <3>8. QED
            BY <3>2, <3>4, <3>5, <3>6, <3>7
    <2>10. QED
        BY <2>8, <2>9
<1>2. QED
    BY <1>1, PathsAreKept, PTL

\* Macro::simplify redirects copies of the jumps to what it removes; no jump
\* that stays leads to padding or to a jump between pages, so that none dangles
\* in a macro without jumps to jumps.
THEOREM SimplifyIsSafe == Spec => []SimplifySafe
<1>1. PathsInv /\ NothingParsed => SimplifySafe
    <2> SUFFICES ASSUME PathsInv, pc = "done", ~WildJumps, NEW k \in DOMAIN list,
                        IsPlainJump(k) \/ (IsReal(k) /\ IsJump(Source(k)))
                 PROVE  IsReal(Leads(k))
        BY DEF SimplifySafe
    <2>1. program \in Programs /\ ReadInv /\ pc \in Parsing
        BY DEF PathsInv, Inv, Parsing
    <2>2. PICK loc, first : ListInv(loc, first)
        BY <2>1 DEF PathsInv, ListedInv
    <2>3. JumpToken(program, list[k])
        BY DEF IsPlainJump, IsReal, JumpToken, Source, IsJump, Jumps
    <2>4. PICK a : a = list[k].to
        OBVIOUS
    <2>5. a \in Goals(program, list) /\ a \in DOMAIN parsed
        BY <2>2, <2>3, <2>4 DEF Goals, ListInv
    <2>6. First(memory, a, "item")
        <3>1. PICK l, e : l = loc[k] /\ e = list[k]
            OBVIOUS
        <3>2. /\ l \in Loc /\ Cell(memory, l).kind # "free" /\ Cell(memory, l).byte = 1
              /\ e = TokenOf(Cell(memory, l))
            BY <3>1, <2>2 DEF ListInv
        <3>3. a # Wild
            BY <2>1, <2>2, <2>5, GoalFacts
        <3>4. QED
            BY <3>1, <3>2, <3>3, <2>1, <2>3, <2>4, TokenFacts
    <2>7. parsed[a] \in DOMAIN list /\ loc[parsed[a]] = a
        BY <2>2, <2>5 DEF ListInv
    <2>8. list[parsed[a]].kind = Cell(memory, a).kind
        BY <2>2, <2>7 DEF ListInv, TokenOf
    <2>9. QED
        BY <2>4, <2>6, <2>8 DEF IsReal, Leads, First
<1>2. QED
    BY <1>1, PathsAreKept, PTL

\* The parser comes to an end, also in a macro that jumps back: it reads no item
\* more often than once for the start and once for every jump it found.
THEOREM ParserIsBounded == Spec => []ParseBounded
<1>1. PathsInv /\ NothingParsed => ParseBounded
    <2> DEFINE items == {list[k] : k \in {k \in DOMAIN list : IsReal(k)}}
               jumps == {e \in Elements(list) : e.kind = "pagejump"}
                        \cup {e \in items : IsJump(program[e.macro][e.item])}
    <2> SUFFICES ASSUME PathsInv, NothingParsed, NEW e \in items
                 PROVE  Cardinality({k \in DOMAIN list : list[k] = e}) <= 1 + Cardinality(jumps)
        BY DEF ParseBounded
    <2> DEFINE K == {k \in DOMAIN list : list[k] = e}
               G == Goals(program, list)
    <2>1. PICK k0 \in DOMAIN list : list[k0] = e /\ list[k0].kind = "item"
        BY DEF IsReal
    <2>2. program \in Programs /\ ReadInv /\ pc \in Parsing
        BY <2>1 DEF PathsInv, Inv, NothingParsed
    <2>3. PICK loc, first : ListInv(loc, first)
        BY <2>2 DEF PathsInv, ListedInv
    <2>4. /\ list \in Seq(Token) /\ Len(list) \in Nat /\ DOMAIN list = 1 .. Len(list)
          /\ DOMAIN first = DOMAIN list
          /\ \A k \in DOMAIN list :
                /\ loc[k] \in Loc /\ Cell(memory, loc[k]).byte = 1
                /\ list[k] = TokenOf(Cell(memory, loc[k]))
                /\ first[k] \in {start[current]} \cup G
          /\ \A j, k \in DOMAIN list : j < k /\ first[j] = first[k] =>
                loc[j].page = loc[k].page /\ loc[j].pos < loc[k].pos
        BY <2>3 DEF ListInv
    \* The same item is at one place, and a run passes it once.
    <2>5. \A j, k \in K : loc[j] = loc[k]
        <3> SUFFICES ASSUME NEW j \in K, NEW k \in K
                     PROVE  loc[j] = loc[k]
            OBVIOUS
        <3>1. ItemsInv(memory, program, Len(program) + 1, 0)
            BY <2>2 DEF ReadInv
        <3>2. \A x \in {j, k} : /\ First(memory, loc[x], "item")
                                /\ Cell(memory, loc[x]).macro = e.macro
                                /\ Cell(memory, loc[x]).item = e.item
            BY <2>1, <2>4 DEF First, TokenOf
        <3>3. loc[j] \in Loc /\ loc[k] \in Loc
            BY <2>4
        <3>4. QED
            BY <3>1, <3>2, <3>3 DEF ItemsInv
    <2>6. \A j, k \in K : first[j] = first[k] => j = k
        <3> SUFFICES ASSUME NEW j \in K, NEW k \in K, first[j] = first[k], j # k
                     PROVE  FALSE
            OBVIOUS
        <3>1. j \in 1 .. Len(list) /\ k \in 1 .. Len(list)
            BY <2>4
        <3>2. j < k \/ k < j
            BY <3>1, <2>4
        <3>3. loc[j].pos < loc[k].pos \/ loc[k].pos < loc[j].pos
            BY <3>1, <3>2, <2>4
        <3>4. loc[j].pos = loc[k].pos /\ loc[j].pos \in Int
            BY <3>1, <2>4, <2>5 DEF Loc
        <3>5. QED
            BY <3>3, <3>4
    <2> DEFINE f == [k \in K |-> first[k]]
               T == G \cup {start[current]}
    <2>7. f \in Injection(K, T)
        <3>1. f \in [K -> T]
            BY <2>4
        <3>2. \A j, k \in K : f[j] = f[k] => j = k
            BY <2>6
        <3> HIDE DEF f, K, T
        <3>3. QED
            BY <3>1, <3>2 DEF Injection, IsInjective
    \* Every address that is referred to belongs to a jump.
    <2> DEFINE J == {x \in Elements(list) : JumpToken(program, x)}
               h == [x \in J |-> x.to]
    <2>8. h \in Surjection(J, G)
        <3>1. \A a : a \in G <=> \E x \in J : x.to = a
            BY DEF Goals, Elements
        <3>2. h \in [J -> G]
            BY <3>1
        <3>3. \A a \in G : \E x \in J : h[x] = a
            BY <3>1
        <3> HIDE DEF h, J, G
        <3>4. QED
            BY <3>2, <3>3 DEF Surjection
    <2>9. J = jumps
        <3>1. \A x : x \in items <=> x \in Elements(list) /\ x.kind = "item"
            BY DEF Elements, IsReal
        <3> HIDE DEF items
        <3>2. QED
            BY <3>1 DEF JumpToken
    <2>10. IsFiniteSet(J) /\ Cardinality(J) \in Nat
        <3> DEFINE g == [k \in 1 .. Len(list) |-> list[k]]
        <3>1. g \in Surjection(1 .. Len(list), Elements(list))
            <4>1. \A x : x \in Elements(list) <=> \E k \in 1 .. Len(list) : list[k] = x
                BY <2>4 DEF Elements
            <4>2. QED
                BY <4>1 DEF Surjection
        <3>2. IsFiniteSet(1 .. Len(list))
            BY <2>4, FS_Interval
        <3> HIDE DEF g
        <3>3. IsFiniteSet(Elements(list))
            BY <3>1, <3>2, FS_Surjection
        <3>4. J \in SUBSET Elements(list)
            OBVIOUS
        <3> HIDE DEF J
        <3>5. QED
            BY <3>3, <3>4, FS_Subset, FS_CardinalityType
    <2> HIDE DEF J, h, f, K, G, jumps, items
    <2>11. IsFiniteSet(G) /\ Cardinality(G) <= Cardinality(J) /\ Cardinality(G) \in Nat
        BY <2>8, <2>10, FS_Surjection, FS_CardinalityType
    <2>12. IsFiniteSet(T) /\ Cardinality(T) <= Cardinality(G) + 1 /\ Cardinality(T) \in Nat
        <3>1. /\ IsFiniteSet(T)
              /\ Cardinality(T) = IF start[current] \in G THEN Cardinality(G) ELSE Cardinality(G) + 1
            BY <2>11, FS_AddElement
        <3>2. QED
            BY <3>1, <2>11
    <2> HIDE DEF T
    <2>13. Cardinality(K) <= Cardinality(T) /\ Cardinality(K) \in Nat
        BY <2>7, <2>12, FS_Injection, FS_CardinalityType
    <2>14. Cardinality(K) <= 1 + Cardinality(jumps)
        BY <2>9, <2>10, <2>11, <2>12, <2>13
    <2>15. QED
        BY <2>14 DEF K
<1>2. QED
    BY <1>1, PathsAreKept, PTL
=============================================================================
