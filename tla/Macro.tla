-------------------------------- MODULE Macro --------------------------------
(***************************************************************************)
(* HIDPP::Macro::write and the constructor that parses                      *)
(* (src/src/libhidpp/hidpp/Macro.cpp), with the byte layout of a macro      *)
(* format: macros are written one after another, as the profile tool does,  *)
(* each from the address after the one before; then each is parsed.         *)
(*                                                                          *)
(* A macro is a sequence of items [op, len, dest]: dest is the index of the *)
(* destination of a jump.  A byte of memory tells which byte of which item  *)
(* it is, and an item that is a jump has an address in its first byte.      *)
(***************************************************************************)
EXTENDS Integers, Sequences, FiniteSets

CONSTANTS
    PageSize,   \* bytes of a page, at least CRCLength
    PageCount,  \* bound: pages of the device
    Align,      \* bytes per unit of an address offset: 2 (HID++1.0), 1 (2.0)
    JumpLength, \* getJumpLength ()
    CRCLength,
    Programs,   \* the sequences of macros that are written
    Starts,     \* positions in page 0 of the first one
    Wild        \* an address computed from iterators of different pages

ASSUME SizeAssumption ==
    /\ PageSize \in Nat /\ PageCount \in Nat \ {0} /\ JumpLength \in Nat /\ CRCLength \in 0 .. PageSize
    /\ Align \in {1, 2} /\ PageSize % Align = 0
    /\ Starts \subseteq {x \in 0 .. PageSize : x % Align = 0}

Jumps == {"jump", "jumpif"}

\* Items are not empty, and jumps lead to items.  A page has room for the longest
\* item (5 bytes), a jump and the CRC (of 256 or 512), and a jump (3 or 5) is
\* longer than End (1) and its padding.
ASSUME ProgramAssumption ==
    \A p \in Programs :
        /\ p \in Seq(Seq([op : STRING, len : Nat \ {0}, dest : Nat])) /\ p # <<>>
        /\ \A m \in DOMAIN p : \A i \in DOMAIN p[m] :
             /\ p[m][i].len + JumpLength + CRCLength <= PageSize
             /\ p[m][i].op = "end" => p[m][i].len + Align - 1 <= JumpLength
             /\ p[m][i].op \in Jumps => p[m][i].dest \in DOMAIN p[m]
ASSUME WildAssumption == Wild \notin [page : Nat, pos : Nat]

VARIABLES
    program,  \* the macros to write
    pc,       \* "write", "parse", "done", or how it ended
    current,  \* index of the macro being written or parsed
    it,       \* index of its next item
    page,     \* current_page
    pos,      \* position of current in that page
    start,    \* first address of every macro so far
    checking, \* check_end_of_page_jump
    dests,    \* jump_dests: the address of each destination, once written
    memory,   \* the pages
    list,     \* the items that were parsed
    parsed,   \* parsed_items: the aligned addresses and their items
    stack     \* jump_dests of the parser

writeVars == <<current, it, page, pos, start, checking, dests, memory>>
parseVars == <<list, parsed, stack>>
vars == <<program, pc, writeVars, parseVars>>

-----------------------------------------------------------------------------
IsJump(item) == item.op \in Jumps
HasSuccessor(item) == item.op \notin {"jump", "end"}

\* What an address can tell: positions that are whole units.
Address == [page : 0 .. PageCount, pos : {x \in 0 .. PageSize : x % Align = 0}]
           \cup {Wild}
At(p, x) == [page |-> p, pos |-> x]

\* Bytes: the b-th byte of an item, of padding, or of a jump to another page.
Free == [macro |-> 0, kind |-> "free", item |-> 0, byte |-> 0, to |-> Wild]
Byte(kind, i, b, to) ==
    [macro |-> current, kind |-> kind, item |-> i, byte |-> b, to |-> to]

macro == program[current]
item == macro[it]

\* jump_dests has this item.
IsDest(i) == \E j \in DOMAIN macro : IsJump(macro[j]) /\ macro[j].dest = i
AlignUp(x) == x + ((Align - (x % Align)) % Align)
Placed(i, x) == IF IsDest(i) THEN AlignUp(x) ELSE x

Init ==
    /\ program \in Programs
    /\ pc = "write"
    /\ current = 1
    /\ it = 1
    /\ page = 0
    /\ \E s \in Starts : pos = s /\ start = <<At(0, s)>>
    /\ checking = TRUE
    /\ dests = <<>>
    /\ memory = [p \in 0 .. PageCount - 1 |-> [x \in 0 .. PageSize - 1 |-> Free]]
    /\ list = <<>>
    /\ parsed = <<>>
    /\ stack = <<>>

-----------------------------------------------------------------------------
(* Macro::write *)

Remaining(x) == PageSize - x

LacksSpace ==
    item.len + JumpLength + CRCLength > Remaining(Placed(it, pos))
\* The position after item i when all items from this one are in one page.
PositionAfter ==
    LET f[i \in it .. Len(macro)] ==
          IF i = it THEN Placed(it, pos) + item.len
                    ELSE Placed(i, f[i - 1]) + macro[i].len
    IN  f
\* Faulty variant: the rest may fill the page.
NeedJumpForPage ==
    /\ checking
    /\ LacksSpace
    /\ \E i \in it + 1 .. Len(macro) : 0 > Remaining(PositionAfter[i])
NeedJump ==
    /\ checking
    /\ LacksSpace
    /\ \E i \in it + 1 .. Len(macro) : CRCLength > Remaining(PositionAfter[i])

Put(mem, p, x, kind, i, len, to) ==
    [mem EXCEPT ![p] = [y \in DOMAIN mem[p] |->
        IF y \in x .. x + len - 1 THEN Byte(kind, i, y - x + 1, to) ELSE @[y]]]

\* The item is written at pos, after padding when it is a jump's destination.
Write(mem, p, x, address) ==
    LET padded == Put(mem, p, x, "noop", 0, Placed(it, x) - x, Wild)
        after == Placed(it, x) + item.len
    IN  IF after > PageSize
          THEN pc' = "overrun" /\ UNCHANGED <<it, page, pos, dests, memory>>
          ELSE /\ memory' = Put(padded, p, Placed(it, x), "item", it, item.len, Wild)
               /\ page' = p
               /\ pos' = after
               /\ it' = it + 1
               /\ dests' = IF IsDest(it)
                             THEN [i \in DOMAIN dests \cup {it} |->
                                     IF i = it THEN address ELSE dests[i]]
                             ELSE dests
               /\ UNCHANGED pc

Writing == pc = "write" /\ it <= Len(macro)

WriteHere ==
    /\ Writing
    /\ ~NeedJump
    /\ checking' = (checking /\ ~LacksSpace)
    /\ Write(memory, page, pos, At(page, Placed(it, pos)))
    /\ UNCHANGED <<program, current, start, parseVars>>

\* assert (distance (current, page_end) > jump_len + CRCLength), of which a
\* release build knows nothing.
RoomForJump == Remaining(pos) > JumpLength + CRCLength

\* Faulty variant: the caller keeps the address it gave.
MoveKeepingStart ==
    /\ Writing
    /\ NeedJump
    /\ page + 1 < PageCount
    /\ Write(IF it = 1 THEN memory
             ELSE Put(memory, page, pos, "pagejump", 0, JumpLength, At(page + 1, 0)),
             page + 1, 0, Wild)
    /\ UNCHANGED <<program, current, start, checking, parseVars>>
\* Faulty variant: the item is remembered where the jump was put.
MoveRememberingOld ==
    /\ Writing
    /\ NeedJump
    /\ page + 1 < PageCount
    /\ start' = IF it = 1 THEN [start EXCEPT ![current] = At(page + 1, 0)] ELSE start
    /\ Write(IF it = 1 THEN memory
             ELSE Put(memory, page, pos, "pagejump", 0, JumpLength, At(page + 1, 0)),
             page + 1, 0, At(page, pos))
    /\ UNCHANGED <<program, current, checking, parseVars>>
\* The item begins the next page, and a jump leads there.  The address that
\* item_addr was given before belongs to the page that is left.
MoveToNextPage ==
    /\ Writing
    /\ NeedJump
    /\ page + 1 < PageCount
    /\ start' = IF it = 1 THEN [start EXCEPT ![current] = At(page + 1, 0)] ELSE start
    /\ Write(IF it = 1 THEN memory
             ELSE Put(memory, page, pos, "pagejump", 0, JumpLength, At(page + 1, 0)),
             page + 1, 0, Wild)
    /\ UNCHANGED <<program, current, checking, parseVars>>

AssertFails ==
    /\ Writing
    /\ NeedJump
    /\ it > 1 /\ ~RoomForJump
    /\ pc' = "aborted"
    /\ UNCHANGED <<program, writeVars, parseVars>>

\* The mapping has no such page.
NoNextPage ==
    /\ Writing
    /\ NeedJump
    /\ page + 1 = PageCount
    /\ pc' = "threw"
    /\ UNCHANGED <<program, writeVars, parseVars>>

\* The addresses of the jumps are written, and the next macro begins at the
\* next position that has an address.
ResolveJumps(mem) ==
    [p \in DOMAIN mem |-> [x \in DOMAIN mem[p] |->
       LET byte == mem[p][x] IN
       IF byte.macro = current /\ byte.kind = "item" /\ IsJump(macro[byte.item])
         THEN [byte EXCEPT !.to = dests[macro[byte.item].dest]]
         ELSE byte]]
EndMacro ==
    /\ pc = "write"
    /\ it > Len(macro)
    /\ memory' = ResolveJumps(memory)
    /\ dests' = <<>>
    /\ checking' = TRUE
    /\ it' = 1
    /\ IF current < Len(program)
         THEN /\ current' = current + 1
              /\ pos' = AlignUp(pos)
              /\ start' = Append(start, At(page, AlignUp(pos)))
              /\ UNCHANGED <<pc, page>>
         ELSE /\ pc' = "parse"
              /\ current' = 1
              /\ page' = start[1].page
              /\ pos' = start[1].pos
              /\ UNCHANGED start
    /\ UNCHANGED <<program, parseVars>>

-----------------------------------------------------------------------------
(* Macro::Macro (format, mem, address).  An item is read at (page, pos). *)

\* What parseItem finds: its byte must be the first of something.
Found == memory[page][pos]
Parsable ==
    pos < PageSize /\ page < PageCount /\ Found.kind # "free" /\ Found.byte = 1
FoundLength ==
    CASE Found.kind = "noop" -> 1
      [] Found.kind = "pagejump" -> JumpLength
      [] OTHER -> program[Found.macro][Found.item].len
FoundJump ==
    \/ Found.kind = "pagejump"
    \/ Found.kind = "item" /\ IsJump(program[Found.macro][Found.item])
FoundSuccessor ==
    \/ Found.kind = "noop"
    \/ Found.kind = "item" /\ HasSuccessor(program[Found.macro][Found.item])

Elements(s) == {s[k] : k \in DOMAIN s}
\* The address that an item of the list refers to, or that of the first item.
Target(e) ==
    IF e.kind = "pagejump" \/ (e.kind = "item" /\ IsJump(program[e.macro][e.item]))
      THEN e.to ELSE start[current]

\* Faulty variant: addresses are parsed again.
UnparsedAll(st, done) == st
\* The first address of the stack that was not parsed, and what is under it.
Unparsed(st, done) ==
    LET f[n \in 0 .. Len(st)] ==
          IF n = 0 THEN <<>>
          ELSE IF st[n] \in done THEN f[n - 1] ELSE SubSeq(st, 1, n)
    IN  f[Len(st)]

ParseItem ==
    /\ pc = "parse"
    /\ Parsable
    /\ list' = Append(list, [macro |-> Found.macro, item |-> Found.item,
                            kind |-> Found.kind, to |-> Found.to])
    /\ LET here == At(page, pos)
           known == IF pos % Align = 0 /\ here \notin DOMAIN parsed
                      THEN [a \in DOMAIN parsed \cup {here} |->
                              IF a = here THEN Len(list) + 1 ELSE parsed[a]]
                      ELSE parsed
           pushed == IF FoundJump THEN Append(stack, Found.to) ELSE stack
           left == Unparsed(pushed, DOMAIN known)
       IN  /\ parsed' = known
           /\ \/ /\ FoundSuccessor
                 /\ pos' = pos + FoundLength
                 /\ stack' = pushed
                 /\ UNCHANGED <<pc, page>>
              \/ /\ ~FoundSuccessor /\ left = <<>>
                 /\ pc' = IF \A e \in Elements(list') : Target(e) \in DOMAIN known
                             THEN "done" ELSE "misread"
                 /\ stack' = <<>>
                 /\ UNCHANGED <<page, pos>>
              \/ /\ ~FoundSuccessor /\ left # <<>>
                 /\ LET address == left[Len(left)] IN
                    IF address = Wild THEN pc' = "misread" /\ UNCHANGED <<page, pos>>
                    ELSE page' = address.page /\ pos' = address.pos /\ UNCHANGED pc
                 /\ stack' = SubSeq(left, 1, Len(left) - 1)
    /\ UNCHANGED <<program, current, it, start, checking, dests, memory>>

\* An invalid op-code, or bytes of something else.
Misread ==
    /\ pc = "parse"
    /\ ~Parsable
    /\ pc' = "misread"
    /\ UNCHANGED <<program, writeVars, parseVars>>

\* The caller parses the next macro.
ParseNext ==
    /\ pc = "done"
    /\ current < Len(program)
    /\ pc' = "parse"
    /\ current' = current + 1
    /\ page' = start[current + 1].page
    /\ pos' = start[current + 1].pos
    /\ list' = <<>>
    /\ parsed' = <<>>
    /\ stack' = <<>>
    /\ UNCHANGED <<program, it, start, checking, dests, memory>>

Next ==
    \/ WriteHere
    \/ MoveToNextPage
    \/ AssertFails
    \/ NoNextPage
    \/ EndMacro
    \/ ParseItem
    \/ Misread
    \/ ParseNext

Spec == Init /\ [][Next]_vars

-----------------------------------------------------------------------------
(* Properties. *)

\* Macros of more than one item, that end with End.
Terminated(m) == Len(m) > 1 /\ m[Len(m)].op = "end"

\* sync puts a CRC at the end of each page: nothing was written there, and
\* nothing past it.
CrcKept ==
    (\A m \in DOMAIN program : Terminated(program[m])) =>
        /\ pc # "overrun"
        /\ \A p \in DOMAIN memory : \A x \in PageSize - CRCLength .. PageSize - 1 :
               memory[p][x].kind = "free"

\* The item that is executed when the parsed list is at its k-th.
Executed(k) ==
    LET f[n \in 0 .. Len(list)] ==
          IF n = 0 THEN k
          ELSE LET j == f[n - 1] IN
               IF j \notin DOMAIN list THEN j
               ELSE CASE list[j].kind = "noop" -> j + 1
                      [] list[j].kind = "pagejump" -> parsed[list[j].to]
                      [] OTHER -> j
    IN  f[Len(list)]
Runs(k, i) ==
    LET j == Executed(k) IN
    j \in DOMAIN list /\ list[j].macro = current /\ list[j].item = i
IsReal(k) == list[k].kind = "item"
Source(k) == program[list[k].macro][list[k].item]
WildJumps ==
    \E p \in DOMAIN memory : \E x \in DOMAIN memory[p] :
        LET byte == memory[p][x] IN
        /\ byte.kind = "item" /\ byte.to = Wild
        /\ IsJump(program[byte.macro][byte.item])

\* Parsing gives back what was written, whatever padding and jumps between
\* pages were put in, and whatever was written after it: the macro begins at
\* the address that write gave back, every item is followed by the next one
\* and every jump leads to its destination.
ReadsBack ==
    (\A m \in DOMAIN program : Terminated(program[m])) /\ ~WildJumps =>
        /\ pc # "misread"
        /\ pc = "done" =>
             /\ Runs(1, 1)
             /\ \A k \in DOMAIN list : IsReal(k) =>
                  /\ HasSuccessor(Source(k)) => Runs(k + 1, list[k].item + 1)
                  /\ IsJump(Source(k)) => Runs(parsed[list[k].to], Source(k).dest)

\* The parser ends, also when a macro jumps back: it reads no item more often
\* than once for the start and once for every jump.
ParseBounded ==
    LET items == {list[k] : k \in {k \in DOMAIN list : IsReal(k)}}
        jumps == {e \in Elements(list) : e.kind = "pagejump"}
                 \cup {e \in items : IsJump(program[e.macro][e.item])}
    IN  \A e \in items :
          Cardinality({k \in DOMAIN list : list[k] = e}) <= 1 + Cardinality(jumps)

\* Macro::simplify: what it removes, and where jumps lead then.  It redirects
\* copies of the jumps, so those to a removed item dangle.
Leads(k) == parsed[list[k].to]
IsPlainJump(k) ==
    list[k].kind = "pagejump" \/ (IsReal(k) /\ Source(k).op = "jump")
Removed == {k \in DOMAIN list :
    list[k].kind = "noop" \/ (IsPlainJump(k) /\ Leads(k) = k + 1)}
\* No jump leads to padding or to a jump between pages, so that the macros
\* without jumps to jumps are simplified safely.
SimplifySafe ==
    pc = "done" /\ ~WildJumps =>
        \A k \in DOMAIN list \ Removed :
            /\ IsPlainJump(k) \/ (IsReal(k) /\ IsJump(Source(k)))
            /\ Leads(k) \in Removed
            => IsReal(Leads(k))
=============================================================================
