------------------------------- MODULE MCMacro -------------------------------
EXTENDS Macro

CONSTANT MaxItems

Step(len) == [op |-> "step", len |-> len, dest |-> 0]
End == [op |-> "end", len |-> 1, dest |-> 0]
\* A jump is as long as JumpLength, and one with a delay two bytes longer.
Jump(d) == [op |-> "jump", len |-> JumpLength, dest |-> d]
JumpIf(d) == [op |-> "jumpif", len |-> JumpLength + 2, dest |-> d]

Items(n) == {Step(1), Step(2)} \cup {Jump(d) : d \in 1 .. n} \cup {JumpIf(d) : d \in 1 .. n}
MacrosOf(n) == {Append(items, End) : items \in [1 .. n - 1 -> Items(n)]}
\* What the text of a macro may give: no End, or nothing else.
Odd == {<<>>, <<Step(2)>>, <<End>>}
\* A macro of every kind, then one that loops.
MCPrograms ==
    {<<m, n>> : m \in Odd \cup UNION {MacrosOf(n) : n \in 2 .. MaxItems},
                n \in Odd \cup {<<Step(2), JumpIf(2), End>>, <<JumpIf(1), End>>}}
MCStarts == {x \in 0 .. PageSize : x % Align = 0}
=============================================================================
