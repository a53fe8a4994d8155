-------------------------- MODULE MCTouchpadDriver --------------------------
(* An instance of TouchpadDriver for TLC: a receiver with one touchpad, a  *)
(* touchpad of its own and a node that is something else.                  *)
EXTENDS TouchpadDriver

CONSTANTS receiver, mouse, keyboard, wireless, corded

MCPathOf == (wireless :> receiver) @@ (corded :> mouse)
Budget(plugs, links, touches, signals, wakeups, nodes, pads) ==
    [left |-> [plugs |-> plugs, links |-> links, touches |-> touches,
               signals |-> signals, wakeups |-> wakeups],
     plugged |-> nodes, linked |-> pads \cup {corded}]
\* A receiver that comes and goes, a touchpad that does, fingers, and signals.
MCBudgets ==
    {Budget(2, 1, 0, 1, 0, {receiver}, {wireless}),
     Budget(0, 2, 2, 0, 0, {receiver}, {wireless}),
     Budget(1, 2, 0, 1, 0, {}, {wireless}),
     Budget(3, 0, 1, 0, 0, {mouse, keyboard}, {}),
     Budget(0, 3, 0, 1, 1, {receiver}, {}),
     Budget(0, 0, 4, 1, 1, {mouse}, {})}
\* One SIGINT and nothing else.
MCSignalOnly == {Budget(0, 0, 0, 1, 0, {mouse}, {})}
=============================================================================
