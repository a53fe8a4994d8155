------------------------ MODULE MCSimpleDispatcher ------------------------
(* An instance of SimpleDispatcher for TLC. *)
EXTENDS SimpleDispatcher

CONSTANTS c1, c2, n1, h1, k1, e1, t1

\* c1 and c2 send the same request; the device's events have the sub ID of
\* its feature.
MCKeyOf == [c \in Commands |-> k1]
MCTopicOf == [l \in Notifications \cup Handlers |-> t1]
MCTopicOfKey == [k \in Keys |-> t1]
=============================================================================
