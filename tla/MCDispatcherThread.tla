------------------------ MODULE MCDispatcherThread ------------------------
(* Instances of DispatcherThread for TLC. *)
EXTENDS DispatcherThread, TLC

CONSTANTS c1, c2, c3, n1, h1, \* actors
          k1, k2, e1,         \* keys: two of requests, one of an event
          t1, t2              \* topics

\* c1 and c2 send the same request; a HID++2.0 answer to it has the topic of
\* the feature's events, an answer to c3 has not.
MCKeyOf == [c \in Commands |-> IF c \in {c1, c2} THEN k1 ELSE k2]
MCTopicOf == [l \in Listeners |-> t1]
MCTopicOfKey == [k \in Keys |-> IF k = k2 THEN t2 ELSE t1]

\* c1 and c2 differ in nothing: neither KeyOf nor any action tells them apart.
MCSymmetry == Permutations({c1, c2})
=============================================================================
