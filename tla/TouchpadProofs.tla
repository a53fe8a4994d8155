--------------------------- MODULE TouchpadProofs ---------------------------
(***************************************************************************)
(* What hidpp20-raw-touchpad-driver does for any touchpads, nodes, budgets *)
(* and number of tracking ids, in three parts.                             *)
(*                                                                         *)
(* The uinput devices show the fingers of the last report.  What makes the *)
(* tracking ids of two contacts different is the order in which next_id    *)
(* gave them out: the id of a contact is `since' behind next_id, modulo    *)
(* their number, and no two contacts are as far behind.                    *)
(*                                                                         *)
(* A touchpad in raw mode is heard.  What the threads still have to do is  *)
(* a list of steps of a certain shape, and each driver keeps an account of *)
(* its handlers: it has one for every touchpad it has, for every object    *)
(* that a thread is building and for every one it is about to remove, and  *)
(* for a touchpad in raw mode one more than will be told so only later.    *)
(*                                                                         *)
(* Quiet runs are defined: as long as nothing is unplugged or goes, each   *)
(* node has one driver, and the two threads work on different drivers.     *)
(***************************************************************************)
EXTENDS TouchpadDriver, QueueFacts, TLAPS

Slot == {1, 2}
\* The state of a touchpad, as MTState and STState keep it.
TouchState ==
    [id : [Slot -> Int], next : 0 .. IdRange - 1, count : Nat, touching : BOOLEAN,
     buttons : SUBSET {"finger", "double", "touch"}, since : [Slot -> Nat]]
\* The id that was given so many ids ago.
Behind(next, n) == IF n <= next THEN next - n ELSE next - n + IdRange
IdInv(s) ==
    /\ \A i \in Slot : s.id[i] # -1 =>
          /\ s.since[i] >= 1
          /\ s.since[i] <= IdRange => s.id[i] = Behind(s.next, s.since[i])
    /\ s.id[1] # -1 /\ s.id[2] # -1 => s.since[1] # s.since[2]
Shown(s, c) ==
    /\ \A i \in Slot : s.id[i] # -1 <=> i \in Slots(c)
    /\ s.count = Cardinality(Slots(c))
    /\ s.touching <=> c[1] # 0
    /\ s.buttons = (IF c[1] # 0 THEN {"touch"} ELSE {}) \cup Tool(Cardinality(Slots(c)))

TouchInv ==
    /\ touch \in [Pads -> TouchState]
    /\ contacts \in [Pads -> Fingers]
    /\ \A p \in Pads : IdInv(touch[p]) /\ Shown(touch[p], contacts[p])

-----------------------------------------------------------------------------
\* The slots that the reports fill.
LEMMA SlotFacts ==
  /\ Slots(<<0, 0>>) = {} /\ Slots(<<1, 0>>) = {1} /\ Slots(<<2, 0>>) = {2}
  /\ Slots(<<0, 1>>) = {1} /\ Slots(<<0, 2>>) = {2}
  /\ Slots(<<1, 2>>) = {1, 2} /\ Slots(<<2, 1>>) = {1, 2}
BY DEF Slots

\* Their numbers.
LEMMA CountFacts ==
  /\ Cardinality({}) = 0 /\ Cardinality({1}) = 1 /\ Cardinality({2}) = 1
  /\ Cardinality({1, 2}) = 2
<1>1. Cardinality({}) = 0 /\ Cardinality({1}) = 1 /\ Cardinality({2}) = 1
  BY FS_EmptySet, FS_Singleton
<1>2. Cardinality({1} \cup {2}) = 2
  <2>1. IsFiniteSet({1})
    BY FS_Singleton
  <2>2. 2 \notin {1}
    OBVIOUS
  <2>3. Cardinality({1} \cup {2}) = Cardinality({1}) + 1
    BY <2>1, <2>2, FS_AddElement
  <2>4. QED
    BY <1>1, <2>3
<1>3. {1, 2} = {1} \cup {2}
  OBVIOUS
<1>4. QED
  BY <1>1, <1>2, <1>3

\* next_id comes round to 0.
LEMMA NextId ==
  ASSUME NEW n \in 0 .. IdRange - 1
  PROVE  (n + 1) % IdRange = IF n + 1 = IdRange THEN 0 ELSE n + 1
BY IdAssumption

\* A contact gets an id that the other one does not have.
LEMMA TrackFacts ==
  ASSUME NEW s \in TouchState, IdInv(s), NEW i \in {0, 1, 2}
  PROVE  /\ Track(s, i) \in TouchState
         /\ IdInv(Track(s, i))
         /\ \A j \in Slot : Track(s, i).id[j] # -1 <=> s.id[j] # -1 \/ i = j
         /\ Track(s, i).count = s.count
         /\ Track(s, i).touching = s.touching
         /\ Track(s, i).buttons = s.buttons
<1>1. CASE i = 0 \/ s.id[i] # -1
  <2>1. Track(s, i) = s
    BY <1>1 DEF Track
  <2>2. i \in Slot => s.id[i] # -1
    BY <1>1 DEF Slot
  <2>3. QED
    BY <2>1, <2>2
<1>2. CASE ~(i = 0 \/ s.id[i] # -1)
  <2> DEFINE t == Track(s, i)
             new == IF s.next + 1 = IdRange THEN 0 ELSE s.next + 1
             old == 3 - i
  <2>1. i \in Slot /\ s.id[i] = -1 /\ old \in Slot /\ old # i /\ \A j \in Slot : j = i \/ j = old
    BY <1>2 DEF Slot
  <2>2. /\ s.id \in [Slot -> Int] /\ s.next \in 0 .. IdRange - 1 /\ s.since \in [Slot -> Nat]
    BY DEF TouchState
  <2>3. t = [s EXCEPT !.id = [s.id EXCEPT ![i] = s.next], !.next = (s.next + 1) % IdRange,
                      !.since = [j \in {1, 2} |-> IF j = i THEN 1 ELSE s.since[j] + 1]]
    BY <1>2 DEF Track
  <2> HIDE DEF t
  <2>4. /\ t.id = [s.id EXCEPT ![i] = s.next]
        /\ t.next = (s.next + 1) % IdRange
        /\ t.since = [j \in {1, 2} |-> IF j = i THEN 1 ELSE s.since[j] + 1]
        /\ t.count = s.count /\ t.touching = s.touching /\ t.buttons = s.buttons
    BY <2>3 DEF TouchState
  <2>5. t.next = new /\ new \in 0 .. IdRange - 1
    BY <2>2, <2>4, NextId, IdAssumption
  <2>6. /\ t.id[i] = s.next /\ t.id[old] = s.id[old]
        /\ t.since[i] = 1 /\ t.since[old] = s.since[old] + 1
    BY <2>1, <2>2, <2>4 DEF Slot
  <2>7. t \in TouchState
    <3>1. t.id \in [Slot -> Int] /\ t.since \in [Slot -> Nat]
      BY <2>1, <2>2, <2>4 DEF Slot
    <3>2. t.next \in 0 .. IdRange - 1
      BY <2>5
    <3>3. QED
      BY <3>1, <3>2, <2>3 DEF TouchState
  <2>8. t.id[i] # -1
    BY <2>2, <2>6
  <2>9. t.id[i] = Behind(t.next, t.since[i])
    BY <2>2, <2>5, <2>6, IdAssumption DEF Behind
  <2>10. ASSUME t.id[old] # -1
         PROVE  /\ t.since[old] >= 1 /\ t.since[old] # t.since[i]
                /\ t.since[old] <= IdRange => t.id[old] = Behind(t.next, t.since[old])
    <3>1. s.since[old] \in Nat /\ s.since[old] >= 1
      BY <2>1, <2>2, <2>6, <2>10 DEF IdInv
    <3>2. s.since[old] <= IdRange => s.id[old] = Behind(s.next, s.since[old])
      BY <2>1, <2>6, <2>10 DEF IdInv
    <3>3. QED
      BY <3>1, <3>2, <2>2, <2>5, <2>6, IdAssumption DEF Behind
  <2>11. IdInv(t)
    BY <2>1, <2>6, <2>9, <2>10 DEF IdInv, Slot
  <2>12. \A j \in Slot : t.id[j] # -1 <=> s.id[j] # -1 \/ i = j
    BY <2>1, <2>6, <2>8
  <2>13. QED
    BY <2>4, <2>7, <2>11, <2>12 DEF t
<1>3. QED
  BY <1>1, <1>2

LEMMA TrackedFacts ==
  ASSUME NEW s \in TouchState, IdInv(s), NEW c \in Fingers
  PROVE  /\ Tracked(s, c) \in TouchState
         /\ IdInv(Tracked(s, c))
         /\ \A i \in Slot : Tracked(s, c).id[i] # -1 <=> i \in Slots(c)
         /\ Tracked(s, c).count = Cardinality(Slots(c))
         /\ Tracked(s, c).touching = s.touching
         /\ Tracked(s, c).buttons = s.buttons
<1> DEFINE one == Track(s, c[1])
           two == Track(one, c[2])
           t == Tracked(s, c)
<1>1. c[1] \in {0, 1, 2} /\ c[2] \in {0, 1, 2}
  BY DEF Fingers
<1>2. /\ one \in TouchState /\ IdInv(one)
      /\ \A j \in Slot : one.id[j] # -1 <=> s.id[j] # -1 \/ c[1] = j
      /\ one.touching = s.touching /\ one.buttons = s.buttons
  BY <1>1, TrackFacts
<1> HIDE DEF one
<1>3. /\ two \in TouchState /\ IdInv(two)
      /\ \A j \in Slot : two.id[j] # -1 <=> one.id[j] # -1 \/ c[2] = j
      /\ two.touching = one.touching /\ two.buttons = one.buttons
  BY <1>1, <1>2, TrackFacts
<1>4. t = [two EXCEPT !.id = [i \in {1, 2} |-> IF i \in Slots(c) THEN two.id[i] ELSE -1],
                      !.count = Cardinality(Slots(c))]
  BY DEF Tracked, one
<1> HIDE DEF two, t
<1>5. Cardinality(Slots(c)) \in Nat
  BY SlotFacts, CountFacts DEF Fingers
<1>6. /\ two.id \in [Slot -> Int] /\ two.since \in [Slot -> Nat] /\ two.next \in 0 .. IdRange - 1
  BY <1>3 DEF TouchState
<1>7. /\ t.id = [i \in {1, 2} |-> IF i \in Slots(c) THEN two.id[i] ELSE -1]
      /\ t.count = Cardinality(Slots(c))
      /\ t.next = two.next /\ t.since = two.since
      /\ t.touching = two.touching /\ t.buttons = two.buttons
  BY <1>3, <1>4 DEF TouchState
<1>8. t \in TouchState
  <2>1. t.id \in [Slot -> Int]
    BY <1>6, <1>7 DEF Slot
  <2>2. QED
    BY <2>1, <1>3, <1>4, <1>5, <1>7 DEF TouchState
<1>9. \A i \in Slot : i \in Slots(c) => two.id[i] # -1
  <2>1. \A i \in Slot : i \in Slots(c) => c[1] = i \/ c[2] = i
    BY DEF Slots
  <2>2. QED
    BY <2>1, <1>2, <1>3
<1>10. \A i \in Slot : t.id[i] # -1 => i \in Slots(c) /\ t.id[i] = two.id[i]
  BY <1>7 DEF Slot
<1>11. \A i \in Slot : i \in Slots(c) => t.id[i] = two.id[i]
  BY <1>7 DEF Slot
<1>12. IdInv(t)
  BY <1>3, <1>7, <1>9, <1>10 DEF IdInv, Slot
<1>13. QED
  BY <1>2, <1>3, <1>7, <1>8, <1>9, <1>10, <1>11, <1>12 DEF t

\* A report is shown, whatever the one before it was.
LEMMA ReportFacts ==
  ASSUME NEW s \in TouchState, IdInv(s), NEW b \in Fingers, Shown(s, b), NEW c \in Fingers
  PROVE  /\ MultiTouch(SingleTouch(s, c), c) \in TouchState
         /\ IdInv(MultiTouch(SingleTouch(s, c), c))
         /\ Shown(MultiTouch(SingleTouch(s, c), c), c)
<1> DEFINE one == SingleTouch(s, c)
           t == Tracked(one, c)
           u == MultiTouch(one, c)
           First(d) == IF d[1] # 0 THEN {"touch"} ELSE {}
           Number(d) == Cardinality(Slots(d))
<1>1. /\ one.touching = (c[1] # 0)
      /\ one.buttons = First(c) \cup Tool(Number(b))
      /\ one.id = s.id /\ one.since = s.since /\ one.next = s.next /\ one.count = s.count
      /\ one \in TouchState
  <2>1. one = [s EXCEPT !.touching = c[1] # 0,
                        !.buttons = IF c[1] # 0 /\ ~s.touching THEN s.buttons \cup {"touch"}
                                    ELSE IF c[1] = 0 /\ s.touching THEN s.buttons \ {"touch"}
                                    ELSE s.buttons]
    BY DEF SingleTouch
  <2>2. s.touching \in BOOLEAN /\ (s.touching <=> b[1] # 0)
        /\ s.buttons = First(b) \cup Tool(Number(b))
    BY DEF Shown, TouchState
  <2>3. "touch" \notin Tool(Number(b)) /\ Tool(Number(b)) \subseteq {"finger", "double"}
    BY DEF Tool
  <2> HIDE DEF one
  <2>4. one.touching = (c[1] # 0) /\ one.id = s.id /\ one.since = s.since /\ one.next = s.next
        /\ one.count = s.count
    BY <2>1 DEF TouchState
  <2>5. one.buttons = IF c[1] # 0 /\ ~s.touching THEN s.buttons \cup {"touch"}
                      ELSE IF c[1] = 0 /\ s.touching THEN s.buttons \ {"touch"}
                      ELSE s.buttons
    BY <2>1 DEF TouchState
  <2>6. one.buttons = First(c) \cup Tool(Number(b))
    BY <2>2, <2>3, <2>5
  <2>7. one \in TouchState
    <3>1. one.buttons \in SUBSET {"finger", "double", "touch"}
      BY <2>3, <2>6
    <3>2. QED
      BY <3>1, <2>1, <2>4 DEF TouchState
  <2>8. QED
    BY <2>4, <2>6, <2>7
<1>2. IdInv(one)
  <2> HIDE DEF one
  <2>1. QED
    BY <1>1 DEF IdInv
<1> HIDE DEF one
<1>3. /\ t \in TouchState /\ IdInv(t)
      /\ \A i \in Slot : t.id[i] # -1 <=> i \in Slots(c)
      /\ t.count = Number(c) /\ t.touching = one.touching /\ t.buttons = one.buttons
  BY <1>1, <1>2, TrackedFacts
<1>4. one.count = Number(b)
  BY <1>1 DEF Shown
<1>5. u = [t EXCEPT !.buttons = IF t.count = one.count THEN t.buttons
                                ELSE (t.buttons \cup Tool(t.count)) \ Tool(one.count)]
  BY DEF MultiTouch
<1> HIDE DEF t, u
<1>6. /\ u.id = t.id /\ u.since = t.since /\ u.next = t.next /\ u.count = t.count
      /\ u.touching = t.touching
      /\ u.buttons = IF t.count = one.count THEN t.buttons
                     ELSE (t.buttons \cup Tool(t.count)) \ Tool(one.count)
  BY <1>3, <1>5 DEF TouchState
<1>7. Number(b) \in {0, 1, 2} /\ Number(c) \in {0, 1, 2}
  BY SlotFacts, CountFacts DEF Fingers
<1> HIDE DEF Number
<1>8. u.buttons = First(c) \cup Tool(Number(c))
  BY <1>1, <1>3, <1>4, <1>6, <1>7 DEF Tool
<1>9. u \in TouchState
  <2>1. u.buttons \in SUBSET {"finger", "double", "touch"}
    BY <1>8 DEF Tool
  <2>2. QED
    BY <2>1, <1>3, <1>5 DEF TouchState
<1>10. IdInv(u)
  BY <1>3, <1>6 DEF IdInv
<1>11. Shown(u, c)
  BY <1>1, <1>3, <1>6, <1>8 DEF Shown, Number
<1>12. QED
  BY <1>9, <1>10, <1>11 DEF u, one

-----------------------------------------------------------------------------
LEMMA NoTouchFacts == NoTouch \in TouchState /\ IdInv(NoTouch) /\ Shown(NoTouch, <<0, 0>>)
<1>1. NoTouch \in TouchState
  BY IdAssumption DEF NoTouch, TouchState, Slot
<1>2. IdInv(NoTouch)
  BY DEF NoTouch, IdInv, Slot
<1>3. Shown(NoTouch, <<0, 0>>)
  BY SlotFacts, CountFacts DEF NoTouch, Shown, Slot, Tool
<1>4. QED
  BY <1>1, <1>2, <1>3

\* At the start no finger is there.
LEMMA TouchInit == Init => TouchInv
<1> SUFFICES ASSUME Init
             PROVE  TouchInv
  OBVIOUS
<1>1. touch = [p \in Pads |-> NoTouch] /\ contacts = [p \in Pads |-> <<0, 0>>]
  BY DEF Init
<1>2. <<0, 0>> \in Fingers
  BY DEF Fingers
<1>3. QED
  BY <1>1, <1>2, NoTouchFacts DEF TouchInv

\* A new uinput device shows nothing.
LEMMA ListenStep ==
  ASSUME TouchInv, NEW t, NEW d, NEW p, Listen(t, d, p)
  PROVE  TouchInv'
<1>1. CASE driver[d].heard[p] = 0
  <2>1. touch' = [touch EXCEPT ![p] = NoTouch] /\ contacts' = [contacts EXCEPT ![p] = <<0, 0>>]
    BY <1>1 DEF Listen
  <2>2. <<0, 0>> \in Fingers
    BY DEF Fingers
  <2>3. touch' \in [Pads -> TouchState] /\ contacts' \in [Pads -> Fingers]
    BY <2>1, <2>2, NoTouchFacts DEF TouchInv
  <2>4. \A q \in Pads : IF q = p THEN touch'[q] = NoTouch /\ contacts'[q] = <<0, 0>>
                        ELSE touch'[q] = touch[q] /\ contacts'[q] = contacts[q]
    BY <2>1 DEF TouchInv
  <2>5. ASSUME NEW q \in Pads
        PROVE  IdInv(touch'[q]) /\ Shown(touch'[q], contacts'[q])
    BY <2>4, NoTouchFacts DEF TouchInv
  <2>6. QED
    BY <2>3, <2>5 DEF TouchInv
<1>2. CASE driver[d].heard[p] # 0
  <2>1. touch' = touch /\ contacts' = contacts
    BY <1>2 DEF Listen
  <2>2. QED
    BY <2>1 DEF TouchInv
<1>3. QED
  BY <1>1, <1>2

\* A report of a touchpad: it is shown, or the program crashes.
LEMMA TouchStep ==
  ASSUME TouchInv, NEW p \in Pads, NEW c \in Fingers, Touch(p, c)
  PROVE  TouchInv'
<1> DEFINE new == MultiTouch(SingleTouch(touch[p], c), c)
<1>1. CASE UNCHANGED touchVars
  BY <1>1 DEF TouchInv, touchVars
<1>2. CASE /\ contacts' = [contacts EXCEPT ![p] = c]
           /\ touch' = [touch EXCEPT ![p] = new]
  <2>1. touch[p] \in TouchState /\ contacts[p] \in Fingers /\ IdInv(touch[p])
        /\ Shown(touch[p], contacts[p])
    BY DEF TouchInv
  <2>2. new \in TouchState /\ IdInv(new) /\ Shown(new, c)
    BY <2>1, ReportFacts
  <2> HIDE DEF new
  <2>3. touch' \in [Pads -> TouchState] /\ contacts' \in [Pads -> Fingers]
    BY <1>2, <2>2 DEF TouchInv
  <2>4. \A q \in Pads : IF q = p THEN touch'[q] = new /\ contacts'[q] = c
                        ELSE touch'[q] = touch[q] /\ contacts'[q] = contacts[q]
    BY <1>2 DEF TouchInv
  <2>5. ASSUME NEW q \in Pads
        PROVE  IdInv(touch'[q]) /\ Shown(touch'[q], contacts'[q])
    BY <2>2, <2>4 DEF TouchInv
  <2>6. QED
    BY <2>3, <2>5 DEF TouchInv
<1>3. QED
  BY <1>1, <1>2 DEF Touch

\* Of the steps of drivers, only Listen makes an uinput device.
LEMMA PerformStep ==
  ASSUME TouchInv, NEW t, NEW s, Perform(t, s)
  PROVE  TouchInv'
<1>1. CASE s.op = "listen" /\ Listen(t, s.driver, s.pad)
  BY <1>1, ListenStep
<1>2. CASE UNCHANGED touchVars
  BY <1>2 DEF TouchInv, touchVars
<1>3. QED
  BY <1>1, <1>2 DEF Perform, Probe, Enable, Disable, Unlisten, Emplace, Erase, AddEvent, Adopt, Gone,
                    effects

\* Every step keeps what uinput was told right.
LEMMA NextStep == TouchInv /\ [Next]_vars => TouchInv'
<1> SUFFICES ASSUME TouchInv, [Next]_vars
             PROVE  TouchInv'
  OBVIOUS
<1>1. ASSUME UNCHANGED touchVars
      PROVE  TouchInv'
  BY <1>1 DEF TouchInv, touchVars
<1>2. CASE UNCHANGED vars
  BY <1>1, <1>2 DEF vars
<1>3. ASSUME NEW path, AddNode(path)
      PROVE  UNCHANGED touchVars
  BY <1>3 DEF AddNode, effects
<1>4. ASSUME NEW t, Work(t)
      PROVE  TouchInv'
  BY <1>4, PerformStep DEF Work
<1>5. ASSUME NEW t, Undefined(t)
      PROVE  TouchInv'
  BY <1>1, <1>5 DEF Undefined
<1>6. CASE Main
  BY <1>1, <1>4, <1>5, <1>6 DEF Main, RunTask, WaitForTask, LeaveLoop, MainEnds
<1>7. CASE Monitor
  <2>1. CASE Enumerate
    BY <1>1, <1>3, <2>1 DEF Enumerate, effects
  <2>2. CASE UdevEvent
    BY <1>1, <1>3, <2>2 DEF UdevEvent, effects
  <2>3. CASE MonitorStops
    BY <1>1, <2>3 DEF MonitorStops
  <2>4. QED
    BY <1>4, <1>5, <1>7, <2>1, <2>2, <2>3 DEF Monitor
<1>8. CASE World
  <2>1. ASSUME NEW path, Plug(path)
        PROVE  TouchInv'
    BY <1>1, <2>1 DEF Plug
  <2>2. ASSUME NEW p, Link(p)
        PROVE  TouchInv'
    BY <1>1, <2>2 DEF Link
  <2>3. QED
    BY <1>8, <2>1, <2>2, TouchStep DEF World
<1>9. CASE SigInt \/ NotifyAll \/ WakeUp \/ Race
  BY <1>1, <1>9 DEF SigInt, NotifyAll, WakeUp, Race
<1>10. QED
  BY <1>2, <1>6, <1>7, <1>8, <1>9 DEF Next

-----------------------------------------------------------------------------

\* The state that the driver keeps of each touchpad is that of its last report,
\* and the ids of its contacts are as old as the order in which they came.
THEOREM TouchStateRight == Spec => []TouchInv
<1>1. QED
  BY TouchInit, NextStep, PTL DEF Spec

\* After each report the uinput device shows the fingers of that report, with
\* different tracking ids unless one stays while all the others are given out.
THEOREM FingersShown == Spec => []TouchesShown
<1>1. TouchInv => TouchesShown
  <2> SUFFICES ASSUME TouchInv, NEW p \in Pads
               PROVE  LET t == touch[p]
                          fingers == Slots(contacts[p])
                      IN  /\ \A i \in {1, 2} : t.id[i] # -1 <=> i \in fingers
                          /\ t.buttons = (IF contacts[p][1] # 0 THEN {"touch"} ELSE {})
                                         \cup Tool(Cardinality(fingers))
                          /\ fingers = {1, 2} /\ (\A i \in {1, 2} : t.since[i] <= IdRange)
                                => t.id[1] # t.id[2]
    BY DEF TouchesShown
  <2> DEFINE t == touch[p]
             fingers == Slots(contacts[p])
  <2>1. t \in TouchState /\ IdInv(t) /\ Shown(t, contacts[p])
    BY DEF TouchInv
  <2> HIDE DEF t
  <2>2. ASSUME fingers = {1, 2}, \A i \in {1, 2} : t.since[i] <= IdRange
        PROVE  t.id[1] # t.id[2]
    <3>1. t.id[1] # -1 /\ t.id[2] # -1
      BY <2>1, <2>2 DEF Shown, Slot
    <3>2. /\ t.since[1] \in 1 .. IdRange /\ t.since[2] \in 1 .. IdRange
          /\ t.since[1] # t.since[2] /\ t.next \in 0 .. IdRange - 1
      BY <2>1, <2>2, <3>1, IdAssumption DEF IdInv, Slot, TouchState
    <3>3. t.id[1] = Behind(t.next, t.since[1]) /\ t.id[2] = Behind(t.next, t.since[2])
      BY <2>1, <3>1, <3>2 DEF IdInv, Slot
    <3>4. QED
      BY <3>2, <3>3, IdAssumption DEF Behind
  <2>3. QED
    BY <2>1, <2>2 DEF Shown, Slot, t
<1>2. QED
  BY <1>1, TouchStateRight, PTL

-----------------------------------------------------------------------------
\* The account of the handlers.  The steps that a thread has ahead build one
\* object after the other, or undo one after the other: the constructor and the
\* destructor of an object are whole (Chained, Paired), what is built is not
\* undone in between (Ordered), and a driver goes last (AdoptLast, GoneLast).
Building == {"probe", "listen", "enable", "emplace", "erase", "addEvent", "adopt"}
Undoing == {"disable", "unlisten", "gone"}
StepType == [op : Building \cup Undoing, driver : Nat \ {0}, pad : Pads \cup {NoPad}]

\* The step that makes the object part of the program, and the one after a
\* step: W are the drivers of receivers.
Keep(d, p, W) == Step(IF d \in W THEN "emplace" ELSE "adopt", d, p)
After(x, W) ==
    CASE x.op = "probe" -> Step("listen", x.driver, x.pad)
      [] x.op = "listen" -> Step("enable", x.driver, x.pad)
      [] x.op = "enable" -> Keep(x.driver, x.pad, W)
      [] x.op = "disable" -> Step("unlisten", x.driver, x.pad)

Distinct(s) == \A i, j \in DOMAIN s : s[i] = s[j] => i = j
Chained(s, W) ==
    \A i \in DOMAIN s : s[i].op \in {"probe", "listen", "enable", "disable"} =>
        i + 1 \in DOMAIN s /\ s[i + 1] = After(s[i], W)
Ordered(s) == \A i, j \in DOMAIN s : i < j /\ s[i].op \in Building => s[j].op \in Building
AdoptLast(s) == \A i \in DOMAIN s : s[i].op = "adopt" => i = Len(s)
GoneLast(s) == \A i, j \in DOMAIN s : i < j /\ s[i].op = "gone" => s[j].driver # s[i].driver
Paired(s) ==
    \A i \in DOMAIN s : i > 1 /\ s[i].op = "unlisten" =>
        s[i - 1] = Step("disable", s[i].driver, s[i].pad)
Fits(x, W) ==
    /\ x.op \in {"emplace", "erase", "addEvent"} => x.driver \in W
    /\ x.op # "gone" /\ ~(x.op = "adopt" /\ x.driver \in W) => x.pad \in Pads
Shape(s, W) ==
    /\ s \in Seq(StepType)
    /\ Distinct(s) /\ Chained(s, W) /\ Ordered(s) /\ AdoptLast(s) /\ GoneLast(s) /\ Paired(s)
    /\ \A i \in DOMAIN s : Fits(s[i], W)

Wireless == {d \in DOMAIN driver : driver[d].path \in Receivers}
Ahead(t) == ToSet(work[t])
Doomed(d) == driver[d].state = "gone" \/ \E t \in Threads, p \in Pads \cup {NoPad} : Step("gone", d, p) \in Ahead(t)

DriverType ==
    [path : Receivers \cup Mice, state : {"building", "live", "dying", "gone"}, open : BOOLEAN,
     pads : SUBSET Pads, listens : SUBSET Pads, heard : [Pads -> Int], dying : [Pads -> Int]]
Call == [driver : Nat, pad : Pads, linked : BOOLEAN]
TypeInv ==
    /\ driver \in Seq(DriverType)
    /\ work \in [Threads -> Seq(StepType)]
    /\ node \in [Paths -> Nat]
    /\ udev \in Seq([add : BOOLEAN, path : Paths])
    /\ found \subseteq Paths
    /\ plugged \subseteq Paths
    /\ raw \subseteq Pads
    /\ queue \in Seq(Call)

ListInv ==
    /\ \A t \in Threads : Shape(work[t], Wireless)
    /\ \A t \in Threads : \A x \in Ahead(t) : x.driver \in DOMAIN driver
    /\ \A x \in Ahead("main") : x.op \in Building => x.driver \in Wireless /\ x.op # "adopt"
    /\ \A x \in Ahead("monitor") : x.op # "erase"
    /\ scan = "done" => work["monitor"] = <<>> /\ \A x \in Ahead("main") : x.op \in Undoing
    /\ \A x \in Ahead("main") : x.op = "gone" => scan = "done"
    /\ stopping => program # "running" /\ (scan # "done" => work["main"] = <<>>)
    /\ scan = "done" => stopping
NodeInv ==
    /\ \A path \in Paths : node[path] # 0 =>
          /\ node[path] \in DOMAIN driver
          /\ driver[node[path]].path = path
          /\ driver[node[path]].state # "gone"
    /\ \A path \in Paths : \A x \in Ahead("monitor") : x.op \in Building => x.driver # node[path]
    /\ \A d \in Wireless : Doomed(d) => driver[d].state \in {"dying", "gone"}
    /\ \A i \in DOMAIN queue : queue[i].driver \in Wireless
    /\ \A d \in DOMAIN driver : driver[d].listens # {} => d \in Wireless

Obj(d, p) == driver[d].heard[p] - driver[d].dying[p]
One(b) == IF b THEN 1 ELSE 0
Claims(A, d, p, W) ==
    One(Step("disable", d, p) \in A) + One(Keep(d, p, W) \in A /\ Step("listen", d, p) \notin A)
Switches(A, d, p) == One(Step("enable", d, p) \in A /\ Step("listen", d, p) \notin A)
Has(d, p) == One(p \in driver[d].pads /\ ~Doomed(d))
Owned ==
    \A d \in DOMAIN driver, p \in Pads :
        Claims(Ahead("main"), d, p, Wireless) + Claims(Ahead("monitor"), d, p, Wireless) + Has(d, p)
            <= Obj(d, p)
Heard ==
    \A p \in raw \ unreached : \E d \in DOMAIN driver :
        Switches(Ahead("main"), d, p) + Switches(Ahead("monitor"), d, p) < Obj(d, p)
RawInv == cause = {} => TypeInv /\ ListInv /\ NodeInv /\ Owned /\ Heard


-----------------------------------------------------------------------------
(* Sequences: one after another, and those of the elements of a set.       *)

\* FlattenSeq puts the sequences one after another.
LEMMA FlattenExists ==
  ASSUME NEW S, NEW seqs \in Seq(Seq(S)), seqs # <<>>
  PROVE  \E g \in [1 .. Len(seqs) -> Seq(S)] :
            /\ g[1] = seqs[1]
            /\ \A i \in 2 .. Len(seqs) : g[i] = g[i - 1] \o seqs[i]
            /\ FlattenSeq(seqs) = g[Len(seqs)]
<1> DEFINE N == Len(seqs)
           Rec(g, n) == [i \in 1 .. n |-> IF i = 1 THEN seqs[i] ELSE g[i - 1] \o seqs[i]]
           Flat(g, n) == /\ g \in [1 .. n -> Seq(S)]
                         /\ \A i \in 1 .. n : g[i] = IF i = 1 THEN seqs[i] ELSE g[i - 1] \o seqs[i]
           T == {n \in Nat : n + 1 <= N => \E g : Flat(g, n + 1)}
<1>1. N \in Nat \ {0} /\ \A i \in 1 .. N : seqs[i] \in Seq(S)
  OBVIOUS
<1>2. 0 \in T
  <2>1. Flat([i \in 1 .. 1 |-> seqs[i]], 1)
    BY <1>1
  <2> HIDE DEF Flat
  <2>2. \E g : Flat(g, 0 + 1)
    <3>1. 0 + 1 = 1
      OBVIOUS
    <3>2. QED
      BY <2>1, <3>1
  <2>3. QED
    BY <2>2
<1>3. ASSUME NEW n \in T
      PROVE  n + 1 \in T
  <2>1. n \in Nat
    OBVIOUS
  <2>2. CASE n + 2 <= N
    <3>1. PICK g : Flat(g, n + 1)
      <4>1. n + 1 <= N
        BY <2>1, <2>2, <1>1
      <4> HIDE DEF Flat
      <4>2. QED
        BY <4>1
    <3> DEFINE h == [i \in 1 .. n + 2 |-> IF i = n + 2 THEN g[n + 1] \o seqs[n + 2] ELSE g[i]]
    <3>2. g[n + 1] \in Seq(S) /\ seqs[n + 2] \in Seq(S)
      BY <3>1, <2>1, <2>2, <1>1
    <3>3. h \in [1 .. n + 2 -> Seq(S)]
      BY <3>1, <3>2, <2>1
    <3>4. ASSUME NEW i \in 1 .. n + 2
          PROVE  h[i] = IF i = 1 THEN seqs[i] ELSE h[i - 1] \o seqs[i]
      <4>1. CASE i = n + 2
        <5>1. i # 1 /\ i - 1 = n + 1 /\ n + 1 \in 1 .. n + 2 /\ n + 1 # n + 2
          BY <4>1, <2>1
        <5>2. h[n + 1] = g[n + 1] /\ h[i] = g[n + 1] \o seqs[n + 2]
          BY <4>1, <5>1
        <5>3. QED
          BY <4>1, <5>1, <5>2
      <4>2. CASE i # n + 2
        <5>1. i \in 1 .. n + 1 /\ h[i] = g[i]
          BY <4>2, <2>1
        <5>2. i # 1 => i - 1 \in 1 .. n + 2 /\ h[i - 1] = g[i - 1]
          BY <4>2, <2>1
        <5>3. QED
          BY <5>1, <5>2, <3>1
      <4>3. QED
        BY <4>1, <4>2
    <3>5. Flat(h, n + 2)
      <4> HIDE DEF h
      <4>1. QED
        BY <3>3, <3>4
    <3>6. n + 2 = (n + 1) + 1
      BY <2>1
    <3> HIDE DEF Flat, h
    <3>7. \E f : Flat(f, (n + 1) + 1)
      BY <3>5, <3>6
    <3>8. QED
      BY <3>7, <2>1
  <2>3. CASE ~(n + 2 <= N)
    BY <2>1, <2>3, <1>1
  <2>4. QED
    BY <2>2, <2>3
<1>4. T \in SUBSET Nat
  OBVIOUS
<1>5. N - 1 \in T
  <2> HIDE DEF T
  <2>1. \A n \in Nat : n \in T
    BY <1>2, <1>3, <1>4, SetInduction
  <2>2. N - 1 \in Nat
    BY <1>1
  <2>3. QED
    BY <2>1, <2>2
<1>6. PICK g : Flat(g, N)
  <2>1. (N - 1) + 1 = N
    BY <1>1
  <2> HIDE DEF Flat
  <2>2. QED
    BY <1>5, <2>1
<1>7. g = Rec(g, N)
  <2>1. g = [i \in 1 .. N |-> g[i]]
    BY <1>6
  <2>2. QED
    BY <1>6, <2>1
<1> DEFINE f == CHOOSE h : h = Rec(h, N)
<1>8. f = Rec(f, N)
  <2> HIDE DEF Rec
  <2>1. QED
    BY <1>7
<1>9. FlattenSeq(seqs) = f[N]
  BY <1>1 DEF FlattenSeq
<1> HIDE DEF f
<1>10. \A i \in 1 .. N : f[i] = IF i = 1 THEN seqs[i] ELSE f[i - 1] \o seqs[i]
  BY <1>8
<1> DEFINE V == {n \in Nat : n + 1 <= N => f[n + 1] = g[n + 1]}
<1>11. \A n \in Nat : n \in V
  <2>1. 0 \in V
    <3>1. 0 + 1 = 1 /\ 1 \in 1 .. N
      BY <1>1
    <3>2. f[1] = seqs[1] /\ g[1] = seqs[1]
      BY <3>1, <1>6, <1>10
    <3>3. QED
      BY <3>1, <3>2
  <2>2. ASSUME NEW n \in V
        PROVE  n + 1 \in V
    <3>1. n \in Nat /\ ((n + 1) + 1) - 1 = n + 1 /\ (n + 1) + 1 # 1
      OBVIOUS
    <3>2. CASE (n + 1) + 1 <= N
      <4>1. (n + 1) + 1 \in 1 .. N /\ f[n + 1] = g[n + 1]
        BY <3>1, <3>2, <1>1
      <4> DEFINE k == (n + 1) + 1
      <4>2. k \in 1 .. N /\ k # 1 /\ k - 1 = n + 1
        BY <4>1, <3>1
      <4> HIDE DEF k
      <4>3. f[k] = f[k - 1] \o seqs[k] /\ g[k] = g[k - 1] \o seqs[k]
        BY <4>2, <1>6, <1>10
      <4>4. f[(n + 1) + 1] = g[(n + 1) + 1]
        BY <4>1, <4>2, <4>3 DEF k
      <4>5. QED
        BY <4>4, <3>1
    <3>3. QED
      BY <3>1, <3>2
  <2>3. V \in SUBSET Nat
    OBVIOUS
  <2> HIDE DEF V
  <2>4. QED
    BY <2>1, <2>2, <2>3, SetInduction
<1>12. f[N] = g[N]
  <2>1. N - 1 \in Nat /\ (N - 1) + 1 = N
    BY <1>1
  <2>2. N - 1 \in V
    BY <1>11, <2>1
  <2>3. QED
    BY <2>1, <2>2
<1>13. g \in [1 .. N -> Seq(S)] /\ g[1] = seqs[1] /\ \A i \in 2 .. N : g[i] = g[i - 1] \o seqs[i]
  <2>1. g \in [1 .. N -> Seq(S)] /\ 1 \in 1 .. N
    BY <1>1, <1>6
  <2>2. \A i \in 2 .. N : i \in 1 .. N /\ i # 1
    BY <1>1
  <2>3. QED
    BY <2>1, <2>2, <1>6
<1>14. QED
  BY <1>9, <1>12, <1>13

\* SetToSeq lists the elements of a finite set, each once.
LEMMA ListingFacts ==
  ASSUME NEW S, IsFiniteSet(S)
  PROVE  /\ SetToSeq(S) \in Seq(S)
         /\ Len(SetToSeq(S)) = Cardinality(S)
         /\ \A i, j \in DOMAIN SetToSeq(S) : SetToSeq(S)[i] = SetToSeq(S)[j] => i = j
         /\ \A x \in S : \E i \in DOMAIN SetToSeq(S) : SetToSeq(S)[i] = x
<1> DEFINE n == Cardinality(S)
<1>1. n \in Nat
  BY FS_CardinalityType
<1>2. PICK f : f \in Bijection(1 .. n, S)
  BY FS_CardinalityType DEF ExistsBijection
<1>3. f \in [1 .. n -> S] /\ IsInjective(f)
  BY <1>2 DEF Bijection, Injection, IsInjective
<1>4. SetToSeq(S) \in [1 .. n -> S] /\ IsInjective(SetToSeq(S))
  BY <1>3 DEF SetToSeq
<1> DEFINE s == SetToSeq(S)
<1> HIDE DEF s
<1>5. s \in [1 .. n -> S] /\ IsInjective(s)
  BY <1>4 DEF s
<1>6. s \in Seq(S) /\ Len(s) = n /\ DOMAIN s = 1 .. n
  BY <1>1, <1>5
<1>7. s \in Injection(1 .. n, S)
  BY <1>5 DEF Injection, IsInjective
<1>8. s \in Surjection(1 .. n, S)
  <2>1. IsFiniteSet(1 .. n) /\ Cardinality(1 .. n) = n
    BY <1>1, FS_Interval
  <2>2. QED
    BY <1>7, <2>1, FS_Injection
<1>9. QED
  BY <1>5, <1>6, <1>8 DEF s, IsInjective, Surjection

-----------------------------------------------------------------------------
(* The shape of the lists.                                                 *)
Only(s, ops) == \A i \in DOMAIN s : s[i].op \in ops
Opens(s) == s # <<>> => s[1].op # "unlisten"
Apart(u, s) ==
  \A i \in DOMAIN u, j \in DOMAIN s :
    u[i] # s[j] /\ (u[i].op = "gone" => s[j].driver # u[i].driver)

\* An element of two sequences joined is one of either.
LEMMA ConcatIndex ==
  ASSUME NEW S, NEW u \in Seq(S), NEW s \in Seq(S)
  PROVE  /\ u \o s \in Seq(S) /\ Len(u) \in Nat /\ Len(s) \in Nat
         /\ Len(u \o s) = Len(u) + Len(s)
         /\ \A i \in DOMAIN u : i \in DOMAIN (u \o s) /\ (u \o s)[i] = u[i]
         /\ \A i \in DOMAIN s : Len(u) + i \in DOMAIN (u \o s) /\ (u \o s)[Len(u) + i] = s[i]
         /\ \A i \in DOMAIN (u \o s) : i \in DOMAIN u \/ \E j \in DOMAIN s : i = Len(u) + j
<1>1. u \o s \in Seq(S) /\ Len(u) \in Nat /\ Len(s) \in Nat /\ Len(u \o s) = Len(u) + Len(s)
      /\ DOMAIN u = 1 .. Len(u) /\ DOMAIN s = 1 .. Len(s) /\ DOMAIN (u \o s) = 1 .. Len(u) + Len(s)
  OBVIOUS
<1>2. \A i \in DOMAIN u : i \in DOMAIN (u \o s) /\ (u \o s)[i] = u[i]
  BY <1>1
<1>3. \A i \in DOMAIN s : Len(u) + i \in DOMAIN (u \o s) /\ (u \o s)[Len(u) + i] = s[i]
  BY <1>1
<1>4. ASSUME NEW i \in DOMAIN (u \o s), i \notin DOMAIN u
      PROVE  \E j \in DOMAIN s : i = Len(u) + j
  <2>1. i - Len(u) \in DOMAIN s /\ i = Len(u) + (i - Len(u))
    BY <1>1, <1>4
  <2>2. QED
    BY <2>1
<1>5. QED
  BY <1>1, <1>2, <1>3, <1>4

\* A list after another.
LEMMA ConcatFacts ==
  ASSUME NEW W, NEW u, NEW s, Shape(u, W), Shape(s, W), Apart(u, s), Opens(s),
         Only(u, Undoing) \/ (Only(s, Building) /\ Only(u, Building \ {"adopt"}))
  PROVE  /\ Shape(u \o s, W)
         /\ ToSet(u \o s) = ToSet(u) \cup ToSet(s)
         /\ Opens(u) => Opens(u \o s)
         /\ \A ops : Only(u, ops) /\ Only(s, ops) => Only(u \o s, ops)
<1> DEFINE c == u \o s
           n == Len(u)
<1>1. u \in Seq(StepType) /\ s \in Seq(StepType)
  BY DEF Shape
<1>2. /\ c \in Seq(StepType) /\ n \in Nat /\ Len(s) \in Nat
      /\ Len(c) = n + Len(s)
      /\ \A i \in DOMAIN u : i \in DOMAIN c /\ c[i] = u[i]
      /\ \A i \in DOMAIN s : n + i \in DOMAIN c /\ c[n + i] = s[i]
      /\ \A i \in DOMAIN c : i \in DOMAIN u \/ \E j \in DOMAIN s : i = n + j
  BY <1>1, ConcatIndex
<1>3. DOMAIN u = 1 .. n /\ DOMAIN s = 1 .. Len(s) /\ DOMAIN c = 1 .. n + Len(s)
  BY <1>1, <1>2
<1> HIDE DEF c, n
<1>4. Distinct(c)
  <2>1. SUFFICES ASSUME NEW i \in DOMAIN c, NEW j \in DOMAIN c, c[i] = c[j]
                 PROVE  i = j
    BY DEF Distinct
  <2>2. Distinct(u) /\ Distinct(s)
    BY DEF Shape
  <2>3. CASE i \in DOMAIN u /\ j \in DOMAIN u
    BY <2>1, <2>2, <2>3, <1>2 DEF Distinct
  <2>4. CASE i \notin DOMAIN u /\ j \notin DOMAIN u
    <3>1. PICK a \in DOMAIN s, b \in DOMAIN s : i = n + a /\ j = n + b
      BY <2>4, <1>2
    <3>2. s[a] = s[b]
      BY <2>1, <3>1, <1>2
    <3>3. QED
      BY <3>1, <3>2, <2>2 DEF Distinct
  <2>5. ASSUME NEW k \in DOMAIN c, NEW l \in DOMAIN c, k \in DOMAIN u, l \notin DOMAIN u
        PROVE  c[k] # c[l]
    <3>1. PICK b \in DOMAIN s : l = n + b
      BY <2>5, <1>2
    <3>2. QED
      BY <3>1, <2>5, <1>2 DEF Apart
  <2>6. QED
    BY <2>1, <2>3, <2>4, <2>5
<1>5. Chained(c, W)
  <2>1. SUFFICES ASSUME NEW i \in DOMAIN c, c[i].op \in {"probe", "listen", "enable", "disable"}
                 PROVE  i + 1 \in DOMAIN c /\ c[i + 1] = After(c[i], W)
    BY DEF Chained
  <2>2. CASE i \in DOMAIN u
    <3>1. i + 1 \in DOMAIN u /\ u[i + 1] = After(u[i], W)
      BY <2>1, <2>2, <1>2 DEF Shape, Chained
    <3>2. QED
      BY <3>1, <2>2, <1>2
  <2>3. ASSUME NEW j \in DOMAIN s, i = n + j
        PROVE  i + 1 \in DOMAIN c /\ c[i + 1] = After(c[i], W)
    <3>1. c[i] = s[j]
      BY <2>3, <1>2
    <3>2. j + 1 \in DOMAIN s /\ s[j + 1] = After(s[j], W)
      BY <2>1, <3>1 DEF Shape, Chained
    <3>3. i + 1 = n + (j + 1)
      BY <2>3, <1>2, <1>3
    <3>4. QED
      BY <3>1, <3>2, <3>3, <1>2
  <2>4. QED
    BY <2>2, <2>3, <1>2
<1>6. Ordered(c)
  <2>1. SUFFICES ASSUME NEW i \in DOMAIN c, NEW j \in DOMAIN c, i < j, c[i].op \in Building
                 PROVE  c[j].op \in Building
    BY DEF Ordered
  <2>2. CASE j \in DOMAIN u
    <3>1. i \in DOMAIN u
      BY <2>1, <2>2, <1>2, <1>3
    <3>2. QED
      BY <3>1, <2>1, <2>2, <1>2 DEF Shape, Ordered
  <2>3. ASSUME NEW b \in DOMAIN s, j = n + b
        PROVE  c[j].op \in Building
    <3>1. c[j] = s[b]
      BY <2>3, <1>2
    <3>2. CASE i \in DOMAIN u
      <4>1. u[i].op \in Building
        BY <2>1, <3>2, <1>2
      <4>2. ~Only(u, Undoing)
        BY <4>1, <3>2 DEF Only, Building, Undoing
      <4>3. QED
        BY <4>2, <3>1 DEF Only
    <3>3. ASSUME NEW a \in DOMAIN s, i = n + a
          PROVE  c[j].op \in Building
      <4>1. a < b /\ s[a].op \in Building
        BY <2>1, <2>3, <3>3, <1>2, <1>3
      <4>2. QED
        BY <4>1, <3>1 DEF Shape, Ordered
    <3>4. QED
      BY <3>2, <3>3, <1>2
  <2>4. QED
    BY <2>2, <2>3, <1>2
<1>7. AdoptLast(c)
  <2>1. SUFFICES ASSUME NEW i \in DOMAIN c, c[i].op = "adopt"
                 PROVE  i = Len(c)
    BY DEF AdoptLast
  <2>2. i \notin DOMAIN u
    BY <2>1, <1>2 DEF Only, Undoing
  <2>3. PICK j \in DOMAIN s : i = n + j
    BY <2>2, <1>2
  <2>4. j = Len(s)
    BY <2>1, <2>3, <1>2 DEF Shape, AdoptLast
  <2>5. QED
    BY <2>3, <2>4, <1>2
<1>8. GoneLast(c)
  <2>1. SUFFICES ASSUME NEW i \in DOMAIN c, NEW j \in DOMAIN c, i < j, c[i].op = "gone"
                 PROVE  c[j].driver # c[i].driver
    BY DEF GoneLast
  <2>2. CASE j \in DOMAIN u
    <3>1. i \in DOMAIN u
      BY <2>1, <2>2, <1>2, <1>3
    <3>2. QED
      BY <3>1, <2>1, <2>2, <1>2 DEF Shape, GoneLast
  <2>3. ASSUME NEW b \in DOMAIN s, j = n + b
        PROVE  c[j].driver # c[i].driver
    <3>1. CASE i \in DOMAIN u
      BY <2>1, <2>3, <3>1, <1>2 DEF Apart
    <3>2. ASSUME NEW a \in DOMAIN s, i = n + a
          PROVE  c[j].driver # c[i].driver
      <4>1. a < b /\ s[a].op = "gone"
        BY <2>1, <2>3, <3>2, <1>2, <1>3
      <4>2. s[b].driver # s[a].driver
        BY <4>1 DEF Shape, GoneLast
      <4>3. QED
        BY <4>2, <2>3, <3>2, <1>2
    <3>3. QED
      BY <3>1, <3>2, <1>2
  <2>4. QED
    BY <2>2, <2>3, <1>2
<1>9. Paired(c)
  <2>1. SUFFICES ASSUME NEW i \in DOMAIN c, i > 1, c[i].op = "unlisten"
                 PROVE  c[i - 1] = Step("disable", c[i].driver, c[i].pad)
    BY DEF Paired
  <2>2. CASE i \in DOMAIN u
    <3>1. i - 1 \in DOMAIN u
      BY <2>1, <2>2, <1>2, <1>3
    <3>2. QED
      BY <3>1, <2>1, <2>2, <1>2 DEF Shape, Paired
  <2>3. ASSUME NEW j \in DOMAIN s, i = n + j
        PROVE  c[i - 1] = Step("disable", c[i].driver, c[i].pad)
    <3>1. c[i] = s[j]
      BY <2>3, <1>2
    <3>2. j # 1
      <4>1. s # <<>>
        BY <1>3
      <4>2. QED
        BY <4>1, <3>1, <2>1 DEF Opens
    <3>3. j > 1 /\ j - 1 \in DOMAIN s /\ i - 1 = n + (j - 1)
      BY <3>2, <2>3, <1>2, <1>3
    <3>4. s[j - 1] = Step("disable", s[j].driver, s[j].pad)
      BY <3>1, <3>3, <2>1 DEF Shape, Paired
    <3>5. QED
      BY <3>1, <3>3, <3>4, <1>2
  <2>4. QED
    BY <2>2, <2>3, <1>2
<1>10. \A i \in DOMAIN c : Fits(c[i], W)
  <2>1. \A i \in DOMAIN u : Fits(u[i], W)
    BY DEF Shape
  <2>2. \A i \in DOMAIN s : Fits(s[i], W)
    BY DEF Shape
  <2>3. QED
    BY <2>1, <2>2, <1>2
<1>11. Shape(c, W)
  BY <1>2, <1>4, <1>5, <1>6, <1>7, <1>8, <1>9, <1>10 DEF Shape
<1>12. ToSet(c) = ToSet(u) \cup ToSet(s)
  <2>1. \A x \in ToSet(c) : x \in ToSet(u) \cup ToSet(s)
    BY <1>2 DEF ToSet
  <2>2. \A x \in ToSet(u) \cup ToSet(s) : x \in ToSet(c)
    BY <1>2 DEF ToSet
  <2>3. QED
    BY <2>1, <2>2
<1>13. ASSUME Opens(u), c # <<>>
       PROVE  c[1].op # "unlisten"
  <2>1. CASE u = <<>>
    <3>1. c = s
      BY <2>1, <1>1 DEF c
    <3>2. QED
      BY <3>1, <1>13 DEF Opens
  <2>2. CASE u # <<>>
    <3>1. 1 \in DOMAIN u
      BY <2>2, <1>1
    <3>2. QED
      BY <3>1, <2>2, <1>2, <1>13 DEF Opens
  <2>3. QED
    BY <2>1, <2>2
<1>14. ASSUME NEW ops, Only(u, ops), Only(s, ops)
       PROVE  Only(c, ops)
  BY <1>2, <1>14 DEF Only
<1>15. QED
  BY <1>11, <1>12, <1>13, <1>14 DEF c, Opens

\* What is left of a list.
LEMMA SuffixFacts ==
  ASSUME NEW W, NEW s, Shape(s, W), NEW k \in 0 .. Len(s)
  PROVE  /\ Shape(SubSeq(s, k + 1, Len(s)), W)
         /\ \A x : x \in ToSet(SubSeq(s, k + 1, Len(s))) <=>
                      x \in ToSet(s) /\ \A i \in 1 .. k : x # s[i]
<1> DEFINE r == SubSeq(s, k + 1, Len(s))
<1>1. s \in Seq(StepType) /\ Len(s) \in Nat /\ DOMAIN s = 1 .. Len(s)
  BY DEF Shape
<1>2. /\ r \in Seq(StepType) /\ Len(r) = Len(s) - k /\ DOMAIN r = 1 .. Len(s) - k
      /\ \A i \in DOMAIN r : k + i \in DOMAIN s /\ r[i] = s[k + i]
  BY <1>1
<1> HIDE DEF r
<1>3. Distinct(r)
  <2>1. SUFFICES ASSUME NEW i \in DOMAIN r, NEW j \in DOMAIN r, r[i] = r[j]
                 PROVE  i = j
    BY DEF Distinct
  <2>2. k + i = k + j
    BY <2>1, <1>2 DEF Shape, Distinct
  <2>3. QED
    BY <2>2, <1>2
<1>4. Chained(r, W)
  <2>1. SUFFICES ASSUME NEW i \in DOMAIN r, r[i].op \in {"probe", "listen", "enable", "disable"}
                 PROVE  i + 1 \in DOMAIN r /\ r[i + 1] = After(r[i], W)
    BY DEF Chained
  <2>2. (k + i) + 1 \in DOMAIN s /\ s[(k + i) + 1] = After(s[k + i], W)
    BY <2>1, <1>2 DEF Shape, Chained
  <2>3. i + 1 \in DOMAIN r /\ k + (i + 1) = (k + i) + 1
    BY <2>2, <1>1, <1>2
  <2>4. QED
    BY <2>2, <2>3, <1>2
<1>5. Ordered(r)
  <2>1. SUFFICES ASSUME NEW i \in DOMAIN r, NEW j \in DOMAIN r, i < j, r[i].op \in Building
                 PROVE  r[j].op \in Building
    BY DEF Ordered
  <2>2. k + i < k + j
    BY <2>1, <1>2
  <2>3. QED
    BY <2>1, <2>2, <1>2 DEF Shape, Ordered
<1>6. AdoptLast(r)
  <2>1. SUFFICES ASSUME NEW i \in DOMAIN r, r[i].op = "adopt"
                 PROVE  i = Len(r)
    BY DEF AdoptLast
  <2>2. k + i = Len(s)
    BY <2>1, <1>2 DEF Shape, AdoptLast
  <2>3. QED
    BY <2>2, <1>1, <1>2
<1>7. GoneLast(r)
  <2>1. SUFFICES ASSUME NEW i \in DOMAIN r, NEW j \in DOMAIN r, i < j, r[i].op = "gone"
                 PROVE  r[j].driver # r[i].driver
    BY DEF GoneLast
  <2>2. k + i < k + j
    BY <2>1, <1>2
  <2>3. QED
    BY <2>1, <2>2, <1>2 DEF Shape, GoneLast
<1>8. Paired(r)
  <2>1. SUFFICES ASSUME NEW i \in DOMAIN r, i > 1, r[i].op = "unlisten"
                 PROVE  r[i - 1] = Step("disable", r[i].driver, r[i].pad)
    BY DEF Paired
  <2>2. k + i > 1 /\ i - 1 \in DOMAIN r /\ (k + i) - 1 = k + (i - 1)
    BY <2>1, <1>2
  <2>3. s[(k + i) - 1] = Step("disable", s[k + i].driver, s[k + i].pad)
    BY <2>1, <2>2, <1>2 DEF Shape, Paired
  <2>4. QED
    BY <2>2, <2>3, <1>2
<1>9. Shape(r, W)
  <2>1. \A i \in DOMAIN r : Fits(r[i], W)
    BY <1>2 DEF Shape
  <2>2. QED
    BY <2>1, <1>2, <1>3, <1>4, <1>5, <1>6, <1>7, <1>8 DEF Shape
<1>10. ASSUME NEW x \in ToSet(r)
       PROVE  x \in ToSet(s) /\ \A i \in 1 .. k : x # s[i]
  <2>1. PICK j \in DOMAIN r : x = r[j]
    BY DEF ToSet
  <2>2. x = s[k + j] /\ k + j \in DOMAIN s
    BY <2>1, <1>2
  <2>3. ASSUME NEW i \in 1 .. k
        PROVE  x # s[i]
    <3>1. i \in DOMAIN s /\ i # k + j
      BY <2>1, <1>1, <1>2
    <3>2. QED
      BY <3>1, <2>2 DEF Shape, Distinct
  <2>4. QED
    BY <2>2, <2>3 DEF ToSet
<1>11. ASSUME NEW x \in ToSet(s), \A i \in 1 .. k : x # s[i]
       PROVE  x \in ToSet(r)
  <2>1. PICK j \in DOMAIN s : x = s[j]
    BY DEF ToSet
  <2>2. j \notin 1 .. k
    BY <2>1, <1>11
  <2>3. j - k \in DOMAIN r /\ k + (j - k) = j
    BY <2>2, <1>1, <1>2
  <2>4. QED
    BY <2>1, <2>3, <1>2 DEF ToSet
<1>12. QED
  BY <1>9, <1>10, <1>11 DEF r

\* Without its first step.
LEMMA TailShape ==
  ASSUME NEW W, NEW s, Shape(s, W), s # <<>>
  PROVE  /\ Shape(Tail(s), W)
         /\ ToSet(Tail(s)) = ToSet(s) \ {Head(s)}
         /\ Head(s) \in ToSet(s) /\ Head(s) = s[1] /\ Head(s) \in StepType
<1>1. s \in Seq(StepType)
  BY DEF Shape
<1>2. Len(s) \in Nat /\ 1 \in 0 .. Len(s) /\ Tail(s) = SubSeq(s, 2, Len(s)) /\ Head(s) = s[1]
      /\ 1 \in DOMAIN s /\ Head(s) \in StepType
  BY <1>1
<1>3. 1 + 1 = 2 /\ 1 .. 1 = {1}
  OBVIOUS
<1>4. /\ Shape(Tail(s), W)
      /\ \A x : x \in ToSet(Tail(s)) <=> x \in ToSet(s) /\ \A i \in 1 .. 1 : x # s[i]
  <2>1. /\ Shape(SubSeq(s, 1 + 1, Len(s)), W)
        /\ \A x : x \in ToSet(SubSeq(s, 1 + 1, Len(s))) <=>
                     x \in ToSet(s) /\ \A i \in 1 .. 1 : x # s[i]
    BY <1>2, SuffixFacts
  <2>2. Tail(s) = SubSeq(s, 1 + 1, Len(s))
    BY <1>2, <1>3
  <2>3. QED
    BY <2>1, <2>2
<1>5. \A x : x \in ToSet(Tail(s)) <=> x \in ToSet(s) /\ x # s[1]
  BY <1>3, <1>4
<1>6. Head(s) \in ToSet(s)
  BY <1>2 DEF ToSet
<1>7. QED
  BY <1>2, <1>4, <1>5, <1>6

\* A list with one building step first has no other steps.
LEMMA AllBuilding ==
  ASSUME NEW W, NEW s, Shape(s, W), s # <<>>, Head(s).op \in Building
  PROVE  /\ Only(s, Building)
         /\ Only(Tail(s), Building)
<1>1. s \in Seq(StepType) /\ Len(s) \in Nat \ {0} /\ Head(s) = s[1] /\ DOMAIN s = 1 .. Len(s)
      /\ Tail(s) \in Seq(StepType)
      /\ \A i \in DOMAIN Tail(s) : i + 1 \in DOMAIN s /\ Tail(s)[i] = s[i + 1]
  <2>1. s \in Seq(StepType)
    BY DEF Shape
  <2>2. QED
    BY <2>1
<1>2. ASSUME NEW i \in DOMAIN s
      PROVE  s[i].op \in Building
  <2>1. i = 1 \/ 1 < i
    BY <1>1
  <2>2. 1 \in DOMAIN s
    BY <1>1
  <2>3. QED
    BY <2>1, <2>2, <1>1 DEF Shape, Ordered
<1>3. QED
  BY <1>1, <1>2 DEF Only

\* Which drivers are those of receivers matters for the drivers of the list.
LEMMA ShapeWireless ==
  ASSUME NEW W, NEW V, NEW s, Shape(s, W), \A x \in ToSet(s) : x.driver \in W <=> x.driver \in V
  PROVE  Shape(s, V)
<1>1. \A i \in DOMAIN s : s[i].driver \in W <=> s[i].driver \in V
  BY DEF ToSet
<1>2. Chained(s, V)
  <2>1. SUFFICES ASSUME NEW i \in DOMAIN s, s[i].op \in {"probe", "listen", "enable", "disable"}
                 PROVE  i + 1 \in DOMAIN s /\ s[i + 1] = After(s[i], V)
    BY DEF Chained
  <2>2. i + 1 \in DOMAIN s /\ s[i + 1] = After(s[i], W)
    BY <2>1 DEF Shape, Chained
  <2>3. After(s[i], W) = After(s[i], V)
    BY <1>1 DEF After, Keep
  <2>4. QED
    BY <2>2, <2>3
<1>3. \A i \in DOMAIN s : Fits(s[i], V)
  BY <1>1 DEF Shape, Fits
<1>4. QED
  BY <1>2, <1>3 DEF Shape

\* Several lists, one after another.
LEMMA FlattenShape ==
  ASSUME NEW W, NEW seqs \in Seq(Seq(StepType)), NEW ops,
         ops \subseteq Undoing \/ ops \subseteq Building \ {"adopt"},
         \A i \in DOMAIN seqs : Shape(seqs[i], W) /\ Only(seqs[i], ops) /\ Opens(seqs[i]),
         \A i, j \in DOMAIN seqs : i # j => Apart(seqs[i], seqs[j])
  PROVE  /\ Shape(FlattenSeq(seqs), W)
         /\ Only(FlattenSeq(seqs), ops)
         /\ Opens(FlattenSeq(seqs))
         /\ \A x : x \in ToSet(FlattenSeq(seqs)) <=> \E i \in DOMAIN seqs : x \in ToSet(seqs[i])
<1> DEFINE N == Len(seqs)
<1>1. N \in Nat /\ DOMAIN seqs = 1 .. N
  OBVIOUS
<1>2. CASE seqs = <<>>
  <2>1. FlattenSeq(seqs) = <<>>
    BY <1>2 DEF FlattenSeq
  <2>2. <<>> \in Seq(StepType) /\ DOMAIN <<>> = {}
    OBVIOUS
  <2>3. Shape(<<>>, W) /\ Only(<<>>, ops) /\ Opens(<<>>) /\ ToSet(<<>>) = {}
    BY <2>2 DEF Shape, Only, Opens, ToSet, Distinct, Chained, Ordered, AdoptLast, GoneLast, Paired
  <2>4. DOMAIN seqs = {}
    BY <1>2
  <2>5. QED
    BY <2>1, <2>3, <2>4
<1>3. CASE seqs # <<>>
  <2>1. PICK g \in [1 .. N -> Seq(StepType)] :
            /\ g[1] = seqs[1]
            /\ \A i \in 2 .. N : g[i] = g[i - 1] \o seqs[i]
            /\ FlattenSeq(seqs) = g[N]
    BY <1>3, FlattenExists
  <2> DEFINE Good(n) == /\ Shape(g[n], W) /\ Only(g[n], ops) /\ Opens(g[n])
                        /\ \A x : x \in ToSet(g[n]) <=> \E i \in 1 .. n : x \in ToSet(seqs[i])
             T == {n \in Nat : n + 1 <= N => Good(n + 1)}
  <2>2. N >= 1
    BY <1>1, <1>3
  <2>3. Good(1)
    <3>1. 1 .. 1 = {1} /\ 1 \in DOMAIN seqs
      BY <1>1, <2>2
    <3>2. QED
      BY <3>1, <2>1
  <2>4. 0 \in T
    <3>1. 0 + 1 = 1
      OBVIOUS
    <3> HIDE DEF Good
    <3>2. QED
      BY <2>3, <3>1
  <2>5. ASSUME NEW n \in T
        PROVE  n + 1 \in T
    <3>1. n \in Nat
      OBVIOUS
    <3> DEFINE k == (n + 1) + 1
    <3>2. CASE k <= N
      <4>1. k \in 2 .. N /\ k - 1 = n + 1 /\ n + 1 <= N /\ k \in DOMAIN seqs /\ n + 1 \in 1 .. N
        BY <3>1, <3>2, <1>1
      <4>2. Good(n + 1)
        <5> HIDE DEF Good
        <5>1. QED
          BY <4>1
      <4>3. g[k] = g[n + 1] \o seqs[k]
        BY <4>1, <2>1
      <4>4. Apart(g[n + 1], seqs[k])
        <5>1. SUFFICES ASSUME NEW i \in DOMAIN g[n + 1], NEW j \in DOMAIN seqs[k]
                       PROVE  /\ g[n + 1][i] # seqs[k][j]
                              /\ g[n + 1][i].op = "gone" => seqs[k][j].driver # g[n + 1][i].driver
          BY DEF Apart
        <5>2. g[n + 1][i] \in ToSet(g[n + 1])
          BY DEF ToSet
        <5>3. PICK m \in 1 .. n + 1 : g[n + 1][i] \in ToSet(seqs[m])
          BY <5>2, <4>2
        <5>4. PICK l \in DOMAIN seqs[m] : g[n + 1][i] = seqs[m][l]
          BY <5>3 DEF ToSet
        <5>5. m \in DOMAIN seqs /\ m # k
          BY <4>1, <3>1, <1>1
        <5>6. Apart(seqs[m], seqs[k])
          BY <5>5, <4>1
        <5>7. QED
          BY <5>4, <5>6 DEF Apart
      <4>5. \/ Only(g[n + 1], Undoing)
            \/ Only(seqs[k], Building) /\ Only(g[n + 1], Building \ {"adopt"})
        BY <4>1, <4>2 DEF Only
      <4> DEFINE u == g[n + 1]
                 s == seqs[k]
      <4>6. Shape(u, W) /\ Only(u, ops) /\ Opens(u) /\ Shape(s, W) /\ Only(s, ops) /\ Opens(s)
        BY <4>1, <4>2
      <4> HIDE DEF u, s
      <4>7. /\ Shape(u \o s, W) /\ ToSet(u \o s) = ToSet(u) \cup ToSet(s)
            /\ Opens(u \o s) /\ Only(u \o s, ops)
        <5>1. Apart(u, s) /\ (Only(u, Undoing) \/ (Only(s, Building) /\ Only(u, Building \ {"adopt"})))
          BY <4>4, <4>5 DEF u, s
        <5>2. QED
          BY <4>6, <5>1, ConcatFacts
      <4>8. /\ Shape(g[k], W) /\ Only(g[k], ops) /\ Opens(g[k])
            /\ ToSet(g[k]) = ToSet(g[n + 1]) \cup ToSet(seqs[k])
        BY <4>3, <4>7 DEF u, s
      <4>9. \A i \in 1 .. k : i \in 1 .. n + 1 \/ i = k
        BY <3>1
      <4>10. \A i \in 1 .. n + 1 : i \in 1 .. k
        BY <3>1
      <4>11. k \in 1 .. k
        BY <3>1
      <4>12. ASSUME NEW x
             PROVE  x \in ToSet(g[k]) <=> \E i \in 1 .. k : x \in ToSet(seqs[i])
        <5> HIDE DEF k
        <5>1. x \in ToSet(g[n + 1]) <=> \E i \in 1 .. n + 1 : x \in ToSet(seqs[i])
          BY <4>2
        <5>2. QED
          BY <5>1, <4>8, <4>9, <4>10, <4>11
      <4>13. Good(k)
        BY <4>8, <4>12
      <4> HIDE DEF Good
      <4>14. QED
        BY <4>13, <3>1
    <3>3. CASE ~(k <= N)
      BY <3>1, <3>3
    <3>4. QED
      BY <3>2, <3>3
  <2>6. T \in SUBSET Nat
    OBVIOUS
  <2>7. Good(N)
    <3> HIDE DEF T
    <3>1. \A n \in Nat : n \in T
      BY <2>4, <2>5, <2>6, SetInduction
    <3>2. N - 1 \in Nat /\ (N - 1) + 1 = N
      BY <1>1, <2>2
    <3>3. N - 1 \in T
      BY <3>1, <3>2
    <3>4. QED
      <4> HIDE DEF Good
      <4>1. QED
        BY <3>2, <3>3, <1>1 DEF T
  <2>8. QED
    BY <2>1, <2>7, <1>1
<1>4. QED
  BY <1>2, <1>3

\* The lists of a finite set, one after another.
LEMMA ListsShape ==
  ASSUME NEW W, NEW Q, IsFiniteSet(Q), NEW ops,
         ops \subseteq Undoing \/ ops \subseteq Building \ {"adopt"},
         \A s \in Q : Shape(s, W) /\ Only(s, ops) /\ Opens(s),
         \A u, s \in Q : u # s => Apart(u, s)
  PROVE  /\ Shape(FlattenSeq(SetToSeq(Q)), W)
         /\ Only(FlattenSeq(SetToSeq(Q)), ops)
         /\ Opens(FlattenSeq(SetToSeq(Q)))
         /\ \A x : x \in ToSet(FlattenSeq(SetToSeq(Q))) <=> \E s \in Q : x \in ToSet(s)
<1> DEFINE l == SetToSeq(Q)
<1>1. /\ l \in Seq(Q)
      /\ \A i, j \in DOMAIN l : l[i] = l[j] => i = j
      /\ \A s \in Q : \E i \in DOMAIN l : l[i] = s
  BY ListingFacts
<1> HIDE DEF l
<1>2. \A s \in Q : s \in Seq(StepType)
  BY DEF Shape
<1>3. \A i \in DOMAIN l : l[i] \in Q
  BY <1>1
<1>4. l \in Seq(Seq(StepType))
  <2>1. Q \subseteq Seq(StepType)
    BY <1>2
  <2>2. QED
    BY <1>1, <2>1, SeqMonotonic
<1>5. \A i \in DOMAIN l : Shape(l[i], W) /\ Only(l[i], ops) /\ Opens(l[i])
  BY <1>3
<1>6. \A i, j \in DOMAIN l : i # j => Apart(l[i], l[j])
  BY <1>1, <1>3
<1>7. /\ Shape(FlattenSeq(l), W) /\ Only(FlattenSeq(l), ops) /\ Opens(FlattenSeq(l))
      /\ \A x : x \in ToSet(FlattenSeq(l)) <=> \E i \in DOMAIN l : x \in ToSet(l[i])
  BY <1>4, <1>5, <1>6, FlattenShape
<1>8. ASSUME NEW x
      PROVE  (\E i \in DOMAIN l : x \in ToSet(l[i])) <=> \E s \in Q : x \in ToSet(s)
  BY <1>1, <1>3
<1>9. \A x : x \in ToSet(FlattenSeq(l)) <=> \E s \in Q : x \in ToSet(s)
  BY <1>7, <1>8
<1>10. /\ Shape(FlattenSeq(SetToSeq(Q)), W)
       /\ Only(FlattenSeq(SetToSeq(Q)), ops)
       /\ Opens(FlattenSeq(SetToSeq(Q)))
  BY <1>7 DEF l
<1>11. \A x : x \in ToSet(FlattenSeq(SetToSeq(Q))) <=> \E s \in Q : x \in ToSet(s)
  BY <1>9 DEF l
<1>12. QED
  BY <1>10, <1>11

\* A thread that has nothing to do.
LEMMA EmptyShape ==
  ASSUME NEW W
  PROVE  Shape(<<>>, W) /\ ToSet(<<>>) = {} /\ Opens(<<>>) /\ \A ops : Only(<<>>, ops)
<1>1. <<>> \in Seq(StepType) /\ DOMAIN <<>> = {}
  OBVIOUS
<1>2. QED
  BY <1>1 DEF Shape, Only, Opens, ToSet, Distinct, Chained, Ordered, AdoptLast, GoneLast, Paired

\* A list of one step that needs no other one after it.
LEMMA SingleShape ==
  ASSUME NEW W, NEW x \in StepType, x.op \notin {"probe", "listen", "enable", "disable"}, Fits(x, W)
  PROVE  /\ Shape(<<x>>, W) /\ ToSet(<<x>>) = {x}
         /\ x.op # "unlisten" => Opens(<<x>>)
         /\ \A ops : x.op \in ops => Only(<<x>>, ops)
<1>1. <<x>> \in Seq(StepType) /\ DOMAIN <<x>> = {1} /\ <<x>>[1] = x /\ Len(<<x>>) = 1 /\ <<x>> # <<>>
  OBVIOUS
<1>2. Distinct(<<x>>) /\ Chained(<<x>>, W) /\ Ordered(<<x>>) /\ AdoptLast(<<x>>) /\ GoneLast(<<x>>)
      /\ Paired(<<x>>) /\ \A i \in DOMAIN <<x>> : Fits(<<x>>[i], W)
  BY <1>1 DEF Distinct, Chained, Ordered, AdoptLast, GoneLast, Paired
<1>3. ToSet(<<x>>) = {x}
  BY <1>1 DEF ToSet
<1>4. QED
  BY <1>1, <1>2, <1>3 DEF Shape, Opens, Only

\* The fields of a step.
LEMMA StepFacts ==
  ASSUME NEW op, NEW d, NEW p
  PROVE  Step(op, d, p).op = op /\ Step(op, d, p).driver = d /\ Step(op, d, p).pad = p
BY DEF Step

\* ~TouchpadDriver, then ~Driver.
LEMMA DestructionShape ==
  ASSUME NEW W, NEW d \in Nat \ {0}, NEW p \in Pads
  PROVE  /\ Shape(Destruction(d, p), W)
         /\ ToSet(Destruction(d, p)) = {Step("disable", d, p), Step("unlisten", d, p)}
         /\ Opens(Destruction(d, p)) /\ Only(Destruction(d, p), {"disable", "unlisten"})
<1> DEFINE x == Step("disable", d, p)
           y == Step("unlisten", d, p)
           s == <<x, y>>
<1>1. Destruction(d, p) = s
  BY DEF Destruction
<1>2. x \in StepType /\ y \in StepType
  BY DEF Step, StepType, Building, Undoing
<1>3. x.op = "disable" /\ y.op = "unlisten" /\ x.driver = d /\ x.pad = p /\ y.driver = d /\ y.pad = p
  BY StepFacts
<1> HIDE DEF x, y
<1>4. s \in Seq(StepType) /\ DOMAIN s = {1, 2} /\ s[1] = x /\ s[2] = y /\ Len(s) = 2 /\ s # <<>>
  BY <1>2
<1> HIDE DEF s
<1>5. Distinct(s)
  BY <1>3, <1>4 DEF Distinct
<1>6. Chained(s, W)
  <2>1. After(x, W) = y
    BY <1>3 DEF After, y
  <2>2. QED
    BY <1>3, <1>4, <2>1 DEF Chained
<1>7. Ordered(s) /\ AdoptLast(s) /\ GoneLast(s)
  BY <1>3, <1>4 DEF Ordered, AdoptLast, GoneLast, Building
<1>8. Paired(s)
  BY <1>3, <1>4 DEF Paired, x
<1>9. \A i \in DOMAIN s : Fits(s[i], W)
  BY <1>3, <1>4 DEF Fits
<1>10. ToSet(s) = {x, y}
  BY <1>4 DEF ToSet
<1>11. QED
  BY <1>1, <1>3, <1>4, <1>5, <1>6, <1>7, <1>8, <1>9, <1>10 DEF x, y, Shape, Opens, Only

\* ~TouchpadDriver for each touchpad of a driver.
LEMMA DestructionsShape ==
  ASSUME NEW W, NEW d \in Nat \ {0}, NEW P \in SUBSET Pads
  PROVE  LET s == FlattenSeq(SetToSeq({Destruction(d, p) : p \in P}))
         IN  /\ Shape(s, W) /\ Only(s, {"disable", "unlisten"}) /\ Opens(s)
             /\ \A x : x \in ToSet(s) <=> \E p \in P : x \in {Step("disable", d, p), Step("unlisten", d, p)}
<1> DEFINE Q == {Destruction(d, p) : p \in P}
           f == [p \in P |-> Destruction(d, p)]
           s == FlattenSeq(SetToSeq(Q))
<1>1. IsFiniteSet(Q)
  <2>1. IsFiniteSet(P)
    BY FiniteAssumption, FS_Subset
  <2>2. f \in Surjection(P, Q)
    BY DEF Surjection
  <2>3. QED
    BY <2>1, <2>2, FS_Surjection
<1>2. \A p \in P : /\ Shape(Destruction(d, p), W)
                   /\ ToSet(Destruction(d, p)) = {Step("disable", d, p), Step("unlisten", d, p)}
                   /\ Opens(Destruction(d, p)) /\ Only(Destruction(d, p), {"disable", "unlisten"})
  BY DestructionShape
<1>3. \A u \in Q : Shape(u, W) /\ Only(u, {"disable", "unlisten"}) /\ Opens(u)
  BY <1>2
<1>4. \A u, v \in Q : u # v => Apart(u, v)
  <2>1. SUFFICES ASSUME NEW p \in P, NEW q \in P, p # q
                 PROVE  Apart(Destruction(d, p), Destruction(d, q))
    OBVIOUS
  <2> DEFINE u == Destruction(d, p)
             v == Destruction(d, q)
  <2>2. \A i \in DOMAIN u : u[i] \in ToSet(u)
    BY DEF ToSet
  <2>3. \A i \in DOMAIN v : v[i] \in ToSet(v)
    BY DEF ToSet
  <2> HIDE DEF u, v
  <2>4. \A i \in DOMAIN u : u[i].pad = p /\ u[i].op # "gone"
    BY <2>2, <1>2, StepFacts DEF u
  <2>5. \A i \in DOMAIN v : v[i].pad = q
    BY <2>3, <1>2, StepFacts DEF v
  <2>6. Apart(u, v)
    BY <2>1, <2>4, <2>5 DEF Apart
  <2>7. QED
    BY <2>6 DEF u, v
<1> DEFINE ops == {"disable", "unlisten"}
<1>5. ops \subseteq Undoing
  BY DEF Undoing
<1>9. \A u \in Q : Shape(u, W) /\ Only(u, ops) /\ Opens(u)
  BY <1>3
<1> HIDE DEF Q, ops
<1>10. ops \subseteq Undoing \/ ops \subseteq Building \ {"adopt"}
  BY <1>5
<1>6. /\ Shape(s, W) /\ Only(s, ops) /\ Opens(s)
      /\ \A x : x \in ToSet(s) <=> \E u \in Q : x \in ToSet(u)
  BY <1>1, <1>4, <1>9, <1>10, ListsShape
<1>7. \A x : (\E u \in Q : x \in ToSet(u)) <=>
             \E p \in P : x \in {Step("disable", d, p), Step("unlisten", d, p)}
  BY <1>2 DEF Q
<1>8. QED
  BY <1>6, <1>7 DEF Q, ops

\* Whose driver a list destroys, as a list of its own.
LEMMA DestroyShape ==
  ASSUME NEW W, NEW d \in Nat, d # 0 => d \in DOMAIN driver /\ driver[d].pads \in SUBSET Pads
  PROVE  /\ Shape(DestroyDriver(d), W) /\ Only(DestroyDriver(d), Undoing) /\ Opens(DestroyDriver(d))
         /\ \A x : x \in ToSet(DestroyDriver(d)) <=>
                /\ d # 0
                /\ \/ \E p \in driver[d].pads : x \in {Step("disable", d, p), Step("unlisten", d, p)}
                   \/ x = Step("gone", d, NoPad)
<1>1. CASE d = 0
  <2>1. DestroyDriver(d) = <<>>
    BY <1>1 DEF DestroyDriver
  <2>2. QED
    BY <1>1, <2>1, EmptyShape
<1>2. CASE d # 0
  <2> DEFINE u == FlattenSeq(SetToSeq({Destruction(d, p) : p \in driver[d].pads}))
             g == Step("gone", d, NoPad)
             s == <<g>>
  <2>1. DestroyDriver(d) = u \o s
    BY <1>2 DEF DestroyDriver
  <2>2. /\ Shape(u, W) /\ Only(u, {"disable", "unlisten"}) /\ Opens(u)
        /\ \A x : x \in ToSet(u) <=>
             \E p \in driver[d].pads : x \in {Step("disable", d, p), Step("unlisten", d, p)}
    BY <1>2, DestructionsShape
  <2>3. g \in StepType /\ g.op = "gone" /\ g.driver = d /\ Fits(g, W)
    BY <1>2 DEF Step, StepType, Undoing, Fits
  <2> HIDE DEF u, g
  <2>4. Shape(s, W) /\ ToSet(s) = {g} /\ Opens(s) /\ Only(s, Undoing)
    BY <2>3, SingleShape DEF Undoing
  <2> HIDE DEF s
  <2>5. Only(u, Undoing)
    BY <2>2 DEF Only, Undoing
  <2>6. Apart(u, s)
    <3>1. \A i \in DOMAIN u : u[i].op # "gone"
      BY <2>2 DEF Only
    <3>2. \A j \in DOMAIN s : s[j] \in ToSet(s)
      BY DEF ToSet
    <3>3. \A j \in DOMAIN s : s[j].op = "gone"
      BY <3>2, <2>3, <2>4
    <3>4. QED
      BY <3>1, <3>3 DEF Apart
  <2>7. Shape(u \o s, W) /\ ToSet(u \o s) = ToSet(u) \cup ToSet(s) /\ Opens(u \o s) /\ Only(u \o s, Undoing)
    BY <2>2, <2>4, <2>5, <2>6, ConcatFacts
  <2>8. QED
    BY <1>2, <2>1, <2>2, <2>4, <2>7 DEF g
<1>3. QED
  BY <1>1, <1>2

\* The steps of a list that builds the objects of driver d for touchpads of P,
\* all of them before the list is begun.
Builds(s, d, P, W) ==
  /\ Shape(s, W) /\ Only(s, Building \ {"erase"})
  /\ \A x \in ToSet(s) : x.driver = d /\ (x.op # "adopt" => x.pad \in P)
  /\ \A p \in Pads : Step("enable", d, p) \in ToSet(s) \/ Keep(d, p, W) \in ToSet(s) =>
        Step("probe", d, p) \in ToSet(s) /\ Step("listen", d, p) \in ToSet(s)

\* TouchpadDriver::TouchpadDriver, and what becomes of the object.
LEMMA ChainShape ==
  ASSUME NEW W, NEW d \in Nat \ {0}, NEW p \in Pads
  PROVE  LET s == <<Step("probe", d, p), Step("listen", d, p), Step("enable", d, p), Keep(d, p, W)>>
         IN  /\ Builds(s, d, {p}, W) /\ Opens(s)
             /\ ToSet(s) = {Step("probe", d, p), Step("listen", d, p), Step("enable", d, p), Keep(d, p, W)}
             /\ d \in W => Only(s, Building \ {"adopt"})
<1> DEFINE a == Step("probe", d, p)
           b == Step("listen", d, p)
           c == Step("enable", d, p)
           k == Keep(d, p, W)
           s == <<a, b, c, k>>
<1>1. a \in StepType /\ b \in StepType /\ c \in StepType /\ k \in StepType
  BY DEF Step, Keep, StepType, Building
<1>2. /\ a.op = "probe" /\ b.op = "listen" /\ c.op = "enable"
      /\ k.op = (IF d \in W THEN "emplace" ELSE "adopt")
      /\ a.driver = d /\ b.driver = d /\ c.driver = d /\ k.driver = d
      /\ a.pad = p /\ b.pad = p /\ c.pad = p /\ k.pad = p
  BY StepFacts DEF Keep
<1>3. After(a, W) = b /\ After(b, W) = c /\ After(c, W) = k
  BY <1>2 DEF After
<1>4. \A q \in Pads : Step("enable", d, q) = c \/ Keep(d, q, W) = k => q = p
  BY <1>2, StepFacts DEF Keep
<1>5. \A q \in Pads : Step("enable", d, q) \notin {a, b, k} /\ Keep(d, q, W) \notin {a, b, c}
  <2>1. SUFFICES ASSUME NEW q \in Pads
                 PROVE  Step("enable", d, q) \notin {a, b, k} /\ Keep(d, q, W) \notin {a, b, c}
    OBVIOUS
  <2>2. Step("enable", d, q).op = "enable" /\ Keep(d, q, W).op \in {"emplace", "adopt"}
    BY StepFacts DEF Keep
  <2>3. QED
    BY <2>2, <1>2
<1> HIDE DEF a, b, c, k
<1>6. s \in Seq(StepType) /\ DOMAIN s = {1, 2, 3, 4} /\ s[1] = a /\ s[2] = b /\ s[3] = c /\ s[4] = k
      /\ Len(s) = 4 /\ s # <<>>
  BY <1>1
<1> HIDE DEF s
<1>7. Distinct(s)
  BY <1>2, <1>6 DEF Distinct
<1>8. Chained(s, W)
  BY <1>2, <1>3, <1>6 DEF Chained
<1>9. Ordered(s) /\ AdoptLast(s) /\ GoneLast(s) /\ Paired(s)
  BY <1>2, <1>6 DEF Ordered, AdoptLast, GoneLast, Paired, Building
<1>10. \A i \in DOMAIN s : Fits(s[i], W)
  BY <1>2, <1>6 DEF Fits
<1>11. Shape(s, W)
  BY <1>6, <1>7, <1>8, <1>9, <1>10 DEF Shape
<1>12. ToSet(s) = {a, b, c, k}
  BY <1>6 DEF ToSet
<1>13. Only(s, Building \ {"erase"}) /\ (d \in W => Only(s, Building \ {"adopt"})) /\ Opens(s)
  BY <1>2, <1>6 DEF Only, Building, Opens
<1>14. ASSUME NEW q \in Pads, Step("enable", d, q) \in ToSet(s) \/ Keep(d, q, W) \in ToSet(s)
       PROVE  Step("probe", d, q) \in ToSet(s) /\ Step("listen", d, q) \in ToSet(s)
  <2>1. q = p
    BY <1>4, <1>5, <1>12, <1>14
  <2>2. QED
    BY <2>1, <1>12 DEF a, b
<1>15. \A x \in ToSet(s) : x.driver = d /\ x.pad \in {p}
  BY <1>2, <1>12
<1>16. Builds(s, d, {p}, W)
  BY <1>11, <1>13, <1>14, <1>15 DEF Builds
<1>17. QED
  BY <1>12, <1>13, <1>16 DEF s, a, b, c, k

LEMMA AppendToThree ==
  ASSUME NEW a, NEW b, NEW c, NEW k
  PROVE  Append(<<a, b, c>>, k) = <<a, b, c, k>>
<1> DEFINE S == {a, b, c, k}
           s == <<a, b, c>>
           t == <<a, b, c, k>>
           v == Append(s, k)
<1>1. s \in Seq(S) /\ t \in Seq(S) /\ k \in S
  OBVIOUS
<1>2. Len(s) = 3 /\ Len(t) = 4 /\ s[1] = a /\ s[2] = b /\ s[3] = c
      /\ t[1] = a /\ t[2] = b /\ t[3] = c /\ t[4] = k
  OBVIOUS
<1> HIDE DEF s, t, S
<1>3. /\ v \in Seq(S) /\ Len(v) = Len(s) + 1
      /\ \A i \in 1 .. Len(s) : v[i] = s[i]
      /\ v[Len(s) + 1] = k
  BY <1>1, AppendFacts
<1> HIDE DEF v
<1>4. Len(v) = 4 /\ v[1] = a /\ v[2] = b /\ v[3] = c /\ v[4] = k
  BY <1>2, <1>3
<1>5. v = t
  <2>1. \A i \in 1 .. 4 : i \in {1, 2, 3, 4}
    OBVIOUS
  <2>2. \A i \in 1 .. Len(v) : v[i] = t[i]
    BY <2>1, <1>2, <1>4
  <2>3. QED
    BY <2>2, <1>1, <1>2, <1>3, <1>4, SeqEqual
<1>6. QED
  BY <1>5 DEF s, t, v

\* ReceiverDriver::addDevice.
LEMMA WirelessShape ==
  ASSUME NEW W, NEW d \in (Nat \ {0}) \cap W, NEW p \in Pads
  PROVE  /\ Builds(AddWireless(d, p), d, {p}, W) /\ Opens(AddWireless(d, p))
         /\ ToSet(AddWireless(d, p)) =
              {Step("probe", d, p), Step("listen", d, p), Step("enable", d, p), Step("emplace", d, p)}
         /\ Only(AddWireless(d, p), Building \ {"adopt"})
<1>1. Keep(d, p, W) = Step("emplace", d, p)
  BY DEF Keep
<1>2. AddWireless(d, p) = <<Step("probe", d, p), Step("listen", d, p), Step("enable", d, p), Keep(d, p, W)>>
  BY <1>1, AppendToThree DEF AddWireless, Construction
<1>3. QED
  BY <1>1, <1>2, ChainShape

\* A node that is itself a touchpad.
LEMMA MouseShape ==
  ASSUME NEW W, NEW d \in Nat \ {0}, d \notin W, NEW p \in Pads
  PROVE  Builds(Append(Construction(d, p), Step("adopt", d, p)), d, {p}, W)
<1>1. Keep(d, p, W) = Step("adopt", d, p)
  BY DEF Keep
<1>2. Append(Construction(d, p), Step("adopt", d, p)) =
        <<Step("probe", d, p), Step("listen", d, p), Step("enable", d, p), Keep(d, p, W)>>
  BY <1>1, AppendToThree DEF Construction
<1>3. Builds(<<Step("probe", d, p), Step("listen", d, p), Step("enable", d, p), Keep(d, p, W)>>, d, {p}, W)
  BY ChainShape
<1>4. QED
  BY <1>2, <1>3

\* ReceiverDriver::ReceiverDriver.
LEMMA ReceiverShape ==
  ASSUME NEW W, NEW d \in (Nat \ {0}) \cap W, NEW P \in SUBSET Pads, NEW ps \in Seq(P),
         \A i, j \in DOMAIN ps : ps[i] = ps[j] => i = j
  PROVE  Builds(Append(ReceiverWork(d, ps), Step("adopt", d, NoPad)), d, P, W)
<1> DEFINE ops == Building \ {"adopt"}
           Block(p) == <<Step("addEvent", d, p)>> \o AddWireless(d, p)
           seqs == [i \in DOMAIN ps |-> Block(ps[i])]
           s == FlattenSeq(seqs)
           g == Step("adopt", d, NoPad)
           e == <<g>>
<1>1. ASSUME NEW p \in P
      PROVE  /\ Shape(Block(p), W) /\ Only(Block(p), ops) /\ Opens(Block(p))
             /\ ToSet(Block(p)) = {Step("addEvent", d, p), Step("probe", d, p), Step("listen", d, p),
                                   Step("enable", d, p), Step("emplace", d, p)}
             /\ Only(Block(p), Building \ {"erase"})
  <2> DEFINE x == Step("addEvent", d, p)
             u == <<x>>
             v == AddWireless(d, p)
  <2>1. p \in Pads /\ x \in StepType /\ x.op = "addEvent" /\ x.driver = d /\ x.pad = p
    BY DEF Step, StepType, Building
  <2>2. Fits(x, W)
    BY <2>1 DEF Fits
  <2>3. /\ Builds(v, d, {p}, W) /\ Opens(v) /\ Only(v, ops)
        /\ ToSet(v) = {Step("probe", d, p), Step("listen", d, p), Step("enable", d, p), Step("emplace", d, p)}
    BY <2>1, WirelessShape
  <2>4. Shape(v, W) /\ Only(v, Building \ {"erase"})
    BY <2>3 DEF Builds
  <2> HIDE DEF x, v
  <2>11. x.op \in ops /\ x.op \in Building \ {"erase"}
         /\ x.op \notin {"probe", "listen", "enable", "disable", "unlisten"}
    BY <2>1 DEF Building
  <2> HIDE DEF ops
  <2>5. Shape(u, W) /\ ToSet(u) = {x} /\ Opens(u) /\ Only(u, ops) /\ Only(u, Building \ {"erase"})
    <3>1. Shape(<<x>>, W) /\ ToSet(<<x>>) = {x} /\ Opens(<<x>>)
          /\ \A o : x.op \in o => Only(<<x>>, o)
      BY <2>1, <2>2, <2>11, SingleShape
    <3>2. QED
      BY <3>1, <2>11
  <2> HIDE DEF u
  <2>6. Apart(u, v)
    <3>1. \A i \in DOMAIN u : u[i] \in ToSet(u)
      BY DEF ToSet
    <3>2. \A i \in DOMAIN v : v[i] \in ToSet(v)
      BY DEF ToSet
    <3>3. \A i \in DOMAIN u : u[i].op = "addEvent"
      BY <3>1, <2>1, <2>5
    <3>4. \A i \in DOMAIN v : v[i].op # "addEvent"
      BY <3>2, <2>3, StepFacts
    <3>5. QED
      BY <3>3, <3>4 DEF Apart
  <2>7. Only(v, Building)
    BY <2>4 DEF Only
  <2>8. /\ Shape(u \o v, W) /\ ToSet(u \o v) = ToSet(u) \cup ToSet(v) /\ Opens(u \o v)
        /\ Only(u \o v, ops) /\ Only(u \o v, Building \ {"erase"})
    <3>1. Only(u, Building \ {"adopt"}) /\ Only(v, Building)
      BY <2>5, <2>7 DEF Only, ops
    <3>2. QED
      BY <3>1, <2>3, <2>4, <2>5, <2>6, ConcatFacts
  <2>9. Block(p) = u \o v
    BY DEF u, v, x
  <2> HIDE DEF Block
  <2>10. QED
    BY <2>3, <2>5, <2>8, <2>9 DEF x
<1>2. ps \in Seq(P) /\ \A i \in DOMAIN ps : ps[i] \in P
  OBVIOUS
<1> HIDE DEF Block
<1>3. seqs \in Seq(Seq(StepType)) /\ DOMAIN seqs = DOMAIN ps /\ \A i \in DOMAIN ps : seqs[i] = Block(ps[i])
  <2>1. \A i \in DOMAIN ps : Block(ps[i]) \in Seq(StepType)
    BY <1>1, <1>2 DEF Shape
  <2>2. Len(ps) \in Nat /\ DOMAIN ps = 1 .. Len(ps)
    OBVIOUS
  <2>3. QED
    BY <2>1, <2>2
<1> HIDE DEF seqs, ops
<1>4. \A i \in DOMAIN seqs : Shape(seqs[i], W) /\ Only(seqs[i], ops) /\ Opens(seqs[i])
  BY <1>1, <1>2, <1>3
<1>5. \A p, q \in P : p # q => Apart(Block(p), Block(q))
  <2>1. SUFFICES ASSUME NEW p \in P, NEW q \in P, p # q
                 PROVE  Apart(Block(p), Block(q))
    OBVIOUS
  <2> DEFINE u == Block(p)
             v == Block(q)
  <2>2. \A i \in DOMAIN u : u[i] \in ToSet(u)
    BY DEF ToSet
  <2>3. \A i \in DOMAIN v : v[i] \in ToSet(v)
    BY DEF ToSet
  <2> HIDE DEF u, v
  <2>4. \A i \in DOMAIN u : u[i].pad = p /\ u[i].op # "gone"
    BY <2>2, <1>1, StepFacts DEF u
  <2>5. \A i \in DOMAIN v : v[i].pad = q
    BY <2>3, <1>1, StepFacts DEF v
  <2>6. Apart(u, v)
    BY <2>1, <2>4, <2>5 DEF Apart
  <2>7. QED
    BY <2>6 DEF u, v
<1>6. \A i, j \in DOMAIN seqs : i # j => Apart(seqs[i], seqs[j])
  BY <1>2, <1>3, <1>5
<1>21. ops \subseteq Building \ {"adopt"}
  BY DEF ops
<1>7. /\ Shape(s, W) /\ Only(s, ops) /\ Opens(s)
      /\ \A x : x \in ToSet(s) <=> \E i \in DOMAIN seqs : x \in ToSet(seqs[i])
  BY <1>3, <1>4, <1>6, <1>21, FlattenShape
<1>22. \A p \in P : \A x \in ToSet(Block(p)) : x.pad = p /\ x.driver = d
  BY <1>1, StepFacts
<1>8. \A x : x \in ToSet(s) => \E p \in P : x \in ToSet(Block(p))
  BY <1>2, <1>3, <1>7
<1>9. \A p \in P : \A x, y \in ToSet(Block(p)) : x \in ToSet(s) /\ x.pad = p => y \in ToSet(s)
  <2>1. SUFFICES ASSUME NEW p \in P, NEW x \in ToSet(Block(p)), NEW y \in ToSet(Block(p)),
                        x \in ToSet(s), x.pad = p
                 PROVE  y \in ToSet(s)
    OBVIOUS
  <2>2. PICK i \in DOMAIN seqs : x \in ToSet(seqs[i])
    BY <2>1, <1>7
  <2>3. i \in DOMAIN ps /\ seqs[i] = Block(ps[i]) /\ ps[i] \in P
    BY <1>2, <1>3
  <2>5. x.pad = ps[i]
    BY <2>2, <2>3, <1>22
  <2>4. QED
    BY <2>1, <2>2, <2>3, <2>5, <1>7
<1>10. g \in StepType /\ g.op = "adopt" /\ g.driver = d /\ Fits(g, W)
  BY DEF Step, StepType, Building, Fits
<1> HIDE DEF g
<1>11. Shape(e, W) /\ ToSet(e) = {g} /\ Opens(e) /\ Only(e, Building) /\ Only(e, Building \ {"erase"})
  <2>1. g.op \in Building /\ g.op \in Building \ {"erase"}
        /\ g.op \notin {"probe", "listen", "enable", "disable", "unlisten"}
    BY <1>10 DEF Building
  <2>2. Shape(<<g>>, W) /\ ToSet(<<g>>) = {g} /\ Opens(<<g>>)
        /\ \A o : g.op \in o => Only(<<g>>, o)
    BY <1>10, <2>1, SingleShape
  <2>3. QED
    BY <2>1, <2>2
<1>12. ReceiverWork(d, ps) = s
  BY DEF ReceiverWork, seqs, Block
<1> HIDE DEF s, e
<1>13. Only(s, Building \ {"erase"})
  <2>1. \A p \in P : \A x \in ToSet(Block(p)) : x.op \in Building \ {"erase"}
    BY <1>1, StepFacts DEF Building
  <2>2. \A i \in DOMAIN s : s[i] \in ToSet(s)
    BY DEF ToSet
  <2>3. QED
    BY <2>1, <2>2, <1>8 DEF Only
<1>14. Apart(s, e)
  <2>1. \A i \in DOMAIN s : s[i].op \notin {"adopt", "gone"}
    BY <1>7, <1>21 DEF Only, Building
  <2>2. \A i \in DOMAIN e : e[i] \in ToSet(e)
    BY DEF ToSet
  <2>3. \A i \in DOMAIN e : e[i].op = "adopt"
    BY <2>2, <1>10, <1>11
  <2>4. QED
    BY <2>1, <2>3 DEF Apart
<1>15. /\ Shape(s \o e, W) /\ ToSet(s \o e) = ToSet(s) \cup ToSet(e) /\ Only(s \o e, Building \ {"erase"})
  <2>1. Only(s, Building \ {"adopt"})
    BY <1>7, <1>21 DEF Only
  <2>2. QED
    BY <2>1, <1>7, <1>11, <1>13, <1>14, ConcatFacts
<1>16. Append(ReceiverWork(d, ps), g) = s \o e
  <2>1. s \in Seq(StepType)
    BY <1>7 DEF Shape
  <2>2. QED
    BY <2>1, <1>10, <1>12 DEF e
<1>17. \A x \in ToSet(s \o e) : x.driver = d /\ (x.op # "adopt" => x.pad \in P)
  <2>1. \A p \in P : \A x \in ToSet(Block(p)) : x.driver = d /\ x.pad = p
    BY <1>1, StepFacts
  <2>2. QED
    BY <2>1, <1>8, <1>10, <1>11, <1>15
<1>18. ASSUME NEW p \in Pads, Step("enable", d, p) \in ToSet(s \o e) \/ Keep(d, p, W) \in ToSet(s \o e)
       PROVE  Step("probe", d, p) \in ToSet(s \o e) /\ Step("listen", d, p) \in ToSet(s \o e)
  <2>1. Keep(d, p, W) = Step("emplace", d, p)
    BY DEF Keep
  <2>2. Step("enable", d, p) \in ToSet(s) \/ Step("emplace", d, p) \in ToSet(s)
    BY <2>1, <1>10, <1>11, <1>15, <1>18, StepFacts
  <2>3. p \in P
    <3>1. \A q \in P : \A x \in ToSet(Block(q)) : x.pad = q
      BY <1>1, StepFacts
    <3>2. QED
      BY <2>2, <3>1, <1>8, StepFacts
  <2>4. Step("probe", d, p) \in ToSet(s) /\ Step("listen", d, p) \in ToSet(s)
    <3>1. /\ Step("probe", d, p) \in ToSet(Block(p)) /\ Step("listen", d, p) \in ToSet(Block(p))
          /\ Step("enable", d, p) \in ToSet(Block(p)) /\ Step("emplace", d, p) \in ToSet(Block(p))
      BY <2>3, <1>1
    <3>2. QED
      BY <2>2, <2>3, <3>1, <1>9, StepFacts
  <2>5. QED
    BY <2>4, <1>15
<1>19. Builds(s \o e, d, P, W)
  BY <1>15, <1>17, <1>18 DEF Builds
<1>20. QED
  BY <1>16, <1>19 DEF g

-----------------------------------------------------------------------------
(* What a step of a list changes.                                          *)

LEMMA StepEqual ==
  ASSUME NEW a, NEW b, NEW d, NEW e, NEW p, NEW q
  PROVE  Step(a, d, p) = Step(b, e, q) <=> a = b /\ d = e /\ p = q
<1>1. Step(a, d, p) = Step(b, e, q) => a = b /\ d = e /\ p = q
  BY StepFacts
<1>2. QED
  BY <1>1

LEMMA KeepEqual ==
  ASSUME NEW d, NEW e, NEW p, NEW q, NEW W, Keep(d, p, W) = Keep(e, q, W)
  PROVE  d = e /\ p = q
BY StepEqual DEF Keep

LEMMA OneFacts == \A b \in BOOLEAN : One(b) \in {0, 1} /\ (One(b) = 1 <=> b)
BY DEF One

\* The counts of an account are 0, 1 or 2.
LEMMA CountTypes ==
  /\ \A A, d, p, W : Claims(A, d, p, W) \in {0, 1, 2}
  /\ \A A, d, p : Switches(A, d, p) \in {0, 1}
  /\ \A d, p : Has(d, p) \in {0, 1}
BY DEF Claims, Switches, Has, One

\* The fields of a driver.
LEMMA ObjTypes ==
  ASSUME TypeInv, NEW d \in DOMAIN driver
  PROVE  /\ driver[d] \in DriverType
         /\ \A p \in Pads : driver[d].heard[p] \in Int /\ driver[d].dying[p] \in Int /\ Obj(d, p) \in Int
<1>1. driver[d] \in DriverType
  BY DEF TypeInv
<1>2. \A p \in Pads : driver[d].heard[p] \in Int /\ driver[d].dying[p] \in Int
  BY <1>1 DEF DriverType
<1>3. QED
  BY <1>1, <1>2 DEF Obj

\* The list of a thread that is at work.
LEMMA WorkFacts ==
  ASSUME TypeInv, ListInv, NEW t \in Threads, Busy(t)
  PROVE  /\ Shape(work[t], Wireless) /\ work[t] # <<>> /\ work[t] \in Seq(StepType)
         /\ Head(work[t]) = work[t][1] /\ 1 \in DOMAIN work[t]
         /\ Head(work[t]) \in Ahead(t) /\ Head(work[t]) \in StepType
         /\ Head(work[t]).driver \in DOMAIN driver
         /\ Fits(Head(work[t]), Wireless)
         /\ Shape(Tail(work[t]), Wireless)
         /\ ToSet(Tail(work[t])) = Ahead(t) \ {Head(work[t])}
<1>1. Shape(work[t], Wireless) /\ work[t] # <<>>
  BY DEF ListInv, Busy
<1>2. work[t] \in Seq(StepType)
  BY <1>1 DEF Shape
<1>3. 1 \in DOMAIN work[t]
  BY <1>1, <1>2
<1>4. /\ Shape(Tail(work[t]), Wireless) /\ ToSet(Tail(work[t])) = Ahead(t) \ {Head(work[t])}
      /\ Head(work[t]) \in Ahead(t) /\ Head(work[t]) = work[t][1] /\ Head(work[t]) \in StepType
  BY <1>1, TailShape DEF Ahead
<1>5. Fits(Head(work[t]), Wireless)
  BY <1>1, <1>3, <1>4 DEF Shape
<1>6. Head(work[t]).driver \in DOMAIN driver
  BY <1>4 DEF ListInv
<1>7. QED
  BY <1>1, <1>2, <1>3, <1>4, <1>5, <1>6

\* The object of the first step, if it is there already, is not listed as one
\* that is still to come.
LEMMA AlreadyThere ==
  ASSUME NEW W, NEW s, Shape(s, W), s # <<>>, NEW d, NEW p,
         Head(s) = Step("enable", d, p) \/ Head(s) = Keep(d, p, W)
  PROVE  Step("listen", d, p) \notin ToSet(s) /\ Step("probe", d, p) \notin ToSet(s)
<1>1. s \in Seq(StepType)
  BY DEF Shape
<1>2. Len(s) \in Nat /\ DOMAIN s = 1 .. Len(s) /\ 1 \in DOMAIN s /\ s[1] = Head(s)
  BY <1>1
<1>3. ASSUME NEW i \in DOMAIN s, i + 1 \in DOMAIN s
      PROVE  s[i + 1] # s[1]
  <2>1. i + 1 # 1
    BY <1>2
  <2>2. QED
    BY <2>1, <1>2, <1>3 DEF Shape, Distinct
<1>4. ASSUME NEW i \in DOMAIN s, s[i] = Step("enable", d, p)
      PROVE  Head(s) # Keep(d, p, W)
  <2>1. i + 1 \in DOMAIN s /\ s[i + 1] = After(s[i], W)
    BY <1>4, StepFacts DEF Shape, Chained
  <2>2. After(s[i], W) = Keep(d, p, W)
    BY <1>4, StepFacts DEF After
  <2>3. QED
    BY <2>1, <2>2, <1>2, <1>3
<1>5. ASSUME NEW i \in DOMAIN s, s[i] = Step("listen", d, p)
      PROVE  FALSE
  <2>1. i + 1 \in DOMAIN s /\ s[i + 1] = After(s[i], W)
    BY <1>5, StepFacts DEF Shape, Chained
  <2>2. After(s[i], W) = Step("enable", d, p)
    BY <1>5, StepFacts DEF After
  <2>3. QED
    BY <2>1, <2>2, <1>2, <1>3, <1>4
<1>6. ASSUME NEW i \in DOMAIN s, s[i] = Step("probe", d, p)
      PROVE  FALSE
  <2>1. i + 1 \in DOMAIN s /\ s[i + 1] = After(s[i], W)
    BY <1>6, StepFacts DEF Shape, Chained
  <2>2. After(s[i], W) = Step("listen", d, p)
    BY <1>6, StepFacts DEF After
  <2>3. QED
    BY <2>1, <2>2, <1>5
<1>7. QED
  BY <1>5, <1>6 DEF ToSet

\* A driver that is changed.
LEMMA DriverChange ==
  ASSUME TypeInv, NEW d \in DOMAIN driver, NEW r \in DriverType, driver' = [driver EXCEPT ![d] = r]
  PROVE  /\ driver' \in Seq(DriverType) /\ DOMAIN driver' = DOMAIN driver
         /\ driver'[d] = r /\ \A e \in DOMAIN driver : e # d => driver'[e] = driver[e]
<1>1. driver \in Seq(DriverType)
  BY DEF TypeInv
<1>2. QED
  BY <1>1

\* A thread whose list becomes l, what it does to no driver's place.
Turns(t, l) == work' = [work EXCEPT ![t] = l]
SamePlaces ==
  /\ DOMAIN driver' = DOMAIN driver
  /\ \A d \in DOMAIN driver : driver'[d].path = driver[d].path

\* A step changes the list of its own thread.
LEMMA TurnFacts ==
  ASSUME TypeInv, NEW t \in Threads, NEW l, Turns(t, l), SamePlaces
  PROVE  /\ Wireless' = Wireless
         /\ Ahead(t)' = ToSet(l) /\ work'[t] = l
         /\ \A u \in Threads : u # t => Ahead(u)' = Ahead(u) /\ work'[u] = work[u]
<1>1. Wireless' = Wireless
  BY DEF Wireless, SamePlaces
<1>2. work'[t] = l /\ \A u \in Threads : u # t => work'[u] = work[u]
  BY DEF Turns, TypeInv
<1>3. QED
  BY <1>1, <1>2 DEF Ahead

\* A list that has the shape again, with steps for drivers there are.
LEMMA ListStep ==
  ASSUME TypeInv, ListInv, NEW t \in Threads, Busy(t), NEW l, Turns(t, l), SamePlaces,
         Shape(l, Wireless), UNCHANGED <<scan, stopping, program>>,
         \A x \in ToSet(l) :
            \/ x \in Ahead(t)
            \/ /\ x.op \in Undoing /\ x.driver \in DOMAIN driver
               /\ x.op = "gone" /\ t = "main" => scan = "done"
  PROVE  ListInv'
<1>1. /\ Wireless' = Wireless
      /\ Ahead(t)' = ToSet(l) /\ work'[t] = l
      /\ \A u \in Threads : u # t => Ahead(u)' = Ahead(u) /\ work'[u] = work[u]
  BY TurnFacts
<1>2. "main" \in Threads /\ "monitor" \in Threads
  BY DEF Threads
<1>3. DOMAIN driver' = DOMAIN driver
  BY DEF SamePlaces
<1>4. \A u \in Threads : Shape(work'[u], Wireless')
  BY <1>1 DEF ListInv
<1>5. \A u \in Threads : \A x \in Ahead(u)' : x.driver \in DOMAIN driver'
  BY <1>1, <1>3 DEF ListInv
<1>6. \A x : ~(x.op \in Undoing /\ x.op \in Building) /\ ~(x.op \in Undoing /\ x.op = "erase")
  BY DEF Undoing, Building
<1>7. \A x \in Ahead("main")' : x.op \in Building => x.driver \in Wireless' /\ x.op # "adopt"
  BY <1>1, <1>2, <1>6 DEF ListInv
<1>8. \A x \in Ahead("monitor")' : x.op # "erase"
  BY <1>1, <1>2, <1>6 DEF ListInv
<1>9. scan' = "done" => work'["monitor"] = <<>> /\ \A x \in Ahead("main")' : x.op \in Undoing
  <2>1. scan = "done" => t = "main"
    BY DEF ListInv, Busy, Threads
  <2>2. QED
    BY <2>1, <1>1, <1>2 DEF ListInv
<1>10. \A x \in Ahead("main")' : x.op = "gone" => scan' = "done"
  BY <1>1, <1>2 DEF ListInv
<1>11. stopping' => program' # "running" /\ (scan' # "done" => work'["main"] = <<>>)
  <2>1. stopping /\ scan # "done" => t # "main"
    BY DEF ListInv, Busy
  <2>2. QED
    BY <2>1, <1>1, <1>2 DEF ListInv
<1>12. scan' = "done" => stopping'
  BY DEF ListInv
<1>13. QED
  BY <1>4, <1>5, <1>7, <1>8, <1>9, <1>10, <1>11, <1>12 DEF ListInv

\* The accounts hold if those of the thread do.
LEMMA OwnedStep ==
  ASSUME TypeInv, TypeInv', Owned, NEW t \in Threads, NEW l, Turns(t, l), SamePlaces,
         \A e \in DOMAIN driver, q \in Pads :
            Claims(ToSet(l), e, q, Wireless) + Has(e, q)' + Obj(e, q)
              <= Claims(Ahead(t), e, q, Wireless) + Has(e, q) + Obj(e, q)'
  PROVE  Owned'
<1>1. /\ Wireless' = Wireless
      /\ Ahead(t)' = ToSet(l)
      /\ \A u \in Threads : u # t => Ahead(u)' = Ahead(u)
  BY TurnFacts
<1>2. SUFFICES ASSUME NEW e \in DOMAIN driver, NEW q \in Pads
               PROVE  Claims(Ahead("main")', e, q, Wireless') + Claims(Ahead("monitor")', e, q, Wireless')
                      + Has(e, q)' <= Obj(e, q)'
  BY DEF Owned, SamePlaces
<1>3. PICK u \in Threads : u # t /\ {u, t} = {"main", "monitor"}
  BY DEF Threads
<1>4. Claims(Ahead(t), e, q, Wireless) + Claims(Ahead(u), e, q, Wireless) + Has(e, q) <= Obj(e, q)
  <2>1. Claims(Ahead("main"), e, q, Wireless) + Claims(Ahead("monitor"), e, q, Wireless) + Has(e, q) <= Obj(e, q)
    BY DEF Owned
  <2>2. Claims(Ahead("main"), e, q, Wireless) \in Int /\ Claims(Ahead("monitor"), e, q, Wireless) \in Int
        /\ Has(e, q) \in Int
    BY CountTypes
  <2>3. CASE t = "main" /\ u = "monitor"
    BY <2>1, <2>3
  <2>4. CASE t = "monitor" /\ u = "main"
    BY <2>1, <2>2, <2>4
  <2>5. QED
    BY <2>3, <2>4, <1>3
<1> DEFINE a == Claims(Ahead(t), e, q, Wireless)
           b == Claims(Ahead(u), e, q, Wireless)
           c == Claims(ToSet(l), e, q, Wireless)
           h == Has(e, q)
           k == Has(e, q)'
           o == Obj(e, q)
           n == Obj(e, q)'
<1>5. a \in Int /\ b \in Int /\ c \in Int /\ h \in Int
  BY CountTypes
<1>6. k \in Int
  BY DEF Has, One
<1>7. o \in Int
  BY ObjTypes
<1>8. n \in Int
  <2>1. driver'[e] \in DriverType
    BY DEF TypeInv, SamePlaces
  <2>2. QED
    BY <2>1 DEF DriverType, Obj
<1>9. c + k + o <= a + h + n
  OBVIOUS
<1> HIDE DEF a, b, c, h, k, o, n
<1>10. c + b + k <= n
  <2>1. a + b + h <= o
    BY <1>4 DEF a, b, h, o
  <2>2. QED
    BY <2>1, <1>5, <1>6, <1>7, <1>8, <1>9
<1>11. Claims(Ahead(t)', e, q, Wireless') = c /\ Claims(Ahead(u)', e, q, Wireless') = b
  BY <1>1, <1>3 DEF c, b
<1>12. CASE t = "main" /\ u = "monitor"
  BY <1>10, <1>11, <1>12 DEF k, n
<1>13. CASE t = "monitor" /\ u = "main"
  <2>1. b + c + k <= n
    BY <1>5, <1>6, <1>8, <1>10
  <2>2. QED
    BY <2>1, <1>11, <1>13 DEF k, n
<1>14. QED
  BY <1>3, <1>12, <1>13

-----------------------------------------------------------------------------
(* The invariant after a step of a list.                                   *)

\* A step of a list leaves every value in its type.
LEMMA TypeStep ==
  ASSUME TypeInv, driver' \in Seq(DriverType), NEW t \in Threads, NEW l \in Seq(StepType), Turns(t, l),
         node' \in [Paths -> Nat], raw' \in SUBSET Pads, UNCHANGED <<udev, found, plugged, queue>>
  PROVE  TypeInv'
<1>1. work' \in [Threads -> Seq(StepType)]
  BY DEF TypeInv, Turns
<1>2. QED
  BY <1>1 DEF TypeInv, Call, DriverType, StepType

\* A raw touchpad that was heard is still heard.
LEMMA HeardStep ==
  ASSUME TypeInv, TypeInv', Heard, NEW t \in Threads, NEW l, Turns(t, l), SamePlaces,
         NEW r \in raw \ unreached,
         \A e \in DOMAIN driver :
            Switches(ToSet(l), e, r) + Obj(e, r) <= Switches(Ahead(t), e, r) + Obj(e, r)'
  PROVE  \E e \in DOMAIN driver' :
            Switches(Ahead("main")', e, r) + Switches(Ahead("monitor")', e, r) < Obj(e, r)'
<1>1. /\ Ahead(t)' = ToSet(l)
      /\ \A u \in Threads : u # t => Ahead(u)' = Ahead(u)
  BY TurnFacts
<1>2. r \in Pads
  BY DEF TypeInv
<1>3. PICK e \in DOMAIN driver : Switches(Ahead("main"), e, r) + Switches(Ahead("monitor"), e, r) < Obj(e, r)
  BY DEF Heard
<1>4. e \in DOMAIN driver'
  BY DEF SamePlaces
<1> DEFINE m == Switches(Ahead("main"), e, r)
           o == Switches(Ahead("monitor"), e, r)
           n == Switches(ToSet(l), e, r)
           a == Obj(e, r)
           b == Obj(e, r)'
<1>5. m \in Int /\ o \in Int /\ n \in Int
  BY CountTypes
<1>6. a \in Int
  BY <1>2, ObjTypes
<1>7. b \in Int
  <2>1. driver'[e] \in DriverType
    BY <1>4 DEF TypeInv
  <2>2. QED
    BY <1>2, <2>1 DEF DriverType, Obj
<1>8. m + o < a
  BY <1>3
<1>9. CASE t = "main"
  <2>1. n + a <= m + b
    BY <1>9
  <2>2. Switches(Ahead("main")', e, r) = n /\ Switches(Ahead("monitor")', e, r) = o
    BY <1>1, <1>9 DEF Threads
  <2> HIDE DEF m, o, n, a, b
  <2>3. n + o < b
    BY <1>5, <1>6, <1>7, <1>8, <2>1
  <2>4. QED
    BY <1>4, <2>2, <2>3 DEF b
<1>10. CASE t = "monitor"
  <2>1. n + a <= o + b
    BY <1>10
  <2>2. Switches(Ahead("main")', e, r) = m /\ Switches(Ahead("monitor")', e, r) = n
    BY <1>1, <1>10 DEF Threads
  <2> HIDE DEF m, o, n, a, b
  <2>3. m + n < b
    BY <1>5, <1>6, <1>7, <1>8, <2>1
  <2>4. QED
    BY <1>4, <2>2, <2>3 DEF b
<1>11. QED
  BY <1>9, <1>10 DEF Threads

\* What a touchpad in raw mode is owed is kept by the step of a thread.
LEMMA HeardKept ==
  ASSUME TypeInv, TypeInv', Heard, NEW t \in Threads, NEW l, Turns(t, l), SamePlaces,
         raw' \ unreached' \subseteq raw \ unreached,
         \A r \in raw' \ unreached', e \in DOMAIN driver :
            Switches(ToSet(l), e, r) + Obj(e, r) <= Switches(Ahead(t), e, r) + Obj(e, r)'
  PROVE  Heard'
<1>1. ASSUME NEW r \in raw' \ unreached'
      PROVE  \E e \in DOMAIN driver' :
                Switches(Ahead("main")', e, r) + Switches(Ahead("monitor")', e, r) < Obj(e, r)'
  <2>1. r \in raw \ unreached
    OBVIOUS
  <2>2. \A e \in DOMAIN driver :
            Switches(ToSet(l), e, r) + Obj(e, r) <= Switches(Ahead(t), e, r) + Obj(e, r)'
    OBVIOUS
  <2>3. QED
    BY <2>1, <2>2, HeardStep
<1>2. QED
  BY <1>1 DEF Heard

\* No driver's state changes.
SameStates == \A e \in DOMAIN driver : driver'[e].state = driver[e].state

\* A step that neither adopts nor destroys leaves _nodes consistent.
LEMMA NodeStep ==
  ASSUME TypeInv, ListInv, NodeInv, NEW t \in Threads, NEW l, Turns(t, l), SamePlaces, SameStates,
         UNCHANGED <<node, queue>>,
         \A e \in DOMAIN driver : driver'[e].listens \subseteq driver[e].listens \/ e \in Wireless,
         \A x \in ToSet(l) :
            \/ x \in Ahead(t)
            \/ /\ x.op \in Undoing /\ x.driver \in DOMAIN driver
               /\ x.op = "gone" /\ x.driver \in Wireless => driver[x.driver].state = "dying"
  PROVE  NodeInv'
<1>1. /\ Wireless' = Wireless
      /\ Ahead(t)' = ToSet(l)
      /\ \A u \in Threads : u # t => Ahead(u)' = Ahead(u)
  BY TurnFacts
<1>2. DOMAIN driver' = DOMAIN driver /\ "monitor" \in Threads
  BY DEF SamePlaces, Threads
<1>3. \A x : ~(x.op \in Undoing /\ x.op \in Building)
  BY DEF Undoing, Building
<1>4. ASSUME NEW path \in Paths, node'[path] # 0
      PROVE  /\ node'[path] \in DOMAIN driver'
             /\ driver'[node'[path]].path = path
             /\ driver'[node'[path]].state # "gone"
  BY <1>2, <1>4 DEF NodeInv, SamePlaces, SameStates
<1>5. ASSUME NEW path \in Paths, NEW x \in Ahead("monitor")', x.op \in Building
      PROVE  x.driver # node'[path]
  <2>1. x \in Ahead("monitor")
    BY <1>1, <1>2, <1>3, <1>5
  <2>2. QED
    BY <2>1, <1>5 DEF NodeInv
<1>6. ASSUME NEW d \in Wireless', Doomed(d)'
      PROVE  driver'[d].state \in {"dying", "gone"}
  <2>1. d \in Wireless /\ d \in DOMAIN driver
    BY <1>1 DEF Wireless
  <2>2. CASE Doomed(d)
    BY <2>1, <2>2 DEF NodeInv, SameStates
  <2>3. CASE ~Doomed(d)
    <3>1. driver'[d].state # "gone"
      BY <2>1, <2>3 DEF Doomed, SameStates
    <3>2. PICK u \in Threads, p \in Pads \cup {NoPad} : Step("gone", d, p) \in Ahead(u)'
      BY <1>6, <3>1 DEF Doomed
    <3>3. Step("gone", d, p) \notin Ahead(u)
      BY <2>3 DEF Doomed
    <3>4. u = t /\ Step("gone", d, p) \in ToSet(l)
      BY <1>1, <3>2, <3>3
    <3>5. Step("gone", d, p).op = "gone" /\ Step("gone", d, p).driver = d
      BY StepFacts
    <3>6. driver[d].state = "dying"
      BY <2>1, <3>3, <3>4, <3>5
    <3>7. QED
      BY <2>1, <3>6 DEF SameStates
  <2>4. QED
    BY <2>2, <2>3
<1>7. \A i \in DOMAIN queue' : queue'[i].driver \in Wireless'
  BY <1>1 DEF NodeInv
<1>8. \A d \in DOMAIN driver' : driver'[d].listens # {} => d \in Wireless'
  BY <1>1, <1>2 DEF NodeInv
<1>9. QED
  BY <1>4, <1>5, <1>6, <1>7, <1>8 DEF NodeInv

\* A driver that is to be destroyed stays so.
LEMMA DoomedStays ==
  ASSUME TypeInv, NEW t \in Threads, NEW l, Turns(t, l), SamePlaces, NEW e \in DOMAIN driver, Doomed(e),
         driver[e].state = "gone" => driver'[e].state = "gone",
         \A q \in Pads \cup {NoPad} : Step("gone", e, q) \in Ahead(t) =>
            Step("gone", e, q) \in ToSet(l) \/ driver'[e].state = "gone"
  PROVE  Doomed(e)'
<1>1. /\ Ahead(t)' = ToSet(l)
      /\ \A u \in Threads : u # t => Ahead(u)' = Ahead(u)
  BY TurnFacts
<1>2. CASE driver[e].state = "gone"
  BY <1>2 DEF Doomed
<1>3. CASE driver[e].state # "gone"
  <2>1. PICK u \in Threads, q \in Pads \cup {NoPad} : Step("gone", e, q) \in Ahead(u)
    BY <1>3 DEF Doomed
  <2>2. Step("gone", e, q) \in Ahead(u)' \/ driver'[e].state = "gone"
    BY <1>1, <2>1
  <2>3. QED
    BY <2>2 DEF Doomed
<1>4. QED
  BY <1>2, <1>3

\* A touchpad that a driver keeps stays in its account.
LEMMA HasStays ==
  ASSUME NEW e, NEW q, Doomed(e) => Doomed(e)', q \in driver'[e].pads => q \in driver[e].pads
  PROVE  Has(e, q)' <= Has(e, q)
BY DEF Has, One

\* The steps that the accounts of a driver and a touchpad depend on.
Counted(e, q, W) == {Step("disable", e, q), Keep(e, q, W), Step("listen", e, q), Step("enable", e, q)}

\* Steps that are not about an object do not change its counts.
LEMMA SameCounts ==
  ASSUME NEW A, NEW B, NEW e, NEW q, NEW W, \A y \in Counted(e, q, W) : y \in A <=> y \in B
  PROVE  Claims(A, e, q, W) = Claims(B, e, q, W) /\ Switches(A, e, q) = Switches(B, e, q)
<1>1. /\ Step("disable", e, q) \in A <=> Step("disable", e, q) \in B
      /\ Keep(e, q, W) \in A <=> Keep(e, q, W) \in B
      /\ Step("listen", e, q) \in A <=> Step("listen", e, q) \in B
      /\ Step("enable", e, q) \in A <=> Step("enable", e, q) \in B
  BY DEF Counted
<1>2. QED
  BY <1>1 DEF Claims, Switches

LEMMA CountedFacts ==
  ASSUME NEW e, NEW q, NEW W, NEW y \in Counted(e, q, W)
  PROVE  y.driver = e /\ y.pad = q /\ y.op \in {"disable", "listen", "enable", "emplace", "adopt"}
BY StepFacts DEF Counted, Keep

\* Nothing that counts is listed: there is no account.
LEMMA NoCounts ==
  ASSUME NEW A, NEW e, NEW q, NEW W
  PROVE  /\ Step("disable", e, q) \notin A /\ Keep(e, q, W) \notin A => Claims(A, e, q, W) = 0
         /\ Step("enable", e, q) \notin A => Switches(A, e, q) = 0
BY DEF Claims, Switches, One

-----------------------------------------------------------------------------
(* The steps of the lists, one by one.                                     *)

RawParts == TypeInv /\ ListInv /\ NodeInv /\ Owned /\ Heard
\* What no step of a list changes.
Around == UNCHANGED <<queueVars, program, scan, found, stopping, udev, surroundings>>

\* A step of a list leaves the world and the monitor alone.
LEMMA AroundFacts ==
  ASSUME Around
  PROVE  UNCHANGED <<queue, program, scan, found, stopping, udev, plugged, linked, cause>>
BY DEF Around, queueVars, surroundings

\* Membership of disjoint lists.
LEMMA ApartSets ==
  ASSUME NEW u, NEW s,
         \A x \in ToSet(u), y \in ToSet(s) : x # y /\ (x.op = "gone" => y.driver # x.driver)
  PROVE  Apart(u, s)
BY DEF Apart, ToSet

LEMMA OnlySet ==
  ASSUME NEW s, NEW ops
  PROVE  Only(s, ops) <=> \A x \in ToSet(s) : x.op \in ops
BY DEF Only, ToSet

LEMMA Kinds == \A op : ~(op \in Building /\ op \in Undoing)
BY DEF Building, Undoing

\* The driver of a node, which is to be destroyed while another one is built.
LEMMA OldFacts ==
  ASSUME RawParts, Busy("monitor"), NEW x \in Ahead("monitor"), x.op \in Building,
         Head(work["monitor"]).op \in Building,
         NEW path \in Paths
  PROVE  /\ node[path] \in Nat /\ node[path] # x.driver
         /\ node[path] # 0 =>
              /\ node[path] \in DOMAIN driver /\ driver[node[path]] \in DriverType
              /\ driver[node[path]].pads \in SUBSET Pads
              /\ driver[node[path]].path = path
              /\ ~Doomed(node[path])
<1> DEFINE old == node[path]
<1>1. old \in Nat /\ old # x.driver
  BY DEF RawParts, TypeInv, NodeInv
<1>2. ASSUME old # 0
      PROVE  /\ old \in DOMAIN driver /\ driver[old] \in DriverType /\ driver[old].pads \in SUBSET Pads
             /\ driver[old].path = path /\ driver[old].state # "gone"
  <2>1. old \in DOMAIN driver /\ driver[old].path = path /\ driver[old].state # "gone"
    BY <1>2 DEF RawParts, NodeInv
  <2>2. driver[old] \in DriverType
    BY <2>1 DEF RawParts, TypeInv
  <2>3. QED
    BY <2>1, <2>2 DEF DriverType
<1> HIDE DEF old
<1>3. ASSUME old # 0, Doomed(old)
      PROVE  FALSE
  <2>1. PICK u \in Threads, q \in Pads \cup {NoPad} : Step("gone", old, q) \in Ahead(u)
    BY <1>2, <1>3 DEF Doomed
  <2>2. Step("gone", old, q).op = "gone"
    BY StepFacts
  <2>3. u # "monitor"
    <3>1. Shape(work["monitor"], Wireless) /\ work["monitor"] # <<>>
      BY DEF RawParts, ListInv, Busy, Threads
    <3>2. Only(work["monitor"], Building)
      BY <3>1, AllBuilding
    <3>3. \A y \in Ahead("monitor") : y.op \in Building
      BY <3>2, OnlySet DEF Ahead
    <3>4. QED
      BY <3>3, <2>1, <2>2, Kinds DEF Undoing
  <2>4. scan = "done"
    BY <2>1, <2>2, <2>3 DEF RawParts, ListInv, Threads
  <2>5. QED
    BY <2>4 DEF RawParts, ListInv, Busy
<1>4. QED
  BY <1>1, <1>2, <1>3 DEF old

\* What is left to do when no touchpad answers, after k steps that are not done.
Before(steps, d, p) == steps = <<>> \/ steps = <<Step("unlisten", d, p)>>
Failed(l, t, d, steps, k) ==
  l = steps \o IF driver[d].path \in Receivers THEN SubSeq(work[t], k + 1, Len(work[t]))
               ELSE <<Step("gone", d, NoPad)>> \o EraseNode(driver[d].path)

Taken(t, d, k) == \A i \in 1 .. k : work[t][i].driver = d
Replaced(l, t, d, steps, k) ==
  /\ Shape(l, Wireless) /\ d \in DOMAIN driver
  /\ d \in Wireless => ToSet(l) = ToSet(steps) \cup {x \in Ahead(t) : \A i \in 1 .. k : x # work[t][i]}
  /\ d \notin Wireless =>
       /\ t = "monitor"
       /\ ToSet(l) = ToSet(steps) \cup {Step("gone", d, NoPad)} \cup ToSet(DestroyDriver(node[driver[d].path]))

\* Two lists, the first of which destroys.
Joins(l, u, s, W) == Shape(l, W) /\ ToSet(l) = ToSet(u) \cup ToSet(s)

\* Undoing steps followed by others: the counts add up.
LEMMA ConcatUndoing ==
  ASSUME NEW W, NEW u, NEW s, Shape(u, W), Shape(s, W), Apart(u, s), Opens(s), Only(u, Undoing)
  PROVE  Joins(u \o s, u, s, W)
BY ConcatFacts DEF Joins

\* What the exception of a constructor leaves to do is well formed again.
LEMMA FailList ==
  ASSUME RawParts, NEW t \in Threads, Busy(t), NEW d, NEW p, NEW k \in 1 .. Len(work[t]),
         Head(work[t]).op \in Building, p \in Pads,
         Taken(t, d, k), NEW steps, Before(steps, d, p), NEW l, Failed(l, t, d, steps, k)
  PROVE  Replaced(l, t, d, steps, k)
<1> DEFINE s == work[t]
           path == driver[d].path
           rest == SubSeq(s, k + 1, Len(s))
           g == Step("gone", d, NoPad)
           tear == DestroyDriver(node[path])
           un == Step("unlisten", d, p)
<1>1. /\ Shape(s, Wireless) /\ s # <<>> /\ Head(s) = s[1] /\ s \in Seq(StepType)
      /\ Head(s) \in Ahead(t) /\ Head(s).driver \in DOMAIN driver /\ Head(s).driver = d
  <2>1. 1 \in 1 .. k
    OBVIOUS
  <2>2. TypeInv /\ ListInv
    BY DEF RawParts
  <2>3. /\ Shape(s, Wireless) /\ s # <<>> /\ Head(s) = s[1] /\ s \in Seq(StepType)
        /\ Head(s) \in Ahead(t) /\ Head(s).driver \in DOMAIN driver
    BY <2>2, WorkFacts
  <2>4. s[1].driver = d
    BY <2>1 DEF Taken
  <2>5. QED
    BY <2>3, <2>4
<1>2. Only(s, Building)
  BY <1>1, AllBuilding
<1>3. driver[d] \in DriverType /\ path \in Receivers \cup Mice /\ path \in Paths
      /\ (d \in Wireless <=> path \in Receivers)
  <2>1. driver[d] \in DriverType
    BY <1>1 DEF RawParts, TypeInv
  <2>2. QED
    BY <1>1, <2>1 DEF DriverType, Paths, Wireless
<1>4. d \in Nat \ {0}
  BY <1>1 DEF RawParts, TypeInv
<1> HIDE DEF s
<1>5. /\ Shape(steps, Wireless) /\ ToSet(steps) \subseteq {un} /\ Only(steps, Undoing)
  <2>1. un \in StepType /\ un.op = "unlisten" /\ Fits(un, Wireless)
    BY <1>4 DEF Step, StepType, Fits, Undoing
  <2> HIDE DEF un
  <2>2. CASE steps = <<>>
    BY <2>2, EmptyShape
  <2>3. CASE steps = <<un>>
    <3>1. "unlisten" \in Undoing
      BY DEF Undoing
    <3>2. Shape(<<un>>, Wireless) /\ ToSet(<<un>>) = {un} /\ \A ops : un.op \in ops => Only(<<un>>, ops)
      BY <2>1, SingleShape
    <3>3. QED
      BY <2>1, <2>3, <3>1, <3>2
  <2>4. QED
    BY <2>2, <2>3 DEF un, Before
<1>6. un.op = "unlisten" /\ un.driver = d
  BY StepFacts
<1> HIDE DEF un
<1>7. CASE d \in Wireless
  <2>1. l = steps \o rest
    BY <1>3, <1>7 DEF s, Failed
  <2>2. k \in 0 .. Len(s)
    BY DEF s
  <2>3. /\ Shape(rest, Wireless)
        /\ \A x : x \in ToSet(rest) <=> x \in ToSet(s) /\ \A i \in 1 .. k : x # s[i]
    BY <1>1, <2>2, SuffixFacts
  <2> HIDE DEF rest
  <2>4. \A x \in ToSet(rest) : x.op \in Building
    BY <1>2, <2>3, OnlySet
  <2>5. Only(rest, Building)
    BY <2>4, OnlySet
  <2>6. Opens(rest)
    <3>1. ~("unlisten" \in Building)
      BY DEF Building
    <3>2. rest \in Seq(StepType)
      BY <2>3 DEF Shape
    <3>3. rest # <<>> => 1 \in DOMAIN rest
      BY <3>2
    <3>4. QED
      BY <3>1, <3>3, <2>5 DEF Opens, Only
  <2>7. Apart(steps, rest)
    <3>1. \A x \in ToSet(steps), y \in ToSet(rest) : x # y /\ (x.op = "gone" => y.driver # x.driver)
      BY <2>4, <1>5, <1>6, Kinds DEF Undoing
    <3>2. QED
      BY <3>1, ApartSets
  <2>8. Shape(l, Wireless) /\ ToSet(l) = ToSet(steps) \cup ToSet(rest)
    <3>1. Shape(steps, Wireless) /\ Only(steps, Undoing)
      BY <1>5
    <3>2. Shape(rest, Wireless)
      BY <2>3
    <3>3. Joins(steps \o rest, steps, rest, Wireless)
      BY <3>1, <3>2, <2>6, <2>7, ConcatUndoing
    <3>4. QED
      BY <3>3, <2>1 DEF Joins
  <2>9. ToSet(rest) = {x \in Ahead(t) : \A i \in 1 .. k : x # work[t][i]}
    BY <2>3 DEF s, Ahead
  <2>10. QED
    BY <2>8, <2>9, <1>1, <1>7 DEF Replaced
<1>8. CASE d \notin Wireless
  <2>1. l = steps \o (<<g>> \o tear)
    BY <1>3, <1>8 DEF EraseNode, Failed
  <2>2. t = "monitor"
    BY <1>1, <1>8 DEF RawParts, ListInv, Threads, s
  <2>3. /\ node[path] \in Nat /\ node[path] # d
        /\ node[path] # 0 => node[path] \in DOMAIN driver /\ driver[node[path]].pads \in SUBSET Pads
    <3>1. Head(work["monitor"]) \in Ahead("monitor") /\ Head(work["monitor"]).driver = d
      BY <1>1, <2>2 DEF s
    <3>2. Busy("monitor") /\ Head(work["monitor"]).op \in Building
      BY <2>2
    <3>3. QED
      BY <3>1, <3>2, <1>3, OldFacts
  <2> DEFINE old == node[path]
  <2> HIDE DEF old
  <2>4. /\ Shape(tear, Wireless) /\ Only(tear, Undoing) /\ Opens(tear)
        /\ \A x : x \in ToSet(tear) <=>
               /\ old # 0
               /\ \/ \E q \in driver[old].pads : x \in {Step("disable", old, q), Step("unlisten", old, q)}
                  \/ x = Step("gone", old, NoPad)
    BY <2>3, DestroyShape DEF old
  <2>5. \A x \in ToSet(tear) : x.driver = old
    BY <2>4, StepFacts
  <2>6. g \in StepType /\ g.op = "gone" /\ g.driver = d /\ Fits(g, Wireless)
    BY <1>4 DEF Step, StepType, Undoing, Fits
  <2> HIDE DEF g, tear
  <2>7. Shape(<<g>>, Wireless) /\ ToSet(<<g>>) = {g} /\ Opens(<<g>>) /\ Only(<<g>>, Undoing)
    <3>1. "gone" \in Undoing
      BY DEF Undoing
    <3>2. g.op \notin {"probe", "listen", "enable", "disable"} /\ g.op # "unlisten"
      BY <2>6
    <3>3. Shape(<<g>>, Wireless) /\ ToSet(<<g>>) = {g} /\ Opens(<<g>>) /\ \A ops : g.op \in ops => Only(<<g>>, ops)
      BY <2>6, <3>2, SingleShape
    <3>4. QED
      BY <2>6, <3>1, <3>3
  <2> DEFINE v == <<g>>
             w == v \o tear
  <2>8. Shape(v, Wireless) /\ ToSet(v) = {g} /\ Opens(v) /\ Only(v, Undoing)
    BY <2>7
  <2> HIDE DEF v
  <2>9. Apart(v, tear)
    <3>1. \A x \in ToSet(v), y \in ToSet(tear) : x # y /\ (x.op = "gone" => y.driver # x.driver)
      BY <2>3, <2>5, <2>6, <2>8 DEF old
    <3>2. QED
      BY <3>1, ApartSets
  <2>10. Shape(w, Wireless) /\ ToSet(w) = {g} \cup ToSet(tear) /\ Opens(w)
    BY <2>4, <2>8, <2>9, ConcatFacts
  <2>11. l = steps \o w
    BY <2>1 DEF v
  <2> HIDE DEF w
  <2>12. Apart(steps, w)
    <3>1. \A y \in ToSet(w) : y.driver = old \/ y = g
      BY <2>5, <2>10
    <3>2. \A x \in ToSet(steps), y \in ToSet(w) : x # y /\ (x.op = "gone" => y.driver # x.driver)
      BY <3>1, <2>3, <2>6, <1>5, <1>6 DEF old
    <3>3. QED
      BY <3>2, ApartSets
  <2>13. Shape(l, Wireless) /\ ToSet(l) = ToSet(steps) \cup ToSet(w)
    <3>1. Shape(steps, Wireless) /\ Only(steps, Undoing)
      BY <1>5
    <3>2. Shape(w, Wireless) /\ Opens(w)
      BY <2>10
    <3>3. Joins(steps \o w, steps, w, Wireless)
      BY <3>1, <3>2, <2>12, ConcatUndoing
    <3>4. QED
      BY <3>3, <2>11 DEF Joins
  <2>14. QED
    BY <2>10, <2>13, <2>2, <1>1, <1>8 DEF g, tear, Replaced
<1>9. QED
  BY <1>7, <1>8

\* The numbers of an account are integers.
LEMMA AccountTypes ==
  ASSUME TypeInv, TypeInv', SamePlaces, NEW e \in DOMAIN driver, NEW q \in Pads
  PROVE  /\ Obj(e, q) \in Int /\ Obj(e, q)' \in Int
         /\ Has(e, q) \in {0, 1} /\ Has(e, q)' \in {0, 1}
<1>1. Obj(e, q) \in Int
  BY ObjTypes
<1>2. Obj(e, q)' \in Int
  <2>1. driver'[e] \in DriverType
    BY DEF TypeInv, SamePlaces
  <2>2. QED
    BY <2>1 DEF DriverType, Obj
<1>3. Has(e, q) \in {0, 1} /\ Has(e, q)' \in {0, 1}
  BY DEF Has, One
<1>4. QED
  BY <1>1, <1>2, <1>3

\* Everything but the accounts, for a step that changes no driver's state.
LEMMA CoreStep ==
  ASSUME RawParts, NEW t \in Threads, Busy(t), NEW l, Turns(t, l), Around, UNCHANGED node,
         Shape(l, Wireless), driver' \in Seq(DriverType), SamePlaces, SameStates, raw' \in SUBSET Pads,
         \A e \in DOMAIN driver : driver'[e].listens \subseteq driver[e].listens \/ e \in Wireless,
         \A x \in ToSet(l) :
            \/ x \in Ahead(t)
            \/ /\ x.op \in Undoing /\ x.driver \in DOMAIN driver
               /\ x.op = "gone" => (t = "main" => scan = "done") /\ x.driver \notin Wireless
  PROVE  TypeInv' /\ ListInv' /\ NodeInv'
<1>1. TypeInv /\ ListInv /\ NodeInv
  BY DEF RawParts
<1>2. UNCHANGED <<queue, program, scan, found, stopping, udev, plugged>>
  BY AroundFacts
<1>3. l \in Seq(StepType)
  BY DEF Shape
<1>4. node' \in [Paths -> Nat]
  BY <1>1 DEF TypeInv
<1>5. TypeInv'
  BY <1>1, <1>2, <1>3, <1>4, TypeStep
<1>6. ListInv'
  <2>1. UNCHANGED <<scan, stopping, program>>
    BY <1>2
  <2>2. \A x \in ToSet(l) :
            \/ x \in Ahead(t)
            \/ /\ x.op \in Undoing /\ x.driver \in DOMAIN driver
               /\ x.op = "gone" /\ t = "main" => scan = "done"
    OBVIOUS
  <2>3. QED
    BY <1>1, <2>1, <2>2, ListStep
<1>7. NodeInv'
  <2>1. UNCHANGED <<node, queue>>
    BY <1>2
  <2>2. \A x \in ToSet(l) :
            \/ x \in Ahead(t)
            \/ /\ x.op \in Undoing /\ x.driver \in DOMAIN driver
               /\ x.op = "gone" /\ x.driver \in Wireless => driver[x.driver].state = "dying"
    OBVIOUS
  <2>3. QED
    BY <1>1, <2>1, <2>2, NodeStep
<1>8. QED
  BY <1>5, <1>6, <1>7

\* The steps of an object that will not be, and what they leave to be undone.
LEMMA FailStep ==
  ASSUME RawParts, NEW t \in Threads, Busy(t), NEW d, NEW p, NEW k \in 1 .. Len(work[t]),
         Head(work[t]).op \in Building, p \in Pads,
         \A i \in 1 .. k : work[t][i].driver = d /\ work[t][i].pad = p /\ work[t][i].op \in Building,
         \E i \in 1 .. k : work[t][i] = Keep(d, p, Wireless),
         \E i \in 1 .. k : work[t][i] = Step("enable", d, p),
         NEW steps, Before(steps, d, p), NEW l, Failed(l, t, d, steps, k),
         Turns(t, l), Around, UNCHANGED node, raw' \in SUBSET Pads,
         driver' \in Seq(DriverType), SamePlaces, SameStates,
         \A e \in DOMAIN driver : driver'[e].listens = driver[e].listens /\ driver'[e].pads = driver[e].pads,
         \A e \in DOMAIN driver, q \in Pads : e # d \/ q # p => Obj(e, q)' = Obj(e, q),
         Obj(d, p) <= Claims(Ahead(t), d, p, Wireless) + Obj(d, p)',
         Obj(d, p) <= Switches(Ahead(t), d, p) + Obj(d, p)',
         raw' \ unreached' \subseteq raw \ unreached
  PROVE  RawParts'
<1> DEFINE s == work[t]
           old == node[driver[d].path]
           un == Step("unlisten", d, p)
<1>0. RawParts /\ t \in Threads /\ Busy(t) /\ k \in 1 .. Len(work[t])
  OBVIOUS
<1>1. TypeInv /\ ListInv /\ NodeInv /\ Owned /\ Heard
  BY DEF RawParts
<1>2. /\ Shape(l, Wireless) /\ d \in DOMAIN driver
      /\ d \in Wireless => ToSet(l) = ToSet(steps) \cup {x \in Ahead(t) : \A i \in 1 .. k : x # s[i]}
      /\ d \notin Wireless =>
           /\ t = "monitor"
           /\ ToSet(l) = ToSet(steps) \cup {Step("gone", d, NoPad)} \cup ToSet(DestroyDriver(old))
  <2>1. Taken(t, d, k)
    BY DEF Taken
  <2>2. Head(work[t]).op \in Building /\ p \in Pads /\ Before(steps, d, p) /\ Failed(l, t, d, steps, k)
    OBVIOUS
  <2> HIDE DEF s, old
  <2>3. Replaced(l, t, d, steps, k)
    BY ONLY <1>0, <2>1, <2>2, FailList
  <2>4. QED
    BY <2>3 DEF Replaced, s, old
<1>3. ToSet(steps) \subseteq {un}
  <2>1. ToSet(<<un>>) = {un} /\ ToSet(<<>>) = {}
    BY DEF ToSet
  <2>2. QED
    BY <2>1 DEF Before
<1>4. un.op = "unlisten" /\ un.driver = d
  BY StepFacts
<1>5. /\ Shape(s, Wireless) /\ s # <<>> /\ Only(s, Building) /\ Head(s) \in Ahead(t) /\ Head(s).driver = d
  <2>1. Shape(s, Wireless) /\ s # <<>> /\ Head(s) = s[1] /\ Head(s) \in Ahead(t)
    BY <1>1, WorkFacts
  <2>2. 1 \in 1 .. k
    OBVIOUS
  <2>3. QED
    BY <2>1, <2>2, AllBuilding
<1>6. \A x \in Ahead(t) : x.op \in Building
  BY <1>5, OnlySet DEF Ahead
<1>7. ASSUME d \notin Wireless
      PROVE  /\ old \in Nat /\ old # d
             /\ old # 0 => /\ old \in DOMAIN driver /\ old \notin Wireless /\ ~Doomed(old)
                           /\ driver[old].pads \in SUBSET Pads
             /\ \A x : x \in ToSet(DestroyDriver(old)) <=>
                   /\ old # 0
                   /\ \/ \E q \in driver[old].pads : x \in {Step("disable", old, q), Step("unlisten", old, q)}
                      \/ x = Step("gone", old, NoPad)
  <2>1. driver[d].path \in Paths /\ driver[d].path \notin Receivers
    <3>1. driver[d] \in DriverType
      BY <1>1, <1>2, ObjTypes
    <3>2. QED
      BY <3>1, <1>2, <1>7 DEF DriverType, Paths, Wireless
  <2>2. Busy("monitor") /\ Head(work["monitor"]).op \in Building
        /\ Head(work["monitor"]) \in Ahead("monitor") /\ Head(work["monitor"]).driver = d
    BY <1>2, <1>5, <1>7
  <2>3. /\ old \in Nat /\ old # d
        /\ old # 0 => /\ old \in DOMAIN driver /\ driver[old].path = driver[d].path /\ ~Doomed(old)
                      /\ driver[old].pads \in SUBSET Pads
    BY <2>1, <2>2, OldFacts
  <2>4. old # 0 => old \notin Wireless
    BY <2>1, <2>3 DEF Wireless
  <2> HIDE DEF old
  <2>5. \A x : x \in ToSet(DestroyDriver(old)) <=>
                   /\ old # 0
                   /\ \/ \E q \in driver[old].pads : x \in {Step("disable", old, q), Step("unlisten", old, q)}
                      \/ x = Step("gone", old, NoPad)
    BY <2>3, DestroyShape
  <2>6. QED
    BY <2>3, <2>4, <2>5
<1> HIDE DEF old, un, s
<1>8. TypeInv' /\ ListInv' /\ NodeInv'
  <2>1. ASSUME NEW x \in ToSet(l)
        PROVE  \/ x \in Ahead(t)
               \/ /\ x.op \in Undoing /\ x.driver \in DOMAIN driver
                  /\ x.op = "gone" => (t = "main" => scan = "done") /\ x.driver \notin Wireless
    <3>1. CASE x = un
      BY <3>1, <1>2, <1>4 DEF Undoing
    <3>2. CASE d \in Wireless /\ x # un
      BY <3>2, <1>2, <1>3
    <3>3. CASE d \notin Wireless /\ x = Step("gone", d, NoPad)
      <4>1. x.op = "gone" /\ x.driver = d
        BY <3>3, StepFacts
      <4>2. QED
        BY <4>1, <3>3, <1>2 DEF Undoing
    <3>4. CASE d \notin Wireless /\ x \in ToSet(DestroyDriver(old))
      <4>1. old # 0 /\ x.driver = old /\ x.op \in {"disable", "unlisten", "gone"}
        BY <3>4, <1>7, StepFacts
      <4>2. QED
        BY <4>1, <3>4, <1>2, <1>7 DEF Undoing
    <3>5. QED
      BY <3>1, <3>2, <3>3, <3>4, <1>2, <1>3
  <2>2. \A e \in DOMAIN driver : driver'[e].listens \subseteq driver[e].listens \/ e \in Wireless
    OBVIOUS
  <2>3. QED
    BY <2>1, <2>2, <1>2, CoreStep
<1>9. \A e \in DOMAIN driver : Doomed(e) => Doomed(e)'
  <2>1. TAKE e \in DOMAIN driver
  <2>2. driver'[e].state = driver[e].state
    BY DEF SameStates
  <2>3. \A q \in Pads \cup {NoPad} : Step("gone", e, q) \notin Ahead(t)
    BY <1>6, StepFacts, Kinds DEF Undoing
  <2>4. QED
    BY <2>2, <2>3, <1>1, DoomedStays
<1>10. \A e \in DOMAIN driver, q \in Pads : Has(e, q)' <= Has(e, q)
  BY <1>9, HasStays
<1>11. \A e, q : \A y \in Counted(e, q, Wireless) : y # un
  BY <1>4, CountedFacts
<1>12. Step("disable", d, p) \notin ToSet(l) /\ Keep(d, p, Wireless) \notin ToSet(l)
       /\ Step("enable", d, p) \notin ToSet(l)
  <2>1. ASSUME NEW y \in Counted(d, p, Wireless), y \in ToSet(l),
               y.op = "disable" \/ \E i \in 1 .. k : s[i] = y
        PROVE  FALSE
    <3>1. y # un /\ y.driver = d /\ y.op # "gone"
      BY <1>11, CountedFacts
    <3>2. CASE d \in Wireless
      BY <3>1, <3>2, <2>1, <1>2, <1>3, <1>6, Kinds DEF Undoing, s
    <3>3. CASE d \notin Wireless
      <4>1. y \in ToSet(DestroyDriver(old))
        BY <3>1, <3>3, <2>1, <1>2, <1>3, StepFacts
      <4>2. y.driver = old /\ old # 0
        BY <4>1, <3>3, <1>7, StepFacts
      <4>3. QED
        BY <4>2, <3>1, <3>3, <1>7
    <3>4. QED
      BY <3>2, <3>3
  <2>2. /\ Step("disable", d, p) \in Counted(d, p, Wireless) /\ Keep(d, p, Wireless) \in Counted(d, p, Wireless)
        /\ Step("enable", d, p) \in Counted(d, p, Wireless)
    BY DEF Counted
  <2>3. Step("disable", d, p).op = "disable"
    BY StepFacts
  <2>4. (\E i \in 1 .. k : s[i] = Keep(d, p, Wireless)) /\ (\E i \in 1 .. k : s[i] = Step("enable", d, p))
    BY DEF s
  <2>5. QED
    BY <2>1, <2>2, <2>3, <2>4
<1>13. ASSUME NEW e \in DOMAIN driver, NEW q \in Pads, e # d \/ q # p
       PROVE  /\ Claims(ToSet(l), e, q, Wireless) + Has(e, q)' <= Claims(Ahead(t), e, q, Wireless) + Has(e, q)
              /\ Switches(ToSet(l), e, q) <= Switches(Ahead(t), e, q)
  <2>1. /\ Claims(ToSet(l), e, q, Wireless) \in Int /\ Claims(Ahead(t), e, q, Wireless) \in Nat
        /\ Switches(ToSet(l), e, q) \in Int /\ Switches(Ahead(t), e, q) \in Nat
    BY CountTypes
  <2>2. Has(e, q)' <= Has(e, q) /\ Has(e, q) \in {0, 1} /\ Has(e, q)' \in {0, 1}
    BY <1>1, <1>8, <1>10, AccountTypes
  <2>3. CASE d \in Wireless
    <3>1. ASSUME NEW y \in Counted(e, q, Wireless)
          PROVE  y \in Ahead(t) <=> y \in ToSet(l)
      <4>1. y.driver = e /\ y.pad = q /\ y # un
        BY <1>11, CountedFacts
      <4>2. \A i \in 1 .. k : y # s[i]
        BY <4>1, <1>13 DEF s
      <4>3. QED
        BY <4>1, <4>2, <2>3, <1>2, <1>3
    <3>2. /\ Claims(Ahead(t), e, q, Wireless) = Claims(ToSet(l), e, q, Wireless)
          /\ Switches(Ahead(t), e, q) = Switches(ToSet(l), e, q)
      BY <3>1, SameCounts
    <3>3. QED
      BY <3>2, <2>1, <2>2
  <2>4. CASE d \notin Wireless
    <3>1. \A y \in Counted(e, q, Wireless) : y \in ToSet(l) =>
             y.op = "disable" /\ e = old /\ old # 0 /\ q \in driver[old].pads
      <4>1. TAKE y \in Counted(e, q, Wireless)
      <4>2. y.driver = e /\ y.pad = q /\ y # un /\ y.op \in {"disable", "listen", "enable", "emplace", "adopt"}
        BY <1>11, CountedFacts
      <4>3. HAVE y \in ToSet(l)
      <4>4. y \in ToSet(DestroyDriver(old))
        BY <4>2, <4>3, <2>4, <1>2, <1>3, StepFacts
      <4>5. QED
        BY <4>2, <4>4, <2>4, <1>7, StepFacts
    <3>2. Step("enable", e, q) \notin ToSet(l) /\ Keep(e, q, Wireless) \notin ToSet(l)
      <4>1. Step("enable", e, q) \in Counted(e, q, Wireless) /\ Keep(e, q, Wireless) \in Counted(e, q, Wireless)
        BY DEF Counted
      <4>2. Step("enable", e, q).op # "disable" /\ Keep(e, q, Wireless).op # "disable"
        BY StepFacts DEF Keep
      <4>3. QED
        BY <4>1, <4>2, <3>1
    <3>3. Switches(ToSet(l), e, q) = 0
      BY <3>2, NoCounts
    <3>4. CASE Step("disable", e, q) \notin ToSet(l)
      <4>1. Claims(ToSet(l), e, q, Wireless) = 0
        BY <3>2, <3>4, NoCounts
      <4>2. QED
        BY <4>1, <3>3, <2>1, <2>2
    <3>5. CASE Step("disable", e, q) \in ToSet(l)
      <4>1. e = old /\ old # 0 /\ q \in driver[old].pads
        BY <3>1, <3>5 DEF Counted
      <4>2. Has(e, q) = 1
        BY <4>1, <2>4, <1>7 DEF Has, One
      <4>3. Step("gone", old, NoPad) \in ToSet(l)
        BY <4>1, <2>4, <1>2, <1>7
      <4>4. Ahead(t)' = ToSet(l)
        BY <1>1, TurnFacts
      <4>5. Doomed(e)'
        BY <4>1, <4>3, <4>4 DEF Doomed
      <4>6. Has(e, q)' = 0
        BY <4>5 DEF Has, One
      <4>7. Claims(ToSet(l), e, q, Wireless) <= 1
        BY <3>2 DEF Claims, One
      <4>8. QED
        BY <4>2, <4>6, <4>7, <3>3, <2>1
    <3>6. QED
      BY <3>4, <3>5
  <2>5. QED
    BY <2>3, <2>4
<1>14. /\ Claims(ToSet(l), d, p, Wireless) = 0 /\ Switches(ToSet(l), d, p) = 0
  BY <1>12, NoCounts
<1>15. Owned'
  <2>1. ASSUME NEW e \in DOMAIN driver, NEW q \in Pads
        PROVE  Claims(ToSet(l), e, q, Wireless) + Has(e, q)' + Obj(e, q)
                 <= Claims(Ahead(t), e, q, Wireless) + Has(e, q) + Obj(e, q)'
    <3>1. /\ Obj(e, q) \in Int /\ Obj(e, q)' \in Int /\ Has(e, q) \in Int /\ Has(e, q)' \in Int
          /\ Has(e, q)' <= Has(e, q)
      BY <1>1, <1>8, <1>10, AccountTypes
    <3>2. Claims(ToSet(l), e, q, Wireless) \in Int /\ Claims(Ahead(t), e, q, Wireless) \in Int
      BY CountTypes
    <3>3. CASE e = d /\ q = p
      <4>1. Obj(e, q) <= Claims(Ahead(t), e, q, Wireless) + Obj(e, q)'
        BY <3>3
      <4>2. Claims(ToSet(l), e, q, Wireless) = 0
        BY <3>3, <1>14
      <4>3. QED
        BY <3>1, <3>2, <4>1, <4>2
    <3>4. CASE e # d \/ q # p
      <4>1. Obj(e, q)' = Obj(e, q)
        BY <3>4
      <4>2. Claims(ToSet(l), e, q, Wireless) + Has(e, q)' <= Claims(Ahead(t), e, q, Wireless) + Has(e, q)
        BY <3>4, <1>13
      <4>3. QED
        BY <3>1, <3>2, <4>1, <4>2
    <3>5. QED
      BY <3>3, <3>4
  <2>2. QED
    BY <2>1, <1>1, <1>8, OwnedStep
<1>16. Heard'
  <2>1. ASSUME NEW r \in raw' \ unreached', NEW e \in DOMAIN driver
        PROVE  Switches(ToSet(l), e, r) + Obj(e, r) <= Switches(Ahead(t), e, r) + Obj(e, r)'
    <3>1. r \in Pads
      OBVIOUS
    <3>2. Obj(e, r) \in Int /\ Obj(e, r)' \in Int
      BY <3>1, <1>1, <1>8, AccountTypes
    <3>3. Switches(ToSet(l), e, r) \in Int /\ Switches(Ahead(t), e, r) \in Int
      BY CountTypes
    <3>4. CASE e = d /\ r = p
      <4>1. Obj(e, r) <= Switches(Ahead(t), e, r) + Obj(e, r)'
        BY <3>4
      <4>2. Switches(ToSet(l), e, r) = 0
        BY <3>4, <1>14
      <4>3. QED
        BY <3>2, <3>3, <4>1, <4>2
    <3>5. CASE e # d \/ r # p
      <4>1. Obj(e, r)' = Obj(e, r)
        BY <3>1, <3>5
      <4>2. Switches(ToSet(l), e, r) <= Switches(Ahead(t), e, r)
        BY <3>1, <3>5, <1>13
      <4>3. QED
        BY <3>2, <3>3, <4>1, <4>2
    <3>6. QED
      BY <3>4, <3>5
  <2>2. QED
    BY <2>1, <1>1, <1>8, HeardKept
<1>17. QED
  BY <1>8, <1>15, <1>16 DEF RawParts

\* The accounts of a thread that goes on to its next step, which is about
\* driver d and touchpad p.
LEMMA HasTail ==
  ASSUME RawParts, NEW t \in Threads, Busy(t), Turns(t, Tail(work[t])), SamePlaces, SameStates,
         Head(work[t]).op # "gone",
         NEW e \in DOMAIN driver, NEW q, q \in driver'[e].pads => q \in driver[e].pads
  PROVE  Has(e, q)' <= Has(e, q)
<1>1. TypeInv /\ ListInv
  BY DEF RawParts
<1>2. ToSet(Tail(work[t])) = Ahead(t) \ {Head(work[t])}
  BY <1>1, WorkFacts
<1>3. \A r \in Pads \cup {NoPad} : Step("gone", e, r) \in Ahead(t) => Step("gone", e, r) \in ToSet(Tail(work[t]))
  BY <1>2, StepFacts
<1>4. driver'[e].state = driver[e].state
  BY DEF SameStates
<1>5. Doomed(e) => Doomed(e)'
  BY <1>1, <1>3, <1>4, DoomedStays
<1>6. QED
  BY <1>5, HasStays

\* The first step of a list is about one object only.
LEMMA OtherCounts ==
  ASSUME NEW A, NEW x, NEW e, NEW q, NEW W, x.driver # e \/ x.pad # q
  PROVE  /\ Claims(A \ {x}, e, q, W) = Claims(A, e, q, W)
         /\ Switches(A \ {x}, e, q) = Switches(A, e, q)
<1>1. \A y \in Counted(e, q, W) : y \in A <=> y \in A \ {x}
  BY CountedFacts
<1>2. QED
  BY <1>1, SameCounts

\* A first step that is done: shape and types.
LEMMA TailCore ==
  ASSUME RawParts, NEW t \in Threads, Busy(t), NEW op, NEW d, NEW p \in Pads,
         Head(work[t]) = Step(op, d, p), op # "gone",
         Turns(t, Tail(work[t])), Around, UNCHANGED node, raw' \in SUBSET Pads,
         driver' \in Seq(DriverType), SamePlaces, SameStates,
         \A e \in DOMAIN driver : driver'[e].listens \subseteq driver[e].listens \/ e \in Wireless,
         \A e \in DOMAIN driver, q \in Pads : e # d \/ q # p =>
            Obj(e, q)' = Obj(e, q) /\ (q \in driver'[e].pads => q \in driver[e].pads),
         Claims(Ahead(t) \ {Step(op, d, p)}, d, p, Wireless) + Has(d, p)' + Obj(d, p)
            <= Claims(Ahead(t), d, p, Wireless) + Has(d, p) + Obj(d, p)'
  PROVE  TypeInv' /\ ListInv' /\ NodeInv' /\ Owned'
<1> DEFINE x == Step(op, d, p)
           l == Tail(work[t])
<1>1. TypeInv /\ ListInv /\ Owned
  BY DEF RawParts
<1>2. Shape(l, Wireless) /\ ToSet(l) = Ahead(t) \ {x} /\ d \in DOMAIN driver
  <2>1. x.driver = d
    BY StepFacts
  <2>2. QED
    BY <2>1, <1>1, WorkFacts
<1>3. x.op = op /\ x.driver = d /\ x.pad = p
  BY StepFacts
<1> HIDE DEF x
<1>4. TypeInv' /\ ListInv' /\ NodeInv'
  <2>1. \A y \in ToSet(l) :
            \/ y \in Ahead(t)
            \/ /\ y.op \in Undoing /\ y.driver \in DOMAIN driver
               /\ y.op = "gone" => (t = "main" => scan = "done") /\ y.driver \notin Wireless
    BY <1>2
  <2>2. Shape(l, Wireless)
    BY <1>2
  <2>3. QED
    BY <2>1, <2>2, CoreStep
<1>5. ASSUME NEW e \in DOMAIN driver, NEW q \in Pads
      PROVE  Claims(ToSet(l), e, q, Wireless) + Has(e, q)' + Obj(e, q)
                 <= Claims(Ahead(t), e, q, Wireless) + Has(e, q) + Obj(e, q)'
  <2>1. CASE e = d /\ q = p
    BY <2>1, <1>2 DEF x
  <2>2. CASE e # d \/ q # p
    <3>1. Obj(e, q)' = Obj(e, q) /\ Obj(e, q) \in Int /\ Has(e, q) \in Int /\ Has(e, q)' \in Int
      BY <2>2, <1>1, <1>4, AccountTypes
    <3>2. Has(e, q)' <= Has(e, q)
      <4>1. Head(work[t]).op # "gone"
        BY <1>3 DEF x
      <4>2. q \in driver'[e].pads => q \in driver[e].pads
        BY <2>2
      <4>3. QED
        BY <4>1, <4>2, HasTail
    <3>3. Claims(ToSet(l), e, q, Wireless) = Claims(Ahead(t), e, q, Wireless)
      BY <2>2, <1>2, <1>3, OtherCounts
    <3>4. Claims(Ahead(t), e, q, Wireless) \in Int
      BY CountTypes
    <3>5. QED
      BY <3>1, <3>2, <3>3, <3>4
  <2>3. QED
    BY <2>1, <2>2
<1>6. Owned'
  BY <1>1, <1>4, <1>5, OwnedStep
<1>7. QED
  BY <1>4, <1>6

\* A first step that is done: the touchpads in raw mode.
LEMMA TailHeard ==
  ASSUME RawParts, TypeInv', NEW t \in Threads, Busy(t), NEW op, NEW d, NEW p \in Pads,
         Head(work[t]) = Step(op, d, p), Turns(t, Tail(work[t])), SamePlaces, raw' \in SUBSET Pads,
         \A e \in DOMAIN driver, q \in Pads : e # d \/ q # p => Obj(e, q)' = Obj(e, q),
         p \in raw' \ unreached' =>
            Switches(Ahead(t) \ {Step(op, d, p)}, d, p) + Obj(d, p) <= Switches(Ahead(t), d, p) + Obj(d, p)',
         NEW r \in raw' \ unreached', r \in raw \ unreached
  PROVE  \E e \in DOMAIN driver' :
            Switches(Ahead("main")', e, r) + Switches(Ahead("monitor")', e, r) < Obj(e, r)'
<1> DEFINE x == Step(op, d, p)
           l == Tail(work[t])
<1>1. TypeInv /\ ListInv /\ Heard
  BY DEF RawParts
<1>2. ToSet(l) = Ahead(t) \ {x}
  BY <1>1, WorkFacts
<1>3. x.op = op /\ x.driver = d /\ x.pad = p
  BY StepFacts
<1> HIDE DEF x
<1>4. ASSUME NEW e \in DOMAIN driver
      PROVE  Switches(ToSet(l), e, r) + Obj(e, r) <= Switches(Ahead(t), e, r) + Obj(e, r)'
  <2>1. CASE e = d /\ r = p
    BY <2>1, <1>2 DEF x
  <2>2. CASE e # d \/ r # p
    <3>1. r \in Pads
      OBVIOUS
    <3>2. Obj(e, r)' = Obj(e, r) /\ Obj(e, r) \in Int
      BY <2>2, <3>1, <1>1, AccountTypes
    <3>3. Switches(ToSet(l), e, r) = Switches(Ahead(t), e, r)
      BY <2>2, <1>2, <1>3, OtherCounts
    <3>4. Switches(Ahead(t), e, r) \in Int
      BY CountTypes
    <3>5. QED
      BY <3>2, <3>3, <3>4
  <2>3. QED
    BY <2>1, <2>2
<1> HIDE DEF l
<1>5. Turns(t, l)
  BY DEF l
<1>6. QED
  BY <1>1, <1>4, <1>5, HeardStep

\* A first step that is done: the whole invariant.
LEMMA TailKept ==
  ASSUME RawParts, TypeInv', NEW t \in Threads, Busy(t), NEW op, NEW d, NEW p \in Pads,
         Head(work[t]) = Step(op, d, p), Turns(t, Tail(work[t])), SamePlaces, raw' \in SUBSET Pads,
         \A e \in DOMAIN driver, q \in Pads : e # d \/ q # p => Obj(e, q)' = Obj(e, q),
         p \in raw' \ unreached' =>
            Switches(Ahead(t) \ {Step(op, d, p)}, d, p) + Obj(d, p) <= Switches(Ahead(t), d, p) + Obj(d, p)',
         raw' \ unreached' \subseteq raw \ unreached
  PROVE  Heard'
<1>1. ASSUME NEW r \in raw' \ unreached'
      PROVE  \E e \in DOMAIN driver' :
                Switches(Ahead("main")', e, r) + Switches(Ahead("monitor")', e, r) < Obj(e, r)'
  BY TailHeard
<1>2. QED
  BY <1>1 DEF Heard

\* The first step of a busy thread.
LEMMA HeadFacts ==
  ASSUME RawParts, NEW t \in Threads, Busy(t), NEW op, NEW d, NEW p, Head(work[t]) = Step(op, d, p)
  PROVE  /\ op \in Building \cup Undoing /\ d \in DOMAIN driver /\ driver[d] \in DriverType /\ d \in Nat \ {0}
         /\ driver[d].heard \in [Pads -> Int] /\ driver[d].dying \in [Pads -> Int]
         /\ op # "gone" /\ ~(op = "adopt" /\ d \in Wireless) => p \in Pads
         /\ op \in {"emplace", "erase", "addEvent"} => d \in Wireless
         /\ Step(op, d, p) \in Ahead(t)
         /\ Shape(work[t], Wireless) /\ work[t] # <<>> /\ work[t][1] = Step(op, d, p) /\ 1 \in DOMAIN work[t]
         /\ DOMAIN work[t] = 1 .. Len(work[t]) /\ Len(work[t]) \in Nat
<1> DEFINE x == Step(op, d, p)
<1>1. TypeInv /\ ListInv
  BY DEF RawParts
<1>2. x.op = op /\ x.driver = d /\ x.pad = p
  BY StepFacts
<1>3. /\ Shape(work[t], Wireless) /\ work[t] # <<>> /\ work[t] \in Seq(StepType)
      /\ x = work[t][1] /\ 1 \in DOMAIN work[t] /\ x \in Ahead(t) /\ x \in StepType
      /\ x.driver \in DOMAIN driver /\ Fits(x, Wireless)
  BY <1>1, WorkFacts
<1>4. driver[d] \in DriverType /\ d \in DOMAIN driver
  BY <1>1, <1>2, <1>3, ObjTypes
<1> HIDE DEF x
<1>5. d \in Nat \ {0}
  BY <1>1, <1>4 DEF TypeInv
<1>6. x.op \in Building \cup Undoing
  BY <1>3 DEF StepType
<1>7. driver[d].heard \in [Pads -> Int] /\ driver[d].dying \in [Pads -> Int]
  BY <1>4 DEF DriverType
<1>8. /\ op # "gone" /\ ~(op = "adopt" /\ d \in Wireless) => p \in Pads
      /\ op \in {"emplace", "erase", "addEvent"} => d \in Wireless
  BY <1>2, <1>3 DEF Fits
<1>9. DOMAIN work[t] = 1 .. Len(work[t]) /\ Len(work[t]) \in Nat
  BY <1>3
<1>10. QED
  BY <1>2, <1>3, <1>4, <1>5, <1>6, <1>7, <1>8, <1>9 DEF x

\* What follows the commands of a constructor.
LEMMA ChainAhead ==
  ASSUME NEW W, NEW s, Shape(s, W), s # <<>>, NEW op, NEW d, NEW p, s[1] = Step(op, d, p)
  PROVE  /\ op = "probe" => /\ 4 \in 1 .. Len(s) /\ s[2] = Step("listen", d, p)
                            /\ s[3] = Step("enable", d, p) /\ s[4] = Keep(d, p, W)
         /\ op = "listen" => /\ 3 \in 1 .. Len(s) /\ s[2] = Step("enable", d, p) /\ s[3] = Keep(d, p, W)
         /\ op = "enable" => 2 \in 1 .. Len(s) /\ s[2] = Keep(d, p, W)
<1>1. s \in Seq(StepType)
  BY DEF Shape
<1>2. Len(s) \in Nat /\ DOMAIN s = 1 .. Len(s) /\ 1 \in DOMAIN s
  BY <1>1
<1>3. ASSUME NEW i \in DOMAIN s, NEW o \in {"probe", "listen", "enable"}, s[i] = Step(o, d, p)
      PROVE  i + 1 \in DOMAIN s /\ s[i + 1] = After(Step(o, d, p), W)
  BY <1>3, StepFacts DEF Shape, Chained
<1>4. /\ After(Step("probe", d, p), W) = Step("listen", d, p)
      /\ After(Step("listen", d, p), W) = Step("enable", d, p)
      /\ After(Step("enable", d, p), W) = Keep(d, p, W)
  BY StepFacts DEF After
<1>5. ASSUME op = "enable"
      PROVE  2 \in DOMAIN s /\ s[2] = Keep(d, p, W)
  <2>1. 1 + 1 \in DOMAIN s /\ s[1 + 1] = Keep(d, p, W)
    BY <1>2, <1>3, <1>4, <1>5
  <2>2. QED
    BY <2>1
<1>6. ASSUME op = "listen"
      PROVE  3 \in DOMAIN s /\ s[2] = Step("enable", d, p) /\ s[3] = Keep(d, p, W)
  <2>1. 1 + 1 \in DOMAIN s /\ s[1 + 1] = Step("enable", d, p)
    BY <1>2, <1>3, <1>4, <1>6
  <2>2. 2 \in DOMAIN s /\ s[2] = Step("enable", d, p)
    BY <2>1
  <2>3. 2 + 1 \in DOMAIN s /\ s[2 + 1] = Keep(d, p, W)
    BY <2>2, <1>3, <1>4
  <2>4. QED
    BY <2>2, <2>3
<1>7. ASSUME op = "probe"
      PROVE  4 \in DOMAIN s /\ s[2] = Step("listen", d, p) /\ s[3] = Step("enable", d, p) /\ s[4] = Keep(d, p, W)
  <2>1. 1 + 1 \in DOMAIN s /\ s[1 + 1] = Step("listen", d, p)
    BY <1>2, <1>3, <1>4, <1>7
  <2>2. 2 \in DOMAIN s /\ s[2] = Step("listen", d, p)
    BY <2>1
  <2>3. 2 + 1 \in DOMAIN s /\ s[2 + 1] = Step("enable", d, p)
    BY <2>2, <1>3, <1>4
  <2>4. 3 \in DOMAIN s /\ s[3] = Step("enable", d, p)
    BY <2>3
  <2>5. 3 + 1 \in DOMAIN s /\ s[3 + 1] = Keep(d, p, W)
    BY <2>4, <1>3, <1>4
  <2>6. QED
    BY <2>2, <2>4, <2>5
<1>8. QED
  BY <1>2, <1>5, <1>6, <1>7

\* The fields of the step that keeps an object.
LEMMA KeepFacts ==
  ASSUME NEW d, NEW p, NEW W
  PROVE  Keep(d, p, W).driver = d /\ Keep(d, p, W).pad = p /\ Keep(d, p, W).op \in {"emplace", "adopt"}
BY StepFacts DEF Keep

\* The steps of a driver that is not changed.
LEMMA SameDrivers ==
  ASSUME TypeInv, UNCHANGED driver
  PROVE  /\ driver' \in Seq(DriverType) /\ SamePlaces /\ SameStates
         /\ \A e \in DOMAIN driver : driver'[e].listens = driver[e].listens /\ driver'[e].pads = driver[e].pads
         /\ \A e, q : Obj(e, q)' = Obj(e, q)
<1>1. driver' \in Seq(DriverType)
  BY DEF TypeInv
<1>2. SamePlaces /\ SameStates
  BY DEF SamePlaces, SameStates
<1>3. QED
  BY <1>1, <1>2 DEF Obj

\* The queries of the constructor, answered or not.
LEMMA ProbeStep ==
  ASSUME RawParts, NEW t \in Threads, Busy(t), NEW d, NEW p, Head(work[t]) = Step("probe", d, p),
         Probe(t, d, p), Around
  PROVE  RawParts'
<1>1. TypeInv
  BY DEF RawParts
<1>2. /\ d \in DOMAIN driver /\ p \in Pads /\ Step("probe", d, p) \in Ahead(t)
      /\ Shape(work[t], Wireless) /\ work[t] # <<>> /\ work[t][1] = Step("probe", d, p)
  BY HeadFacts
<1>3. UNCHANGED driver /\ UNCHANGED node /\ UNCHANGED raw /\ UNCHANGED unreached
  BY DEF Probe, effects, driverVars
<1>4. /\ driver' \in Seq(DriverType) /\ SamePlaces /\ SameStates
      /\ \A e \in DOMAIN driver : driver'[e].listens = driver[e].listens /\ driver'[e].pads = driver[e].pads
      /\ \A e, q : Obj(e, q)' = Obj(e, q)
  BY <1>1, <1>3, SameDrivers
<1>5. raw' \in SUBSET Pads
  BY <1>1, <1>3 DEF TypeInv
<1>6. Obj(d, p) \in Int /\ Claims(Ahead(t), d, p, Wireless) \in Nat /\ Switches(Ahead(t), d, p) \in Nat
  BY <1>1, <1>2, ObjTypes, CountTypes
<1>7. CASE Reachable(d, p)
  <2>1. Turns(t, Tail(work[t]))
    BY <1>7 DEF Probe, Done, Turns
  <2>2. /\ Claims(Ahead(t) \ {Step("probe", d, p)}, d, p, Wireless) = Claims(Ahead(t), d, p, Wireless)
        /\ Switches(Ahead(t) \ {Step("probe", d, p)}, d, p) = Switches(Ahead(t), d, p)
    <3>1. \A y \in Counted(d, p, Wireless) : y \in Ahead(t) <=> y \in Ahead(t) \ {Step("probe", d, p)}
      BY CountedFacts, StepFacts
    <3>2. QED
      BY <3>1, SameCounts
  <2>3. Has(d, p)' <= Has(d, p) /\ Has(d, p) \in {0, 1} /\ Has(d, p)' \in {0, 1}
    <3>1. Head(work[t]).op # "gone"
      BY StepFacts
    <3>2. Has(d, p) \in {0, 1} /\ Has(d, p)' \in {0, 1}
      BY DEF Has, One
    <3>3. QED
      BY <3>1, <3>2, <2>1, <1>2, <1>4, HasTail
  <2>4. Claims(Ahead(t) \ {Step("probe", d, p)}, d, p, Wireless) + Has(d, p)' + Obj(d, p)
            <= Claims(Ahead(t), d, p, Wireless) + Has(d, p) + Obj(d, p)'
    BY <2>2, <2>3, <1>4, <1>6
  <2>5. TypeInv' /\ ListInv' /\ NodeInv' /\ Owned'
    BY <2>1, <2>4, <1>2, <1>3, <1>4, <1>5, TailCore
  <2>6. Heard'
    <3>1. Switches(Ahead(t) \ {Step("probe", d, p)}, d, p) + Obj(d, p) <= Switches(Ahead(t), d, p) + Obj(d, p)'
      BY <2>2, <1>4, <1>6
    <3>2. QED
      BY <3>1, <2>1, <2>5, <1>2, <1>3, <1>4, <1>5, TailKept
  <2>7. QED
    BY <2>5, <2>6 DEF RawParts
<1>8. CASE ~Reachable(d, p)
  <2> DEFINE l == <<>> \o IF driver[d].path \in Receivers THEN SubSeq(work[t], 4 + 1, Len(work[t]))
                          ELSE <<Step("gone", d, NoPad)>> \o EraseNode(driver[d].path)
  <2>1. Turns(t, l)
    BY <1>8 DEF Probe, Fail, Turns
  <2>2. Failed(l, t, d, <<>>, 4)
    BY DEF Failed
  <2> HIDE DEF l
  <2>3. Before(<<>>, d, p)
    BY DEF Before
  <2>4. /\ 4 \in 1 .. Len(work[t]) /\ work[t][2] = Step("listen", d, p)
        /\ work[t][3] = Step("enable", d, p) /\ work[t][4] = Keep(d, p, Wireless)
    BY <1>2, ChainAhead
  <2>5. \A i \in 1 .. 4 : i = 1 \/ i = 2 \/ i = 3 \/ i = 4
    OBVIOUS
  <2>6. \A i \in 1 .. 4 : work[t][i].driver = d /\ work[t][i].pad = p /\ work[t][i].op \in Building
    <3>1. /\ Step("probe", d, p).op \in Building /\ Step("listen", d, p).op \in Building
          /\ Step("enable", d, p).op \in Building /\ Keep(d, p, Wireless).op \in Building
      BY StepFacts, KeepFacts DEF Building
    <3>2. QED
      BY <3>1, <2>4, <2>5, <1>2, StepFacts, KeepFacts
  <2>7. (\E i \in 1 .. 4 : work[t][i] = Keep(d, p, Wireless)) /\ (\E i \in 1 .. 4 : work[t][i] = Step("enable", d, p))
    BY <2>4
  <2>8. Head(work[t]).op \in Building
    BY StepFacts DEF Building
  <2>9. /\ Obj(d, p) <= Claims(Ahead(t), d, p, Wireless) + Obj(d, p)'
        /\ Obj(d, p) <= Switches(Ahead(t), d, p) + Obj(d, p)'
    BY <1>4, <1>6
  <2>10. \A e \in DOMAIN driver, q \in Pads : e # d \/ q # p => Obj(e, q)' = Obj(e, q)
    BY <1>4
  <2>11. QED
    BY <2>1, <2>2, <2>3, <2>4, <2>6, <2>7, <2>8, <2>9, <2>10, <1>2, <1>3, <1>4, <1>5, FailStep
<1>9. QED
  BY <1>7, <1>8

\* The handlers of a driver that is changed.
LEMMA ObjChange ==
  ASSUME TypeInv, NEW d \in DOMAIN driver, NEW H \in [Pads -> Int], NEW Y \in [Pads -> Int],
         driver' = [driver EXCEPT ![d] = [driver[d] EXCEPT !.heard = H, !.dying = Y]]
  PROVE  /\ driver' \in Seq(DriverType) /\ SamePlaces /\ SameStates
         /\ \A e \in DOMAIN driver : driver'[e].listens = driver[e].listens /\ driver'[e].pads = driver[e].pads
         /\ \A e \in DOMAIN driver, q \in Pads : Obj(e, q)' = IF e = d THEN H[q] - Y[q] ELSE Obj(e, q)
<1> DEFINE r == [driver[d] EXCEPT !.heard = H, !.dying = Y]
<1>1. driver[d] \in DriverType
  BY ObjTypes
<1>2. r \in DriverType
  BY <1>1 DEF DriverType
<1>3. /\ r.heard = H /\ r.dying = Y /\ r.path = driver[d].path /\ r.state = driver[d].state
      /\ r.listens = driver[d].listens /\ r.pads = driver[d].pads
  BY <1>1 DEF DriverType
<1>4. driver' = [driver EXCEPT ![d] = r]
  OBVIOUS
<1> HIDE DEF r
<1>5. /\ driver' \in Seq(DriverType) /\ DOMAIN driver' = DOMAIN driver
      /\ driver'[d] = r /\ \A e \in DOMAIN driver : e # d => driver'[e] = driver[e]
  BY <1>2, <1>4, DriverChange
<1>6. SamePlaces /\ SameStates
  BY <1>3, <1>5 DEF SamePlaces, SameStates
<1>7. \A e \in DOMAIN driver : driver'[e].listens = driver[e].listens /\ driver'[e].pads = driver[e].pads
  BY <1>3, <1>5
<1>8. \A e \in DOMAIN driver, q \in Pads : Obj(e, q)' = IF e = d THEN H[q] - Y[q] ELSE Obj(e, q)
  BY <1>3, <1>5 DEF Obj
<1>9. QED
  BY <1>5, <1>6, <1>7, <1>8

\* The handler of a new object is added.
LEMMA ListenKeeps ==
  ASSUME RawParts, NEW t \in Threads, Busy(t), NEW d, NEW p, Head(work[t]) = Step("listen", d, p),
         Listen(t, d, p), Around
  PROVE  RawParts'
<1> DEFINE x == Step("listen", d, p)
           H == [driver[d].heard EXCEPT ![p] = @ + 1]
           Y == driver[d].dying
<1>1. TypeInv
  BY DEF RawParts
<1>2. /\ d \in DOMAIN driver /\ p \in Pads /\ driver[d] \in DriverType
      /\ driver[d].heard \in [Pads -> Int] /\ Y \in [Pads -> Int]
  BY HeadFacts
<1>3. UNCHANGED node /\ raw' \in SUBSET Pads /\ Turns(t, Tail(work[t])) /\ raw' \ unreached' \subseteq raw \ unreached
  BY <1>1 DEF Listen, Done, Turns, TypeInv
<1>4. driver' = [driver EXCEPT ![d] = [driver[d] EXCEPT !.heard = H, !.dying = Y]]
  BY <1>2 DEF Listen, DriverType
<1>5. H \in [Pads -> Int] /\ H[p] = driver[d].heard[p] + 1 /\ \A q \in Pads : q # p => H[q] = driver[d].heard[q]
  BY <1>2
<1> HIDE DEF H, Y
<1>6. /\ driver' \in Seq(DriverType) /\ SamePlaces /\ SameStates
      /\ \A e \in DOMAIN driver : driver'[e].listens = driver[e].listens /\ driver'[e].pads = driver[e].pads
      /\ \A e \in DOMAIN driver, q \in Pads : Obj(e, q)' = IF e = d THEN H[q] - Y[q] ELSE Obj(e, q)
  BY <1>1, <1>2, <1>4, <1>5, ObjChange
<1>7. Obj(d, p)' = Obj(d, p) + 1 /\ Obj(d, p) \in Int
  <2>1. Obj(d, p)' = H[p] - Y[p]
    BY <1>2, <1>6
  <2>2. Obj(d, p) = driver[d].heard[p] - Y[p]
    BY DEF Obj, Y
  <2>3. driver[d].heard[p] \in Int /\ Y[p] \in Int /\ H[p] = driver[d].heard[p] + 1
    BY <1>2, <1>5
  <2>4. QED
    BY <2>1, <2>2, <2>3
<1>8. ASSUME NEW e \in DOMAIN driver, NEW q \in Pads, e # d \/ q # p
      PROVE  Obj(e, q)' = Obj(e, q)
  BY <1>5, <1>6, <1>8 DEF Obj, Y
<1>9. /\ Claims(Ahead(t) \ {x}, d, p, Wireless) <= Claims(Ahead(t), d, p, Wireless) + 1
      /\ Claims(Ahead(t) \ {x}, d, p, Wireless) \in Int /\ Claims(Ahead(t), d, p, Wireless) \in Int
  <2>1. Step("disable", d, p) \in Ahead(t) \ {x} <=> Step("disable", d, p) \in Ahead(t)
    BY StepFacts
  <2>2. QED
    BY <2>1 DEF Claims, One
<1>10. /\ Switches(Ahead(t) \ {x}, d, p) <= Switches(Ahead(t), d, p) + 1
       /\ Switches(Ahead(t) \ {x}, d, p) \in Int /\ Switches(Ahead(t), d, p) \in Int
  BY DEF Switches, One
<1>11. Has(d, p)' <= Has(d, p) /\ Has(d, p) \in {0, 1} /\ Has(d, p)' \in {0, 1}
  <2>1. Head(work[t]).op # "gone"
    BY StepFacts
  <2>2. Has(d, p) \in {0, 1} /\ Has(d, p)' \in {0, 1}
    BY DEF Has, One
  <2>3. QED
    BY <2>1, <2>2, <1>2, <1>3, <1>6, HasTail
<1>12. Claims(Ahead(t) \ {x}, d, p, Wireless) + Has(d, p)' + Obj(d, p)
          <= Claims(Ahead(t), d, p, Wireless) + Has(d, p) + Obj(d, p)'
  BY <1>7, <1>9, <1>11
<1>13. Switches(Ahead(t) \ {x}, d, p) + Obj(d, p) <= Switches(Ahead(t), d, p) + Obj(d, p)'
  BY <1>7, <1>10
<1>14. \A e \in DOMAIN driver, q \in Pads : e # d \/ q # p =>
          Obj(e, q)' = Obj(e, q) /\ (q \in driver'[e].pads => q \in driver[e].pads)
  BY <1>6, <1>8
<1> HIDE DEF x
<1>15. TypeInv' /\ ListInv' /\ NodeInv' /\ Owned'
  <2>1. /\ driver' \in Seq(DriverType) /\ SamePlaces /\ SameStates
        /\ \A e \in DOMAIN driver : driver'[e].listens \subseteq driver[e].listens \/ e \in Wireless
    BY <1>6
  <2>2. "listen" # "gone" /\ p \in Pads
    BY <1>2
  <2>3. QED
    BY <2>1, <2>2, <1>3, <1>12, <1>14, TailCore DEF x
<1>16. Heard'
  BY <1>2, <1>3, <1>6, <1>13, <1>14, <1>15, TailKept DEF x
<1>17. QED
  BY <1>15, <1>16 DEF RawParts

\* The sum of the accounts is at most the number of objects.
LEMMA OwnedOf ==
  ASSUME RawParts, NEW t \in Threads, NEW d \in DOMAIN driver, NEW p \in Pads,
         Claims(Ahead(t), d, p, Wireless) >= 1
  PROVE  \A u \in Threads : u # t => Claims(Ahead(u), d, p, Wireless) < Obj(d, p)
<1>1. Claims(Ahead("main"), d, p, Wireless) + Claims(Ahead("monitor"), d, p, Wireless) + Has(d, p) <= Obj(d, p)
  BY DEF RawParts, Owned
<1>2. /\ Claims(Ahead("main"), d, p, Wireless) \in Int /\ Claims(Ahead("monitor"), d, p, Wireless) \in Int
      /\ Has(d, p) \in {0, 1} /\ Obj(d, p) \in Int
  BY CountTypes, ObjTypes DEF RawParts
<1>3. CASE t = "main"
  <2>1. Claims(Ahead("monitor"), d, p, Wireless) < Obj(d, p)
    BY <1>1, <1>2, <1>3
  <2>2. QED
    BY <2>1, <1>3 DEF Threads
<1>4. CASE t = "monitor"
  <2>1. Claims(Ahead("main"), d, p, Wireless) < Obj(d, p)
    BY <1>1, <1>2, <1>4
  <2>2. QED
    BY <2>1, <1>4 DEF Threads
<1>5. QED
  BY <1>3, <1>4 DEF Threads

\* An object that is about to switch raw mode on is one that is to come.
LEMMA SwitchClaims ==
  ASSUME RawParts, NEW t \in Threads, NEW d, NEW p
  PROVE  Switches(Ahead(t), d, p) <= Claims(Ahead(t), d, p, Wireless)
<1>1. CASE Step("enable", d, p) \in Ahead(t) /\ Step("listen", d, p) \notin Ahead(t)
  <2> DEFINE s == work[t]
  <2>1. Shape(s, Wireless) /\ s \in Seq(StepType)
    BY DEF RawParts, ListInv, Shape
  <2>2. PICK i \in DOMAIN s : s[i] = Step("enable", d, p)
    BY <1>1 DEF Ahead, ToSet
  <2>3. i + 1 \in DOMAIN s /\ s[i + 1] = Keep(d, p, Wireless)
    BY <2>1, <2>2, StepFacts DEF Shape, Chained, After
  <2>4. Keep(d, p, Wireless) \in Ahead(t)
    BY <2>3 DEF Ahead, ToSet
  <2>5. Claims(Ahead(t), d, p, Wireless) >= 1 /\ Switches(Ahead(t), d, p) <= 1
    BY <2>4, <1>1 DEF Claims, Switches, One
  <2>6. Claims(Ahead(t), d, p, Wireless) \in Int /\ Switches(Ahead(t), d, p) \in Int
    BY CountTypes
  <2>7. QED
    BY <2>5, <2>6
<1>2. CASE ~(Step("enable", d, p) \in Ahead(t) /\ Step("listen", d, p) \notin Ahead(t))
  <2>1. Switches(Ahead(t), d, p) = 0
    BY <1>2 DEF Switches, One
  <2>2. Claims(Ahead(t), d, p, Wireless) \in Nat
    BY CountTypes
  <2>3. QED
    BY <2>1, <2>2
<1>3. QED
  BY <1>1, <1>2

\* Raw mode is switched on for an object whose handler is there, or the base object goes.
LEMMA EnableKeeps ==
  ASSUME RawParts, NEW t \in Threads, Busy(t), NEW d, NEW p, Head(work[t]) = Step("enable", d, p),
         Enable(t, d, p), Around
  PROVE  RawParts'
<1> DEFINE x == Step("enable", d, p)
<1>1. TypeInv
  BY DEF RawParts
<1>2. /\ d \in DOMAIN driver /\ p \in Pads /\ driver[d] \in DriverType
      /\ driver[d].heard \in [Pads -> Int] /\ driver[d].dying \in [Pads -> Int]
      /\ x \in Ahead(t) /\ Shape(work[t], Wireless) /\ work[t] # <<>> /\ work[t][1] = x
  BY HeadFacts
<1>3. 2 \in 1 .. Len(work[t]) /\ work[t][2] = Keep(d, p, Wireless)
  BY <1>2, ChainAhead
<1>4. Keep(d, p, Wireless) \in Ahead(t) /\ Step("listen", d, p) \notin Ahead(t)
  <2>1. work[t] \in Seq(StepType)
    BY <1>2 DEF Shape
  <2>2. Keep(d, p, Wireless) \in Ahead(t)
    BY <2>1, <1>3 DEF Ahead, ToSet
  <2>3. Head(work[t]) = x
    OBVIOUS
  <2>4. Step("listen", d, p) \notin Ahead(t)
    BY <2>3, <1>2, AlreadyThere DEF Ahead
  <2>5. QED
    BY <2>2, <2>4
<1>5. /\ Claims(Ahead(t), d, p, Wireless) >= 1 /\ Switches(Ahead(t), d, p) = 1
      /\ Claims(Ahead(t), d, p, Wireless) \in Int /\ Obj(d, p) \in Int
  <2>1. Claims(Ahead(t), d, p, Wireless) >= 1
    BY <1>4 DEF Claims, One
  <2>2. Switches(Ahead(t), d, p) = 1
    BY <1>2, <1>4 DEF Switches, One
  <2>3. QED
    BY <2>1, <2>2, <1>1, <1>2, CountTypes, ObjTypes
<1>6. UNCHANGED node /\ UNCHANGED unreached
  BY DEF Enable
<1>7. CASE Reachable(d, p)
  <2>1. UNCHANGED driver /\ Turns(t, Tail(work[t])) /\ raw' = raw \cup {p}
    BY <1>7 DEF Enable, Done, Turns, RawMode
  <2>2. raw' \in SUBSET Pads
    BY <2>1, <1>1, <1>2 DEF TypeInv
  <2>3. /\ driver' \in Seq(DriverType) /\ SamePlaces /\ SameStates
        /\ \A e \in DOMAIN driver : driver'[e].listens = driver[e].listens /\ driver'[e].pads = driver[e].pads
        /\ \A e, q : Obj(e, q)' = Obj(e, q)
    BY <2>1, <1>1, SameDrivers
  <2>4. /\ Claims(Ahead(t) \ {x}, d, p, Wireless) = Claims(Ahead(t), d, p, Wireless)
        /\ Switches(Ahead(t) \ {x}, d, p) = 0
    <3>1. /\ Step("disable", d, p) \in Ahead(t) \ {x} <=> Step("disable", d, p) \in Ahead(t)
          /\ Step("listen", d, p) \in Ahead(t) \ {x} <=> Step("listen", d, p) \in Ahead(t)
          /\ Keep(d, p, Wireless) \in Ahead(t) \ {x} <=> Keep(d, p, Wireless) \in Ahead(t)
      BY StepFacts, KeepFacts
    <3>2. QED
      BY <3>1 DEF Claims, Switches, One
  <2>5. Has(d, p)' <= Has(d, p) /\ Has(d, p) \in {0, 1} /\ Has(d, p)' \in {0, 1}
    <3>1. Head(work[t]).op # "gone"
      BY StepFacts
    <3>2. Has(d, p) \in {0, 1} /\ Has(d, p)' \in {0, 1}
      BY DEF Has, One
    <3>3. QED
      BY <3>1, <3>2, <2>1, <2>3, <1>2, HasTail
  <2>6. Claims(Ahead(t) \ {x}, d, p, Wireless) + Has(d, p)' + Obj(d, p)
            <= Claims(Ahead(t), d, p, Wireless) + Has(d, p) + Obj(d, p)'
    BY <2>3, <2>4, <2>5, <1>5
  <2>7. TypeInv' /\ ListInv' /\ NodeInv' /\ Owned'
    BY <2>1, <2>2, <2>3, <2>6, <1>2, <1>6, TailCore
  <2>8. ASSUME NEW r \in raw' \ unreached', r \in raw
        PROVE  \E e \in DOMAIN driver' :
                  Switches(Ahead("main")', e, r) + Switches(Ahead("monitor")', e, r) < Obj(e, r)'
    <3>1. Switches(Ahead(t) \ {x}, d, p) + Obj(d, p) <= Switches(Ahead(t), d, p) + Obj(d, p)'
      BY <2>3, <2>4, <1>5
    <3>2. \A e \in DOMAIN driver, q \in Pads : e # d \/ q # p => Obj(e, q)' = Obj(e, q)
      BY <2>3
    <3>3. r \in raw \ unreached
      BY <2>8, <1>6
    <3>4. QED
      BY <3>1, <3>2, <3>3, <2>1, <2>2, <2>3, <2>7, <1>2, TailHeard
  <2>9. \E e \in DOMAIN driver' :
           Switches(Ahead("main")', e, p) + Switches(Ahead("monitor")', e, p) < Obj(e, p)'
    <3>1. PICK u \in Threads : u # t /\ {u, t} = {"main", "monitor"}
      BY DEF Threads
    <3>2. Ahead(t)' = Ahead(t) \ {x} /\ Ahead(u)' = Ahead(u)
      <4>1. ListInv
        BY DEF RawParts
      <4>2. ToSet(Tail(work[t])) = Ahead(t) \ {x}
        BY <4>1, <1>1, WorkFacts
      <4>3. Ahead(t)' = ToSet(Tail(work[t])) /\ Ahead(u)' = Ahead(u)
        BY <3>1, <2>1, <2>3, <1>1, TurnFacts
      <4>4. QED
        BY <4>2, <4>3
    <3>3. Switches(Ahead(u), d, p) < Obj(d, p)
      <4>1. Claims(Ahead(u), d, p, Wireless) < Obj(d, p)
        BY <3>1, <1>2, <1>5, OwnedOf
      <4>2. Switches(Ahead(u), d, p) <= Claims(Ahead(u), d, p, Wireless)
        BY SwitchClaims
      <4>3. Switches(Ahead(u), d, p) \in Int /\ Claims(Ahead(u), d, p, Wireless) \in Int
        BY CountTypes
      <4>4. QED
        BY <4>1, <4>2, <4>3, <1>5
    <3>4. Switches(Ahead(t)', d, p) = 0 /\ Switches(Ahead(u)', d, p) < Obj(d, p)' /\ Switches(Ahead(u)', d, p) \in Int
      BY <3>2, <3>3, <2>3, <2>4, CountTypes
    <3>5. d \in DOMAIN driver'
      BY <2>1, <1>2
    <3>6. CASE t = "main" /\ u = "monitor"
      BY <3>4, <3>5, <3>6
    <3>7. CASE t = "monitor" /\ u = "main"
      BY <3>4, <3>5, <3>7
    <3>8. QED
      BY <3>1, <3>6, <3>7
  <2>10. Heard'
    <3>1. ASSUME NEW r \in raw' \ unreached'
          PROVE  \E e \in DOMAIN driver' :
                    Switches(Ahead("main")', e, r) + Switches(Ahead("monitor")', e, r) < Obj(e, r)'
      <4>1. CASE r \in raw
        BY <4>1, <2>8
      <4>2. CASE r \notin raw
        <5>1. r = p
          BY <4>2, <2>1
        <5>2. QED
          BY <5>1, <2>9
      <4>3. QED
        BY <4>1, <4>2
    <3>2. QED
      BY <3>1 DEF Heard
  <2>11. QED
    BY <2>7, <2>10 DEF RawParts
<1>8. CASE ~Reachable(d, p)
  <2> DEFINE steps == <<Step("unlisten", d, p)>>
             l == steps \o IF driver[d].path \in Receivers THEN SubSeq(work[t], 2 + 1, Len(work[t]))
                           ELSE <<Step("gone", d, NoPad)>> \o EraseNode(driver[d].path)
             H == driver[d].heard
             Y == [driver[d].dying EXCEPT ![p] = @ + 1]
  <2>1. Turns(t, l)
    BY <1>8 DEF Enable, Fail, Turns
  <2>2. Failed(l, t, d, steps, 2)
    BY DEF Failed
  <2>3. Before(steps, d, p)
    BY DEF Before
  <2> HIDE DEF l, steps
  <2>4. driver' = [driver EXCEPT ![d] = [driver[d] EXCEPT !.heard = H, !.dying = Y]]
    BY <1>2, <1>8 DEF Enable, DriverType
  <2>5. Y \in [Pads -> Int] /\ Y[p] = driver[d].dying[p] + 1 /\ \A q \in Pads : q # p => Y[q] = driver[d].dying[q]
    BY <1>2
  <2>6. H \in [Pads -> Int]
    BY <1>2
  <2> HIDE DEF H, Y
  <2>7. /\ driver' \in Seq(DriverType) /\ SamePlaces /\ SameStates
        /\ \A e \in DOMAIN driver : driver'[e].listens = driver[e].listens /\ driver'[e].pads = driver[e].pads
        /\ \A e \in DOMAIN driver, q \in Pads : Obj(e, q)' = IF e = d THEN H[q] - Y[q] ELSE Obj(e, q)
    BY <2>4, <2>5, <2>6, <1>1, <1>2, ObjChange
  <2>8. Obj(d, p)' = Obj(d, p) - 1
    <3>1. Obj(d, p)' = H[p] - Y[p]
      BY <2>7, <1>2
    <3>2. Obj(d, p) = H[p] - driver[d].dying[p]
      BY DEF Obj, H
    <3>3. driver[d].dying[p] \in Int /\ H[p] \in Int /\ Y[p] = driver[d].dying[p] + 1
      BY <2>5, <2>6, <1>2
    <3>4. QED
      BY <3>1, <3>2, <3>3
  <2>9. ASSUME NEW e \in DOMAIN driver, NEW q \in Pads, e # d \/ q # p
        PROVE  Obj(e, q)' = Obj(e, q)
    BY <2>5, <2>7, <2>9 DEF Obj, H
  <2>10. raw' = raw /\ raw' \in SUBSET Pads
    BY <1>1, <1>8 DEF Enable, RawMode, TypeInv
  <2>11. \A i \in 1 .. 2 : work[t][i].driver = d /\ work[t][i].pad = p /\ work[t][i].op \in Building
    <3>1. \A i \in 1 .. 2 : i = 1 \/ i = 2
      OBVIOUS
    <3>2. x.op \in Building /\ Keep(d, p, Wireless).op \in Building
      BY StepFacts, KeepFacts DEF Building
    <3>3. QED
      BY <3>1, <3>2, <1>2, <1>3, StepFacts, KeepFacts
  <2>12. (\E i \in 1 .. 2 : work[t][i] = Keep(d, p, Wireless)) /\ (\E i \in 1 .. 2 : work[t][i] = x)
    BY <1>2, <1>3
  <2>13. Head(work[t]).op \in Building
    BY StepFacts DEF Building
  <2>14. /\ Obj(d, p) <= Claims(Ahead(t), d, p, Wireless) + Obj(d, p)'
         /\ Obj(d, p) <= Switches(Ahead(t), d, p) + Obj(d, p)'
    BY <2>8, <1>5
  <2>15. /\ driver' \in Seq(DriverType) /\ SamePlaces /\ SameStates
         /\ \A e \in DOMAIN driver : driver'[e].listens = driver[e].listens /\ driver'[e].pads = driver[e].pads
         /\ \A e \in DOMAIN driver, q \in Pads : e # d \/ q # p => Obj(e, q)' = Obj(e, q)
    BY <2>7, <2>9
  <2>16. 2 \in 1 .. Len(work[t]) /\ p \in Pads /\ raw' \ unreached' \subseteq raw \ unreached
    BY <2>10, <1>2, <1>3, <1>6
  <2>17. QED
    BY <2>1, <2>2, <2>3, <2>10, <2>11, <2>12, <2>13, <2>14, <2>15, <2>16, <1>6, FailStep
<1>9. QED
  BY <1>7, <1>8

\* ~TouchpadDriver switches raw mode off, or notes that it could not.
LEMMA DisableKeeps ==
  ASSUME RawParts, NEW t \in Threads, Busy(t), NEW d, NEW p, Head(work[t]) = Step("disable", d, p),
         Disable(t, d, p), Around
  PROVE  RawParts'
<1> DEFINE x == Step("disable", d, p)
           H == driver[d].heard
           Y == [driver[d].dying EXCEPT ![p] = @ + 1]
<1>1. TypeInv
  BY DEF RawParts
<1>2. /\ d \in DOMAIN driver /\ p \in Pads /\ driver[d] \in DriverType
      /\ H \in [Pads -> Int] /\ driver[d].dying \in [Pads -> Int] /\ x \in Ahead(t)
  BY HeadFacts
<1>3. UNCHANGED node /\ Turns(t, Tail(work[t]))
  BY DEF Disable, Done, Turns
<1>4. raw' \in SUBSET Pads /\ raw' \ unreached' \subseteq raw \ unreached /\ p \notin raw' \ unreached'
  BY <1>1 DEF Disable, RawMode, TypeInv
<1>5. driver' = [driver EXCEPT ![d] = [driver[d] EXCEPT !.heard = H, !.dying = Y]]
  BY <1>2 DEF Disable, DriverType
<1>6. Y \in [Pads -> Int] /\ Y[p] = driver[d].dying[p] + 1 /\ \A q \in Pads : q # p => Y[q] = driver[d].dying[q]
  BY <1>2
<1> HIDE DEF H, Y
<1>7. /\ driver' \in Seq(DriverType) /\ SamePlaces /\ SameStates
      /\ \A e \in DOMAIN driver : driver'[e].listens = driver[e].listens /\ driver'[e].pads = driver[e].pads
      /\ \A e \in DOMAIN driver, q \in Pads : Obj(e, q)' = IF e = d THEN H[q] - Y[q] ELSE Obj(e, q)
  BY <1>1, <1>2, <1>5, <1>6, ObjChange
<1>8. Obj(d, p)' = Obj(d, p) - 1 /\ Obj(d, p) \in Int
  <2>1. Obj(d, p)' = H[p] - Y[p]
    BY <1>2, <1>7
  <2>2. Obj(d, p) = H[p] - driver[d].dying[p]
    BY DEF Obj, H
  <2>3. driver[d].dying[p] \in Int /\ H[p] \in Int /\ Y[p] = driver[d].dying[p] + 1
    BY <1>2, <1>6
  <2>4. QED
    BY <2>1, <2>2, <2>3
<1>9. ASSUME NEW e \in DOMAIN driver, NEW q \in Pads, e # d \/ q # p
      PROVE  Obj(e, q)' = Obj(e, q)
  BY <1>6, <1>7, <1>9 DEF Obj, H
<1>10. /\ Claims(Ahead(t), d, p, Wireless) = Claims(Ahead(t) \ {x}, d, p, Wireless) + 1
       /\ Claims(Ahead(t) \ {x}, d, p, Wireless) \in Int
  <2>1. /\ Step("listen", d, p) \in Ahead(t) \ {x} <=> Step("listen", d, p) \in Ahead(t)
        /\ Keep(d, p, Wireless) \in Ahead(t) \ {x} <=> Keep(d, p, Wireless) \in Ahead(t)
    BY StepFacts, KeepFacts
  <2>2. QED
    BY <2>1, <1>2 DEF Claims, One
<1>11. Has(d, p)' <= Has(d, p) /\ Has(d, p) \in {0, 1} /\ Has(d, p)' \in {0, 1}
  <2>1. Head(work[t]).op # "gone"
    BY StepFacts
  <2>2. Has(d, p) \in {0, 1} /\ Has(d, p)' \in {0, 1}
    BY DEF Has, One
  <2>3. QED
    BY <2>1, <2>2, <1>2, <1>3, <1>7, HasTail
<1>12. Claims(Ahead(t) \ {x}, d, p, Wireless) + Has(d, p)' + Obj(d, p)
          <= Claims(Ahead(t), d, p, Wireless) + Has(d, p) + Obj(d, p)'
  BY <1>8, <1>10, <1>11
<1>13. \A e \in DOMAIN driver, q \in Pads : e # d \/ q # p =>
          Obj(e, q)' = Obj(e, q) /\ (q \in driver'[e].pads => q \in driver[e].pads)
  BY <1>7, <1>9
<1> HIDE DEF x
<1>14. /\ driver' \in Seq(DriverType) /\ SamePlaces /\ SameStates
       /\ \A e \in DOMAIN driver : driver'[e].listens \subseteq driver[e].listens \/ e \in Wireless
  BY <1>7
<1>15. TypeInv' /\ ListInv' /\ NodeInv' /\ Owned'
  <2>1. "disable" # "gone" /\ p \in Pads
    BY <1>2
  <2>2. QED
    BY <2>1, <1>3, <1>4, <1>12, <1>13, <1>14, TailCore DEF x
<1>16. Heard'
  BY <1>2, <1>3, <1>4, <1>9, <1>14, <1>15, TailKept
<1>17. QED
  BY <1>15, <1>16 DEF RawParts

\* A step that no account is about.
LEMMA PlainTail ==
  ASSUME RawParts, NEW t \in Threads, Busy(t), NEW op \in {"probe", "unlisten", "addEvent", "erase"},
         NEW d, NEW p, Head(work[t]) = Step(op, d, p),
         Turns(t, Tail(work[t])), Around, UNCHANGED <<node, raw, unreached>>,
         driver' \in Seq(DriverType), SamePlaces, SameStates,
         \A e \in DOMAIN driver : driver'[e].listens \subseteq driver[e].listens \/ e \in Wireless,
         \A e \in DOMAIN driver, q \in Pads :
            Obj(e, q)' = Obj(e, q) /\ (q \in driver'[e].pads => q \in driver[e].pads)
  PROVE  RawParts'
<1> DEFINE x == Step(op, d, p)
<1>1. TypeInv /\ d \in DOMAIN driver /\ p \in Pads /\ op # "gone" /\ UNCHANGED node
  BY HeadFacts DEF RawParts
<1>2. /\ Claims(Ahead(t) \ {x}, d, p, Wireless) = Claims(Ahead(t), d, p, Wireless)
      /\ Switches(Ahead(t) \ {x}, d, p) = Switches(Ahead(t), d, p)
  <2>1. \A y \in Counted(d, p, Wireless) : y \in Ahead(t) <=> y \in Ahead(t) \ {x}
    BY CountedFacts, StepFacts
  <2>2. QED
    BY <2>1, SameCounts
<1>3. Has(d, p)' <= Has(d, p) /\ Has(d, p) \in {0, 1} /\ Has(d, p)' \in {0, 1}
  <2>1. Head(work[t]).op # "gone"
    BY <1>1, StepFacts
  <2>2. Has(d, p) \in {0, 1} /\ Has(d, p)' \in {0, 1}
    BY DEF Has, One
  <2>3. QED
    BY <2>1, <2>2, <1>1, HasTail
<1>4. /\ Obj(d, p)' = Obj(d, p) /\ Obj(d, p) \in Int
      /\ Claims(Ahead(t), d, p, Wireless) \in Int /\ Switches(Ahead(t), d, p) \in Int
  BY <1>1, ObjTypes, CountTypes
<1>5. Claims(Ahead(t) \ {x}, d, p, Wireless) + Has(d, p)' + Obj(d, p)
         <= Claims(Ahead(t), d, p, Wireless) + Has(d, p) + Obj(d, p)'
  BY <1>2, <1>3, <1>4
<1>6. Switches(Ahead(t) \ {x}, d, p) + Obj(d, p) <= Switches(Ahead(t), d, p) + Obj(d, p)'
  BY <1>2, <1>4
<1>7. raw' \in SUBSET Pads /\ raw' \ unreached' \subseteq raw \ unreached
  BY <1>1 DEF TypeInv
<1>8. \A e \in DOMAIN driver, q \in Pads : e # d \/ q # p =>
         Obj(e, q)' = Obj(e, q) /\ (q \in driver'[e].pads => q \in driver[e].pads)
  OBVIOUS
<1> HIDE DEF x
<1>9. TypeInv' /\ ListInv' /\ NodeInv' /\ Owned'
  BY <1>1, <1>5, <1>7, <1>8, TailCore DEF x
<1>10. Heard'
  BY <1>1, <1>6, <1>7, <1>8, <1>9, TailKept DEF x
<1>11. QED
  BY <1>9, <1>10 DEF RawParts

\* ~Driver removes the handler that was owed to this step.
LEMMA UnlistenKeeps ==
  ASSUME RawParts, NEW t \in Threads, Busy(t), NEW d, NEW p, Head(work[t]) = Step("unlisten", d, p),
         Unlisten(t, d, p), Around
  PROVE  RawParts'
<1> DEFINE h == driver[d].heard
           y == driver[d].dying
           H == [h EXCEPT ![p] = @ - 1]
           Y == [y EXCEPT ![p] = @ - 1]
<1>1. TypeInv
  BY DEF RawParts
<1>2. /\ d \in DOMAIN driver /\ p \in Pads /\ driver[d] \in DriverType
      /\ h \in [Pads -> Int] /\ y \in [Pads -> Int]
  BY HeadFacts
<1>3. UNCHANGED <<node, raw, unreached>> /\ Turns(t, Tail(work[t]))
  BY DEF Unlisten, Done, Turns, effects
<1>4. driver' = [driver EXCEPT ![d] = [driver[d] EXCEPT !.heard = H, !.dying = Y]]
  BY <1>2 DEF Unlisten, DriverType
<1>5. H \in [Pads -> Int] /\ Y \in [Pads -> Int] /\ \A q \in Pads : H[q] - Y[q] = h[q] - y[q]
  <2> HIDE DEF h, y
  <2>1. H \in [Pads -> Int] /\ Y \in [Pads -> Int]
    BY <1>2
  <2>2. ASSUME NEW q \in Pads
        PROVE  H[q] - Y[q] = h[q] - y[q]
    <3>1. h[q] \in Int /\ y[q] \in Int
      BY <1>2
    <3>2. IF q = p THEN H[q] = h[q] - 1 /\ Y[q] = y[q] - 1 ELSE H[q] = h[q] /\ Y[q] = y[q]
      BY <1>2
    <3>3. QED
      BY <3>1, <3>2
  <2>3. QED
    BY <2>1, <2>2
<1> HIDE DEF H, Y
<1>6. /\ driver' \in Seq(DriverType) /\ SamePlaces /\ SameStates
      /\ \A e \in DOMAIN driver : driver'[e].listens = driver[e].listens /\ driver'[e].pads = driver[e].pads
      /\ \A e \in DOMAIN driver, q \in Pads : Obj(e, q)' = IF e = d THEN H[q] - Y[q] ELSE Obj(e, q)
  BY <1>1, <1>2, <1>4, <1>5, ObjChange
<1>7. ASSUME NEW e \in DOMAIN driver, NEW q \in Pads
      PROVE  Obj(e, q)' = Obj(e, q)
  BY <1>5, <1>6 DEF Obj
<1>8. \A e \in DOMAIN driver : driver'[e].listens \subseteq driver[e].listens \/ e \in Wireless
  BY <1>6
<1>9. \A e \in DOMAIN driver, q \in Pads :
         Obj(e, q)' = Obj(e, q) /\ (q \in driver'[e].pads => q \in driver[e].pads)
  BY <1>6, <1>7
<1>10. driver' \in Seq(DriverType) /\ SamePlaces /\ SameStates
  BY <1>6
<1> HIDE DEF h, y
<1>11. QED
  BY <1>3, <1>8, <1>9, <1>10, PlainTail

\* A driver of which only what it has or listens to is changed.
LEMMA PartChange ==
  ASSUME TypeInv, NEW d \in DOMAIN driver, NEW P \in SUBSET Pads, NEW L \in SUBSET Pads,
         driver' = [driver EXCEPT ![d] = [driver[d] EXCEPT !.pads = P, !.listens = L]]
  PROVE  /\ driver' \in Seq(DriverType) /\ SamePlaces /\ SameStates
         /\ driver'[d].pads = P /\ driver'[d].listens = L
         /\ \A e \in DOMAIN driver : e # d =>
               driver'[e].listens = driver[e].listens /\ driver'[e].pads = driver[e].pads
         /\ \A e \in DOMAIN driver : \A q : Obj(e, q)' = Obj(e, q)
<1> DEFINE r == [driver[d] EXCEPT !.pads = P, !.listens = L]
<1>1. driver[d] \in DriverType
  BY ObjTypes
<1>2. r \in DriverType
  BY <1>1 DEF DriverType
<1>3. /\ r.pads = P /\ r.listens = L /\ r.path = driver[d].path /\ r.state = driver[d].state
      /\ r.heard = driver[d].heard /\ r.dying = driver[d].dying
  BY <1>1 DEF DriverType
<1>4. driver' = [driver EXCEPT ![d] = r]
  OBVIOUS
<1> HIDE DEF r
<1>5. /\ driver' \in Seq(DriverType) /\ DOMAIN driver' = DOMAIN driver
      /\ driver'[d] = r /\ \A e \in DOMAIN driver : e # d => driver'[e] = driver[e]
  BY <1>2, <1>4, DriverChange
<1>6. SamePlaces /\ SameStates
  BY <1>3, <1>5 DEF SamePlaces, SameStates
<1>7. \A e \in DOMAIN driver : \A q : Obj(e, q)' = Obj(e, q)
  BY <1>3, <1>5 DEF Obj
<1>8. QED
  BY <1>3, <1>5, <1>6, <1>7

\* A receiver's driver listens for a touchpad.
LEMMA AddEventKeeps ==
  ASSUME RawParts, NEW t \in Threads, Busy(t), NEW d, NEW p, Head(work[t]) = Step("addEvent", d, p),
         AddEvent(t, d, p), Around
  PROVE  RawParts'
<1>1. TypeInv
  BY DEF RawParts
<1>2. d \in DOMAIN driver /\ p \in Pads /\ driver[d] \in DriverType /\ d \in Wireless
  BY HeadFacts
<1>3. UNCHANGED <<node, raw, unreached>> /\ Turns(t, Tail(work[t]))
  BY DEF AddEvent, Done, Turns, effects
<1> DEFINE P == driver[d].pads
           L == driver[d].listens \cup {p}
<1>4. driver' = [driver EXCEPT ![d] = [driver[d] EXCEPT !.pads = P, !.listens = L]]
  BY <1>2 DEF AddEvent, DriverType
<1>5. P \in SUBSET Pads /\ L \in SUBSET Pads
  BY <1>2 DEF DriverType
<1> HIDE DEF L, P
<1>6. /\ driver' \in Seq(DriverType) /\ SamePlaces /\ SameStates
      /\ driver'[d].pads = P /\ driver'[d].listens = L
      /\ \A e \in DOMAIN driver : e # d =>
            driver'[e].listens = driver[e].listens /\ driver'[e].pads = driver[e].pads
      /\ \A e \in DOMAIN driver : \A q : Obj(e, q)' = Obj(e, q)
  BY <1>1, <1>2, <1>4, <1>5, PartChange
<1>7. \A e \in DOMAIN driver : driver'[e].listens \subseteq driver[e].listens \/ e \in Wireless
  BY <1>2, <1>6
<1>8. \A e \in DOMAIN driver, q \in Pads :
         Obj(e, q)' = Obj(e, q) /\ (q \in driver'[e].pads => q \in driver[e].pads)
  BY <1>6 DEF P
<1>9. driver' \in Seq(DriverType) /\ SamePlaces /\ SameStates
  BY <1>6
<1>10. QED
  BY <1>3, <1>7, <1>8, <1>9, PlainTail

\* An object that is destroyed where it would have been kept, or by a task.
LEMMA TakeApart ==
  ASSUME RawParts, NEW t \in Threads, Busy(t), NEW op \in {"emplace", "erase"}, NEW d, NEW p,
         Head(work[t]) = Step(op, d, p)
  PROVE  LET l == Destruction(d, p) \o Tail(work[t])
         IN  /\ Shape(l, Wireless) /\ Opens(l)
             /\ ToSet(l) = {Step("disable", d, p), Step("unlisten", d, p)} \cup (Ahead(t) \ {Step(op, d, p)})
             /\ \A x \in Ahead(t) : x.op \in Building
<1> DEFINE u == Destruction(d, p)
           s == Tail(work[t])
<1>1. /\ d \in DOMAIN driver /\ p \in Pads /\ d \in Nat \ {0}
      /\ Shape(work[t], Wireless) /\ work[t] # <<>>
  BY HeadFacts
<1>2. /\ Shape(u, Wireless) /\ ToSet(u) = {Step("disable", d, p), Step("unlisten", d, p)}
      /\ Opens(u) /\ Only(u, {"disable", "unlisten"})
  BY <1>1, DestructionShape
<1>3. Head(work[t]).op \in Building
  BY StepFacts DEF Building
<1>4. Shape(s, Wireless) /\ ToSet(s) = Ahead(t) \ {Step(op, d, p)}
  BY WorkFacts DEF RawParts
<1>5. Only(s, Building) /\ Only(work[t], Building)
  BY <1>1, <1>3, AllBuilding
<1> HIDE DEF s, u
<1>6. Opens(s)
  <2>1. s \in Seq(StepType)
    BY <1>4 DEF Shape
  <2>2. s # <<>> => 1 \in DOMAIN s
    BY <2>1
  <2>3. QED
    BY <2>2, <1>5 DEF Opens, Only, Building
<1>7. Only(u, Undoing)
  BY <1>2 DEF Only, Undoing
<1>8. Apart(u, s)
  <2>1. \A x \in ToSet(u) : x.op \in {"disable", "unlisten"}
    BY <1>2, OnlySet
  <2>2. \A y \in ToSet(s) : y.op \in Building
    BY <1>5, OnlySet
  <2>3. \A x \in ToSet(u), y \in ToSet(s) : x # y /\ (x.op = "gone" => y.driver # x.driver)
    BY <2>1, <2>2 DEF Building
  <2>4. QED
    BY <2>3, ApartSets
<1>9. Shape(u \o s, Wireless) /\ ToSet(u \o s) = ToSet(u) \cup ToSet(s) /\ Opens(u \o s)
  BY <1>2, <1>4, <1>6, <1>7, <1>8, ConcatFacts
<1>10. \A x \in Ahead(t) : x.op \in Building
  BY <1>5, OnlySet DEF Ahead
<1>11. QED
  BY <1>2, <1>4, <1>9, <1>10 DEF u, s

\* A touchpad's driver is taken out of the map and is to be destroyed.
LEMMA TakeStep ==
  ASSUME RawParts, NEW t \in Threads, Busy(t), NEW op \in {"emplace", "erase"}, NEW d, NEW p,
         Head(work[t]) = Step(op, d, p), Turns(t, Destruction(d, p) \o Tail(work[t])),
         Around, UNCHANGED <<node, raw, unreached>>,
         driver' \in Seq(DriverType), SamePlaces, SameStates,
         \A e \in DOMAIN driver : driver'[e].listens = driver[e].listens,
         \A e \in DOMAIN driver, q \in Pads :
            Obj(e, q)' = Obj(e, q) /\ (q \in driver'[e].pads => q \in driver[e].pads),
         op = "erase" => p \in driver[d].pads \ driver'[d].pads /\ ~Doomed(d)
  PROVE  RawParts'
<1> DEFINE x == Step(op, d, p)
           l == Destruction(d, p) \o Tail(work[t])
           di == Step("disable", d, p)
           un == Step("unlisten", d, p)
           B == {di, un} \cup (Ahead(t) \ {x})
<1>1. TypeInv /\ ListInv /\ Owned /\ Heard /\ UNCHANGED node /\ UNCHANGED raw /\ UNCHANGED unreached
  BY DEF RawParts
<1>2. d \in DOMAIN driver /\ p \in Pads /\ d \in Wireless /\ x \in Ahead(t)
      /\ Shape(work[t], Wireless) /\ work[t] # <<>>
  BY HeadFacts
<1>3. Shape(l, Wireless) /\ ToSet(l) = B /\ \A y \in Ahead(t) : y.op \in Building
  BY TakeApart
<1>4. /\ x.op = op /\ x.driver = d /\ x.pad = p
      /\ di.op = "disable" /\ di.driver = d /\ di.pad = p
      /\ un.op = "unlisten" /\ un.driver = d /\ un.pad = p
  BY StepFacts
<1>5. Turns(t, l)
  OBVIOUS
<1> HIDE DEF x, l, di, un
<1>6. TypeInv' /\ ListInv' /\ NodeInv'
  <2>1. \A y \in ToSet(l) :
            \/ y \in Ahead(t)
            \/ /\ y.op \in Undoing /\ y.driver \in DOMAIN driver
               /\ y.op = "gone" => (t = "main" => scan = "done") /\ y.driver \notin Wireless
    BY <1>2, <1>3, <1>4 DEF Undoing
  <2>2. raw' \in SUBSET Pads
    BY <1>1 DEF TypeInv
  <2>3. \A e \in DOMAIN driver : driver'[e].listens \subseteq driver[e].listens \/ e \in Wireless
    OBVIOUS
  <2>4. QED
    BY <2>1, <2>2, <2>3, <1>1, <1>3, <1>5, CoreStep
<1>7. ASSUME NEW e \in DOMAIN driver, NEW q \in Pads
      PROVE  /\ Has(e, q)' <= Has(e, q) /\ Has(e, q) \in {0, 1} /\ Has(e, q)' \in {0, 1}
             /\ Obj(e, q)' = Obj(e, q) /\ Obj(e, q) \in Int
  <2>1. \A r \in Pads \cup {NoPad} : Step("gone", e, r) \notin Ahead(t)
    BY <1>3, StepFacts, Kinds DEF Undoing
  <2>2. driver'[e].state = driver[e].state
    BY DEF SameStates
  <2>3. Doomed(e) => Doomed(e)'
    BY <2>1, <2>2, <1>1, <1>5, DoomedStays
  <2>4. q \in driver'[e].pads => q \in driver[e].pads
    OBVIOUS
  <2>5. Has(e, q)' <= Has(e, q)
    BY <2>3, <2>4, HasStays
  <2>6. Has(e, q) \in {0, 1} /\ Has(e, q)' \in {0, 1}
    BY DEF Has, One
  <2>7. Obj(e, q) \in Int
    BY <1>1, ObjTypes
  <2>8. QED
    BY <2>5, <2>6, <2>7
<1>8. ASSUME NEW e, NEW q, e # d \/ q # p
      PROVE  /\ Claims(B, e, q, Wireless) = Claims(Ahead(t), e, q, Wireless)
             /\ Switches(B, e, q) = Switches(Ahead(t), e, q)
  <2>1. \A y \in Counted(e, q, Wireless) : y # x /\ y # di /\ y # un
    BY <1>4, <1>8, CountedFacts
  <2>2. \A y \in Counted(e, q, Wireless) : y \in Ahead(t) <=> y \in B
    BY <2>1
  <2>3. QED
    BY <2>2, SameCounts
<1>9. /\ Step("enable", d, p) \in B <=> Step("enable", d, p) \in Ahead(t)
      /\ Step("listen", d, p) \in B <=> Step("listen", d, p) \in Ahead(t)
  BY <1>4, StepFacts
<1>10. Switches(B, d, p) = Switches(Ahead(t), d, p)
  BY <1>9 DEF Switches
<1>11. Claims(B, d, p, Wireless) + Has(d, p)' <= Claims(Ahead(t), d, p, Wireless) + Has(d, p)
  <2>1. Claims(B, d, p, Wireless) \in Int /\ Claims(Ahead(t), d, p, Wireless) \in Int
    BY CountTypes
  <2>2. Has(d, p)' <= Has(d, p) /\ Has(d, p) \in {0, 1} /\ Has(d, p)' \in {0, 1}
    BY <1>2, <1>7
  <2>3. CASE op = "emplace"
    <3>1. x = Keep(d, p, Wireless)
      BY <2>3, <1>2 DEF x, Keep
    <3>2. Step("listen", d, p) \notin Ahead(t)
      <4>1. Head(work[t]) = Keep(d, p, Wireless)
        BY <3>1 DEF x
      <4>2. QED
        BY <4>1, <1>2, AlreadyThere DEF Ahead
    <3>3. Claims(Ahead(t), d, p, Wireless) >= 1
      BY <3>1, <3>2, <1>2 DEF Claims, One
    <3>4. x \notin B
      BY <2>3, <1>4
    <3>5. Claims(B, d, p, Wireless) <= 1
      BY <3>1, <3>4 DEF Claims, One
    <3>6. QED
      BY <3>3, <3>5, <2>1, <2>2
  <2>4. CASE op = "erase"
    <3>1. Has(d, p) = 1 /\ Has(d, p)' = 0
      BY <2>4 DEF Has, One
    <3>2. Keep(d, p, Wireless) \in B <=> Keep(d, p, Wireless) \in Ahead(t)
      BY <2>4, <1>4, KeepFacts
    <3>3. Claims(B, d, p, Wireless) <= Claims(Ahead(t), d, p, Wireless) + 1
      BY <3>2, <1>9 DEF Claims, One
    <3>4. QED
      BY <3>1, <3>3, <2>1
  <2>5. QED
    BY <2>3, <2>4
<1> HIDE DEF B
<1>12. ASSUME NEW e \in DOMAIN driver, NEW q \in Pads
       PROVE  /\ Claims(ToSet(l), e, q, Wireless) + Has(e, q)' + Obj(e, q)
                  <= Claims(Ahead(t), e, q, Wireless) + Has(e, q) + Obj(e, q)'
              /\ Switches(ToSet(l), e, q) + Obj(e, q) <= Switches(Ahead(t), e, q) + Obj(e, q)'
  <2>1. /\ Has(e, q)' <= Has(e, q) /\ Has(e, q) \in Int /\ Has(e, q)' \in Int
        /\ Obj(e, q)' = Obj(e, q) /\ Obj(e, q) \in Int
    BY <1>7
  <2>2. /\ Claims(B, e, q, Wireless) \in Int /\ Claims(Ahead(t), e, q, Wireless) \in Int
        /\ Switches(B, e, q) \in Int /\ Switches(Ahead(t), e, q) \in Int
    BY CountTypes
  <2>3. /\ Claims(B, e, q, Wireless) + Has(e, q)' <= Claims(Ahead(t), e, q, Wireless) + Has(e, q)
        /\ Switches(B, e, q) = Switches(Ahead(t), e, q)
    <3>1. CASE e = d /\ q = p
      BY <3>1, <1>10, <1>11
    <3>2. CASE e # d \/ q # p
      BY <3>2, <1>8, <2>1, <2>2
    <3>3. QED
      BY <3>1, <3>2
  <2>4. QED
    BY <2>1, <2>2, <2>3, <1>3
<1>13. Owned'
  BY <1>1, <1>5, <1>6, <1>12, OwnedStep
<1>14. Heard'
  <2>1. raw' \ unreached' \subseteq raw \ unreached
    BY <1>1
  <2>2. \A r \in raw' \ unreached', e \in DOMAIN driver :
            Switches(ToSet(l), e, r) + Obj(e, r) <= Switches(Ahead(t), e, r) + Obj(e, r)'
    <3>1. raw' \subseteq Pads
      BY <1>1 DEF TypeInv
    <3>2. QED
      BY <3>1, <1>12
  <2>3. QED
    BY <2>1, <2>2, <1>1, <1>5, <1>6, HeardKept
<1>15. QED
  BY <1>6, <1>13, <1>14 DEF RawParts

\* A new object enters the map, or is destroyed because the key is there.
LEMMA EmplaceKeeps ==
  ASSUME RawParts, NEW t \in Threads, Busy(t), NEW d, NEW p, Head(work[t]) = Step("emplace", d, p),
         Emplace(t, d, p), Around
  PROVE  RawParts'
<1> DEFINE x == Step("emplace", d, p)
<1>1. TypeInv
  BY DEF RawParts
<1>2. d \in DOMAIN driver /\ p \in Pads /\ driver[d] \in DriverType /\ d \in Wireless /\ x \in Ahead(t)
      /\ Shape(work[t], Wireless) /\ work[t] # <<>>
  BY HeadFacts
<1>3. UNCHANGED <<node, raw, unreached>>
  BY DEF Emplace
<1>4. CASE p \in driver[d].pads
  <2>1. Turns(t, Destruction(d, p) \o Tail(work[t])) /\ UNCHANGED driver
    BY <1>4 DEF Emplace, Turns
  <2>2. /\ driver' \in Seq(DriverType) /\ SamePlaces /\ SameStates
        /\ \A e \in DOMAIN driver : driver'[e].listens = driver[e].listens /\ driver'[e].pads = driver[e].pads
        /\ \A e, q : Obj(e, q)' = Obj(e, q)
    BY <2>1, <1>1, SameDrivers
  <2>3. \A e \in DOMAIN driver : driver'[e].listens = driver[e].listens
    BY <2>2
  <2>4. \A e \in DOMAIN driver, q \in Pads :
            Obj(e, q)' = Obj(e, q) /\ (q \in driver'[e].pads => q \in driver[e].pads)
    BY <2>2
  <2>5. driver' \in Seq(DriverType) /\ SamePlaces /\ SameStates
    BY <2>2
  <2>6. Turns(t, Destruction(d, p) \o Tail(work[t]))
    BY <2>1
  <2>7. QED
    BY <2>3, <2>4, <2>5, <2>6, <1>3, TakeStep
<1>5. CASE p \notin driver[d].pads
  <2> DEFINE P == driver[d].pads \cup {p}
             L == driver[d].listens
  <2>1. Turns(t, Tail(work[t])) /\ driver' = [driver EXCEPT ![d] = [driver[d] EXCEPT !.pads = P, !.listens = L]]
    BY <1>2, <1>5 DEF Emplace, Done, Turns, DriverType
  <2>2. P \in SUBSET Pads /\ L \in SUBSET Pads
    BY <1>2 DEF DriverType
  <2> HIDE DEF P, L
  <2>3. /\ driver' \in Seq(DriverType) /\ SamePlaces /\ SameStates
        /\ driver'[d].pads = P /\ driver'[d].listens = L
        /\ \A e \in DOMAIN driver : e # d =>
              driver'[e].listens = driver[e].listens /\ driver'[e].pads = driver[e].pads
        /\ \A e \in DOMAIN driver : \A q : Obj(e, q)' = Obj(e, q)
    BY <2>1, <2>2, <1>1, <1>2, PartChange
  <2>4. x = Keep(d, p, Wireless)
    BY <1>2 DEF Keep
  <2>5. Step("listen", d, p) \notin Ahead(t)
    <3>1. Head(work[t]) = Keep(d, p, Wireless)
      BY <2>4
    <3>2. QED
      BY <3>1, <1>2, AlreadyThere DEF Ahead
  <2>6. /\ Claims(Ahead(t), d, p, Wireless) = Claims(Ahead(t) \ {x}, d, p, Wireless) + 1
        /\ Claims(Ahead(t) \ {x}, d, p, Wireless) \in Int
    <3>1. Step("disable", d, p) \in Ahead(t) \ {x} <=> Step("disable", d, p) \in Ahead(t)
      BY StepFacts
    <3>2. QED
      BY <2>4, <2>5, <3>1, <1>2 DEF Claims, One
  <2>7. Switches(Ahead(t) \ {x}, d, p) = Switches(Ahead(t), d, p) /\ Switches(Ahead(t), d, p) \in Int
    <3>1. /\ Step("enable", d, p) \in Ahead(t) \ {x} <=> Step("enable", d, p) \in Ahead(t)
          /\ Step("listen", d, p) \in Ahead(t) \ {x} <=> Step("listen", d, p) \in Ahead(t)
      BY StepFacts
    <3>2. QED
      BY <3>1, CountTypes DEF Switches
  <2>8. Has(d, p) \in {0, 1} /\ Has(d, p)' \in {0, 1} /\ Obj(d, p)' = Obj(d, p) /\ Obj(d, p) \in Int
    BY <2>3, <1>1, <1>2, ObjTypes DEF Has, One
  <2> HIDE DEF x
  <2>9. Claims(Ahead(t) \ {x}, d, p, Wireless) + Has(d, p)' + Obj(d, p)
            <= Claims(Ahead(t), d, p, Wireless) + Has(d, p) + Obj(d, p)'
    BY <2>6, <2>8
  <2>10. Switches(Ahead(t) \ {x}, d, p) + Obj(d, p) <= Switches(Ahead(t), d, p) + Obj(d, p)'
    BY <2>7, <2>8
  <2>11. \A e \in DOMAIN driver, q \in Pads : e # d \/ q # p =>
            Obj(e, q)' = Obj(e, q) /\ (q \in driver'[e].pads => q \in driver[e].pads)
    BY <2>3 DEF P
  <2>12. driver' \in Seq(DriverType) /\ SamePlaces /\ SameStates
         /\ \A e \in DOMAIN driver : driver'[e].listens \subseteq driver[e].listens \/ e \in Wireless
    BY <2>3 DEF L
  <2>13. raw' \in SUBSET Pads /\ raw' \ unreached' \subseteq raw \ unreached /\ UNCHANGED node
    BY <1>1, <1>3 DEF TypeInv
  <2>14. "emplace" # "gone" /\ Turns(t, Tail(work[t])) /\ p \in Pads
    BY <2>1, <1>2
  <2>15. TypeInv' /\ ListInv' /\ NodeInv' /\ Owned'
    BY <2>9, <2>11, <2>12, <2>13, <2>14, TailCore DEF x
  <2>16. Heard'
    BY <2>10, <2>11, <2>12, <2>13, <2>14, <2>15, TailKept DEF x
  <2>17. QED
    BY <2>15, <2>16 DEF RawParts
<1>6. QED
  BY <1>4, <1>5

\* An object leaves the map and is to be destroyed.
LEMMA EraseKeeps ==
  ASSUME RawParts, NEW t \in Threads, Busy(t), NEW d, NEW p, Head(work[t]) = Step("erase", d, p),
         Usable(t, d), Erase(t, d, p), Around
  PROVE  RawParts'
<1>1. TypeInv /\ ListInv /\ NodeInv
  BY DEF RawParts
<1>2. d \in DOMAIN driver /\ p \in Pads /\ driver[d] \in DriverType /\ d \in Wireless
      /\ Step("erase", d, p) \in Ahead(t)
  BY HeadFacts
<1>3. UNCHANGED <<node, raw, unreached>>
  BY DEF Erase, effects
<1>4. t = "main"
  BY <1>1, <1>2, StepFacts DEF ListInv, Threads
<1>5. scan # "done"
  <2>1. Step("erase", d, p).op = "erase"
    BY StepFacts
  <2>2. QED
    BY <2>1, <1>1, <1>2, <1>4 DEF ListInv, Undoing
<1>6. ~Doomed(d)
  <2>1. driver[d].state \notin {"dying", "gone"}
    BY <1>4, <1>5 DEF Usable, Destroyer
  <2>2. QED
    BY <2>1, <1>1, <1>2 DEF NodeInv
<1> DEFINE P == driver[d].pads \ {p}
           L == driver[d].listens
<1>7. driver' = [driver EXCEPT ![d] = [driver[d] EXCEPT !.pads = P, !.listens = L]]
  BY <1>2 DEF Erase, DriverType
<1>8. P \in SUBSET Pads /\ L \in SUBSET Pads
  BY <1>2 DEF DriverType
<1> HIDE DEF P, L
<1>9. /\ driver' \in Seq(DriverType) /\ SamePlaces /\ SameStates
      /\ driver'[d].pads = P /\ driver'[d].listens = L
      /\ \A e \in DOMAIN driver : e # d =>
            driver'[e].listens = driver[e].listens /\ driver'[e].pads = driver[e].pads
      /\ \A e \in DOMAIN driver : \A q : Obj(e, q)' = Obj(e, q)
  BY <1>1, <1>2, <1>7, <1>8, PartChange
<1>10. \A e \in DOMAIN driver : driver'[e].listens = driver[e].listens
  BY <1>9 DEF L
<1>11. \A e \in DOMAIN driver, q \in Pads :
          Obj(e, q)' = Obj(e, q) /\ (q \in driver'[e].pads => q \in driver[e].pads)
  BY <1>9 DEF P
<1>12. driver' \in Seq(DriverType) /\ SamePlaces /\ SameStates
  BY <1>9
<1>13. CASE p \in driver[d].pads
  <2>1. Turns(t, Destruction(d, p) \o Tail(work[t]))
    BY <1>13 DEF Erase, Turns
  <2>2. p \in driver[d].pads \ driver'[d].pads
    BY <1>9, <1>13 DEF P
  <2>3. QED
    BY <2>1, <2>2, <1>3, <1>6, <1>10, <1>11, <1>12, TakeStep
<1>14. CASE p \notin driver[d].pads
  <2>1. Tail(work[t]) \in Seq(StepType)
    BY <1>1, WorkFacts DEF Shape
  <2>2. <<>> \o Tail(work[t]) = Tail(work[t])
    BY <2>1
  <2>3. Turns(t, Tail(work[t]))
    BY <2>2, <1>14 DEF Erase, Turns
  <2>4. \A e \in DOMAIN driver : driver'[e].listens \subseteq driver[e].listens \/ e \in Wireless
    BY <1>10
  <2>5. QED
    BY <2>3, <2>4, <1>3, <1>11, <1>12, PlainTail
<1>15. QED
  BY <1>13, <1>14

\* The list that destroys driver c, or no driver.
LEMMA TearCounts ==
  ASSUME TypeInv, NEW c \in Nat, c # 0 => c \in DOMAIN driver, NEW e, NEW q, NEW W
  PROVE  /\ Claims(ToSet(DestroyDriver(c)), e, q, W) <= 1
         /\ ~(e = c /\ c # 0 /\ q \in driver[c].pads) => Claims(ToSet(DestroyDriver(c)), e, q, W) = 0
         /\ Switches(ToSet(DestroyDriver(c)), e, q) = 0
<1> DEFINE B == ToSet(DestroyDriver(c))
<1>1. \A x : x \in B <=>
         /\ c # 0
         /\ \/ \E r \in driver[c].pads : x \in {Step("disable", c, r), Step("unlisten", c, r)}
            \/ x = Step("gone", c, NoPad)
  <2>1. c # 0 => driver[c].pads \in SUBSET Pads
    BY ObjTypes DEF DriverType
  <2>2. QED
    BY <2>1, DestroyShape
<1> HIDE DEF B
<1>2. \A y \in Counted(e, q, W) : y \in B => y.op = "disable" /\ e = c /\ c # 0 /\ q \in driver[c].pads
  <2>1. TAKE y \in Counted(e, q, W)
  <2>2. y.driver = e /\ y.pad = q /\ y.op \in {"disable", "listen", "enable", "emplace", "adopt"}
    BY CountedFacts
  <2>3. QED
    BY <2>2, <1>1, StepFacts
<1>3. Step("enable", e, q) \notin B /\ Keep(e, q, W) \notin B
  <2>1. Step("enable", e, q) \in Counted(e, q, W) /\ Keep(e, q, W) \in Counted(e, q, W)
    BY DEF Counted
  <2>2. Step("enable", e, q).op # "disable" /\ Keep(e, q, W).op # "disable"
    BY StepFacts, KeepFacts
  <2>3. QED
    BY <2>1, <2>2, <1>2
<1>4. Claims(B, e, q, W) <= 1 /\ Switches(B, e, q) = 0
  BY <1>3 DEF Claims, Switches, One
<1>5. ASSUME ~(e = c /\ c # 0 /\ q \in driver[c].pads)
      PROVE  Claims(B, e, q, W) = 0
  <2>1. Step("disable", e, q) \notin B
    BY <1>2, <1>5 DEF Counted
  <2>2. QED
    BY <2>1, <1>3, NoCounts
<1>6. QED
  BY <1>4, <1>5 DEF B

\* A function on 1 .. n is a sequence.
LEMMA FunctionSeq ==
  ASSUME NEW n \in Nat, NEW S, NEW f \in [1 .. n -> S]
  PROVE  f \in Seq(S) /\ DOMAIN f = 1 .. n /\ Len(f) = n
<1>1. f = [i \in 1 .. n |-> f[i]]
  OBVIOUS
<1>2. \A i \in 1 .. n : f[i] \in S
  OBVIOUS
<1> DEFINE g == [i \in 1 .. n |-> f[i]]
<1>3. g \in Seq(S) /\ Len(g) = n
  BY <1>2
<1> HIDE DEF g
<1>4. f = g
  BY <1>1 DEF g
<1>5. QED
  BY <1>3, <1>4

\* What Adopt makes of the drivers.
LEMMA AdoptDrivers ==
  ASSUME TypeInv, NEW d \in DOMAIN driver, NEW P \in SUBSET Pads, NEW c \in Nat, c # d,
         driver' = [Marked({c}) EXCEPT ![d].state = "live", ![d].pads = P]
  PROVE  /\ driver' \in Seq(DriverType) /\ SamePlaces
         /\ driver'[d].state = "live" /\ driver'[d].pads = P
         /\ \A e \in DOMAIN driver :
               /\ driver'[e].listens = driver[e].listens
               /\ driver'[e].open = driver[e].open /\ driver'[e].dying = driver[e].dying
               /\ e # d => driver'[e].pads = driver[e].pads
               /\ e # d => driver'[e].state = IF e = c THEN "dying" ELSE driver[e].state
         /\ \A e \in DOMAIN driver : \A q : Obj(e, q)' = Obj(e, q)
<1> DEFINE m == Marked({c})
           R(e) == IF e = d THEN [m[d] EXCEPT !.state = "live", !.pads = P] ELSE m[e]
<1>1. driver \in Seq(DriverType)
  BY DEF TypeInv
<1>2. DOMAIN driver = 1 .. Len(driver) /\ Len(driver) \in Nat
  BY <1>1
<1>3. m = [e \in 1 .. Len(driver) |-> [driver[e] EXCEPT !.state = IF e \in {c} THEN "dying" ELSE @]]
  BY <1>2 DEF Marked
<1>4. ASSUME NEW e \in DOMAIN driver
      PROVE  m[e] \in DriverType
  <2> DEFINE v == IF e \in {c} THEN "dying" ELSE driver[e].state
  <2>1. driver[e] \in DriverType
    BY <1>1
  <2>2. m[e] = [driver[e] EXCEPT !.state = v]
    BY <1>2, <1>3
  <2>3. v \in {"building", "live", "dying", "gone"}
    BY <2>1 DEF DriverType
  <2> HIDE DEF v
  <2>4. QED
    BY <2>1, <2>2, <2>3 DEF DriverType
<1>5. ASSUME NEW e \in DOMAIN driver
      PROVE  /\ m[e].path = driver[e].path /\ m[e].pads = driver[e].pads /\ m[e].listens = driver[e].listens
             /\ m[e].heard = driver[e].heard /\ m[e].dying = driver[e].dying /\ m[e].open = driver[e].open
             /\ m[e].state = IF e = c THEN "dying" ELSE driver[e].state
  <2>1. driver[e] \in DriverType
    BY <1>1
  <2>2. m[e] = [driver[e] EXCEPT !.state = IF e \in {c} THEN "dying" ELSE @]
    BY <1>2, <1>3
  <2>3. QED
    BY <2>1, <2>2 DEF DriverType
<1>6. DOMAIN m = 1 .. Len(driver)
  BY <1>3
<1> HIDE DEF m
<1>7. driver' = [e \in 1 .. Len(driver) |-> R(e)]
  BY <1>2, <1>6 DEF m
<1>8. \A e \in DOMAIN driver : R(e) \in DriverType
  BY <1>4 DEF DriverType
<1>9. driver' \in Seq(DriverType) /\ DOMAIN driver' = DOMAIN driver
  <2> HIDE DEF R
  <2>1. driver' \in [1 .. Len(driver) -> DriverType]
    BY <1>2, <1>7, <1>8
  <2>2. driver' \in Seq(DriverType)
    BY <2>1, <1>2, FunctionSeq
  <2>3. QED
    BY <2>1, <2>2, <1>2
<1>10. \A e \in DOMAIN driver : driver'[e] = R(e)
  <2> HIDE DEF R
  <2>1. QED
    BY <1>2, <1>7
<1>11. ASSUME NEW e \in DOMAIN driver
       PROVE  /\ R(e).path = driver[e].path /\ R(e).listens = driver[e].listens
              /\ R(e).heard = driver[e].heard /\ R(e).dying = driver[e].dying /\ R(e).open = driver[e].open
              /\ e # d => R(e).pads = driver[e].pads
              /\ e # d => R(e).state = IF e = c THEN "dying" ELSE driver[e].state
  BY <1>4, <1>5 DEF DriverType
<1>12. R(d).state = "live" /\ R(d).pads = P
  BY <1>4 DEF DriverType
<1> HIDE DEF R
<1>13. SamePlaces
  BY <1>9, <1>10, <1>11 DEF SamePlaces
<1>14. \A e \in DOMAIN driver : \A q : Obj(e, q)' = Obj(e, q)
  BY <1>10, <1>11 DEF Obj
<1>15. \A e \in DOMAIN driver :
          /\ driver'[e].listens = driver[e].listens
          /\ driver'[e].open = driver[e].open /\ driver'[e].dying = driver[e].dying
          /\ e # d => driver'[e].pads = driver[e].pads
          /\ e # d => driver'[e].state = IF e = c THEN "dying" ELSE driver[e].state
  BY <1>10, <1>11
<1>16. driver'[d].state = "live" /\ driver'[d].pads = P
  BY <1>10, <1>12
<1>17. QED
  BY <1>9, <1>13, <1>14, <1>15, <1>16

\* The driver is kept by the last step of the monitor thread.
LEMMA AdoptLastStep ==
  ASSUME RawParts, NEW t \in Threads, Busy(t), NEW d, NEW p, Head(work[t]) = Step("adopt", d, p)
  PROVE  t = "monitor" /\ Tail(work[t]) = <<>> /\ Ahead(t) = {Step("adopt", d, p)}
<1> DEFINE x == Step("adopt", d, p)
<1>1. ListInv
  BY DEF RawParts
<1>2. x \in Ahead(t) /\ Shape(work[t], Wireless) /\ work[t] # <<>> /\ work[t][1] = x /\ 1 \in DOMAIN work[t]
  BY HeadFacts
<1>3. x.op = "adopt" /\ x.op \in Building
  BY StepFacts DEF Building
<1>4. t = "monitor"
  <2>1. x \notin Ahead("main")
    BY <1>1, <1>3 DEF ListInv
  <2>2. QED
    BY <2>1, <1>2 DEF Threads
<1>5. Tail(work[t]) = <<>> /\ Ahead(t) = {x}
  <2> DEFINE s == work[t]
  <2>1. s \in Seq(StepType)
    BY <1>2 DEF Shape
  <2>2. Len(s) = 1
    <3>1. s[1].op = "adopt" /\ 1 \in DOMAIN s
      BY <1>2, <1>3
    <3>2. AdoptLast(s)
      BY <1>2 DEF Shape
    <3>3. QED
      BY <3>1, <3>2 DEF AdoptLast
  <2>3. Tail(s) = <<>>
    <3>1. s # <<>>
      BY <1>2
    <3>2. Tail(s) \in Seq(StepType) /\ Len(Tail(s)) = Len(s) - 1
      BY <2>1, <3>1, TailFacts
    <3>3. Tail(s) \in Seq(StepType) /\ Len(Tail(s)) = 0
      BY <2>2, <3>2
    <3> DEFINE v == Tail(s)
    <3> HIDE DEF v
    <3>4. v = <<>>
      BY <3>3, EmptySeq DEF v
    <3>5. QED
      BY <3>4 DEF v
  <2>4. DOMAIN s = {1}
    BY <2>1, <2>2
  <2>5. Ahead(t) = {x}
    BY <2>4, <1>2 DEF Ahead, ToSet
  <2>6. QED
    BY <2>3, <2>5
<1>6. QED
  BY <1>4, <1>5

\* A driver becomes that of its node; the one before is to be destroyed.
LEMMA AdoptKeeps ==
  ASSUME RawParts, NEW t \in Threads, Busy(t), NEW d, NEW p, Head(work[t]) = Step("adopt", d, p),
         Usable(t, d), Adopt(t, d, p), Around
  PROVE  RawParts'
<1> DEFINE x == Step("adopt", d, p)
           path == driver[d].path
           old == node[path]
           P == IF path \in Mice THEN {p} ELSE driver[d].pads
           l == DestroyDriver(old)
<1>1. TypeInv /\ ListInv /\ NodeInv /\ Owned /\ Heard
  BY DEF RawParts
<1>2. /\ d \in DOMAIN driver /\ d \in Nat \ {0} /\ driver[d] \in DriverType /\ x \in Ahead(t)
      /\ d \notin Wireless => p \in Pads
      /\ Shape(work[t], Wireless) /\ work[t] # <<>> /\ work[t][1] = x /\ 1 \in DOMAIN work[t]
  BY HeadFacts
<1>3. x.op = "adopt" /\ x.driver = d /\ x.pad = p /\ x.op \in Building
  BY StepFacts DEF Building
<1>4. t = "monitor"
  BY AdoptLastStep
<1>5. path \in Receivers \cup Mice /\ path \in Paths /\ (d \in Wireless <=> path \in Receivers)
      /\ (path \in Mice <=> d \notin Wireless)
  <2>1. path \in Receivers \cup Mice
    BY <1>2 DEF DriverType
  <2>2. QED
    BY <2>1, <1>2, PathAssumption DEF Paths, Wireless
<1>6. /\ old \in Nat /\ old # d
      /\ old # 0 =>
           /\ old \in DOMAIN driver /\ driver[old] \in DriverType
           /\ driver[old].pads \in SUBSET Pads /\ driver[old].path = path /\ ~Doomed(old)
  <2>1. Busy("monitor") /\ Head(work["monitor"]).op \in Building /\ x \in Ahead("monitor")
    BY <1>2, <1>3, <1>4
  <2>2. QED
    BY <2>1, <1>3, <1>5, OldFacts
<1>7. Tail(work[t]) = <<>> /\ Ahead(t) = {x}
  BY AdoptLastStep
<1>8. P \in SUBSET Pads
  BY <1>2, <1>5 DEF DriverType
<1>9. driver' = [Marked({old}) EXCEPT ![d].state = "live", ![d].pads = P]
  <2>1. Marked({old})[d].pads = driver[d].pads
    BY <1>2 DEF Marked, DriverType
  <2>2. driver' = [Marked({old}) EXCEPT ![d].state = "live", ![d].pads = IF path \in Mice THEN {p} ELSE @]
    BY DEF Adopt
  <2>3. QED
    BY <2>1, <2>2
<1>10. node' = [node EXCEPT ![path] = d] /\ UNCHANGED raw /\ UNCHANGED unreached
  BY DEF Adopt
<1>11. Shape(l, Wireless) /\ Only(l, Undoing)
  BY <1>6, DestroyShape
<1>12. Turns(t, l)
  <2>1. l \in Seq(StepType)
    BY <1>11 DEF Shape
  <2>2. l \o <<>> = l
    BY <2>1
  <2>3. work' = [work EXCEPT ![t] = l \o Tail(work[t])]
    BY DEF Adopt
  <2>4. QED
    BY <2>2, <2>3, <1>7 DEF Turns
<1>13. \A y \in ToSet(l) : old # 0 /\ y.driver = old /\ y.op \in Undoing
  <2>1. \A y : y \in ToSet(l) =>
             /\ old # 0
             /\ \/ \E q \in driver[old].pads : y \in {Step("disable", old, q), Step("unlisten", old, q)}
                \/ y = Step("gone", old, NoPad)
    BY <1>6, DestroyShape
  <2>2. QED
    BY <2>1, <1>11, OnlySet, StepFacts
<1>14. old # 0 => Step("gone", old, NoPad) \in ToSet(l)
  BY <1>6, DestroyShape
<1>15. \A e, q : /\ Claims(ToSet(l), e, q, Wireless) <= 1
                 /\ ~(e = old /\ old # 0 /\ q \in driver[old].pads) => Claims(ToSet(l), e, q, Wireless) = 0
                 /\ Switches(ToSet(l), e, q) = 0
  BY <1>1, <1>6, TearCounts
<1> HIDE DEF x, P, l
<1>16. /\ driver' \in Seq(DriverType) /\ SamePlaces
       /\ driver'[d].state = "live" /\ driver'[d].pads = P
       /\ \A e \in DOMAIN driver :
             /\ driver'[e].listens = driver[e].listens
             /\ driver'[e].open = driver[e].open /\ driver'[e].dying = driver[e].dying
             /\ e # d => driver'[e].pads = driver[e].pads
             /\ e # d => driver'[e].state = IF e = old THEN "dying" ELSE driver[e].state
       /\ \A e \in DOMAIN driver : \A q : Obj(e, q)' = Obj(e, q)
  BY <1>1, <1>2, <1>6, <1>8, <1>9, AdoptDrivers
<1> HIDE DEF old, path
<1>17. /\ Wireless' = Wireless /\ Ahead(t)' = ToSet(l)
       /\ \A u \in Threads : u # t => Ahead(u)' = Ahead(u)
  BY <1>1, <1>12, <1>16, TurnFacts
<1>18. \A y \in Ahead("main") : y.op # "gone"
  BY <1>1, <1>4 DEF ListInv, Busy
<1>19. \A e : Doomed(e) <=> driver[e].state = "gone"
  <2>1. \A u \in Threads, q \in Pads \cup {NoPad} : \A e : Step("gone", e, q) \notin Ahead(u)
    BY <1>3, <1>4, <1>7, <1>18, StepFacts DEF Threads
  <2>2. QED
    BY <2>1 DEF Doomed
<1>20. \A e \in DOMAIN driver : Doomed(e)' <=> driver'[e].state = "gone" \/ (e = old /\ old # 0)
  <2>1. TAKE e \in DOMAIN driver
  <2>2. ASSUME NEW u \in Threads, NEW q \in Pads \cup {NoPad}, Step("gone", e, q) \in Ahead(u)'
        PROVE  e = old /\ old # 0
    <3>1. CASE u = t
      BY <3>1, <2>2, <1>13, <1>17, StepFacts
    <3>2. CASE u # t
      BY <3>2, <2>2, <1>4, <1>17, <1>18, StepFacts DEF Threads
    <3>3. QED
      BY <3>1, <3>2
  <2>3. ASSUME e = old, old # 0
        PROVE  Doomed(e)'
    BY <2>3, <1>14, <1>17 DEF Doomed
  <2>4. QED
    BY <2>2, <2>3 DEF Doomed
<1>21. UNCHANGED <<queue, program, scan, found, stopping, udev, plugged>>
  BY AroundFacts
<1>22. TypeInv'
  <2>1. node' \in [Paths -> Nat]
    BY <1>1, <1>2, <1>10 DEF TypeInv
  <2>2. raw' \in SUBSET Pads /\ l \in Seq(StepType)
    BY <1>1, <1>10, <1>11 DEF TypeInv, Shape
  <2>3. QED
    BY <2>1, <2>2, <1>1, <1>12, <1>16, <1>21, TypeStep
<1>23. ListInv'
  <2>1. \A y \in ToSet(l) :
            \/ y \in Ahead(t)
            \/ /\ y.op \in Undoing /\ y.driver \in DOMAIN driver
               /\ y.op = "gone" /\ t = "main" => scan = "done"
    BY <1>4, <1>6, <1>13
  <2>2. QED
    BY <2>1, <1>1, <1>11, <1>12, <1>16, <1>21, ListStep
<1>24. NodeInv'
  <2>1. DOMAIN driver' = DOMAIN driver
    BY <1>16 DEF SamePlaces
  <2>2. ASSUME NEW pa \in Paths, node'[pa] # 0
        PROVE  /\ node'[pa] \in DOMAIN driver'
               /\ driver'[node'[pa]].path = pa
               /\ driver'[node'[pa]].state # "gone"
    <3>1. CASE pa = path
      <4>1. node'[pa] = d
        BY <3>1, <1>1, <1>5, <1>10 DEF TypeInv
      <4>2. QED
        BY <3>1, <4>1, <2>1, <1>2, <1>16 DEF SamePlaces, path
    <3>2. CASE pa # path
      <4>1. node'[pa] = node[pa]
        BY <3>2, <1>1, <1>10 DEF TypeInv
      <4>2. node[pa] \in DOMAIN driver /\ driver[node[pa]].path = pa /\ driver[node[pa]].state # "gone"
        BY <4>1, <2>2, <1>1 DEF NodeInv
      <4>3. node[pa] # d
        BY <3>2, <4>2 DEF path
      <4>4. driver'[node[pa]].state # "gone"
        BY <4>2, <4>3, <1>16
      <4>5. QED
        BY <4>1, <4>2, <4>4, <2>1, <1>16 DEF SamePlaces
    <3>3. QED
      BY <3>1, <3>2
  <2>3. \A pa \in Paths : \A y \in Ahead("monitor")' : y.op \in Building => y.driver # node'[pa]
    BY <1>4, <1>13, <1>17, Kinds
  <2>4. \A e \in Wireless' : Doomed(e)' => driver'[e].state \in {"dying", "gone"}
    <3>1. Wireless' \subseteq DOMAIN driver
      BY <1>17 DEF Wireless
    <3>2. QED
      BY <3>1, <1>6, <1>16, <1>20
  <2>5. \A i \in DOMAIN queue' : queue'[i].driver \in Wireless'
    BY <1>1, <1>17, <1>21 DEF NodeInv
  <2>6. \A e \in DOMAIN driver' : driver'[e].listens # {} => e \in Wireless'
    BY <2>1, <1>1, <1>16, <1>17 DEF NodeInv
  <2>7. QED
    BY <2>2, <2>3, <2>4, <2>5, <2>6 DEF NodeInv
<1>25. driver[d].state # "gone"
  BY DEF Usable
<1>26. ASSUME NEW e \in DOMAIN driver, NEW q \in Pads
       PROVE  Claims(ToSet(l), e, q, Wireless) + Has(e, q)' + Obj(e, q)
                 <= Claims(Ahead(t), e, q, Wireless) + Has(e, q) + Obj(e, q)'
  <2>1. /\ Claims(ToSet(l), e, q, Wireless) \in Int /\ Claims(Ahead(t), e, q, Wireless) \in Nat
        /\ Has(e, q) \in {0, 1} /\ Has(e, q)' \in {0, 1} /\ Obj(e, q) \in Int /\ Obj(e, q)' = Obj(e, q)
    BY <1>1, <1>16, <1>22, CountTypes, AccountTypes
  <2>2. Claims(ToSet(l), e, q, Wireless) + Has(e, q)' <= Claims(Ahead(t), e, q, Wireless) + Has(e, q)
    <3>1. CASE e = old /\ old # 0 /\ q \in driver[old].pads
      <4>1. Has(e, q) = 1
        BY <3>1, <1>6 DEF Has, One
      <4>2. Has(e, q)' = 0
        BY <3>1, <1>20 DEF Has, One
      <4>3. QED
        BY <4>1, <4>2, <2>1, <1>15
    <3>2. CASE e = d /\ d \notin Wireless /\ q = p
      <4>1. x = Keep(d, p, Wireless) /\ x # Step("listen", d, p)
        BY <3>2, <1>3, StepFacts DEF x, Keep
      <4>2. Claims(Ahead(t), e, q, Wireless) >= 1
        BY <3>2, <4>1, <1>7 DEF Claims, One
      <4>3. Claims(ToSet(l), e, q, Wireless) = 0
        BY <3>2, <1>6, <1>15
      <4>4. QED
        BY <4>2, <4>3, <2>1
    <3>3. CASE ~(e = old /\ old # 0 /\ q \in driver[old].pads) /\ ~(e = d /\ d \notin Wireless /\ q = p)
      <4>1. Claims(ToSet(l), e, q, Wireless) = 0
        BY <3>3, <1>15
      <4>2. q \in driver'[e].pads => q \in driver[e].pads
        BY <3>3, <1>5, <1>16 DEF P
      <4>3. Doomed(e) => Doomed(e)'
        <5>1. CASE e = d
          BY <5>1, <1>19, <1>25
        <5>2. CASE e # d /\ e # old
          BY <5>2, <1>16, <1>19, <1>20
        <5>3. CASE e = old
          <6>1. e # 0
            BY <1>1 DEF TypeInv
          <6>2. QED
            BY <5>3, <6>1, <1>6
        <5>4. QED
          BY <5>1, <5>2, <5>3
      <4>4. Has(e, q)' <= Has(e, q)
        BY <4>2, <4>3, HasStays
      <4>5. QED
        BY <4>1, <4>4, <2>1
    <3>4. QED
      BY <3>1, <3>2, <3>3
  <2>3. QED
    BY <2>1, <2>2
<1>27. Owned'
  BY <1>1, <1>12, <1>16, <1>22, <1>26, OwnedStep
<1>28. Heard'
  <2>1. raw' \ unreached' \subseteq raw \ unreached
    BY <1>10
  <2>2. ASSUME NEW r \in raw' \ unreached', NEW e \in DOMAIN driver
        PROVE  Switches(ToSet(l), e, r) + Obj(e, r) <= Switches(Ahead(t), e, r) + Obj(e, r)'
    <3>1. r \in Pads
      BY <1>1, <1>10 DEF TypeInv
    <3>2. Switches(ToSet(l), e, r) = 0 /\ Switches(Ahead(t), e, r) \in Nat
      BY <1>15, CountTypes
    <3>3. Obj(e, r)' = Obj(e, r) /\ Obj(e, r) \in Int
      BY <3>1, <1>1, <1>16, ObjTypes
    <3>4. QED
      BY <3>2, <3>3
  <2>3. QED
    BY <2>1, <2>2, <1>1, <1>12, <1>16, <1>22, HeardKept
<1>29. QED
  BY <1>22, <1>23, <1>24, <1>27, <1>28 DEF RawParts

\* The driver of a node goes: it has no touchpad left.
LEMMA GoneKeeps ==
  ASSUME RawParts, NEW t \in Threads, Busy(t), NEW d, NEW p, Head(work[t]) = Step("gone", d, p),
         Gone(t, d), Around
  PROVE  RawParts'
<1> DEFINE x == Step("gone", d, p)
           l == Tail(work[t])
           r == [driver[d] EXCEPT !.state = "gone", !.listens = {}]
<1>1. TypeInv /\ ListInv /\ NodeInv /\ Owned /\ Heard
  BY DEF RawParts
<1>2. d \in DOMAIN driver /\ d \in Nat \ {0} /\ driver[d] \in DriverType
  BY HeadFacts
<1>3. Shape(l, Wireless) /\ ToSet(l) = Ahead(t) \ {x}
  BY <1>1, WorkFacts
<1>4. x.op = "gone" /\ x.driver = d
  BY StepFacts
<1>5. Turns(t, l) /\ UNCHANGED raw /\ UNCHANGED unreached
  BY DEF Gone, Done, Turns, effects
<1>6. node' = [path \in Paths |-> IF node[path] = d THEN 0 ELSE node[path]]
  BY DEF Gone
<1>7. driver' = [driver EXCEPT ![d] = r]
  BY <1>2 DEF Gone, DriverType
<1>8. r \in DriverType
  BY <1>2 DEF DriverType
<1>9. /\ r.state = "gone" /\ r.listens = {} /\ r.path = driver[d].path /\ r.pads = driver[d].pads
      /\ r.heard = driver[d].heard /\ r.dying = driver[d].dying
  BY <1>2 DEF DriverType
<1> HIDE DEF x, l, r
<1>10. /\ driver' \in Seq(DriverType) /\ DOMAIN driver' = DOMAIN driver
       /\ driver'[d] = r /\ \A e \in DOMAIN driver : e # d => driver'[e] = driver[e]
  BY <1>1, <1>2, <1>7, <1>8, DriverChange
<1>11. SamePlaces
  BY <1>9, <1>10 DEF SamePlaces
<1>12. ASSUME NEW e \in DOMAIN driver
       PROVE  /\ driver'[e].pads = driver[e].pads /\ driver'[e].listens \subseteq driver[e].listens
              /\ driver'[e].state = IF e = d THEN "gone" ELSE driver[e].state
              /\ \A q : Obj(e, q)' = Obj(e, q)
  BY <1>9, <1>10 DEF Obj
<1>13. /\ Wireless' = Wireless /\ Ahead(t)' = ToSet(l)
       /\ \A u \in Threads : u # t => Ahead(u)' = Ahead(u)
  BY <1>1, <1>5, <1>11, TurnFacts
<1>14. UNCHANGED <<queue, program, scan, found, stopping, udev, plugged>>
  BY AroundFacts
<1>15. TypeInv'
  <2>1. node' \in [Paths -> Nat]
    BY <1>1, <1>6 DEF TypeInv
  <2>2. raw' \in SUBSET Pads /\ l \in Seq(StepType)
    BY <1>1, <1>3, <1>5 DEF TypeInv, Shape
  <2>3. QED
    BY <2>1, <2>2, <1>1, <1>5, <1>10, <1>14, TypeStep
<1>16. ListInv'
  <2>1. \A y \in ToSet(l) :
            \/ y \in Ahead(t)
            \/ /\ y.op \in Undoing /\ y.driver \in DOMAIN driver
               /\ y.op = "gone" /\ t = "main" => scan = "done"
    BY <1>3
  <2>2. QED
    BY <2>1, <1>1, <1>3, <1>5, <1>11, <1>14, ListStep
<1>17. \A e \in DOMAIN driver : Doomed(e)' => e = d \/ Doomed(e)
  <2>1. ASSUME NEW e \in DOMAIN driver, Doomed(e)', e # d
        PROVE  Doomed(e)
    <3>1. CASE driver'[e].state = "gone"
      BY <2>1, <3>1, <1>12 DEF Doomed
    <3>2. CASE driver'[e].state # "gone"
      <4>1. PICK u \in Threads, q \in Pads \cup {NoPad} : Step("gone", e, q) \in Ahead(u)'
        BY <2>1, <3>2 DEF Doomed
      <4>2. Step("gone", e, q) \in Ahead(u)
        BY <4>1, <1>3, <1>13
      <4>3. QED
        BY <4>2 DEF Doomed
    <3>3. QED
      BY <3>1, <3>2
  <2>2. QED
    BY <2>1
<1>18. NodeInv'
  <2>1. \A pa \in Paths : node'[pa] = IF node[pa] = d THEN 0 ELSE node[pa]
    BY <1>6
  <2>2. ASSUME NEW pa \in Paths, node'[pa] # 0
        PROVE  /\ node'[pa] \in DOMAIN driver'
               /\ driver'[node'[pa]].path = pa
               /\ driver'[node'[pa]].state # "gone"
    <3>1. node'[pa] = node[pa] /\ node[pa] # d
      BY <2>1, <2>2
    <3>2. node[pa] \in DOMAIN driver /\ driver[node[pa]].path = pa /\ driver[node[pa]].state # "gone"
      BY <3>1, <2>2, <1>1 DEF NodeInv
    <3>3. QED
      BY <3>1, <3>2, <1>10
  <2>3. ASSUME NEW pa \in Paths, NEW y \in Ahead("monitor")', y.op \in Building
        PROVE  y.driver # node'[pa]
    <3>1. y \in Ahead("monitor")
      BY <2>3, <1>3, <1>13 DEF Threads
    <3>2. y.driver # node[pa]
      BY <3>1, <2>3, <1>1 DEF NodeInv
    <3>3. y.driver \in DOMAIN driver
      BY <3>1, <1>1 DEF ListInv, Threads
    <3>4. y.driver # 0
      BY <3>3, <1>1 DEF TypeInv
    <3>5. QED
      BY <3>2, <3>4, <2>1
  <2>4. \A e \in Wireless' : Doomed(e)' => driver'[e].state \in {"dying", "gone"}
    <3>1. Wireless \subseteq DOMAIN driver
      BY DEF Wireless
    <3>2. QED
      BY <3>1, <1>1, <1>12, <1>13, <1>17 DEF NodeInv
  <2>5. \A i \in DOMAIN queue' : queue'[i].driver \in Wireless'
    BY <1>1, <1>13, <1>14 DEF NodeInv
  <2>6. ASSUME NEW e \in DOMAIN driver', driver'[e].listens # {}
        PROVE  e \in Wireless'
    BY <2>6, <1>1, <1>10, <1>12, <1>13 DEF NodeInv
  <2>7. QED
    BY <2>2, <2>3, <2>4, <2>5, <2>6 DEF NodeInv
<1>19. ASSUME NEW e \in DOMAIN driver
       PROVE  Doomed(e) => Doomed(e)'
  <2>1. driver[e].state = "gone" => driver'[e].state = "gone"
    BY <1>12
  <2>2. \A q \in Pads \cup {NoPad} : Step("gone", e, q) \in Ahead(t) =>
            Step("gone", e, q) \in ToSet(l) \/ driver'[e].state = "gone"
    <3>1. \A q : Step("gone", e, q).driver = e
      BY StepFacts
    <3>2. QED
      BY <3>1, <1>3, <1>4, <1>12
  <2>3. QED
    BY <2>1, <2>2, <1>1, <1>5, <1>11, DoomedStays
<1>20. \A e, q : /\ Claims(ToSet(l), e, q, Wireless) = Claims(Ahead(t), e, q, Wireless)
                 /\ Switches(ToSet(l), e, q) = Switches(Ahead(t), e, q)
  <2>1. TAKE e, q
  <2>2. \A y \in Counted(e, q, Wireless) : y \in ToSet(l) <=> y \in Ahead(t)
    BY <1>3, <1>4, CountedFacts
  <2>3. QED
    BY <2>2, SameCounts
<1>21. Owned'
  <2>1. ASSUME NEW e \in DOMAIN driver, NEW q \in Pads
        PROVE  Claims(ToSet(l), e, q, Wireless) + Has(e, q)' + Obj(e, q)
                 <= Claims(Ahead(t), e, q, Wireless) + Has(e, q) + Obj(e, q)'
    <3>1. Has(e, q)' <= Has(e, q)
      BY <1>12, <1>19, HasStays
    <3>2. Has(e, q) \in {0, 1} /\ Has(e, q)' \in {0, 1} /\ Obj(e, q) \in Int /\ Obj(e, q)' = Obj(e, q)
      BY <1>1, <1>12, ObjTypes DEF Has, One
    <3>3. Claims(Ahead(t), e, q, Wireless) \in Int
      BY CountTypes
    <3>4. Claims(ToSet(l), e, q, Wireless) = Claims(Ahead(t), e, q, Wireless)
      BY <1>20
    <3>5. QED
      BY <3>1, <3>2, <3>3, <3>4
  <2>2. QED
    BY <2>1, <1>1, <1>5, <1>11, <1>15, OwnedStep
<1>22. Heard'
  <2>1. raw' \ unreached' \subseteq raw \ unreached
    BY <1>5
  <2>2. ASSUME NEW q \in raw' \ unreached', NEW e \in DOMAIN driver
        PROVE  Switches(ToSet(l), e, q) + Obj(e, q) <= Switches(Ahead(t), e, q) + Obj(e, q)'
    <3>1. q \in Pads
      BY <1>1, <1>5 DEF TypeInv
    <3>2. Switches(ToSet(l), e, q) = Switches(Ahead(t), e, q) /\ Switches(Ahead(t), e, q) \in Int
      BY <1>20, CountTypes
    <3>3. Obj(e, q)' = Obj(e, q) /\ Obj(e, q) \in Int
      BY <3>1, <1>1, <1>12, ObjTypes
    <3>4. QED
      BY <3>2, <3>3
  <2>3. QED
    BY <2>1, <2>2, <1>1, <1>5, <1>11, <1>15, HeardKept
<1>23. QED
  BY <1>15, <1>16, <1>18, <1>21, <1>22 DEF RawParts

\* Whatever a thread does next.
LEMMA WorkKeeps ==
  ASSUME RawParts, NEW t \in Threads, Work(t)
  PROVE  RawParts'
<1> DEFINE x == Head(work[t])
           op == x.op
           d == x.driver
           p == x.pad
<1>1. Busy(t) /\ Usable(t, d) /\ Perform(t, x) /\ Around
  BY DEF Work, Around
<1>2. x \in StepType
  BY <1>1, WorkFacts DEF RawParts
<1>3. x = Step(op, d, p)
  BY <1>2 DEF StepType, Step
<1> HIDE DEF x, op, d, p
<1>4. /\ op = "probe" => Probe(t, d, p)
      /\ op = "listen" => Listen(t, d, p)
      /\ op = "enable" => Enable(t, d, p)
      /\ op = "disable" => Disable(t, d, p)
      /\ op = "unlisten" => Unlisten(t, d, p)
      /\ op = "emplace" => Emplace(t, d, p)
      /\ op = "erase" => Erase(t, d, p)
      /\ op = "addEvent" => AddEvent(t, d, p)
      /\ op = "adopt" => Adopt(t, d, p)
      /\ op = "gone" => Gone(t, d)
      /\ op \in {"probe", "listen", "enable", "disable", "unlisten", "emplace", "erase", "addEvent", "adopt", "gone"}
  BY <1>1 DEF Perform, op, d, p
<1>5. Head(work[t]) = Step(op, d, p)
  BY <1>3 DEF x
<1>6. CASE op = "probe"
  BY <1>1, <1>4, <1>5, <1>6, ProbeStep
<1>7. CASE op = "listen"
  BY <1>1, <1>4, <1>5, <1>7, ListenKeeps
<1>8. CASE op = "enable"
  BY <1>1, <1>4, <1>5, <1>8, EnableKeeps
<1>9. CASE op = "disable"
  BY <1>1, <1>4, <1>5, <1>9, DisableKeeps
<1>10. CASE op = "unlisten"
  BY <1>1, <1>4, <1>5, <1>10, UnlistenKeeps
<1>11. CASE op = "emplace"
  BY <1>1, <1>4, <1>5, <1>11, EmplaceKeeps
<1>12. CASE op = "erase"
  BY <1>1, <1>4, <1>5, <1>12, EraseKeeps
<1>13. CASE op = "addEvent"
  BY <1>1, <1>4, <1>5, <1>13, AddEventKeeps
<1>14. CASE op = "adopt"
  BY <1>1, <1>4, <1>5, <1>14, AdoptKeeps
<1>15. CASE op = "gone"
  BY <1>1, <1>4, <1>5, <1>15, GoneKeeps
<1>16. QED
  BY <1>4, <1>6, <1>7, <1>8, <1>9, <1>10, <1>11, <1>12, <1>13, <1>14, <1>15

-----------------------------------------------------------------------------
(* The other actions.                                                      *)

\* A step that changes no list.
LEMMA Idle ==
  ASSUME RawParts, TypeInv', UNCHANGED <<work, node>>, SamePlaces, SameStates,
         \A e \in DOMAIN driver : driver'[e].listens = driver[e].listens /\ driver'[e].pads = driver[e].pads,
         \A e \in DOMAIN driver, q \in Pads : Obj(e, q)' = Obj(e, q),
         scan' = scan \/ (scan # "done" /\ scan' # "done"),
         stopping' => program' # "running" /\ (scan' # "done" => work["main"] = <<>>),
         scan' = "done" => stopping',
         \A i \in DOMAIN queue' : queue'[i].driver \in Wireless,
         raw' \ unreached' \subseteq raw \ unreached
  PROVE  RawParts'
<1>1. TypeInv /\ ListInv /\ NodeInv /\ Owned /\ Heard /\ work' = work /\ node' = node
  BY DEF RawParts
<1>2. /\ Wireless' = Wireless /\ DOMAIN driver' = DOMAIN driver
      /\ \A t : Ahead(t)' = Ahead(t)
  BY <1>1 DEF Wireless, SamePlaces, Ahead
<1>3. \A e \in DOMAIN driver : Doomed(e)' <=> Doomed(e)
  BY <1>2 DEF Doomed, SameStates
<1>4. ListInv'
  <2>1. \A t \in Threads : Shape(work'[t], Wireless')
    BY <1>1, <1>2 DEF ListInv
  <2>2. \A t \in Threads : \A x \in Ahead(t)' : x.driver \in DOMAIN driver'
    BY <1>1, <1>2 DEF ListInv
  <2>3. /\ \A x \in Ahead("main")' : x.op \in Building => x.driver \in Wireless' /\ x.op # "adopt"
        /\ \A x \in Ahead("monitor")' : x.op # "erase"
    BY <1>1, <1>2 DEF ListInv
  <2>4. scan' = "done" => work'["monitor"] = <<>> /\ \A x \in Ahead("main")' : x.op \in Undoing
    BY <1>1, <1>2 DEF ListInv
  <2>5. \A x \in Ahead("main")' : x.op = "gone" => scan' = "done"
    BY <1>1, <1>2 DEF ListInv
  <2>6. stopping' => program' # "running" /\ (scan' # "done" => work'["main"] = <<>>)
    BY <1>1
  <2>7. QED
    BY <2>1, <2>2, <2>3, <2>4, <2>5, <2>6 DEF ListInv
<1>5. NodeInv'
  <2>1. \A path \in Paths : node'[path] # 0 =>
           /\ node'[path] \in DOMAIN driver'
           /\ driver'[node'[path]].path = path
           /\ driver'[node'[path]].state # "gone"
    BY <1>1, <1>2 DEF NodeInv, SamePlaces, SameStates
  <2>2. \A path \in Paths : \A x \in Ahead("monitor")' : x.op \in Building => x.driver # node'[path]
    BY <1>1, <1>2 DEF NodeInv
  <2>3. \A d \in Wireless' : Doomed(d)' => driver'[d].state \in {"dying", "gone"}
    <3>1. Wireless \subseteq DOMAIN driver
      BY DEF Wireless
    <3>2. QED
      BY <3>1, <1>1, <1>2, <1>3 DEF NodeInv, SameStates
  <2>4. \A d \in DOMAIN driver' : driver'[d].listens # {} => d \in Wireless'
    BY <1>1, <1>2 DEF NodeInv
  <2>5. \A i \in DOMAIN queue' : queue'[i].driver \in Wireless'
    BY <1>2
  <2>6. QED
    BY <2>1, <2>2, <2>3, <2>4, <2>5 DEF NodeInv
<1>6. \A e \in DOMAIN driver, q \in Pads : Has(e, q)' = Has(e, q)
  BY <1>3 DEF Has
<1>7. Owned'
  <2>1. ASSUME NEW e \in DOMAIN driver', NEW q \in Pads
        PROVE  Claims(Ahead("main")', e, q, Wireless') + Claims(Ahead("monitor")', e, q, Wireless') + Has(e, q)'
                  <= Obj(e, q)'
    <3>1. /\ Ahead("main")' = Ahead("main") /\ Ahead("monitor")' = Ahead("monitor")
          /\ Has(e, q)' = Has(e, q) /\ Obj(e, q)' = Obj(e, q) /\ e \in DOMAIN driver
      BY <1>2, <1>6
    <3>2. Claims(Ahead("main"), e, q, Wireless) + Claims(Ahead("monitor"), e, q, Wireless) + Has(e, q) <= Obj(e, q)
      BY <3>1, <1>1 DEF Owned
    <3>3. QED
      BY <3>1, <3>2, <1>2
  <2>2. QED
    BY <2>1 DEF Owned
<1>8. Heard'
  <2>1. ASSUME NEW r \in raw' \ unreached'
        PROVE  \E e \in DOMAIN driver' :
                  Switches(Ahead("main")', e, r) + Switches(Ahead("monitor")', e, r) < Obj(e, r)'
    <3>1. PICK e \in DOMAIN driver : Switches(Ahead("main"), e, r) + Switches(Ahead("monitor"), e, r) < Obj(e, r)
      BY <1>1 DEF Heard
    <3>2. r \in Pads
      BY <1>1 DEF TypeInv
    <3>3. /\ Ahead("main")' = Ahead("main") /\ Ahead("monitor")' = Ahead("monitor")
          /\ Obj(e, r)' = Obj(e, r) /\ e \in DOMAIN driver'
      BY <3>2, <1>2
    <3>4. QED
      BY <3>1, <3>3
  <2>2. QED
    BY <2>1 DEF Heard
<1>9. QED
  BY <1>4, <1>5, <1>7, <1>8 DEF RawParts

\* Nothing that the invariant is about changes, but where the threads are.
LEMMA IdleDrivers ==
  ASSUME RawParts, TypeInv', UNCHANGED <<work, node, driver>>,
         scan' = scan \/ (scan # "done" /\ scan' # "done"),
         stopping' => program' # "running" /\ (scan' # "done" => work["main"] = <<>>),
         scan' = "done" => stopping',
         \A i \in DOMAIN queue' : queue'[i].driver \in Wireless,
         raw' \ unreached' \subseteq raw \ unreached
  PROVE  RawParts'
<1>1. UNCHANGED driver /\ UNCHANGED <<work, node>> /\ TypeInv
  BY DEF RawParts
<1>2. /\ driver' \in Seq(DriverType) /\ SamePlaces /\ SameStates
      /\ \A e \in DOMAIN driver : driver'[e].listens = driver[e].listens /\ driver'[e].pads = driver[e].pads
      /\ \A e, q : Obj(e, q)' = Obj(e, q)
  BY <1>1, SameDrivers
<1>3. \A e \in DOMAIN driver, q \in Pads : Obj(e, q)' = Obj(e, q)
  BY <1>2
<1>4. QED
  BY <1>1, <1>2, <1>3, Idle

\* Nothing that the invariant is about changes.
LEMMA StillKeeps ==
  ASSUME RawParts, UNCHANGED <<work, node, driver, scan, stopping, program, raw, unreached, queue, found, plugged, udev>>
  PROVE  RawParts'
<1>1. TypeInv' /\ ListInv' /\ NodeInv'
  BY DEF RawParts, TypeInv, ListInv, NodeInv, DriverType, Call, StepType, Wireless, Ahead, Doomed
<1>2. Owned' /\ Heard'
  BY DEF RawParts, Owned, Heard, Wireless, Ahead, Doomed, Has, Obj
<1>3. QED
  BY <1>1, <1>2 DEF RawParts

\* The enumeration begins, ends or meets a node without a driver.
LEMMA EnumerateIdle ==
  ASSUME RawParts, Enumerate, UNCHANGED <<driver, work>>
  PROVE  RawParts'
<1>1. /\ scan \in {"start", "enumerate"} /\ scan' \in {"enumerate", "listen"}
      /\ UNCHANGED <<node, raw, unreached>> /\ UNCHANGED <<queue, program, stopping, udev, plugged>>
      /\ found' \subseteq plugged \cup found
  BY DEF Enumerate, AddNode, queueVars, surroundings, effects, driverVars
<1>2. TypeInv'
  BY <1>1 DEF RawParts, TypeInv, DriverType, Call, StepType
<1>3. stopping' => program' # "running" /\ (scan' # "done" => work["main"] = <<>>)
  BY <1>1 DEF RawParts, ListInv
<1>4. \A i \in DOMAIN queue' : queue'[i].driver \in Wireless
  BY <1>1 DEF RawParts, NodeInv
<1>5. UNCHANGED <<work, node, driver>> /\ raw' \ unreached' \subseteq raw \ unreached
      /\ scan # "done" /\ scan' # "done"
  BY <1>1
<1>6. QED
  BY <1>2, <1>3, <1>4, <1>5, IdleDrivers

\* The main thread waits, is interrupted or ends.
LEMMA MainIdleKeeps ==
  ASSUME RawParts, WaitForTask \/ LeaveLoop \/ MainEnds \/ SigInt \/ NotifyAll \/ WakeUp
  PROVE  RawParts'
<1>1. CASE WaitForTask \/ SigInt \/ NotifyAll \/ WakeUp
  <2>1. UNCHANGED <<work, node, driver, scan, stopping, program, raw, unreached, queue, found, plugged, udev>>
    BY <1>1 DEF WaitForTask, SigInt, NotifyAll, WakeUp, threadVars, driverVars, worldVars, history,
                PopTest, PopWait, Interrupt, Notify, SpuriousWakeUp
  <2>2. QED
    BY <2>1, StillKeeps
<1>2. CASE LeaveLoop
  <2>1. /\ program' = "stopping" /\ stopping' = TRUE /\ work["main"] = <<>>
        /\ UNCHANGED <<scan, found, work, node, driver, udev, plugged, raw, unreached, queue>>
    BY <1>2 DEF LeaveLoop, MainIdle, Busy, PopNothing, driverVars, worldVars, history
  <2>2. TypeInv'
    BY <2>1 DEF RawParts, TypeInv, DriverType, Call, StepType
  <2>3. \A i \in DOMAIN queue' : queue'[i].driver \in Wireless
    BY <2>1 DEF RawParts, NodeInv
  <2>4. /\ UNCHANGED <<work, node, driver>> /\ raw' \ unreached' \subseteq raw \ unreached /\ scan' = scan
        /\ (stopping' => program' # "running" /\ (scan' # "done" => work["main"] = <<>>))
        /\ (scan' = "done" => stopping')
    BY <2>1
  <2>5. QED
    BY <2>2, <2>3, <2>4, IdleDrivers
<1>3. CASE MainEnds
  <2>1. /\ program' = "ended" /\ scan = "done"
        /\ UNCHANGED <<scan, stopping, found, work, node, driver, udev, plugged, raw, unreached, queue>>
    BY <1>3 DEF MainEnds, queueVars, driverVars, worldVars, history
  <2>2. TypeInv'
    BY <2>1 DEF RawParts, TypeInv, DriverType, Call, StepType
  <2>3. \A i \in DOMAIN queue' : queue'[i].driver \in Wireless
    BY <2>1 DEF RawParts, NodeInv
  <2>4. /\ UNCHANGED <<work, node, driver>> /\ raw' \ unreached' \subseteq raw \ unreached /\ scan' = scan
        /\ (stopping' => program' # "running" /\ (scan' # "done" => work["main"] = <<>>))
        /\ (scan' = "done" => stopping')
    BY <2>1 DEF RawParts, ListInv
  <2>5. QED
    BY <2>2, <2>3, <2>4, IdleDrivers
<1>4. QED
  BY <1>1, <1>2, <1>3

\* A node comes or goes: the files of its drivers close.
LEMMA PlugKeeps ==
  ASSUME RawParts, NEW path \in Paths, Plug(path)
  PROVE  RawParts'
<1> DEFINE m == [d \in DOMAIN driver |-> [driver[d] EXCEPT !.open = @ /\ driver[d].path # path]]
<1>1. TypeInv /\ ListInv /\ NodeInv
  BY DEF RawParts
<1>2. /\ UNCHANGED <<work, node, scan, stopping, program, unreached, queue, found>>
      /\ raw' \subseteq raw /\ plugged' \subseteq plugged \cup {path}
      /\ udev' = Append(udev, [add |-> path \notin plugged, path |-> path])
      /\ driver' = m \/ driver' = driver
  BY DEF Plug, queueVars, threadVars
<1>3. driver \in Seq(DriverType) /\ DOMAIN driver = 1 .. Len(driver) /\ Len(driver) \in Nat
  BY <1>1 DEF TypeInv
<1>4. ASSUME NEW e \in DOMAIN driver
      PROVE  /\ m[e] \in DriverType
             /\ m[e].path = driver[e].path /\ m[e].state = driver[e].state /\ m[e].pads = driver[e].pads
             /\ m[e].listens = driver[e].listens /\ m[e].heard = driver[e].heard
             /\ m[e].dying = driver[e].dying
  <2>1. driver[e] \in DriverType
    BY <1>3
  <2> DEFINE b == driver[e].open /\ driver[e].path # path
  <2>2. m[e] = [driver[e] EXCEPT !.open = b] /\ b \in BOOLEAN
    OBVIOUS
  <2> HIDE DEF b
  <2>3. QED
    BY <2>1, <2>2 DEF DriverType
<1>5. m \in Seq(DriverType) /\ DOMAIN m = DOMAIN driver
  <2>1. m \in [1 .. Len(driver) -> DriverType]
    <3>1. DOMAIN m = 1 .. Len(driver) /\ m = [e \in 1 .. Len(driver) |-> m[e]]
      BY <1>3
    <3> HIDE DEF m
    <3>2. QED
      BY <3>1, <1>3, <1>4
  <2> HIDE DEF m
  <2>2. QED
    BY <2>1, <1>3, FunctionSeq
<1> HIDE DEF m
<1>6. /\ driver' \in Seq(DriverType) /\ SamePlaces /\ SameStates
      /\ \A e \in DOMAIN driver : driver'[e].listens = driver[e].listens /\ driver'[e].pads = driver[e].pads
      /\ \A e \in DOMAIN driver, q \in Pads : Obj(e, q)' = Obj(e, q)
  <2>1. CASE driver' = driver
    <3>1. \A e, q : Obj(e, q)' = Obj(e, q)
      BY <2>1 DEF Obj
    <3>2. QED
      BY <2>1, <3>1, <1>3 DEF SamePlaces, SameStates
  <2>2. CASE driver' = m
    <3>1. \A e \in DOMAIN driver, q \in Pads : Obj(e, q)' = Obj(e, q)
      BY <2>2, <1>4 DEF Obj
    <3>2. SamePlaces /\ SameStates
      BY <2>2, <1>4, <1>5 DEF SamePlaces, SameStates
    <3>3. \A e \in DOMAIN driver : driver'[e].listens = driver[e].listens /\ driver'[e].pads = driver[e].pads
      BY <2>2, <1>4
    <3>4. QED
      BY <2>2, <3>1, <3>2, <3>3, <1>5
  <2>3. QED
    BY <2>1, <2>2, <1>2
<1>7. udev' \in Seq([add : BOOLEAN, path : Paths])
  <2>1. [add |-> path \notin plugged, path |-> path] \in [add : BOOLEAN, path : Paths]
    OBVIOUS
  <2>2. udev \in Seq([add : BOOLEAN, path : Paths])
    BY <1>1 DEF TypeInv
  <2>3. QED
    BY <2>1, <2>2, <1>2, AppendFacts
<1>8. TypeInv'
  <2>1. work' \in [Threads -> Seq(StepType)] /\ node' \in [Paths -> Nat] /\ queue' \in Seq(Call)
    BY <1>1, <1>2 DEF TypeInv
  <2>2. found' \subseteq Paths /\ plugged' \subseteq Paths /\ raw' \subseteq Pads
    BY <1>1, <1>2 DEF TypeInv
  <2>3. QED
    BY <2>1, <2>2, <1>6, <1>7 DEF TypeInv, StepType, DriverType, Call
<1>9. /\ stopping' => program' # "running" /\ (scan' # "done" => work["main"] = <<>>)
      /\ scan' = "done" => stopping'
  BY <1>1, <1>2 DEF ListInv
<1>10. \A i \in DOMAIN queue' : queue'[i].driver \in Wireless
  BY <1>1, <1>2 DEF NodeInv
<1>11. raw' \ unreached' \subseteq raw \ unreached /\ scan' = scan /\ UNCHANGED <<work, node>>
  BY <1>2
<1>12. QED
  BY <1>6, <1>8, <1>9, <1>10, <1>11, Idle

\* The tasks of an event are for receivers: only their drivers listen.
LEMMA NotifiedFacts ==
  ASSUME RawParts, NEW p \in Pads, NEW b \in BOOLEAN
  PROVE  /\ Notified(p, b) \in Seq(Call)
         /\ \A i \in DOMAIN Notified(p, b) :
               /\ Notified(p, b)[i].driver \in Wireless /\ Notified(p, b)[i].pad = p
               /\ p \in driver[Notified(p, b)[i].driver].listens
<1> DEFINE S == {d \in DOMAIN driver : driver[d].open /\ p \in driver[d].listens}
           ds == SetToSeq(S)
           R(i) == [driver |-> ds[i], pad |-> p, linked |-> b]
<1>1. driver \in Seq(DriverType) /\ NodeInv
  BY DEF RawParts, TypeInv
<1>2. DOMAIN driver = 1 .. Len(driver) /\ Len(driver) \in Nat
  BY <1>1
<1>3. IsFiniteSet(S)
  <2>1. IsFiniteSet(1 .. Len(driver))
    BY <1>2, FS_Interval
  <2>2. S \subseteq 1 .. Len(driver)
    BY <1>2
  <2>3. QED
    BY <2>1, <2>2, FS_Subset
<1>4. \A d \in S : d \in Wireless /\ d \in Nat /\ p \in driver[d].listens
  BY <1>1, <1>2 DEF NodeInv
<1>5. Notified(p, b) = [i \in DOMAIN ds |-> R(i)]
  BY DEF Notified
<1> HIDE DEF S
<1>6. ds \in Seq(S)
  BY <1>3, ListingFacts
<1> HIDE DEF ds
<1>7. /\ DOMAIN ds = 1 .. Len(ds) /\ Len(ds) \in Nat /\ \A i \in DOMAIN ds : ds[i] \in S
  BY <1>6
<1>8. \A i \in DOMAIN ds : R(i) \in Call /\ R(i).driver \in Wireless /\ R(i).pad = p /\ p \in driver[R(i).driver].listens
  BY <1>4, <1>7 DEF Call
<1> HIDE DEF R
<1>9. Notified(p, b) \in [1 .. Len(ds) -> Call] /\ DOMAIN Notified(p, b) = DOMAIN ds
  BY <1>5, <1>7, <1>8
<1>10. Notified(p, b) \in Seq(Call)
  BY <1>7, <1>9, FunctionSeq
<1>11. \A i \in DOMAIN Notified(p, b) :
          /\ Notified(p, b)[i].driver \in Wireless /\ Notified(p, b)[i].pad = p
          /\ p \in driver[Notified(p, b)[i].driver].listens
  BY <1>5, <1>8, <1>9
<1>12. QED
  BY <1>10, <1>11

\* A touchpad comes or goes: its tasks are for receivers.
LEMMA LinkKeeps ==
  ASSUME RawParts, NEW p \in Pads, Link(p)
  PROVE  RawParts'
<1> DEFINE b == p \in linked'
           n == Notified(p, b)
<1>1. TypeInv /\ ListInv /\ NodeInv
  BY DEF RawParts
<1>2. /\ UNCHANGED <<work, node, driver, scan, stopping, program, unreached, found, udev, plugged>>
      /\ raw' \subseteq raw
  BY DEF Link, threadVars, driverVars
<1>3. queue' = queue \o n \/ queue' = queue
  BY DEF Link, Push, queueVars
<1>4. b \in BOOLEAN
  OBVIOUS
<1> HIDE DEF b
<1>5. n \in Seq(Call) /\ \A i \in DOMAIN n : n[i].driver \in Wireless
  BY <1>4, NotifiedFacts
<1> HIDE DEF n
<1>6. queue \in Seq(Call) /\ \A i \in DOMAIN queue : queue[i].driver \in Wireless
  BY <1>1 DEF TypeInv, NodeInv
<1>7. queue' \in Seq(Call) /\ \A i \in DOMAIN queue' : queue'[i].driver \in Wireless
  <2>1. CASE queue' = queue
    BY <2>1, <1>6
  <2>2. CASE queue' = queue \o n
    <3>1. /\ queue \o n \in Seq(Call)
          /\ \A i \in DOMAIN (queue \o n) : (queue \o n)[i].driver \in Wireless
      BY <1>5, <1>6, ConcatIndex
    <3>2. QED
      BY <2>2, <3>1
  <2>3. QED
    BY <2>1, <2>2, <1>3
<1>8. TypeInv'
  <2>1. work' \in [Threads -> Seq(StepType)] /\ node' \in [Paths -> Nat] /\ driver' \in Seq(DriverType)
    BY <1>1, <1>2 DEF TypeInv
  <2>2. found' \subseteq Paths /\ plugged' \subseteq Paths /\ raw' \subseteq Pads
    BY <1>1, <1>2 DEF TypeInv
  <2>3. udev' \in Seq([add : BOOLEAN, path : Paths])
    BY <1>1, <1>2 DEF TypeInv
  <2>4. QED
    BY <2>1, <2>2, <2>3, <1>7 DEF TypeInv, StepType, DriverType, Call
<1>9. /\ stopping' => program' # "running" /\ (scan' # "done" => work["main"] = <<>>)
      /\ scan' = "done" => stopping'
  BY <1>1, <1>2 DEF ListInv
<1>10. raw' \ unreached' \subseteq raw \ unreached /\ scan' = scan /\ UNCHANGED <<work, node, driver>>
  BY <1>2
<1>11. QED
  BY <1>7, <1>8, <1>9, <1>10, IdleDrivers

\* A report changes no driver.
LEMMA TouchKeeps ==
  ASSUME RawParts, cause' = {}, NEW p, NEW c, Touch(p, c)
  PROVE  RawParts'
<1>1. UNCHANGED <<queue, scan, found, stopping, work, node, driver, udev, plugged, raw, unreached>>
  BY DEF Touch, queueVars, driverVars
<1>2. UNCHANGED program
  BY DEF Touch
<1>3. QED
  BY <1>1, <1>2, StillKeeps

\* What happens outside.
LEMMA WorldKeeps ==
  ASSUME RawParts, cause' = {}, World
  PROVE  RawParts'
BY PlugKeeps, LinkKeeps, TouchKeeps DEF World

\* Drivers that are to be destroyed change in their state only.
LEMMA MarkedFacts ==
  ASSUME TypeInv, NEW C, driver' = Marked(C)
  PROVE  /\ driver' \in Seq(DriverType) /\ SamePlaces
         /\ \A e \in DOMAIN driver :
               /\ driver'[e].listens = driver[e].listens /\ driver'[e].pads = driver[e].pads
               /\ driver'[e].open = driver[e].open /\ driver'[e].dying = driver[e].dying
               /\ driver'[e].state = IF e \in C THEN "dying" ELSE driver[e].state
         /\ \A e \in DOMAIN driver : \A q : Obj(e, q)' = Obj(e, q)
<1> DEFINE R(e) == [driver[e] EXCEPT !.state = IF e \in C THEN "dying" ELSE @]
<1>1. driver \in Seq(DriverType)
  BY DEF TypeInv
<1>2. DOMAIN driver = 1 .. Len(driver) /\ Len(driver) \in Nat
  BY <1>1
<1>3. driver' = [e \in 1 .. Len(driver) |-> R(e)]
  BY <1>2 DEF Marked
<1>4. ASSUME NEW e \in DOMAIN driver
      PROVE  /\ R(e) \in DriverType
             /\ R(e).path = driver[e].path /\ R(e).pads = driver[e].pads /\ R(e).listens = driver[e].listens
             /\ R(e).heard = driver[e].heard /\ R(e).dying = driver[e].dying /\ R(e).open = driver[e].open
             /\ R(e).state = IF e \in C THEN "dying" ELSE driver[e].state
  <2> DEFINE v == IF e \in C THEN "dying" ELSE driver[e].state
  <2>1. driver[e] \in DriverType
    BY <1>1
  <2>2. R(e) = [driver[e] EXCEPT !.state = v]
    OBVIOUS
  <2>3. v \in {"building", "live", "dying", "gone"} /\ v = IF e \in C THEN "dying" ELSE driver[e].state
    BY <2>1 DEF DriverType
  <2> HIDE DEF v, R
  <2>4. QED
    BY <2>1, <2>2, <2>3 DEF DriverType
<1> HIDE DEF R
<1>5. driver' \in Seq(DriverType) /\ DOMAIN driver' = DOMAIN driver
  <2>1. driver' \in [1 .. Len(driver) -> DriverType]
    BY <1>2, <1>3, <1>4
  <2>2. driver' \in Seq(DriverType)
    BY <2>1, <1>2, FunctionSeq
  <2>3. QED
    BY <2>1, <2>2, <1>2
<1>6. \A e \in DOMAIN driver : driver'[e] = R(e)
  BY <1>2, <1>3
<1>7. SamePlaces
  BY <1>4, <1>5, <1>6 DEF SamePlaces
<1>8. \A e \in DOMAIN driver : \A q : Obj(e, q)' = Obj(e, q)
  BY <1>4, <1>6 DEF Obj
<1>9. QED
  BY <1>4, <1>5, <1>6, <1>7, <1>8

\* The steps that destroy the drivers of C: those of ~node for each.
Tears(l, C) ==
  /\ Shape(l, Wireless)
  /\ \A x : x \in ToSet(l) <=> \E c \in C : x \in ToSet(DestroyDriver(c))
Standing(C) == \A c \in C : c # 0 => c \in DOMAIN driver /\ ~Doomed(c)

\* What ~node does for several drivers.
LEMMA TearsFacts ==
  ASSUME TypeInv, NEW C \in SUBSET Nat, Standing(C), NEW l, Tears(l, C)
  PROVE  /\ \A x \in ToSet(l) : x.op \in Undoing /\ x.driver \in C \ {0} /\ x.driver \in DOMAIN driver
         /\ \A c \in C : c # 0 => Step("gone", c, NoPad) \in ToSet(l)
         /\ \A e, q, W : /\ Claims(ToSet(l), e, q, W) <= 1
                         /\ ~(e \in C /\ e # 0 /\ q \in driver[e].pads) => Claims(ToSet(l), e, q, W) = 0
                         /\ Switches(ToSet(l), e, q) = 0
<1>1. ASSUME NEW c \in C
      PROVE  /\ Only(DestroyDriver(c), Undoing)
             /\ \A x : x \in ToSet(DestroyDriver(c)) <=>
                  /\ c # 0
                  /\ \/ \E p \in driver[c].pads : x \in {Step("disable", c, p), Step("unlisten", c, p)}
                     \/ x = Step("gone", c, NoPad)
  <2>1. c # 0 => c \in DOMAIN driver /\ driver[c].pads \in SUBSET Pads
    <3>1. c # 0 => c \in DOMAIN driver
      BY DEF Standing
    <3>2. c # 0 => driver[c] \in DriverType
      BY <3>1, ObjTypes
    <3>3. QED
      BY <3>1, <3>2 DEF DriverType
  <2>2. c \in Nat
    OBVIOUS
  <2>3. QED
    BY <2>1, <2>2, DestroyShape
<1>2. ASSUME NEW x \in ToSet(l)
      PROVE  x.op \in Undoing /\ x.driver \in C \ {0} /\ x.driver \in DOMAIN driver
  <2>1. PICK c \in C : x \in ToSet(DestroyDriver(c))
    BY DEF Tears
  <2>2. c # 0 /\ (x = Step("gone", c, NoPad)
                  \/ \E p \in driver[c].pads : x \in {Step("disable", c, p), Step("unlisten", c, p)})
    BY <2>1, <1>1
  <2>3. x.driver = c
    BY <2>2, StepFacts
  <2>4. x.op \in Undoing
    BY <2>1, <1>1, OnlySet
  <2>5. QED
    BY <2>2, <2>3, <2>4 DEF Standing
<1>3. ASSUME NEW c \in C, c # 0
      PROVE  Step("gone", c, NoPad) \in ToSet(l)
  <2>1. Step("gone", c, NoPad) \in ToSet(DestroyDriver(c))
    BY <1>1, <1>3
  <2>2. QED
    BY <2>1 DEF Tears
<1>4. ASSUME NEW e, NEW q, NEW W
      PROVE  /\ Claims(ToSet(l), e, q, W) <= 1
             /\ ~(e \in C /\ e # 0 /\ q \in driver[e].pads) => Claims(ToSet(l), e, q, W) = 0
             /\ Switches(ToSet(l), e, q) = 0
  <2>1. Keep(e, q, W) \notin ToSet(l) /\ Step("enable", e, q) \notin ToSet(l)
    <3>1. /\ Keep(e, q, W).op \in {"emplace", "adopt"} /\ Step("enable", e, q).op = "enable"
      BY KeepFacts, StepFacts
    <3>2. QED
      BY <3>1, <1>2 DEF Undoing
  <2>2. Switches(ToSet(l), e, q) = 0
    BY <2>1, NoCounts
  <2>3. Claims(ToSet(l), e, q, W) <= 1
    BY <2>1, OneFacts DEF Claims, One
  <2>4. ASSUME ~(e \in C /\ e # 0 /\ q \in driver[e].pads)
        PROVE  Claims(ToSet(l), e, q, W) = 0
    <3>1. Step("disable", e, q) \notin ToSet(l)
      <4>1. SUFFICES ASSUME Step("disable", e, q) \in ToSet(l)
                     PROVE  FALSE
        OBVIOUS
      <4>2. PICK c \in C : Step("disable", e, q) \in ToSet(DestroyDriver(c))
        BY <4>1 DEF Tears
      <4>3. c # 0 /\ (Step("disable", e, q) = Step("gone", c, NoPad)
                  \/ \E p \in driver[c].pads : Step("disable", e, q) \in {Step("disable", c, p), Step("unlisten", c, p)})
        BY <4>2, <1>1
      <4>4. c # 0 /\ e = c /\ q \in driver[c].pads
        BY <4>3, StepEqual
      <4>5. QED
        BY <4>4, <2>4
    <3>2. QED
      BY <3>1, <2>1, NoCounts
  <2>5. QED
    BY <2>2, <2>3, <2>4
<1>5. QED
  BY <1>2, <1>3, <1>4

\* The lists of ~node are handed to a thread that has nothing else to do.
LEMMA TearStep ==
  ASSUME RawParts, NEW t \in Threads, work[t] = <<>>, NEW C \in SUBSET Nat, Standing(C),
         NEW l, Tears(l, C), Turns(t, l), driver' = Marked(C),
         UNCHANGED <<node, queue, found, plugged, raw, unreached>>,
         udev' \in Seq([add : BOOLEAN, path : Paths])
  PROVE  /\ TypeInv' /\ NodeInv' /\ Owned' /\ Heard'
         /\ Wireless' = Wireless /\ DOMAIN driver' = DOMAIN driver /\ Ahead(t)' = ToSet(l)
         /\ \A u \in Threads : u # t => Ahead(u)' = Ahead(u) /\ work'[u] = work[u]
<1>1. TypeInv /\ ListInv /\ NodeInv /\ Owned /\ Heard
  BY DEF RawParts
<1>2. /\ driver' \in Seq(DriverType) /\ SamePlaces
      /\ \A e \in DOMAIN driver :
            /\ driver'[e].listens = driver[e].listens /\ driver'[e].pads = driver[e].pads
            /\ driver'[e].state = IF e \in C THEN "dying" ELSE driver[e].state
      /\ \A e \in DOMAIN driver : \A q : Obj(e, q)' = Obj(e, q)
  BY <1>1, MarkedFacts
<1>3. /\ Wireless' = Wireless /\ Ahead(t)' = ToSet(l)
      /\ \A u \in Threads : u # t => Ahead(u)' = Ahead(u) /\ work'[u] = work[u]
  BY <1>1, <1>2, TurnFacts
<1>4. /\ \A x \in ToSet(l) : x.op \in Undoing /\ x.driver \in C \ {0} /\ x.driver \in DOMAIN driver
      /\ \A c \in C : c # 0 => Step("gone", c, NoPad) \in ToSet(l)
      /\ \A e, q, W : /\ Claims(ToSet(l), e, q, W) <= 1
                      /\ ~(e \in C /\ e # 0 /\ q \in driver[e].pads) => Claims(ToSet(l), e, q, W) = 0
                      /\ Switches(ToSet(l), e, q) = 0
  BY <1>1, TearsFacts
<1>5. DOMAIN driver' = DOMAIN driver
  BY <1>2 DEF SamePlaces
<1>6. Ahead(t) = {}
  BY EmptyShape DEF Ahead
<1>7. TypeInv'
  <2>1. l \in Seq(StepType)
    BY DEF Tears, Shape
  <2>2. work' \in [Threads -> Seq(StepType)]
    BY <2>1, <1>1 DEF TypeInv, Turns
  <2>3. node' \in [Paths -> Nat] /\ queue' \in Seq(Call) /\ found' \subseteq Paths /\ plugged' \subseteq Paths
        /\ raw' \subseteq Pads
    BY <1>1 DEF TypeInv
  <2>4. QED
    BY <2>2, <2>3, <1>2 DEF TypeInv, StepType, DriverType, Call
<1>8. ASSUME NEW e \in DOMAIN driver
      PROVE  /\ Doomed(e)' => Doomed(e) \/ e \in C
             /\ Doomed(e) => Doomed(e)'
             /\ e \in C => Doomed(e)'
             /\ e # 0
  <2>1. ASSUME Doomed(e)', e \notin C
        PROVE  Doomed(e)
    <3>1. CASE driver'[e].state = "gone"
      BY <2>1, <3>1, <1>2 DEF Doomed
    <3>2. CASE driver'[e].state # "gone"
      <4>1. PICK u \in Threads, q \in Pads \cup {NoPad} : Step("gone", e, q) \in Ahead(u)'
        BY <2>1, <3>2 DEF Doomed
      <4>2. u # t
        BY <4>1, <2>1, <1>3, <1>4, StepFacts
      <4>3. Step("gone", e, q) \in Ahead(u)
        BY <4>1, <4>2, <1>3
      <4>4. QED
        BY <4>3 DEF Doomed
    <3>3. QED
      BY <3>1, <3>2
  <2>2. e # 0
    BY <1>1 DEF TypeInv
  <2>3. ASSUME e \in C
        PROVE  Doomed(e)'
    <3>1. Step("gone", e, NoPad) \in Ahead(t)'
      BY <2>2, <2>3, <1>3, <1>4
    <3>2. QED
      BY <3>1 DEF Doomed
  <2>4. ASSUME Doomed(e), e \notin C
        PROVE  Doomed(e)'
    <3>1. driver[e].state = "gone" => driver'[e].state = "gone"
      BY <2>4, <1>2
    <3>2. \A q \in Pads \cup {NoPad} : Step("gone", e, q) \in Ahead(t) =>
            Step("gone", e, q) \in ToSet(l) \/ driver'[e].state = "gone"
      BY <1>6
    <3>3. QED
      BY <2>4, <3>1, <3>2, <1>1, <1>2, DoomedStays
  <2>5. QED
    BY <2>1, <2>2, <2>3, <2>4
<1>9. NodeInv'
  <2>1. ASSUME NEW pa \in Paths, node'[pa] # 0
        PROVE  /\ node'[pa] \in DOMAIN driver'
               /\ driver'[node'[pa]].path = pa
               /\ driver'[node'[pa]].state # "gone"
    <3>1. /\ node[pa] \in DOMAIN driver /\ driver[node[pa]].path = pa
          /\ driver[node[pa]].state # "gone"
      BY <2>1, <1>1 DEF NodeInv
    <3>2. QED
      BY <3>1, <1>2, <1>5 DEF SamePlaces
  <2>2. ASSUME NEW pa \in Paths, NEW x \in Ahead("monitor")', x.op \in Building
        PROVE  x.driver # node'[pa]
    <3>1. x \in Ahead("monitor")
      BY <2>2, <1>3, <1>4, Kinds DEF Threads
    <3>2. QED
      BY <3>1, <2>2, <1>1 DEF NodeInv
  <2>3. ASSUME NEW e \in Wireless', Doomed(e)'
        PROVE  driver'[e].state \in {"dying", "gone"}
    <3>1. e \in DOMAIN driver /\ e \in Wireless
      BY <1>3 DEF Wireless
    <3>2. CASE e \in C
      BY <3>1, <3>2, <1>2
    <3>3. CASE e \notin C
      <4>1. driver[e].state \in {"dying", "gone"}
        BY <3>1, <3>3, <2>3, <1>8, <1>1 DEF NodeInv
      <4>2. QED
        BY <4>1, <3>1, <3>3, <1>2
    <3>4. QED
      BY <3>2, <3>3
  <2>4. \A i \in DOMAIN queue' : queue'[i].driver \in Wireless'
    BY <1>1, <1>3 DEF NodeInv
  <2>5. \A e \in DOMAIN driver' : driver'[e].listens # {} => e \in Wireless'
    BY <1>1, <1>2, <1>3, <1>5 DEF NodeInv
  <2>6. QED
    BY <2>1, <2>2, <2>3, <2>4, <2>5 DEF NodeInv
<1>10. Owned'
  <2>1. ASSUME NEW e \in DOMAIN driver, NEW q \in Pads
        PROVE  Claims(ToSet(l), e, q, Wireless) + Has(e, q)' + Obj(e, q)
                 <= Claims(Ahead(t), e, q, Wireless) + Has(e, q) + Obj(e, q)'
    <3>1. /\ Claims(ToSet(l), e, q, Wireless) \in Int /\ Claims(Ahead(t), e, q, Wireless) \in Nat
          /\ Has(e, q) \in {0, 1} /\ Has(e, q)' \in {0, 1} /\ Obj(e, q) \in Int /\ Obj(e, q)' = Obj(e, q)
      BY <1>1, <1>2, <1>7, CountTypes, AccountTypes
    <3>2. CASE e \in C /\ q \in driver[e].pads
      <4>1. Has(e, q)' = 0
        BY <3>2, <1>8 DEF Has, One
      <4>2. Has(e, q) = 1
        BY <3>2, <1>8 DEF Standing, Has, One
      <4>3. Claims(ToSet(l), e, q, Wireless) <= 1
        BY <1>4
      <4>4. QED
        BY <4>1, <4>2, <4>3, <3>1
    <3>3. CASE ~(e \in C /\ q \in driver[e].pads)
      <4>1. Has(e, q)' <= Has(e, q)
        BY <1>2, <1>8, HasStays
      <4>2. Claims(ToSet(l), e, q, Wireless) = 0
        BY <3>3, <1>4
      <4>3. QED
        BY <4>1, <4>2, <3>1
    <3>4. QED
      BY <3>2, <3>3
  <2>2. QED
    BY <2>1, <1>1, <1>2, <1>7, OwnedStep
<1>11. Heard'
  <2>1. raw' \ unreached' \subseteq raw \ unreached
    OBVIOUS
  <2>2. ASSUME NEW r \in raw' \ unreached', NEW e \in DOMAIN driver
        PROVE  Switches(ToSet(l), e, r) + Obj(e, r) <= Switches(Ahead(t), e, r) + Obj(e, r)'
    <3>1. r \in Pads
      BY <1>1 DEF TypeInv
    <3>2. Switches(ToSet(l), e, r) = 0 /\ Switches(Ahead(t), e, r) \in Nat
      BY <1>4, CountTypes
    <3>3. Obj(e, r)' = Obj(e, r) /\ Obj(e, r) \in Int
      BY <3>1, <1>1, <1>2, ObjTypes
    <3>4. QED
      BY <3>2, <3>3
  <2>3. QED
    BY <2>1, <2>2, <1>1, <1>2, <1>7, HeardKept
<1>12. QED
  BY <1>3, <1>5, <1>7, <1>9, <1>10, <1>11

\* The first element of a sequence and the others.
LEMMA FirstFacts ==
  ASSUME NEW S, NEW s \in Seq(S), s # <<>>
  PROVE  /\ Head(s) \in S /\ Head(s) = s[1] /\ 1 \in DOMAIN s
         /\ Tail(s) \in Seq(S)
         /\ \A i \in DOMAIN Tail(s) : i + 1 \in DOMAIN s /\ Tail(s)[i] = s[i + 1]
<1>1. Len(s) \in Nat \ {0} /\ DOMAIN s = 1 .. Len(s) /\ Tail(s) \in Seq(S) /\ Len(Tail(s)) = Len(s) - 1
  BY TailFacts
<1>2. DOMAIN Tail(s) = 1 .. (Len(s) - 1)
  BY <1>1
<1>3. Head(s) = s[1] /\ 1 \in DOMAIN s
  BY <1>1
<1>4. \A i \in DOMAIN Tail(s) : i + 1 \in DOMAIN s /\ Tail(s)[i] = s[i + 1]
  BY <1>1, <1>2
<1>5. QED
  BY <1>1, <1>3, <1>4

\* Nobody destroys the driver of a node when the monitor thread is idle.
LEMMA NodesStand ==
  ASSUME RawParts, ~Busy("monitor"), scan # "done"
  PROVE  Standing({node[path] : path \in Paths})
<1>1. TypeInv /\ ListInv /\ NodeInv
  BY DEF RawParts
<1>2. Ahead("monitor") = {} /\ \A x \in Ahead("main") : x.op # "gone"
  BY <1>1, EmptyShape DEF Ahead, Busy, ListInv
<1>3. ASSUME NEW path \in Paths, node[path] # 0
      PROVE  node[path] \in DOMAIN driver /\ ~Doomed(node[path])
  <2>1. node[path] \in DOMAIN driver /\ driver[node[path]].state # "gone"
    BY <1>1, <1>3 DEF NodeInv
  <2>2. \A t \in Threads, q \in Pads \cup {NoPad} : Step("gone", node[path], q) \notin Ahead(t)
    BY <1>2, StepFacts DEF Threads
  <2>3. QED
    BY <2>1, <2>2 DEF Doomed
<1>4. QED
  BY <1>3 DEF Standing

\* The driver of a node, if there is one.
LEMMA NodeTypes ==
  ASSUME RawParts, NEW path \in Paths
  PROVE  /\ node[path] \in Nat
         /\ node[path] # 0 => node[path] \in DOMAIN driver /\ driver[node[path]].pads \in SUBSET Pads
<1>1. TypeInv /\ NodeInv
  BY DEF RawParts
<1>2. node[path] \in Nat
  BY <1>1 DEF TypeInv
<1>3. ASSUME node[path] # 0
      PROVE  node[path] \in DOMAIN driver /\ driver[node[path]].pads \in SUBSET Pads
  <2>1. node[path] \in DOMAIN driver
    BY <1>1, <1>3 DEF NodeInv
  <2>2. driver[node[path]] \in DriverType
    BY <2>1, <1>1, ObjTypes
  <2>3. QED
    BY <2>1, <2>2 DEF DriverType
<1>4. QED
  BY <1>2, <1>3

\* An unplugged node is erased, if it is there.
LEMMA RemoveKeeps ==
  ASSUME RawParts, UdevEvent, ~Head(udev).add
  PROVE  RawParts'
<1> DEFINE path == Head(udev).path
           c == node[path]
           l == EraseNode(path)
<1>1. TypeInv /\ ListInv /\ NodeInv
  BY DEF RawParts
<1>2. /\ ~Busy("monitor") /\ scan = "listen" /\ udev # <<>> /\ udev' = Tail(udev)
      /\ work' = [work EXCEPT !["monitor"] = l] /\ driver' = Marked({c})
      /\ UNCHANGED <<node, raw, unreached>>
      /\ UNCHANGED <<queue, program, scan, found, stopping, plugged>>
  BY DEF UdevEvent, effects, queueVars, surroundings
<1>3. udev \in Seq([add : BOOLEAN, path : Paths])
  BY <1>1 DEF TypeInv
<1>4. Head(udev) \in [add : BOOLEAN, path : Paths] /\ udev' \in Seq([add : BOOLEAN, path : Paths])
  BY <1>2, <1>3, FirstFacts
<1>5. path \in Paths
  BY <1>4
<1>6. /\ c \in Nat /\ {c} \in SUBSET Nat
      /\ c # 0 => c \in DOMAIN driver /\ driver[c].pads \in SUBSET Pads
  BY <1>5, NodeTypes
<1>7. Standing({c})
  <2>1. Standing({node[pa] : pa \in Paths})
    BY <1>2, NodesStand
  <2>2. QED
    BY <2>1, <1>5 DEF Standing
<1>8. Tears(l, {c}) /\ Shape(l, Wireless)
  <2>1. Shape(DestroyDriver(c), Wireless)
    BY <1>6, DestroyShape
  <2>2. l = DestroyDriver(c)
    BY DEF EraseNode
  <2> HIDE DEF c, l
  <2>3. QED
    BY <2>1, <2>2 DEF Tears
<1> HIDE DEF l, c, path
<1>9. Turns("monitor", l) /\ "monitor" \in Threads /\ "main" \in Threads /\ work["monitor"] = <<>>
  BY <1>2 DEF Turns, Threads, Busy
<1>10. UNCHANGED <<node, queue, found, plugged, raw, unreached>>
  BY <1>2
<1>11. /\ TypeInv' /\ NodeInv' /\ Owned' /\ Heard'
       /\ Wireless' = Wireless /\ DOMAIN driver' = DOMAIN driver /\ Ahead("monitor")' = ToSet(l)
       /\ Ahead("main")' = Ahead("main") /\ work'["main"] = work["main"]
  BY <1>2, <1>4, <1>6, <1>7, <1>8, <1>9, <1>10, TearStep
<1>12. \A x \in ToSet(l) : x.op \in Undoing /\ x.driver \in DOMAIN driver
  BY <1>1, <1>6, <1>7, <1>8, TearsFacts
<1>13. ListInv'
  <2>1. ASSUME NEW t \in Threads
        PROVE  /\ Shape(work'[t], Wireless')
               /\ \A x \in Ahead(t)' : x.driver \in DOMAIN driver'
    <3>1. work'["monitor"] = l
      BY <1>1, <1>9 DEF TypeInv, Turns
    <3>2. CASE t = "monitor"
      BY <3>1, <3>2, <1>8, <1>11, <1>12
    <3>3. CASE t = "main"
      BY <3>3, <1>1, <1>11 DEF ListInv
    <3>4. QED
      BY <3>2, <3>3 DEF Threads
  <2>2. /\ \A x \in Ahead("main")' : x.op \in Building => x.driver \in Wireless' /\ x.op # "adopt"
        /\ \A x \in Ahead("main")' : x.op = "gone" => scan' = "done"
    BY <1>1, <1>2, <1>11 DEF ListInv
  <2>3. \A x \in Ahead("monitor")' : x.op # "erase"
    BY <1>11, <1>12 DEF Undoing
  <2>4. scan' # "done"
    BY <1>2
  <2>5. stopping' => program' # "running" /\ (scan' # "done" => work'["main"] = <<>>)
    BY <1>1, <1>2, <1>11 DEF ListInv
  <2>6. QED
    BY <2>1, <2>2, <2>3, <2>4, <2>5 DEF ListInv
<1>14. QED
  BY <1>11, <1>13 DEF RawParts

\* ~MyMonitor: every node is erased, by the main thread.
LEMMA StopShape ==
  ASSUME RawParts, ~Busy("monitor"), scan # "done"
  PROVE  LET l == FlattenSeq(SetToSeq({EraseNode(path) : path \in Paths}))
         IN  Tears(l, {node[path] : path \in Paths}) /\ Opens(l)
<1> DEFINE Q == {EraseNode(path) : path \in Paths}
           W == Wireless
<1>1. ASSUME NEW path \in Paths
      PROVE  /\ Shape(EraseNode(path), W) /\ Only(EraseNode(path), Undoing) /\ Opens(EraseNode(path))
             /\ \A x \in ToSet(EraseNode(path)) : node[path] # 0 /\ x.driver = node[path]
             /\ ToSet(EraseNode(path)) = ToSet(DestroyDriver(node[path]))
  <2> DEFINE c == node[path]
  <2>1. c \in Nat /\ (c # 0 => c \in DOMAIN driver /\ driver[c].pads \in SUBSET Pads)
    BY NodeTypes
  <2>2. EraseNode(path) = DestroyDriver(c)
    BY DEF EraseNode
  <2> HIDE DEF c
  <2>3. /\ Shape(DestroyDriver(c), W) /\ Only(DestroyDriver(c), Undoing) /\ Opens(DestroyDriver(c))
        /\ \A x : x \in ToSet(DestroyDriver(c)) =>
                /\ c # 0
                /\ \/ \E p \in driver[c].pads : x \in {Step("disable", c, p), Step("unlisten", c, p)}
                   \/ x = Step("gone", c, NoPad)
    BY <2>1, DestroyShape
  <2>4. \A x \in ToSet(DestroyDriver(c)) : c # 0 /\ x.driver = c
    BY <2>3, StepFacts
  <2>5. QED
    BY <2>2, <2>3, <2>4 DEF c
<1>2. IsFiniteSet(Q)
  <2> DEFINE f == [path \in Paths |-> EraseNode(path)]
  <2>1. f \in Surjection(Paths, Q)
    BY DEF Surjection
  <2>2. IsFiniteSet(Paths)
    BY FiniteAssumption
  <2> HIDE DEF f, Q
  <2>3. QED
    BY <2>1, <2>2, FS_Surjection
<1>3. \A s \in Q : Shape(s, W) /\ Only(s, Undoing) /\ Opens(s)
  BY <1>1
<1>4. ASSUME NEW u \in Q, NEW s \in Q, u # s
      PROVE  Apart(u, s)
  <2>1. PICK a \in Paths : u = EraseNode(a)
    OBVIOUS
  <2>2. PICK b \in Paths : s = EraseNode(b)
    OBVIOUS
  <2>3. node[a] # node[b]
    BY <1>4, <2>1, <2>2 DEF EraseNode
  <2>4. \A x \in ToSet(u), y \in ToSet(s) : x.driver # y.driver
    BY <1>1, <2>1, <2>2, <2>3
  <2>5. QED
    BY <2>4, ApartSets
<1> DEFINE l == FlattenSeq(SetToSeq(Q))
<1>5. Shape(l, W) /\ Opens(l) /\ \A x : x \in ToSet(l) <=> \E s \in Q : x \in ToSet(s)
  <2> HIDE DEF Q, W
  <2>1. QED
    BY <1>2, <1>3, <1>4, ListsShape
<1>6. \A x : x \in ToSet(l) <=> \E c \in {node[path] : path \in Paths} : x \in ToSet(DestroyDriver(c))
  <2>1. TAKE x
  <2>2. x \in ToSet(l) <=> \E path \in Paths : x \in ToSet(EraseNode(path))
    <3>1. x \in ToSet(l) <=> \E s \in Q : x \in ToSet(s)
      BY <1>5
    <3> HIDE DEF l
    <3>2. QED
      BY <3>1
  <2> HIDE DEF l, Q
  <2>3. QED
    BY <2>2, <1>1
<1> HIDE DEF l
<1>7. Tears(l, {node[path] : path \in Paths})
  BY <1>5, <1>6 DEF Tears
<1>8. QED
  BY <1>5, <1>7 DEF l

\* ~MyMonitor: the main thread destroys what is left.
LEMMA StopKeeps ==
  ASSUME RawParts, MonitorStops
  PROVE  RawParts'
<1> DEFINE C == {node[path] : path \in Paths}
           l == FlattenSeq(SetToSeq({EraseNode(path) : path \in Paths}))
<1>1. TypeInv /\ ListInv /\ NodeInv
  BY DEF RawParts
<1>2. /\ ~Busy("monitor") /\ scan = "listen" /\ stopping /\ scan' = "done"
      /\ work' = [work EXCEPT !["main"] = l] /\ driver' = Marked(C)
      /\ UNCHANGED <<node, queue, found, plugged, raw, unreached>>
      /\ UNCHANGED <<program, stopping, udev>>
  BY DEF MonitorStops, worldVars, history, queueVars
<1>3. udev' \in Seq([add : BOOLEAN, path : Paths])
  BY <1>1, <1>2 DEF TypeInv
<1>4. C \in SUBSET Nat
  BY <1>1 DEF TypeInv
<1>5. Standing(C)
  BY <1>2, NodesStand
<1>6. Tears(l, C) /\ Shape(l, Wireless)
  BY <1>2, StopShape DEF Tears
<1> HIDE DEF l, C
<1>7. /\ Turns("main", l) /\ "monitor" \in Threads /\ "main" \in Threads
      /\ work["main"] = <<>> /\ work["monitor"] = <<>>
  BY <1>1, <1>2 DEF Turns, Threads, Busy, ListInv
<1>8. /\ TypeInv' /\ NodeInv' /\ Owned' /\ Heard'
      /\ Wireless' = Wireless /\ DOMAIN driver' = DOMAIN driver /\ Ahead("main")' = ToSet(l)
      /\ Ahead("monitor")' = Ahead("monitor") /\ work'["monitor"] = work["monitor"]
  BY <1>2, <1>3, <1>4, <1>5, <1>6, <1>7, TearStep
<1>9. \A x \in ToSet(l) : x.op \in Undoing /\ x.driver \in DOMAIN driver
  BY <1>1, <1>4, <1>5, <1>6, TearsFacts
<1>10. ListInv'
  <2>1. ASSUME NEW t \in Threads
        PROVE  /\ Shape(work'[t], Wireless')
               /\ \A x \in Ahead(t)' : x.driver \in DOMAIN driver'
    <3>1. work'["main"] = l
      BY <1>1, <1>7 DEF TypeInv, Turns
    <3>2. CASE t = "main"
      BY <3>1, <3>2, <1>6, <1>8, <1>9
    <3>3. CASE t = "monitor"
      BY <3>3, <1>1, <1>8 DEF ListInv
    <3>4. QED
      BY <3>2, <3>3 DEF Threads
  <2>2. \A x \in Ahead("main")' : x.op \in Undoing
    BY <1>8, <1>9
  <2>3. \A x \in Ahead("main")' : x.op \notin Building
    BY <2>2, Kinds
  <2>4. \A x \in Ahead("monitor")' : x.op # "erase"
    BY <1>1, <1>8 DEF ListInv
  <2>5. scan' = "done" /\ stopping' /\ program' # "running" /\ work'["monitor"] = <<>>
    BY <1>1, <1>2, <1>7, <1>8 DEF ListInv
  <2>6. QED
    BY <2>1, <2>2, <2>3, <2>4, <2>5 DEF ListInv
<1>11. QED
  BY <1>8, <1>10 DEF RawParts

\* What a driver's construction has ahead claims nothing: its handlers are
\* still to be added.
LEMMA BuildsCounts ==
  ASSUME NEW W, NEW s, NEW d, NEW P, Builds(s, d, P, W), NEW e, NEW q \in Pads
  PROVE  Claims(ToSet(s), e, q, W) = 0 /\ Switches(ToSet(s), e, q) = 0
<1>1. /\ Only(s, Building \ {"erase"}) /\ \A x \in ToSet(s) : x.driver = d
      /\ Step("enable", d, q) \in ToSet(s) \/ Keep(d, q, W) \in ToSet(s) => Step("listen", d, q) \in ToSet(s)
  BY DEF Builds
<1>2. Step("disable", e, q) \notin ToSet(s)
  <2>1. Step("disable", e, q).op = "disable" /\ "disable" \notin Building
    BY StepFacts DEF Building
  <2>2. QED
    BY <2>1, <1>1, OnlySet
<1>3. Keep(e, q, W) \in ToSet(s) => Step("listen", e, q) \in ToSet(s)
  BY <1>1, KeepFacts
<1>4. Step("enable", e, q) \in ToSet(s) => Step("listen", e, q) \in ToSet(s)
  BY <1>1, StepFacts
<1>5. QED
  BY <1>2, <1>3, <1>4 DEF Claims, Switches, One

\* The steps that build the driver of a node.
NodeWork(path, d, ps) ==
  IF path \in Receivers THEN Append(ReceiverWork(d, ps), Step("adopt", d, NoPad))
  ELSE Append(Construction(d, ps[1]), Step("adopt", d, ps[1]))

\* The work for a new node builds the driver's objects one by one.
LEMMA NodeWorkBuilds ==
  ASSUME NEW path \in Receivers \cup Mice, NEW d \in Nat \ {0}, NEW W, d \in W <=> path \in Receivers
  PROVE  Builds(NodeWork(path, d, SetToSeq(PadsOf(path))), d, PadsOf(path), W)
<1> DEFINE P == PadsOf(path)
           ps == SetToSeq(P)
<1>1. P \in SUBSET Pads
  BY DEF PadsOf
<1>2. IsFiniteSet(P)
  BY <1>1, FiniteAssumption, FS_Subset
<1> HIDE DEF P
<1>3. /\ ps \in Seq(P) /\ Len(ps) = Cardinality(P)
      /\ \A i, j \in DOMAIN ps : ps[i] = ps[j] => i = j
  BY <1>2, ListingFacts
<1> HIDE DEF ps
<1>4. CASE path \in Receivers
  <2>1. d \in (Nat \ {0}) \cap W
    BY <1>4
  <2>2. Builds(Append(ReceiverWork(d, ps), Step("adopt", d, NoPad)), d, P, W)
    BY <2>1, <1>1, <1>3, ReceiverShape
  <2>3. QED
    BY <2>2, <1>4 DEF NodeWork, ps, P
<1>5. CASE path \notin Receivers
  <2>1. Cardinality(PadsOf(path)) = 1
    BY <1>5, PathAssumption
  <2>2. Len(ps) = 1
    BY <2>1, <1>3 DEF P
  <2>3. ps[1] \in P
    BY <2>2, <1>3
  <2> DEFINE p == ps[1]
  <2>4. Builds(Append(Construction(d, p), Step("adopt", d, p)), d, {p}, W)
    BY <2>3, <1>1, <1>5, MouseShape
  <2>5. Builds(Append(Construction(d, p), Step("adopt", d, p)), d, P, W)
    BY <2>3, <2>4 DEF Builds
  <2>6. QED
    BY <2>5, <1>5 DEF NodeWork, ps, P
<1>6. QED
  BY <1>4, <1>5

\* A driver that is new.
LEMMA NewTypes ==
  ASSUME NEW path \in Receivers \cup Mice
  PROVE  /\ NewDriver(path) \in DriverType
         /\ NewDriver(path).path = path /\ NewDriver(path).state = "building"
         /\ NewDriver(path).pads = {} /\ NewDriver(path).listens = {}
         /\ \A q \in Pads : NewDriver(path).heard[q] = 0 /\ NewDriver(path).dying[q] = 0
<1>1. None \in [Pads -> Int] /\ \A q \in Pads : None[q] = 0
  BY DEF None
<1>2. QED
  BY <1>1 DEF NewDriver, DriverType

\* A driver more.
LEMMA NewPlace ==
  ASSUME TypeInv, NEW path \in Receivers \cup Mice, driver' = Append(driver, NewDriver(path)),
         NEW d, d = Len(driver) + 1
  PROVE  /\ d \in Nat \ {0} /\ d \notin DOMAIN driver
         /\ driver' \in Seq(DriverType) /\ DOMAIN driver' = DOMAIN driver \cup {d}
         /\ driver'[d] = NewDriver(path) /\ \A e \in DOMAIN driver : driver'[e] = driver[e]
         /\ d \in Wireless' <=> path \in Receivers
         /\ \A e \in DOMAIN driver : e \in Wireless' <=> e \in Wireless
         /\ Wireless \subseteq Wireless' /\ Wireless' \subseteq DOMAIN driver \cup {d}
<1>1. driver \in Seq(DriverType) /\ NewDriver(path) \in DriverType
  BY NewTypes DEF TypeInv
<1>2. DOMAIN driver = 1 .. Len(driver) /\ Len(driver) \in Nat
  BY <1>1
<1>3. d \in Nat \ {0} /\ d \notin DOMAIN driver
  BY <1>2
<1>4. driver' \in Seq(DriverType) /\ Len(driver') = Len(driver) + 1
  BY <1>1, AppendFacts
<1>5. DOMAIN driver' = DOMAIN driver \cup {d}
  <2>1. DOMAIN driver' = 1 .. (Len(driver) + 1)
    BY <1>4
  <2>2. QED
    BY <2>1, <1>2
<1>6. driver'[d] = NewDriver(path) /\ \A e \in DOMAIN driver : driver'[e] = driver[e]
  BY <1>1, <1>2
<1>7. d \in Wireless' <=> path \in Receivers
  <2>1. driver'[d].path = path
    BY <1>6, NewTypes
  <2>2. QED
    BY <2>1, <1>5 DEF Wireless
<1>8. \A e \in DOMAIN driver : e \in Wireless' <=> e \in Wireless
  BY <1>5, <1>6 DEF Wireless
<1>9. Wireless \subseteq Wireless' /\ Wireless' \subseteq DOMAIN driver \cup {d}
  BY <1>5, <1>8 DEF Wireless
<1>10. QED
  BY <1>3, <1>4, <1>5, <1>6, <1>7, <1>8, <1>9

\* A driver is added, with its construction ahead.
LEMMA AddOne ==
  ASSUME RawParts, NEW path \in Receivers \cup Mice, driver' = Append(driver, NewDriver(path)),
         NEW d, d = Len(driver) + 1, NEW l, l = NodeWork(path, d, SetToSeq(PadsOf(path))),
         Turns("monitor", l), ~Busy("monitor"), scan # "done",
         UNCHANGED <<node, raw, unreached, queue, program, scan, stopping, plugged>>,
         found' \subseteq Paths, udev' \in Seq([add : BOOLEAN, path : Paths])
  PROVE  RawParts'
<1> DEFINE V == Wireless'
<1>1. TypeInv /\ ListInv /\ NodeInv /\ Owned /\ Heard
  BY DEF RawParts
<1>2. /\ d \in Nat \ {0} /\ d \notin DOMAIN driver
      /\ driver' \in Seq(DriverType) /\ DOMAIN driver' = DOMAIN driver \cup {d}
      /\ driver'[d] = NewDriver(path) /\ \A e \in DOMAIN driver : driver'[e] = driver[e]
      /\ d \in V <=> path \in Receivers
      /\ \A e \in DOMAIN driver : e \in V <=> e \in Wireless
      /\ Wireless \subseteq V /\ V \subseteq DOMAIN driver \cup {d}
  BY <1>1, NewPlace
<1>3. PICK U : U = V
  OBVIOUS
<1>4. Builds(l, d, PadsOf(path), U)
  BY <1>2, <1>3, NodeWorkBuilds
<1>5. /\ Shape(l, U) /\ \A x \in ToSet(l) : x.driver = d /\ x.op \in Building \ {"erase"}
      /\ l \in Seq(StepType)
  BY <1>4, OnlySet DEF Builds, Shape
<1>6. \A e, q : q \in Pads => Claims(ToSet(l), e, q, U) = 0 /\ Switches(ToSet(l), e, q) = 0
  BY <1>4, BuildsCounts
<1>7. /\ work'["monitor"] = l /\ work'["main"] = work["main"] /\ work["monitor"] = <<>>
      /\ work' \in [Threads -> Seq(StepType)] /\ "main" \in Threads /\ "monitor" \in Threads
  BY <1>1, <1>5 DEF TypeInv, Turns, Threads, Busy
<1>8. Ahead("monitor")' = ToSet(l) /\ Ahead("main")' = Ahead("main") /\ Ahead("monitor") = {}
  BY <1>7, EmptyShape DEF Ahead
<1>9. \A x \in Ahead("main") : x.driver \in DOMAIN driver /\ x.driver # d /\ x.op # "gone"
  BY <1>1, <1>2, <1>7 DEF ListInv
<1>10. /\ driver'[d].path = path /\ driver'[d].state = "building"
       /\ driver'[d].pads = {} /\ driver'[d].listens = {}
       /\ \A q \in Pads : driver'[d].heard[q] = 0 /\ driver'[d].dying[q] = 0
  BY <1>2, NewTypes
<1>11. /\ \A e : e # d => (Doomed(e)' <=> driver'[e].state = "gone")
       /\ \A e : Doomed(e) <=> driver[e].state = "gone"
       /\ ~Doomed(d)'
  <2>1. \A t \in Threads, q \in Pads \cup {NoPad} : \A e :
            Step("gone", e, q) \notin Ahead(t)' /\ Step("gone", e, q) \notin Ahead(t)
    BY <1>5, <1>8, <1>9, StepFacts DEF Threads, Building
  <2>2. QED
    BY <2>1, <1>10 DEF Doomed
<1>12. TypeInv'
  <2>1. node' \in [Paths -> Nat] /\ queue' \in Seq(Call) /\ plugged' \subseteq Paths /\ raw' \subseteq Pads
    BY <1>1 DEF TypeInv
  <2>2. QED
    BY <2>1, <1>2, <1>7 DEF TypeInv, StepType, DriverType, Call
<1>13. ListInv'
  <2>1. ASSUME NEW t \in Threads
        PROVE  /\ Shape(work'[t], V)
               /\ \A x \in Ahead(t)' : x.driver \in DOMAIN driver'
    <3>1. CASE t = "monitor"
      BY <3>1, <1>2, <1>3, <1>5, <1>7, <1>8
    <3>2. CASE t = "main"
      <4> DEFINE s == work["main"]
      <4>1. Shape(s, Wireless)
        BY <1>1, <1>7 DEF ListInv
      <4>2. \A x \in ToSet(s) : x.driver \in Wireless <=> x.driver \in U
        BY <1>2, <1>3, <1>9 DEF Ahead
      <4>3. Shape(s, U)
        BY <4>1, <4>2, ShapeWireless
      <4>4. QED
        BY <3>2, <4>3, <1>2, <1>3, <1>7, <1>8, <1>9
    <3>3. QED
      BY <3>1, <3>2 DEF Threads
  <2>2. \A x \in Ahead("main")' : x.op \in Building => x.driver \in V /\ x.op # "adopt"
    BY <1>1, <1>2, <1>8 DEF ListInv
  <2>3. \A x \in Ahead("monitor")' : x.op # "erase"
    BY <1>5, <1>8
  <2>4. \A x \in Ahead("main")' : x.op # "gone"
    BY <1>8, <1>9
  <2>5. scan' # "done"
    OBVIOUS
  <2>6. stopping' => program' # "running" /\ (scan' # "done" => work'["main"] = <<>>)
    BY <1>1, <1>7 DEF ListInv
  <2>7. QED
    BY <2>1, <2>2, <2>3, <2>4, <2>5, <2>6 DEF ListInv
<1>14. NodeInv'
  <2>1. ASSUME NEW pa \in Paths, node'[pa] # 0
        PROVE  /\ node'[pa] \in DOMAIN driver'
               /\ driver'[node'[pa]].path = pa
               /\ driver'[node'[pa]].state # "gone"
    <3>1. /\ node[pa] \in DOMAIN driver /\ driver[node[pa]].path = pa
          /\ driver[node[pa]].state # "gone"
      BY <2>1, <1>1 DEF NodeInv
    <3>2. QED
      BY <3>1, <1>2
  <2>2. ASSUME NEW pa \in Paths, NEW x \in Ahead("monitor")', x.op \in Building
        PROVE  x.driver # node'[pa]
    <3>1. x.driver = d
      BY <1>5, <1>8
    <3>2. node[pa] # 0 => node[pa] \in DOMAIN driver
      BY <1>1 DEF NodeInv
    <3>3. QED
      BY <3>1, <3>2, <1>2
  <2>3. ASSUME NEW e \in V, Doomed(e)'
        PROVE  driver'[e].state \in {"dying", "gone"}
    <3>1. e # d
      BY <2>3, <1>11
    <3>2. QED
      BY <3>1, <2>3, <1>11
  <2>4. \A i \in DOMAIN queue' : queue'[i].driver \in V
    BY <1>1, <1>2 DEF NodeInv
  <2>5. ASSUME NEW e \in DOMAIN driver', driver'[e].listens # {}
        PROVE  e \in V
    <3>1. e # d /\ e \in DOMAIN driver
      BY <2>5, <1>2, <1>10
    <3>2. QED
      BY <3>1, <2>5, <1>1, <1>2 DEF NodeInv
  <2>6. QED
    BY <2>1, <2>2, <2>3, <2>4, <2>5 DEF NodeInv
<1>15. ASSUME NEW e \in DOMAIN driver, NEW q \in Pads
       PROVE  /\ Has(e, q)' = Has(e, q) /\ Obj(e, q)' = Obj(e, q) /\ Obj(e, q) \in Int /\ Has(e, q) \in {0, 1}
              /\ Claims(Ahead("main"), e, q, U) = Claims(Ahead("main"), e, q, Wireless)
              /\ Claims(Ahead("monitor"), e, q, Wireless) = 0 /\ Switches(Ahead("monitor"), e, q) = 0
  <2>1. e # d /\ driver'[e] = driver[e]
    BY <1>2
  <2>2. Has(e, q)' = Has(e, q)
    BY <2>1, <1>11 DEF Has
  <2>3. Obj(e, q)' = Obj(e, q)
    BY <2>1 DEF Obj
  <2>4. Keep(e, q, U) = Keep(e, q, Wireless)
    BY <1>2, <1>3 DEF Keep
  <2>5. Claims(Ahead("main"), e, q, U) = Claims(Ahead("main"), e, q, Wireless)
    BY <2>4 DEF Claims
  <2>6. Claims(Ahead("monitor"), e, q, Wireless) = 0 /\ Switches(Ahead("monitor"), e, q) = 0
    BY <1>8, NoCounts
  <2>7. QED
    BY <2>2, <2>3, <2>5, <2>6, <1>1, ObjTypes, CountTypes
<1>16. Owned'
  <2>1. ASSUME NEW e \in DOMAIN driver', NEW q \in Pads
        PROVE  Claims(Ahead("main"), e, q, U) + Claims(ToSet(l), e, q, U) + Has(e, q)' <= Obj(e, q)'
    <3>1. CASE e = d
      <4>1. Claims(Ahead("main"), e, q, U) = 0
        <5>1. Step("disable", e, q) \notin Ahead("main") /\ Keep(e, q, U) \notin Ahead("main")
          BY <3>1, <1>9, StepFacts, KeepFacts
        <5>2. QED
          BY <5>1, NoCounts
      <4>2. Has(e, q)' = 0 /\ Obj(e, q)' = 0
        BY <3>1, <1>10 DEF Has, Obj, One
      <4>3. QED
        BY <4>1, <4>2, <1>6
    <3>2. CASE e \in DOMAIN driver
      <4>1. Claims(Ahead("main"), e, q, Wireless) + Claims(Ahead("monitor"), e, q, Wireless) + Has(e, q) <= Obj(e, q)
        BY <3>2, <1>1 DEF Owned
      <4>2. Claims(Ahead("main"), e, q, Wireless) \in {0, 1, 2} /\ Claims(ToSet(l), e, q, U) = 0
        BY <1>6, CountTypes
      <4>3. QED
        BY <4>1, <4>2, <3>2, <1>15
    <3>3. QED
      BY <3>1, <3>2, <1>2
  <2>2. ASSUME NEW e \in DOMAIN driver', NEW q \in Pads
        PROVE  Claims(Ahead("main")', e, q, V) + Claims(Ahead("monitor")', e, q, V) + Has(e, q)' <= Obj(e, q)'
    BY <2>1, <1>3, <1>8
  <2>3. QED
    BY <2>2 DEF Owned
<1>17. Heard'
  <2>1. ASSUME NEW r \in raw' \ unreached'
        PROVE  \E e \in DOMAIN driver' :
                  Switches(Ahead("main")', e, r) + Switches(Ahead("monitor")', e, r) < Obj(e, r)'
    <3>1. r \in Pads
      BY <1>1 DEF TypeInv
    <3>2. PICK e \in DOMAIN driver : Switches(Ahead("main"), e, r) + Switches(Ahead("monitor"), e, r) < Obj(e, r)
      BY <1>1 DEF Heard
    <3>3. Switches(ToSet(l), e, r) = 0 /\ Switches(Ahead("monitor"), e, r) = 0 /\ Obj(e, r)' = Obj(e, r)
      BY <3>1, <1>6, <1>15
    <3>4. Switches(Ahead("main"), e, r) + Switches(ToSet(l), e, r) < Obj(e, r)'
      BY <3>2, <3>3
    <3>5. QED
      BY <3>4, <1>2, <1>8
  <2>2. QED
    BY <2>1 DEF Heard
<1>18. QED
  BY <1>12, <1>13, <1>14, <1>16, <1>17 DEF RawParts

\* MyMonitor::addDevice, for whatever node.
LEMMA AddKeeps ==
  ASSUME RawParts, NEW path \in Paths, AddNode(path), ~Busy("monitor"), scan # "done",
         UNCHANGED <<queue, program, scan, stopping, plugged>>,
         found' \subseteq Paths, udev' \in Seq([add : BOOLEAN, path : Paths])
  PROVE  RawParts'
<1>1. TypeInv /\ ListInv /\ NodeInv
  BY DEF RawParts
<1>2. UNCHANGED <<node, raw, unreached>>
  BY DEF AddNode, effects
<1>3. CASE path \in plugged \ Others
  <2> DEFINE d == Len(driver) + 1
             l == NodeWork(path, d, SetToSeq(PadsOf(path)))
  <2>1. path \in Receivers \cup Mice
    BY <1>3 DEF Paths
  <2>2. driver' = Append(driver, NewDriver(path)) /\ Turns("monitor", l)
    BY <1>3 DEF AddNode, Turns, NodeWork
  <2> HIDE DEF d, l
  <2>3. d = Len(driver) + 1 /\ l = NodeWork(path, d, SetToSeq(PadsOf(path)))
    BY DEF d, l
  <2>4. UNCHANGED <<node, raw, unreached, queue, program, scan, stopping, plugged>>
    BY <1>2
  <2>5. QED
    BY <2>1, <2>2, <2>3, <2>4, AddOne
<1>4. CASE path \notin plugged \ Others
  <2>1. UNCHANGED <<driver, work>>
    BY <1>4 DEF AddNode
  <2>2. TypeInv'
    BY <2>1, <1>1, <1>2 DEF TypeInv, StepType, DriverType, Call
  <2>3. /\ stopping' => program' # "running" /\ (scan' # "done" => work["main"] = <<>>)
        /\ scan' = "done" => stopping'
    BY <1>1 DEF ListInv
  <2>4. \A i \in DOMAIN queue' : queue'[i].driver \in Wireless
    BY <1>1 DEF NodeInv
  <2>5. raw' \ unreached' \subseteq raw \ unreached /\ scan' = scan /\ UNCHANGED <<work, node, driver>>
    BY <1>2, <2>1
  <2>6. QED
    BY <2>2, <2>3, <2>4, <2>5, IdleDrivers
<1>5. QED
  BY <1>3, <1>4

\* DeviceMonitor::enumerate.
LEMMA EnumerateKeeps ==
  ASSUME RawParts, Enumerate
  PROVE  RawParts'
<1>1. ~Busy("monitor") /\ UNCHANGED <<queue, program, stopping, udev, plugged>>
  BY DEF Enumerate, queueVars, surroundings
<1>2. CASE UNCHANGED <<driverVars, work>>
  BY <1>2, EnumerateIdle DEF driverVars
<1>3. CASE scan = "enumerate" /\ UNCHANGED scan /\ \E path \in found : found' = found \ {path} /\ AddNode(path)
  <2>1. PICK path \in found : found' = found \ {path} /\ AddNode(path)
    BY <1>3
  <2>2. /\ path \in Paths /\ found' \subseteq Paths
        /\ udev' \in Seq([add : BOOLEAN, path : Paths])
    BY <2>1, <1>1 DEF RawParts, TypeInv
  <2>3. scan # "done" /\ UNCHANGED <<queue, program, scan, stopping, plugged>>
    BY <1>1, <1>3
  <2>4. QED
    BY <2>1, <2>2, <2>3, <1>1, AddKeeps
<1>4. QED
  BY <1>2, <1>3 DEF Enumerate

\* An event of the udev monitor.
LEMMA UdevKeeps ==
  ASSUME RawParts, UdevEvent
  PROVE  RawParts'
<1>1. CASE ~Head(udev).add
  BY <1>1, RemoveKeeps
<1>2. CASE Head(udev).add
  <2> DEFINE path == Head(udev).path
  <2>1. /\ ~Busy("monitor") /\ scan = "listen" /\ udev # <<>> /\ udev' = Tail(udev)
        /\ AddNode(path)
        /\ UNCHANGED <<queue, program, scan, found, stopping, plugged>>
    BY <1>2 DEF UdevEvent, queueVars, surroundings
  <2>2. udev \in Seq([add : BOOLEAN, path : Paths]) /\ found \subseteq Paths
    BY DEF RawParts, TypeInv
  <2>3. Head(udev) \in [add : BOOLEAN, path : Paths] /\ Tail(udev) \in Seq([add : BOOLEAN, path : Paths])
    <3>1. udev # <<>>
      BY <2>1
    <3>2. QED
      BY <3>1, <2>2, FirstFacts
  <2>6. path \in Paths /\ udev' \in Seq([add : BOOLEAN, path : Paths])
    BY <2>1, <2>3
  <2> HIDE DEF path
  <2>4. scan # "done" /\ UNCHANGED <<queue, program, scan, stopping, plugged>> /\ found' \subseteq Paths
    BY <2>1, <2>2
  <2>5. QED
    BY <2>1, <2>6, <2>4, AddKeeps
<1>3. QED
  BY <1>1, <1>2

\* ReceiverDriver::event in the main thread.
LEMMA TaskKeeps ==
  ASSUME RawParts, RunTask
  PROVE  RawParts'
<1> DEFINE e == Head(queue)
           d == e.driver
           p == e.pad
           l == Task(e)
<1>1. TypeInv /\ ListInv /\ NodeInv /\ Owned /\ Heard
  BY DEF RawParts
<1>2. /\ program = "running" /\ work["main"] = <<>> /\ queue # <<>> /\ queue' = Tail(queue)
      /\ work' = [work EXCEPT !["main"] = l]
      /\ UNCHANGED <<node, driver, raw, unreached>>
      /\ UNCHANGED <<program, scan, found, stopping, udev, plugged>>
  BY DEF RunTask, MainIdle, Busy, PopEvent, driverVars, worldVars, history
<1>3. ~stopping /\ scan # "done"
  BY <1>1, <1>2 DEF ListInv
<1>4. queue \in Seq(Call)
  BY <1>1 DEF TypeInv
<1>5. /\ e \in Call /\ e = queue[1] /\ 1 \in DOMAIN queue /\ queue' \in Seq(Call)
      /\ \A i \in DOMAIN queue' : i + 1 \in DOMAIN queue /\ queue'[i] = queue[i + 1]
  <2>1. queue # <<>>
    BY <1>2
  <2>2. /\ Head(queue) \in Call /\ Head(queue) = queue[1] /\ 1 \in DOMAIN queue /\ Tail(queue) \in Seq(Call)
        /\ \A i \in DOMAIN Tail(queue) : i + 1 \in DOMAIN queue /\ Tail(queue)[i] = queue[i + 1]
    BY <2>1, <1>4, FirstFacts
  <2>3. QED
    BY <2>2, <1>2
<1>6. d \in Wireless /\ p \in Pads
  BY <1>1, <1>5 DEF NodeInv, Call
<1>7. d \in DOMAIN driver /\ d \in Nat \ {0}
  <2>1. d \in DOMAIN driver
    BY <1>6 DEF Wireless
  <2>2. QED
    BY <2>1, <1>1 DEF TypeInv
<1> HIDE DEF d, p
<1>8. /\ Shape(l, Wireless)
      /\ \A x \in ToSet(l) : x.driver = d /\ x.op \in Building \ {"adopt"}
      /\ \A a, q : q \in Pads => Claims(ToSet(l), a, q, Wireless) = 0 /\ Switches(ToSet(l), a, q) = 0
  <2>1. CASE e.linked
    <3>1. l = AddWireless(d, p)
      BY <2>1 DEF Task, d, p
    <3>2. /\ Builds(AddWireless(d, p), d, {p}, Wireless)
          /\ Only(AddWireless(d, p), Building \ {"adopt"})
      BY <1>6, <1>7, WirelessShape
    <3> HIDE DEF e, l
    <3>3. \A a, q : q \in Pads => Claims(ToSet(l), a, q, Wireless) = 0 /\ Switches(ToSet(l), a, q) = 0
      BY <3>1, <3>2, BuildsCounts
    <3>4. Shape(l, Wireless) /\ \A x \in ToSet(l) : x.driver = d
      BY <3>1, <3>2 DEF Builds
    <3>5. \A x \in ToSet(l) : x.op \in Building \ {"adopt"}
      BY <3>1, <3>2, OnlySet
    <3>6. QED
      BY <3>3, <3>4, <3>5
  <2>2. CASE ~e.linked
    <3> DEFINE x == Step("erase", d, p)
    <3>1. l = <<x>>
      BY <2>2 DEF Task, d, p
    <3> HIDE DEF e, l
    <3>2. x.op = "erase" /\ x.driver = d /\ x.pad = p
      BY StepFacts
    <3>3. x \in StepType
      BY <1>6, <1>7 DEF StepType, Step, Building
    <3>4. Fits(x, Wireless)
      BY <3>2, <1>6 DEF Fits
    <3> HIDE DEF x
    <3>5. x.op \notin {"probe", "listen", "enable", "disable"}
      BY <3>2
    <3>6. Shape(<<x>>, Wireless) /\ ToSet(<<x>>) = {x}
      BY <3>3, <3>4, <3>5, SingleShape
    <3>7. \A a, q, W : Step("disable", a, q) \notin {x} /\ Keep(a, q, W) \notin {x} /\ Step("enable", a, q) \notin {x}
      BY <3>2, StepFacts, KeepFacts
    <3>8. \A a, q : Claims({x}, a, q, Wireless) = 0 /\ Switches({x}, a, q) = 0
      BY <3>7, NoCounts
    <3>9. "erase" \in Building \ {"adopt"}
      BY DEF Building
    <3>10. QED
      BY <3>1, <3>2, <3>6, <3>8, <3>9
  <2>3. QED
    BY <2>1, <2>2
<1> HIDE DEF e, l
<1>9. UNCHANGED driver
  BY <1>2
<1>10. /\ driver' \in Seq(DriverType) /\ SamePlaces /\ SameStates
       /\ \A a \in DOMAIN driver : driver'[a].listens = driver[a].listens /\ driver'[a].pads = driver[a].pads
       /\ \A a, q : Obj(a, q)' = Obj(a, q)
  BY <1>1, <1>9, SameDrivers
<1>11. Turns("main", l) /\ "main" \in Threads /\ "monitor" \in Threads
  BY <1>2 DEF Turns, Threads
<1>12. /\ Wireless' = Wireless /\ Ahead("main")' = ToSet(l) /\ work'["main"] = l
       /\ Ahead("monitor")' = Ahead("monitor") /\ work'["monitor"] = work["monitor"]
  BY <1>1, <1>10, <1>11, TurnFacts
<1>13. Ahead("main") = {}
  BY <1>2, EmptyShape DEF Ahead
<1>14. \A a : Doomed(a)' <=> Doomed(a)
  <2>1. \A a, q : Step("gone", a, q) \notin ToSet(l)
    BY <1>8, StepFacts DEF Building
  <2>2. \A t \in Threads : \A a, q : Step("gone", a, q) \in Ahead(t)' <=> Step("gone", a, q) \in Ahead(t)
    BY <2>1, <1>12, <1>13 DEF Threads
  <2>3. QED
    BY <2>2, <1>9 DEF Doomed
<1>15. TypeInv'
  <2>1. l \in Seq(StepType)
    BY <1>8 DEF Shape
  <2>2. work' \in [Threads -> Seq(StepType)]
    BY <2>1, <1>1, <1>11 DEF TypeInv, Turns
  <2>3. /\ node' \in [Paths -> Nat] /\ found' \subseteq Paths /\ plugged' \subseteq Paths
        /\ raw' \subseteq Pads /\ udev' \in Seq([add : BOOLEAN, path : Paths])
    BY <1>1, <1>2 DEF TypeInv
  <2>4. QED
    BY <2>2, <2>3, <1>5, <1>10 DEF TypeInv, StepType, DriverType, Call
<1>16. ListInv'
  <2>1. ASSUME NEW t \in Threads
        PROVE  /\ Shape(work'[t], Wireless')
               /\ \A x \in Ahead(t)' : x.driver \in DOMAIN driver'
    <3>1. CASE t = "main"
      BY <3>1, <1>7, <1>8, <1>9, <1>12
    <3>2. CASE t = "monitor"
      BY <3>2, <1>1, <1>9, <1>12 DEF ListInv
    <3>3. QED
      BY <3>1, <3>2 DEF Threads
  <2>2. \A x \in Ahead("main")' : x.op \in Building => x.driver \in Wireless' /\ x.op # "adopt"
    BY <1>6, <1>8, <1>12
  <2>3. \A x \in Ahead("monitor")' : x.op # "erase"
    BY <1>1, <1>12 DEF ListInv
  <2>4. \A x \in Ahead("main")' : x.op # "gone"
    BY <1>8, <1>12 DEF Building
  <2>5. scan' # "done" /\ ~stopping'
    BY <1>2, <1>3
  <2>6. QED
    BY <2>1, <2>2, <2>3, <2>4, <2>5 DEF ListInv
<1>17. NodeInv'
  <2>1. \A pa \in Paths : node'[pa] # 0 =>
           /\ node'[pa] \in DOMAIN driver'
           /\ driver'[node'[pa]].path = pa
           /\ driver'[node'[pa]].state # "gone"
    BY <1>1, <1>2 DEF NodeInv
  <2>2. \A pa \in Paths : \A x \in Ahead("monitor")' : x.op \in Building => x.driver # node'[pa]
    BY <1>1, <1>2, <1>12 DEF NodeInv
  <2>3. \A a \in Wireless' : Doomed(a)' => driver'[a].state \in {"dying", "gone"}
    BY <1>1, <1>9, <1>12, <1>14 DEF NodeInv
  <2>4. \A i \in DOMAIN queue' : queue'[i].driver \in Wireless'
    BY <1>1, <1>5, <1>12 DEF NodeInv
  <2>5. \A a \in DOMAIN driver' : driver'[a].listens # {} => a \in Wireless'
    BY <1>1, <1>9, <1>12 DEF NodeInv
  <2>6. QED
    BY <2>1, <2>2, <2>3, <2>4, <2>5 DEF NodeInv
<1>18. Owned'
  <2>1. ASSUME NEW a \in DOMAIN driver, NEW q \in Pads
        PROVE  Claims(ToSet(l), a, q, Wireless) + Has(a, q)' + Obj(a, q)
                 <= Claims(Ahead("main"), a, q, Wireless) + Has(a, q) + Obj(a, q)'
    <3>1. Has(a, q)' = Has(a, q)
      BY <1>9, <1>14 DEF Has
    <3>2. Claims(ToSet(l), a, q, Wireless) = 0 /\ Claims(Ahead("main"), a, q, Wireless) \in Nat
      BY <1>8, CountTypes
    <3>3. Obj(a, q)' = Obj(a, q) /\ Obj(a, q) \in Int /\ Has(a, q) \in {0, 1}
      BY <1>1, <1>10, ObjTypes, CountTypes
    <3>4. QED
      BY <3>1, <3>2, <3>3
  <2>2. QED
    BY <2>1, <1>1, <1>10, <1>11, <1>15, OwnedStep
<1>19. Heard'
  <2>1. raw' \ unreached' \subseteq raw \ unreached
    BY <1>2
  <2>2. ASSUME NEW r \in raw' \ unreached', NEW a \in DOMAIN driver
        PROVE  Switches(ToSet(l), a, r) + Obj(a, r) <= Switches(Ahead("main"), a, r) + Obj(a, r)'
    <3>1. r \in Pads
      BY <1>1, <1>2 DEF TypeInv
    <3>2. Switches(ToSet(l), a, r) = 0 /\ Switches(Ahead("main"), a, r) \in Nat
      BY <3>1, <1>8, CountTypes
    <3>3. Obj(a, r)' = Obj(a, r) /\ Obj(a, r) \in Int
      BY <3>1, <1>1, <1>10, ObjTypes
    <3>4. QED
      BY <3>2, <3>3
  <2>3. QED
    BY <2>1, <2>2, <1>1, <1>10, <1>11, <1>15, HeardKept
<1>20. QED
  BY <1>15, <1>16, <1>17, <1>18, <1>19 DEF RawParts

-----------------------------------------------------------------------------
\* At the start there is no driver.
LEMMA RawInit ==
  ASSUME Init
  PROVE  RawInv
<1>1. /\ queue = <<>> /\ program = "running" /\ scan = "start" /\ found = {} /\ udev = <<>>
      /\ stopping = FALSE /\ driver = <<>> /\ raw = {} /\ plugged \subseteq Paths
      /\ work = [t \in Threads |-> <<>>] /\ node = [path \in Paths |-> 0]
  BY BudgetAssumption DEF Init, QueueInit
<1>2. \A t \in Threads : work[t] = <<>> /\ Ahead(t) = {}
  BY <1>1, EmptyShape DEF Ahead
<1>3. DOMAIN driver = {} /\ DOMAIN queue = {}
  BY <1>1
<1>4. TypeInv
  <2>1. driver \in Seq(DriverType) /\ queue \in Seq(Call) /\ udev \in Seq([add : BOOLEAN, path : Paths])
    BY <1>1
  <2>2. work \in [Threads -> Seq(StepType)] /\ node \in [Paths -> Nat]
    BY <1>1
  <2>3. found \subseteq Paths /\ plugged \subseteq Paths /\ raw \subseteq Pads
    BY <1>1
  <2>4. QED
    BY <2>1, <2>2, <2>3 DEF TypeInv
<1>5. ListInv
  <2>1. \A t \in Threads : Shape(work[t], Wireless)
    BY <1>2, EmptyShape
  <2>2. Ahead("main") = {} /\ Ahead("monitor") = {}
    BY <1>2 DEF Threads
  <2>3. QED
    BY <1>1, <1>2, <2>1, <2>2 DEF ListInv
<1>6. NodeInv
  BY <1>1, <1>2, <1>3 DEF NodeInv, Wireless, Threads
<1>7. Owned /\ Heard
  BY <1>1, <1>3 DEF Owned, Heard
<1>8. QED
  BY <1>4, <1>5, <1>6, <1>7 DEF RawInv

\* Undefined behaviour stays in the record.
LEMMA CauseGrows ==
  ASSUME [Next]_vars
  PROVE  cause \subseteq cause'
<1>1. ASSUME NEW t \in Threads, Work(t)
      PROVE  cause' = cause
  BY <1>1 DEF Work, surroundings
<1>2. ASSUME NEW t \in Threads, Undefined(t)
      PROVE  cause \subseteq cause'
  BY <1>2 DEF Undefined
<1>3. CASE RunTask \/ WaitForTask \/ LeaveLoop \/ MainEnds
  BY <1>3 DEF RunTask, WaitForTask, LeaveLoop, MainEnds, history
<1>4. CASE Enumerate \/ UdevEvent \/ MonitorStops
  BY <1>4 DEF Enumerate, UdevEvent, MonitorStops, history, surroundings
<1>5. CASE SigInt \/ NotifyAll \/ WakeUp \/ Race
  BY <1>5 DEF SigInt, NotifyAll, WakeUp, Race, history
<1>6. CASE World
  BY <1>6 DEF World, Plug, Link, Touch
<1>7. CASE UNCHANGED vars
  BY <1>7 DEF vars, history
<1>8. QED
  BY <1>1, <1>2, <1>3, <1>4, <1>5, <1>6, <1>7 DEF Next, Main, Monitor, Threads

\* Every step keeps the account.
LEMMA RawStep ==
  ASSUME RawInv, [Next]_vars
  PROVE  RawInv'
<1> SUFFICES ASSUME cause' = {}
             PROVE  RawParts'
  BY DEF RawInv, RawParts
<1>1. cause = {} /\ RawParts
  BY CauseGrows DEF RawInv, RawParts
<1>2. \A t : ~Undefined(t)
  BY DEF Undefined
<1>3. ~Race
  BY DEF Race
<1>4. CASE RunTask
  BY <1>1, <1>4, TaskKeeps
<1>5. CASE WaitForTask \/ LeaveLoop \/ MainEnds \/ SigInt \/ NotifyAll \/ WakeUp
  BY <1>1, <1>5, MainIdleKeeps
<1>6. CASE Enumerate
  BY <1>1, <1>6, EnumerateKeeps
<1>7. CASE UdevEvent
  BY <1>1, <1>7, UdevKeeps
<1>8. CASE MonitorStops
  BY <1>1, <1>8, StopKeeps
<1>9. CASE Work("main") \/ Work("monitor")
  <2>1. "main" \in Threads /\ "monitor" \in Threads
    BY DEF Threads
  <2>2. QED
    BY <2>1, <1>1, <1>9, WorkKeeps
<1>10. CASE World
  BY <1>1, <1>10, WorldKeeps
<1>11. CASE UNCHANGED vars
  <2>1. UNCHANGED <<work, node, driver, scan, stopping, program, raw, unreached, queue, found, plugged, udev>>
    BY <1>11 DEF vars, queueVars, threadVars, driverVars, worldVars, history
  <2>2. QED
    BY <2>1, <1>1, StillKeeps
<1>12. QED
  BY <1>2, <1>3, <1>4, <1>5, <1>6, <1>7, <1>8, <1>9, <1>10, <1>11 DEF Next, Main, Monitor

\* The invariant of the drivers and their remaining steps: as long as no
\* undefined behaviour was reached, each thread has a well formed list of
\* steps ahead, and each driver has as many handlers as are owed to its
\* touchpads and to the steps that will remove one.
THEOREM DriversAccounted == Spec => []RawInv
<1>1. Init => RawInv
  BY RawInit
<1>2. RawInv /\ [Next]_vars => RawInv'
  BY RawStep
<1>3. QED
  BY <1>1, <1>2, PTL DEF Spec

\* A touchpad in raw mode that can be reached, and that no ~TouchpadDriver
\* failed to tell, has a driver that hears its events.
THEOREM RawPadsHeard == Spec => []RawIsHeard
<1>1. RawInv => RawIsHeard
  <2>1. SUFFICES ASSUME RawInv, cause = {}, NEW p \in raw, p \notin unreached
                 PROVE  \E d \in DOMAIN driver : driver[d].heard[p] > driver[d].dying[p]
    BY DEF RawIsHeard
  <2>2. TypeInv /\ Heard
    BY <2>1 DEF RawInv
  <2>3. p \in Pads
    BY <2>2 DEF TypeInv
  <2>4. PICK d \in DOMAIN driver : Switches(Ahead("main"), d, p) + Switches(Ahead("monitor"), d, p) < Obj(d, p)
    BY <2>1, <2>2 DEF Heard
  <2>5. /\ Switches(Ahead("main"), d, p) \in {0, 1} /\ Switches(Ahead("monitor"), d, p) \in {0, 1}
        /\ driver[d].heard[p] \in Int /\ driver[d].dying[p] \in Int /\ Obj(d, p) = driver[d].heard[p] - driver[d].dying[p]
    BY <2>2, <2>3, CountTypes, ObjTypes DEF Obj
  <2>6. driver[d].heard[p] > driver[d].dying[p]
    BY <2>4, <2>5
  <2>7. QED
    BY <2>6
<1>2. QED
  BY <1>1, DriversAccounted, PTL

-----------------------------------------------------------------------------
\* Quiet runs: nothing is unplugged, no touchpad goes, none is announced while
\* the driver of a receiver is built.  A node gets one driver, whose file
\* leads to the device, and is not enumerated again.
OnceInv ==
    /\ scan = "start" => DOMAIN driver = {} /\ DOMAIN udev = {} /\ found = {}
    /\ \A d \in DOMAIN driver : driver[d].open /\ driver[d].path \in plugged \ found
    /\ \A c, d \in DOMAIN driver : driver[c].path = driver[d].path => c = d
    /\ \A i \in DOMAIN udev : udev[i].add /\ udev[i].path \in plugged \ found
    /\ \A i, j \in DOMAIN udev : udev[i].path = udev[j].path => i = j
    /\ \A i \in DOMAIN udev, d \in DOMAIN driver : driver[d].path # udev[i].path
    /\ found \subseteq plugged
\* The monitor thread works on the last driver, which is being built; the main
\* thread on drivers that are there, or on those it destroys at the end.
StateInv ==
    /\ \A x \in Ahead("monitor") :
          /\ x.driver = Len(driver) /\ driver[x.driver].state = "building"
          /\ x.op = "gone" => x.driver \notin Wireless
    /\ \A x \in Ahead("main") :
          driver[x.driver].state = IF scan = "done" THEN "dying" ELSE "live"
    /\ \A d \in Wireless : scan # "done" => driver[d].state \in {"building", "live"}
    /\ \A i \in DOMAIN queue : scan # "done" => driver[queue[i].driver].state = "live"
\* A driver works on the touchpads of its node, and on those that answered
\* its queries these still are in reach.
Own(p, d) == PathOf[p] = driver[d].path
Padded(x, W) == x.op # "gone" /\ ~(x.op = "adopt" /\ x.driver \in W)
Sure(x, A) ==
    \/ x.op = "disable"
    \/ x.op \in {"enable", "emplace", "adopt"} /\ Step("probe", x.driver, x.pad) \notin A
Known(x, A) == Padded(x, Wireless) => Own(x.pad, x.driver) /\ (Sure(x, A) => x.pad \in linked)
PadInv ==
    /\ \A t \in Threads : \A x \in Ahead(t) : Known(x, Ahead(t))
    /\ \A d \in DOMAIN driver : \A p \in driver[d].pads : Own(p, d) /\ p \in linked
    /\ \A d \in DOMAIN driver : \A p \in driver[d].listens : Own(p, d)
    /\ \A i \in DOMAIN queue : Own(queue[i].pad, queue[i].driver)
\* An object that is down to ~Driver is the one that a thread removes next,
\* and its touchpad was told.
Unheard(t, d, p) == work[t] # <<>> /\ Head(work[t]) = Step("unlisten", d, p)
DyingInv ==
    /\ \A d \in DOMAIN driver, p \in Pads : driver[d].dying[p] = One(\E t \in Threads : Unheard(t, d, p))
    /\ \A t \in Threads, d \in DOMAIN driver, p \in raw : ~Unheard(t, d, p)
QuietParts == OnceInv /\ StateInv /\ PadInv /\ DyingInv
QuietInv == ~disturbed => cause = {} /\ QuietParts

\* The threads work on different drivers and different touchpads.
LEMMA ThreadsApart ==
  ASSUME RawParts, QuietParts, NEW x \in Ahead("main"), NEW y \in Ahead("monitor")
  PROVE  /\ x.driver # y.driver
         /\ Padded(x, Wireless) /\ Padded(y, Wireless) => x.pad # y.pad
<1>1. OnceInv /\ StateInv /\ PadInv /\ ListInv
  BY DEF QuietParts, RawParts
<1>2. "main" \in Threads /\ "monitor" \in Threads
  BY DEF Threads
<1>3. x.driver \in DOMAIN driver /\ y.driver \in DOMAIN driver
  BY <1>1, <1>2 DEF ListInv
<1>4. driver[x.driver].state \in {"live", "dying"} /\ driver[y.driver].state = "building"
  BY <1>1 DEF StateInv
<1>5. ASSUME Padded(x, Wireless), Padded(y, Wireless), x.pad = y.pad
      PROVE  FALSE
  <2>1. PathOf[x.pad] = driver[x.driver].path /\ PathOf[y.pad] = driver[y.driver].path
    BY <1>1, <1>2, <1>5 DEF PadInv, Known, Own
  <2>2. x.driver = y.driver
    BY <2>1, <1>1, <1>3, <1>5 DEF OnceInv
  <2>3. QED
    BY <2>2, <1>4
<1>6. QED
  BY <1>4, <1>5

\* The head of the other thread's list is about another driver and touchpad.
LEMMA HeadsApart ==
  ASSUME RawParts, QuietParts, NEW t \in Threads, NEW u \in Threads, t # u,
         NEW a, NEW d, NEW p, NEW b, NEW e, NEW q,
         Step(a, d, p) \in Ahead(t), Step(b, e, q) \in Ahead(u)
  PROVE  d # e /\ (Padded(Step(a, d, p), Wireless) /\ Padded(Step(b, e, q), Wireless) => p # q)
<1>1. (t = "main" /\ u = "monitor") \/ (t = "monitor" /\ u = "main")
  BY DEF Threads
<1>2. /\ Step(a, d, p).driver = d /\ Step(a, d, p).pad = p
      /\ Step(b, e, q).driver = e /\ Step(b, e, q).pad = q
  BY StepFacts
<1> DEFINE x == Step(a, d, p)
           y == Step(b, e, q)
<1> HIDE DEF x, y
<1>3. x.driver # y.driver /\ (Padded(x, Wireless) /\ Padded(y, Wireless) => x.pad # y.pad)
  <2>1. CASE t = "main" /\ u = "monitor"
    BY <2>1, ThreadsApart DEF x, y
  <2>2. CASE t = "monitor" /\ u = "main"
    BY <2>2, ThreadsApart DEF x, y
  <2>3. QED
    BY <2>1, <2>2, <1>1
<1>4. QED
  BY <1>2, <1>3 DEF x, y

\* The object that is down to ~Driver is one of the thread's.
LEMMA UnheardAhead ==
  ASSUME RawParts, NEW t \in Threads, NEW d, NEW p, Unheard(t, d, p)
  PROVE  /\ Busy(t) /\ Step("unlisten", d, p) \in Ahead(t)
         /\ d \in DOMAIN driver /\ p \in Pads /\ Padded(Step("unlisten", d, p), Wireless)
<1>1. Busy(t) /\ Head(work[t]) = Step("unlisten", d, p)
  BY DEF Unheard, Busy
<1>2. Step("unlisten", d, p).op = "unlisten"
  BY StepFacts
<1>3. QED
  BY <1>1, <1>2, HeadFacts DEF Padded

\* A step changes what its own thread removes next.
LEMMA UnheardTurn ==
  ASSUME TypeInv, NEW t \in Threads, NEW l, Turns(t, l)
  PROVE  /\ \A u \in Threads : \A d, p : u # t => (Unheard(u, d, p)' <=> Unheard(u, d, p))
         /\ Opens(l) => \A d, p : ~Unheard(t, d, p)'
         /\ \A d, p : Unheard(t, d, p)' <=> l # <<>> /\ Head(l) = Step("unlisten", d, p)
<1>1. work'[t] = l /\ \A u \in Threads : u # t => work'[u] = work[u]
  BY DEF Turns, TypeInv
<1>2. \A u \in Threads : \A d, p : u # t => (Unheard(u, d, p)' <=> Unheard(u, d, p))
  BY <1>1 DEF Unheard
<1>3. \A d, p : Unheard(t, d, p)' <=> l # <<>> /\ Head(l) = Step("unlisten", d, p)
  BY <1>1 DEF Unheard
<1>4. Opens(l) => \A d, p : ~Unheard(t, d, p)'
  BY <1>3, StepFacts DEF Opens
<1>5. QED
  BY <1>2, <1>3, <1>4

\* Only ~TouchpadDriver is followed by ~Driver.
LEMMA OpensTail ==
  ASSUME NEW W, NEW s, Shape(s, W), s # <<>>, Head(s).op # "disable"
  PROVE  Opens(Tail(s))
<1>1. s \in Seq(StepType) /\ Paired(s)
  BY DEF Shape
<1>2. /\ Head(s) = s[1]
      /\ \A i \in DOMAIN Tail(s) : i + 1 \in DOMAIN s /\ Tail(s)[i] = s[i + 1]
      /\ Tail(s) \in Seq(StepType)
  BY <1>1, FirstFacts
<1>3. SUFFICES ASSUME Tail(s) # <<>>, Tail(s)[1].op = "unlisten"
               PROVE  FALSE
  BY DEF Opens
<1>4. 1 \in DOMAIN Tail(s)
  BY <1>2, <1>3
<1>5. 2 \in DOMAIN s /\ s[2].op = "unlisten"
  BY <1>2, <1>3, <1>4
<1>6. s[1] = Step("disable", s[2].driver, s[2].pad)
  BY <1>1, <1>5 DEF Paired
<1>7. QED
  BY <1>2, <1>6, StepFacts

SameOpens == \A e \in DOMAIN driver : driver'[e].open = driver[e].open

\* Drivers that stay where they are keep their nodes to themselves.
LEMMA OnceKept ==
  ASSUME OnceInv, SamePlaces, SameOpens, UNCHANGED <<udev, found, plugged>>, scan' = "start" => scan = "start"
  PROVE  OnceInv'
<1>1. DOMAIN driver' = DOMAIN driver /\ \A d \in DOMAIN driver : driver'[d].path = driver[d].path
  BY DEF SamePlaces
<1>2. scan' = "start" => DOMAIN driver' = {} /\ DOMAIN udev' = {} /\ found' = {}
  BY <1>1 DEF OnceInv
<1>3. \A d \in DOMAIN driver' : driver'[d].open /\ driver'[d].path \in plugged' \ found'
  BY <1>1 DEF OnceInv, SameOpens
<1>4. \A c, d \in DOMAIN driver' : driver'[c].path = driver'[d].path => c = d
  BY <1>1 DEF OnceInv
<1>5. /\ \A i \in DOMAIN udev' : udev'[i].add /\ udev'[i].path \in plugged' \ found'
      /\ \A i, j \in DOMAIN udev' : udev'[i].path = udev'[j].path => i = j
      /\ found' \subseteq plugged'
  BY DEF OnceInv
<1>6. \A i \in DOMAIN udev', d \in DOMAIN driver' : driver'[d].path # udev'[i].path
  BY <1>1 DEF OnceInv
<1>7. QED
  BY <1>2, <1>3, <1>4, <1>5, <1>6 DEF OnceInv

\* What is known of a step stays known.
LEMMA KnownStays ==
  ASSUME SamePlaces, NEW x, x.driver \in DOMAIN driver, NEW A, Known(x, A),
         Wireless' = Wireless, linked \subseteq linked'
  PROVE  Known(x, A)'
<1>1. driver'[x.driver].path = driver[x.driver].path
  BY DEF SamePlaces
<1>2. Padded(x, Wireless') <=> Padded(x, Wireless)
  OBVIOUS
<1>3. Own(x.pad, x.driver)' <=> Own(x.pad, x.driver)
  BY <1>1 DEF Own
<1>4. QED
  BY <1>2, <1>3 DEF Known

OldQueue == \A i \in DOMAIN queue' : \E j \in DOMAIN queue : queue'[i] = queue[j]

\* What the threads have ahead stays known.
LEMMA PadStep ==
  ASSUME TypeInv, ListInv, NodeInv, PadInv, NEW t \in Threads, NEW l, Turns(t, l), SamePlaces,
         OldQueue, UNCHANGED linked,
         \A x \in ToSet(l) : x.driver \in DOMAIN driver,
         \A x \in ToSet(l) : Known(x, ToSet(l)),
         \A e \in DOMAIN driver : \A q \in driver'[e].pads : q \in driver[e].pads \/ (Own(q, e) /\ q \in linked),
         \A e \in DOMAIN driver : \A q \in driver'[e].listens : q \in driver[e].listens \/ Own(q, e)
  PROVE  PadInv'
<1>1. TypeInv /\ ListInv /\ NodeInv /\ PadInv
  OBVIOUS
<1>2. UNCHANGED linked
  OBVIOUS
<1>3. /\ Wireless' = Wireless /\ Ahead(t)' = ToSet(l)
      /\ \A u \in Threads : u # t => Ahead(u)' = Ahead(u)
      /\ DOMAIN driver' = DOMAIN driver
  BY TurnFacts DEF SamePlaces
<1>4. \A u \in Threads : \A x \in Ahead(u) : x.driver \in DOMAIN driver
  BY DEF ListInv
<1>5. \A x \in ToSet(l) : x.driver \in DOMAIN driver
  OBVIOUS
<1>6. ASSUME NEW u \in Threads, NEW x \in Ahead(u)'
      PROVE  Known(x, Ahead(u))'
  <2>1. CASE u = t
    <3>1. x \in ToSet(l) /\ Ahead(u)' = ToSet(l)
      BY <2>1, <1>6, <1>3
    <3>2. Known(x, ToSet(l))'
      BY <3>1, <1>2, <1>3, <1>5, KnownStays
    <3>3. QED
      BY <3>1, <3>2 DEF Known
  <2>2. CASE u # t
    <3>1. x \in Ahead(u) /\ Ahead(u)' = Ahead(u)
      BY <2>2, <1>6, <1>3
    <3>2. PICK B : B = Ahead(u)
      OBVIOUS
    <3>3. Known(x, B)'
      BY <3>1, <3>2, <1>1, <1>2, <1>3, <1>4, KnownStays DEF PadInv
    <3>4. QED
      BY <3>1, <3>2, <3>3 DEF Known
  <2>3. QED
    BY <2>1, <2>2
<1>7. \A e \in DOMAIN driver : \A q : Own(q, e)' <=> Own(q, e)
  BY DEF Own, SamePlaces
<1>8. \A e \in DOMAIN driver' : \A q \in driver'[e].pads : Own(q, e)' /\ q \in linked'
  BY <1>7, <1>1, <1>2, <1>3 DEF PadInv
<1>9. \A e \in DOMAIN driver' : \A q \in driver'[e].listens : Own(q, e)'
  BY <1>7, <1>1, <1>3 DEF PadInv
<1>10. \A i \in DOMAIN queue' : Own(queue[i].pad, queue[i].driver)'
  <2>1. \A i \in DOMAIN queue : queue[i].driver \in DOMAIN driver
    BY <1>1 DEF NodeInv, Wireless
  <2>2. \A i \in DOMAIN queue : PathOf[queue[i].pad] = driver[queue[i].driver].path
    BY <1>1 DEF PadInv, Own
  <2>3. \A i \in DOMAIN queue : PathOf[queue[i].pad] = driver'[queue[i].driver].path
    BY <2>1, <2>2 DEF SamePlaces
  <2>4. \A i \in DOMAIN queue' : PathOf[queue'[i].pad] = driver'[queue'[i].driver].path
    BY <2>3 DEF OldQueue
  <2>5. QED
    BY <2>4 DEF Own
<1>11. QED
  BY <1>6, <1>8, <1>9, <1>10 DEF PadInv

\* A step of a list on its own driver keeps nodes, states and touchpads.
LEMMA QuietStep ==
  ASSUME RawParts, QuietParts, NEW t \in Threads, Busy(t), NEW l, Turns(t, l), Around,
         driver' \in Seq(DriverType), SamePlaces, SameStates, SameOpens,
         \A x \in ToSet(l) :
            \/ x \in Ahead(t)
            \/ x.driver = Head(work[t]).driver /\ (x.op = "gone" => x.driver \notin Wireless),
         \A x \in ToSet(l) : Known(x, ToSet(l)),
         \A e \in DOMAIN driver : \A q \in driver'[e].pads : q \in driver[e].pads \/ (Own(q, e) /\ q \in linked),
         \A e \in DOMAIN driver : \A q \in driver'[e].listens : q \in driver[e].listens \/ Own(q, e)
  PROVE  OnceInv' /\ StateInv' /\ PadInv'
<1>1. TypeInv /\ ListInv /\ NodeInv /\ OnceInv /\ StateInv /\ PadInv
  BY DEF RawParts, QuietParts
<1>2. UNCHANGED <<queue, scan, found, udev, plugged, linked>>
  BY AroundFacts
<1>3. /\ Wireless' = Wireless /\ Ahead(t)' = ToSet(l)
      /\ \A u \in Threads : u # t => Ahead(u)' = Ahead(u)
      /\ DOMAIN driver' = DOMAIN driver
  BY <1>1, TurnFacts DEF SamePlaces
<1>4. Head(work[t]) \in Ahead(t) /\ Head(work[t]).driver \in DOMAIN driver
  BY <1>1, WorkFacts
<1>5. OnceInv'
  BY <1>1, <1>2, OnceKept
<1>6. Len(driver') = Len(driver)
  BY <1>1, <1>3 DEF TypeInv
<1>7. \A u \in Threads : \A x \in Ahead(u) : x.driver \in DOMAIN driver
  BY <1>1 DEF ListInv
<1>8. \A x \in ToSet(l) : x.driver \in DOMAIN driver
  BY <1>4, <1>7
<1>9. StateInv'
  <2>1. ASSUME NEW x \in Ahead("monitor")'
        PROVE  /\ x.driver = Len(driver') /\ driver'[x.driver].state = "building"
               /\ x.op = "gone" => x.driver \notin Wireless'
    <3>1. CASE t = "monitor"
      <4>1. CASE x \in Ahead("monitor")
        BY <4>1, <1>1, <1>3, <1>6, <1>7 DEF StateInv, SameStates, Threads
      <4>2. CASE x \notin Ahead("monitor")
        <5>1. x.driver = Head(work[t]).driver /\ (x.op = "gone" => x.driver \notin Wireless)
          BY <3>1, <4>2, <2>1, <1>3
        <5>2. x.driver = Len(driver) /\ driver[x.driver].state = "building"
          BY <3>1, <5>1, <1>1, <1>4 DEF StateInv
        <5>3. QED
          BY <5>1, <5>2, <1>3, <1>4, <1>6 DEF SameStates
      <4>3. QED
        BY <4>1, <4>2
    <3>2. CASE t # "monitor"
      <4>1. x \in Ahead("monitor")
        BY <3>2, <2>1, <1>3 DEF Threads
      <4>2. QED
        BY <4>1, <1>1, <1>3, <1>6, <1>7 DEF StateInv, SameStates, Threads
    <3>3. QED
      BY <3>1, <3>2
  <2>2. ASSUME NEW x \in Ahead("main")'
        PROVE  driver'[x.driver].state = IF scan' = "done" THEN "dying" ELSE "live"
    <3>1. CASE t = "main"
      <4>1. \E y \in Ahead("main") : x.driver = y.driver
        BY <3>1, <2>2, <1>3, <1>4
      <4>2. PICK y \in Ahead("main") : x.driver = y.driver
        BY <4>1
      <4>3. driver[x.driver].state = (IF scan = "done" THEN "dying" ELSE "live") /\ x.driver \in DOMAIN driver
        BY <4>2, <1>1, <1>7 DEF StateInv, Threads
      <4>4. QED
        BY <4>3, <1>2 DEF SameStates
    <3>2. CASE t # "main"
      <4>1. x \in Ahead("main")
        BY <3>2, <2>2, <1>3 DEF Threads
      <4>2. driver[x.driver].state = (IF scan = "done" THEN "dying" ELSE "live") /\ x.driver \in DOMAIN driver
        BY <4>1, <1>1, <1>7 DEF StateInv, Threads
      <4>3. QED
        BY <4>2, <1>2 DEF SameStates
    <3>3. QED
      BY <3>1, <3>2
  <2>3. \A d \in Wireless' : scan' # "done" => driver'[d].state \in {"building", "live"}
    BY <1>1, <1>2, <1>3 DEF StateInv, SameStates, Wireless
  <2>4. \A i \in DOMAIN queue' : scan' # "done" => driver'[queue'[i].driver].state = "live"
    <3>1. \A i \in DOMAIN queue : queue[i].driver \in DOMAIN driver
      BY <1>1 DEF NodeInv, Wireless
    <3>2. QED
      BY <3>1, <1>1, <1>2 DEF StateInv, SameStates
  <2>5. QED
    BY <2>1, <2>2, <2>3, <2>4 DEF StateInv
<1>10. PadInv'
  <2>1. OldQueue /\ UNCHANGED linked
    BY <1>2 DEF OldQueue
  <2>2. QED
    BY <2>1, <1>1, <1>8, PadStep
<1>11. QED
  BY <1>5, <1>9, <1>10

\* No thread is about to remove an object that was not, and raw mode is not
\* switched on for one that is about to go.
LEMMA DyingKept ==
  ASSUME RawParts, QuietParts, NEW t \in Threads, NEW l, Turns(t, l), SamePlaces, Opens(l), raw' \in SUBSET Pads,
         \A d \in DOMAIN driver, p \in Pads : ~Unheard(t, d, p),
         \A e \in DOMAIN driver, q \in Pads : driver'[e].dying[q] = driver[e].dying[q],
         \A u \in Threads : \A d \in DOMAIN driver, p \in raw' : p \notin raw => ~Unheard(u, d, p)
  PROVE  DyingInv'
<1>1. TypeInv /\ DyingInv
  BY DEF RawParts, QuietParts
<1>2. \A u \in Threads, d \in DOMAIN driver, p \in Pads : Unheard(u, d, p)' <=> Unheard(u, d, p)
  BY <1>1, UnheardTurn
<1>3. DOMAIN driver' = DOMAIN driver
  BY DEF SamePlaces
<1>4. \A d \in DOMAIN driver', p \in Pads : driver'[d].dying[p] = One(\E u \in Threads : Unheard(u, d, p)')
  <2>1. ASSUME NEW d \in DOMAIN driver, NEW p \in Pads
        PROVE  driver'[d].dying[p] = One(\E u \in Threads : Unheard(u, d, p)')
    <3>1. driver'[d].dying[p] = driver[d].dying[p]
      OBVIOUS
    <3>2. driver[d].dying[p] = One(\E u \in Threads : Unheard(u, d, p))
      BY <1>1 DEF DyingInv
    <3>3. (\E u \in Threads : Unheard(u, d, p)) <=> (\E u \in Threads : Unheard(u, d, p)')
      BY <1>2
    <3>4. QED
      BY <3>1, <3>2, <3>3 DEF One
  <2>2. QED
    BY <2>1, <1>3
<1>5. \A u \in Threads, d \in DOMAIN driver', p \in raw' : ~Unheard(u, d, p)'
  <2>1. ASSUME NEW u \in Threads, NEW d \in DOMAIN driver, NEW p \in raw', Unheard(u, d, p)'
        PROVE  FALSE
    <3>1. p \in Pads
      OBVIOUS
    <3>2. Unheard(u, d, p)
      BY <2>1, <3>1, <1>2
    <3>3. p \notin raw
      BY <3>2, <1>1 DEF DyingInv
    <3>4. QED
      BY <3>2, <3>3
  <2>2. QED
    BY <2>1, <1>3
<1>6. QED
  BY <1>4, <1>5 DEF DyingInv

\* In a quiet run a touchpad in reach answers its driver.
LEMMA QuietHead ==
  ASSUME RawParts, QuietParts, NEW t \in Threads, Busy(t), NEW op, NEW d, NEW p,
         Head(work[t]) = Step(op, d, p)
  PROVE  /\ driver[d].open /\ (Reachable(d, p) <=> p \in linked)
         /\ Padded(Step(op, d, p), Wireless) => Own(p, d)
         /\ Padded(Step(op, d, p), Wireless) /\ Sure(Step(op, d, p), Ahead(t)) => p \in linked
<1>1. OnceInv /\ PadInv
  BY DEF QuietParts
<1>2. d \in DOMAIN driver /\ Step(op, d, p) \in Ahead(t)
  BY HeadFacts
<1>3. driver[d].open
  BY <1>1, <1>2 DEF OnceInv
<1>4. Known(Step(op, d, p), Ahead(t))
  BY <1>1, <1>2 DEF PadInv
<1>5. Step(op, d, p).driver = d /\ Step(op, d, p).pad = p
  BY StepFacts
<1>6. QED
  BY <1>3, <1>4, <1>5 DEF Known, Reachable

\* The steps that are left are known.
LEMMA KnownTail ==
  ASSUME RawParts, QuietParts, NEW t \in Threads, Busy(t), NEW op, NEW d, NEW p,
         Head(work[t]) = Step(op, d, p), op = "probe" => p \in linked
  PROVE  \A x \in ToSet(Tail(work[t])) : Known(x, ToSet(Tail(work[t])))
<1> DEFINE h == Step(op, d, p)
           B == ToSet(Tail(work[t]))
<1>1. TypeInv /\ ListInv /\ PadInv
  BY DEF QuietParts, RawParts
<1>2. B = Ahead(t) \ {h}
  BY <1>1, WorkFacts
<1> HIDE DEF B
<1>3. ASSUME NEW x \in B
      PROVE  Known(x, B)
  <2>1. Known(x, Ahead(t))
    BY <1>1, <1>2 DEF PadInv
  <2>2. ASSUME Sure(x, B), ~Sure(x, Ahead(t))
        PROVE  x.pad \in linked
    <3>1. Step("probe", x.driver, x.pad) \notin B /\ Step("probe", x.driver, x.pad) \in Ahead(t)
      BY <2>2 DEF Sure
    <3>2. Step("probe", x.driver, x.pad) = h
      BY <3>1, <1>2
    <3>3. op = "probe" /\ p = x.pad
      BY <3>2, StepEqual
    <3>4. QED
      BY <3>3
  <2>3. QED
    BY <2>1, <2>2 DEF Known
<1>4. QED
  BY <1>3 DEF B

\* A step that adds none.
LEMMA TailQuiet ==
  ASSUME RawParts, QuietParts, NEW t \in Threads, Busy(t), NEW op, NEW d, NEW p,
         Head(work[t]) = Step(op, d, p), op = "probe" => p \in linked,
         Turns(t, Tail(work[t])), Around,
         driver' \in Seq(DriverType), SamePlaces, SameStates, SameOpens,
         \A e \in DOMAIN driver : \A q \in driver'[e].pads : q \in driver[e].pads \/ (Own(q, e) /\ q \in linked),
         \A e \in DOMAIN driver : \A q \in driver'[e].listens : q \in driver[e].listens \/ Own(q, e)
  PROVE  OnceInv' /\ StateInv' /\ PadInv'
<1> DEFINE l == Tail(work[t])
<1>1. ToSet(l) \subseteq Ahead(t)
  <2>1. TypeInv /\ ListInv
    BY DEF RawParts
  <2>2. QED
    BY <2>1, WorkFacts
<1>2. \A x \in ToSet(l) : Known(x, ToSet(l))
  BY KnownTail
<1>3. Turns(t, l)
  OBVIOUS
<1> HIDE DEF l
<1>4. \A x \in ToSet(l) :
         \/ x \in Ahead(t)
         \/ x.driver = Head(work[t]).driver /\ (x.op = "gone" => x.driver \notin Wireless)
  BY <1>1
<1>5. QED
  BY <1>2, <1>3, <1>4, QuietStep

\* A list without ~Driver does not begin with it.
LEMMA OpensSet ==
  ASSUME NEW s \in Seq(StepType), \A x \in ToSet(s) : x.op # "unlisten"
  PROVE  Opens(s)
<1>1. s # <<>> => 1 \in DOMAIN s
  OBVIOUS
<1>2. s # <<>> => s[1] \in ToSet(s)
  BY <1>1 DEF ToSet
<1>3. QED
  BY <1>2 DEF Opens

\* The node of a driver that is being built has no other.
LEMMA NoOther ==
  ASSUME RawParts, QuietParts, NEW x \in Ahead("monitor"), x.op \in Building
  PROVE  /\ driver[x.driver].path \in Paths /\ node[driver[x.driver].path] = 0
         /\ ToSet(DestroyDriver(node[driver[x.driver].path])) = {}
<1> DEFINE d == x.driver
           path == driver[d].path
<1>1. TypeInv /\ ListInv /\ NodeInv /\ OnceInv
  BY DEF RawParts, QuietParts
<1>2. d \in DOMAIN driver
  BY <1>1 DEF ListInv, Threads
<1>3. path \in Paths
  BY <1>1, <1>2, ObjTypes DEF DriverType, Paths
<1>4. node[path] # d
  BY <1>1, <1>3 DEF NodeInv
<1>5. node[path] # 0 => node[path] \in DOMAIN driver /\ driver[node[path]].path = path
  BY <1>1, <1>3 DEF NodeInv
<1>6. node[path] = 0
  BY <1>1, <1>2, <1>4, <1>5 DEF OnceInv
<1>7. ToSet(DestroyDriver(0)) = {}
  BY EmptyShape DEF DestroyDriver
<1>8. QED
  BY <1>3, <1>6, <1>7

\* The queries of the constructor.
LEMMA ProbeQuiet ==
  ASSUME RawParts, QuietParts, NEW t \in Threads, Busy(t), NEW d, NEW p, Head(work[t]) = Step("probe", d, p),
         Probe(t, d, p), Around
  PROVE  QuietParts'
<1> DEFINE h == Step("probe", d, p)
<1>1. TypeInv /\ ListInv /\ PadInv
  BY DEF RawParts, QuietParts
<1>2. /\ d \in DOMAIN driver /\ p \in Pads /\ h \in Ahead(t)
      /\ Shape(work[t], Wireless) /\ work[t] # <<>> /\ work[t][1] = h
  BY HeadFacts
<1>3. h.op = "probe" /\ h.driver = d /\ h.pad = p
  BY StepFacts
<1>4. UNCHANGED driver /\ UNCHANGED raw
  BY DEF Probe, effects, driverVars
<1>5. /\ driver' \in Seq(DriverType) /\ SamePlaces /\ SameStates /\ SameOpens
      /\ \A e \in DOMAIN driver : driver'[e] = driver[e]
  BY <1>1, <1>4, SameDrivers DEF SameOpens
<1>6. /\ raw' \in SUBSET Pads
      /\ \A e \in DOMAIN driver, q \in Pads : driver'[e].dying[q] = driver[e].dying[q]
      /\ \A u \in Threads : \A e \in DOMAIN driver, q \in raw' : q \notin raw => ~Unheard(u, e, q)
      /\ \A e \in DOMAIN driver, q \in Pads : ~Unheard(t, e, q)
  BY <1>1, <1>4, StepEqual DEF TypeInv, Unheard
<1>7. CASE Reachable(d, p)
  <2>1. Turns(t, Tail(work[t]))
    BY <1>7 DEF Probe, Done, Turns
  <2>2. p \in linked
    BY <1>7 DEF Reachable
  <2>3. OnceInv' /\ StateInv' /\ PadInv'
    BY <2>1, <2>2, <1>5, TailQuiet
  <2>4. Opens(Tail(work[t]))
    BY <1>2, <1>3, OpensTail
  <2>5. DyingInv'
    BY <2>1, <2>4, <1>5, <1>6, DyingKept
  <2>6. QED
    BY <2>3, <2>5 DEF QuietParts
<1>8. CASE ~Reachable(d, p)
  <2> DEFINE l == <<>> \o IF driver[d].path \in Receivers THEN SubSeq(work[t], 4 + 1, Len(work[t]))
                          ELSE <<Step("gone", d, NoPad)>> \o EraseNode(driver[d].path)
  <2>1. Turns(t, l)
    BY <1>8 DEF Probe, Fail, Turns
  <2>2. Failed(l, t, d, <<>>, 4)
    BY DEF Failed
  <2> HIDE DEF l
  <2>3. Before(<<>>, d, p)
    BY DEF Before
  <2>4. /\ 4 \in 1 .. Len(work[t]) /\ work[t][2] = Step("listen", d, p)
        /\ work[t][3] = Step("enable", d, p) /\ work[t][4] = Keep(d, p, Wireless)
    BY <1>2, ChainAhead
  <2>5. Taken(t, d, 4)
    <3>1. \A i \in 1 .. 4 : i = 1 \/ i = 2 \/ i = 3 \/ i = 4
      OBVIOUS
    <3>2. QED
      BY <3>1, <2>4, <1>2, StepFacts, KeepFacts DEF Taken
  <2>6. Head(work[t]).op \in Building
    BY <1>3 DEF Building
  <2>7. Replaced(l, t, d, <<>>, 4)
    BY <2>2, <2>3, <2>4, <2>5, <2>6, <1>2, FailList
  <2>8. l \in Seq(StepType) /\ ToSet(<<>>) = {}
    BY <2>7, EmptyShape DEF Replaced, Shape
  <2>9. CASE d \in Wireless
    <3>1. ToSet(l) = {x \in Ahead(t) : \A i \in 1 .. 4 : x # work[t][i]}
      BY <2>7, <2>8, <2>9 DEF Replaced
    <3>2. ASSUME NEW x \in ToSet(l)
          PROVE  Known(x, ToSet(l)) /\ x.op # "unlisten" /\ x \in Ahead(t)
      <4>1. x \in Ahead(t) /\ Known(x, Ahead(t))
        BY <3>1, <1>1 DEF PadInv
      <4>2. x.op \in Building
        <5>1. Only(work[t], Building)
          BY <2>6, <1>2, AllBuilding
        <5>2. QED
          BY <5>1, <4>1, OnlySet DEF Ahead
      <4>3. ASSUME Padded(x, Wireless), Sure(x, ToSet(l)), ~Sure(x, Ahead(t))
            PROVE  FALSE
        <5>1. /\ x.op \in {"enable", "emplace", "adopt"}
              /\ Step("probe", x.driver, x.pad) \notin ToSet(l) /\ Step("probe", x.driver, x.pad) \in Ahead(t)
          BY <4>3 DEF Sure
        <5>2. PICK i \in 1 .. 4 : Step("probe", x.driver, x.pad) = work[t][i]
          BY <5>1, <3>1
        <5>3. i = 1
          <6>1. i = 1 \/ i = 2 \/ i = 3 \/ i = 4
            OBVIOUS
          <6>2. /\ Step("probe", x.driver, x.pad).op = "probe" /\ work[t][2].op = "listen"
                /\ work[t][3].op = "enable" /\ work[t][4].op \in {"emplace", "adopt"}
            BY <2>4, StepFacts, KeepFacts
          <6>3. QED
            BY <6>1, <6>2, <5>2
        <5>4. x.driver = d /\ x.pad = p
          BY <5>2, <5>3, <1>2, StepEqual
        <5>5. x.op \in {"enable", "emplace"}
          BY <5>1, <5>4, <4>3, <2>9 DEF Padded
        <5>6. x \in StepType
          BY <4>1, <1>2 DEF Shape, Ahead, ToSet
        <5>7. x = Step(x.op, d, p)
          BY <5>4, <5>6 DEF StepType, Step
        <5>8. Keep(d, p, Wireless) = Step("emplace", d, p)
          BY <2>9 DEF Keep
        <5>9. x = work[t][3] \/ x = work[t][4]
          BY <5>5, <5>7, <5>8, <2>4
        <5>10. 3 \in 1 .. 4 /\ 4 \in 1 .. 4
          OBVIOUS
        <5>11. QED
          BY <5>9, <5>10, <3>1, <3>2
      <4>4. Known(x, ToSet(l))
        BY <4>1, <4>3 DEF Known
      <4>5. QED
        BY <4>1, <4>2, <4>4 DEF Building
    <3>3. \A x \in ToSet(l) :
             \/ x \in Ahead(t)
             \/ x.driver = Head(work[t]).driver /\ (x.op = "gone" => x.driver \notin Wireless)
      BY <3>2
    <3>4. OnceInv' /\ StateInv' /\ PadInv'
      BY <3>2, <3>3, <2>1, <1>5, QuietStep
    <3>5. Opens(l)
      BY <3>2, <2>8, OpensSet
    <3>6. DyingInv'
      BY <3>5, <2>1, <1>5, <1>6, DyingKept
    <3>7. QED
      BY <3>4, <3>6 DEF QuietParts
  <2>10. CASE d \notin Wireless
    <3>1. /\ t = "monitor"
          /\ ToSet(l) = {Step("gone", d, NoPad)} \cup ToSet(DestroyDriver(node[driver[d].path]))
      BY <2>7, <2>8, <2>10 DEF Replaced
    <3>2. h \in Ahead("monitor") /\ h.op \in Building
      BY <3>1, <1>2, <1>3 DEF Building
    <3>3. ToSet(l) = {Step("gone", d, NoPad)}
      BY <3>1, <3>2, <1>3, NoOther
    <3>4. ASSUME NEW x \in ToSet(l)
          PROVE  x.op = "gone" /\ x.driver = d /\ Known(x, ToSet(l))
      BY <3>3, StepFacts DEF Known, Padded
    <3>5. \A x \in ToSet(l) :
             \/ x \in Ahead(t)
             \/ x.driver = Head(work[t]).driver /\ (x.op = "gone" => x.driver \notin Wireless)
      BY <3>4, <2>10, <1>3
    <3>6. OnceInv' /\ StateInv' /\ PadInv'
      BY <3>4, <3>5, <2>1, <1>5, QuietStep
    <3>7. Opens(l)
      BY <3>4, <2>8, OpensSet
    <3>8. DyingInv'
      BY <3>7, <2>1, <1>5, <1>6, DyingKept
    <3>9. QED
      BY <3>6, <3>8 DEF QuietParts
  <2>11. QED
    BY <2>9, <2>10
<1>9. QED
  BY <1>7, <1>8

\* A change of the handlers of one driver.
LEMMA ObjParts ==
  ASSUME TypeInv, NEW d \in DOMAIN driver, NEW H \in [Pads -> Int], NEW Y \in [Pads -> Int],
         driver' = [driver EXCEPT ![d] = [driver[d] EXCEPT !.heard = H, !.dying = Y]]
  PROVE  /\ SameOpens
         /\ \A e \in DOMAIN driver, q \in Pads : driver'[e].dying[q] = IF e = d THEN Y[q] ELSE driver[e].dying[q]
<1> DEFINE r == [driver[d] EXCEPT !.heard = H, !.dying = Y]
<1>1. driver[d] \in DriverType
  BY ObjTypes
<1>2. r \in DriverType /\ r.open = driver[d].open /\ r.dying = Y
  BY <1>1 DEF DriverType
<1>3. driver' = [driver EXCEPT ![d] = r]
  OBVIOUS
<1> HIDE DEF r
<1>4. driver'[d] = r /\ \A e \in DOMAIN driver : e # d => driver'[e] = driver[e]
  BY <1>2, <1>3, DriverChange
<1>5. QED
  BY <1>2, <1>4 DEF SameOpens

\* A change of the touchpads of one driver.
LEMMA PartParts ==
  ASSUME TypeInv, NEW d \in DOMAIN driver, NEW P \in SUBSET Pads, NEW L \in SUBSET Pads,
         driver' = [driver EXCEPT ![d] = [driver[d] EXCEPT !.pads = P, !.listens = L]]
  PROVE  /\ SameOpens
         /\ \A e \in DOMAIN driver, q \in Pads : driver'[e].dying[q] = driver[e].dying[q]
<1> DEFINE r == [driver[d] EXCEPT !.pads = P, !.listens = L]
<1>1. driver[d] \in DriverType
  BY ObjTypes
<1>2. r \in DriverType /\ r.open = driver[d].open /\ r.dying = driver[d].dying
  BY <1>1 DEF DriverType
<1>3. driver' = [driver EXCEPT ![d] = r]
  OBVIOUS
<1> HIDE DEF r
<1>4. driver'[d] = r /\ \A e \in DOMAIN driver : e # d => driver'[e] = driver[e]
  BY <1>2, <1>3, DriverChange
<1>5. QED
  BY <1>2, <1>4 DEF SameOpens

\* A step that adds none and takes no object down.
LEMMA PlainQuiet ==
  ASSUME RawParts, QuietParts, NEW t \in Threads, Busy(t), NEW op, NEW d, NEW p,
         Head(work[t]) = Step(op, d, p), op = "probe" => p \in linked,
         op \notin {"disable", "unlisten"},
         Turns(t, Tail(work[t])), Around,
         driver' \in Seq(DriverType), SamePlaces, SameStates, SameOpens,
         \A e \in DOMAIN driver : \A q \in driver'[e].pads : q \in driver[e].pads \/ (Own(q, e) /\ q \in linked),
         \A e \in DOMAIN driver : \A q \in driver'[e].listens : q \in driver[e].listens \/ Own(q, e),
         \A e \in DOMAIN driver, q \in Pads : driver'[e].dying[q] = driver[e].dying[q],
         raw' \in SUBSET Pads,
         \A u \in Threads : \A e \in DOMAIN driver, q \in raw' : q \notin raw => ~Unheard(u, e, q)
  PROVE  QuietParts'
<1>1. OnceInv' /\ StateInv' /\ PadInv'
  BY TailQuiet
<1>2. Shape(work[t], Wireless) /\ work[t] # <<>>
  BY HeadFacts
<1>3. Head(work[t]).op = op
  BY StepFacts
<1>4. Opens(Tail(work[t]))
  BY <1>2, <1>3, OpensTail
<1>5. \A e \in DOMAIN driver, q \in Pads : ~Unheard(t, e, q)
  BY StepEqual DEF Unheard
<1>6. DyingInv'
  BY <1>4, <1>5, DyingKept
<1>7. QED
  BY <1>1, <1>6 DEF QuietParts

\* The handler is added.
LEMMA ListenQuiet ==
  ASSUME RawParts, QuietParts, NEW t \in Threads, Busy(t), NEW d, NEW p, Head(work[t]) = Step("listen", d, p),
         Listen(t, d, p), Around
  PROVE  QuietParts'
<1> DEFINE H == [driver[d].heard EXCEPT ![p] = @ + 1]
           Y == driver[d].dying
<1>1. TypeInv
  BY DEF RawParts
<1>2. /\ d \in DOMAIN driver /\ p \in Pads /\ driver[d] \in DriverType
      /\ driver[d].heard \in [Pads -> Int] /\ Y \in [Pads -> Int]
  BY HeadFacts
<1>3. UNCHANGED raw /\ raw' \in SUBSET Pads /\ Turns(t, Tail(work[t]))
  BY <1>1 DEF Listen, Done, Turns, TypeInv
<1>4. driver' = [driver EXCEPT ![d] = [driver[d] EXCEPT !.heard = H, !.dying = Y]]
  BY <1>2 DEF Listen, DriverType
<1>5. H \in [Pads -> Int]
  BY <1>2
<1> HIDE DEF H, Y
<1>6. /\ SameOpens
      /\ \A e \in DOMAIN driver, q \in Pads : driver'[e].dying[q] = IF e = d THEN Y[q] ELSE driver[e].dying[q]
  <2>1. H \in [Pads -> Int] /\ Y \in [Pads -> Int] /\ d \in DOMAIN driver
    BY <1>2, <1>5
  <2>2. QED
    BY <2>1, <1>1, <1>4, ObjParts
<1>7. /\ driver' \in Seq(DriverType) /\ SamePlaces /\ SameStates
      /\ \A e \in DOMAIN driver : driver'[e].listens = driver[e].listens /\ driver'[e].pads = driver[e].pads
  BY <1>1, <1>2, <1>4, <1>5, ObjChange
<1>8. \A e \in DOMAIN driver, q \in Pads : driver'[e].dying[q] = driver[e].dying[q]
  BY <1>6 DEF Y
<1>9. QED
  BY <1>3, <1>6, <1>7, <1>8, PlainQuiet

\* Raw mode is switched on: the touchpad answered before, so it answers now.
LEMMA EnableQuiet ==
  ASSUME RawParts, QuietParts, NEW t \in Threads, Busy(t), NEW d, NEW p, Head(work[t]) = Step("enable", d, p),
         Enable(t, d, p), Around
  PROVE  QuietParts'
<1> DEFINE x == Step("enable", d, p)
<1>1. TypeInv
  BY DEF RawParts
<1>2. /\ d \in DOMAIN driver /\ p \in Pads /\ x \in Ahead(t)
      /\ Shape(work[t], Wireless) /\ work[t] # <<>>
  BY HeadFacts
<1>3. Padded(x, Wireless) /\ Sure(x, Ahead(t))
  <2>1. Step("probe", d, p) \notin Ahead(t)
    BY <1>2, AlreadyThere DEF Ahead
  <2>2. QED
    BY <2>1, StepFacts DEF Padded, Sure
<1>4. Reachable(d, p)
  BY <1>3, QuietHead
<1>5. UNCHANGED driver /\ Turns(t, Tail(work[t])) /\ raw' = raw \cup {p}
  BY <1>4 DEF Enable, Done, Turns, RawMode
<1>6. raw' \in SUBSET Pads
  BY <1>1, <1>2, <1>5 DEF TypeInv
<1>7. ASSUME NEW u \in Threads, NEW e \in DOMAIN driver, NEW q \in raw', q \notin raw, Unheard(u, e, q)
      PROVE  FALSE
  <2>1. q = p
    BY <1>5, <1>7
  <2>2. CASE u = t
    BY <1>7, <2>2, StepEqual DEF Unheard
  <2>3. CASE u # t
    <3>1. Step("unlisten", e, q) \in Ahead(u) /\ Padded(Step("unlisten", e, q), Wireless)
      BY <1>7, UnheardAhead
    <3>2. QED
      BY <2>1, <2>3, <3>1, <1>2, <1>3, HeadsApart
  <2>4. QED
    BY <2>2, <2>3
<1>8. /\ driver' \in Seq(DriverType) /\ SamePlaces /\ SameStates
      /\ \A e \in DOMAIN driver : driver'[e].listens = driver[e].listens /\ driver'[e].pads = driver[e].pads
  BY <1>1, <1>5, SameDrivers
<1>9. SameOpens /\ \A e \in DOMAIN driver, q \in Pads : driver'[e].dying[q] = driver[e].dying[q]
  BY <1>5 DEF SameOpens
<1>10. QED
  BY <1>5, <1>6, <1>7, <1>8, <1>9, PlainQuiet

\* A receiver's driver listens for a touchpad of its own.
LEMMA AddEventQuiet ==
  ASSUME RawParts, QuietParts, NEW t \in Threads, Busy(t), NEW d, NEW p, Head(work[t]) = Step("addEvent", d, p),
         AddEvent(t, d, p), Around
  PROVE  QuietParts'
<1>1. TypeInv
  BY DEF RawParts
<1>2. d \in DOMAIN driver /\ p \in Pads /\ driver[d] \in DriverType
  BY HeadFacts
<1>3. UNCHANGED raw /\ raw' \in SUBSET Pads /\ Turns(t, Tail(work[t]))
  BY <1>1 DEF AddEvent, Done, Turns, effects, TypeInv
<1> DEFINE P == driver[d].pads
           L == driver[d].listens \cup {p}
<1>4. driver' = [driver EXCEPT ![d] = [driver[d] EXCEPT !.pads = P, !.listens = L]]
  BY <1>2 DEF AddEvent, DriverType
<1>5. P \in SUBSET Pads /\ L \in SUBSET Pads
  BY <1>2 DEF DriverType
<1> HIDE DEF L, P
<1>6. /\ driver' \in Seq(DriverType) /\ SamePlaces /\ SameStates
      /\ driver'[d].pads = P /\ driver'[d].listens = L
      /\ \A e \in DOMAIN driver : e # d =>
            driver'[e].listens = driver[e].listens /\ driver'[e].pads = driver[e].pads
      /\ \A e \in DOMAIN driver : \A q : Obj(e, q)' = Obj(e, q)
  BY <1>1, <1>2, <1>4, <1>5, PartChange
<1>7. Own(p, d)
  <2>1. Padded(Step("addEvent", d, p), Wireless)
    BY StepFacts DEF Padded
  <2>2. QED
    BY <2>1, QuietHead
<1>8. SameOpens /\ \A e \in DOMAIN driver, q \in Pads : driver'[e].dying[q] = driver[e].dying[q]
  BY <1>1, <1>2, <1>4, <1>5, PartParts
<1>9. \A e \in DOMAIN driver : \A q \in driver'[e].pads : q \in driver[e].pads \/ (Own(q, e) /\ q \in linked)
  BY <1>6 DEF P
<1>10. \A e \in DOMAIN driver : \A q \in driver'[e].listens : q \in driver[e].listens \/ Own(q, e)
  BY <1>6, <1>7 DEF L
<1>11. QED
  BY <1>3, <1>6, <1>8, <1>9, <1>10, PlainQuiet

\* A step on an object that is down to ~Driver before it or after it.
LEMMA DyingTurn ==
  ASSUME RawParts, QuietParts, NEW t \in Threads, Busy(t), NEW op, NEW d, NEW p,
         Head(work[t]) = Step(op, d, p), Padded(Step(op, d, p), Wireless),
         NEW l, Turns(t, l), SamePlaces, raw' \subseteq raw,
         \A e, q : e # d \/ q # p => ~Unheard(t, e, q) /\ ~Unheard(t, e, q)',
         \A e \in DOMAIN driver, q \in Pads : e # d \/ q # p => driver'[e].dying[q] = driver[e].dying[q],
         driver'[d].dying[p] = One(Unheard(t, d, p)'),
         p \in raw' => ~Unheard(t, d, p)'
  PROVE  DyingInv'
<1>1. TypeInv /\ DyingInv
  BY DEF RawParts, QuietParts
<1>2. Step(op, d, p) \in Ahead(t)
  BY HeadFacts
<1>3. DOMAIN driver' = DOMAIN driver
  BY DEF SamePlaces
<1>4. \A u \in Threads : \A e, q : u # t => (Unheard(u, e, q)' <=> Unheard(u, e, q))
  BY <1>1, UnheardTurn
<1>5. ASSUME NEW u \in Threads, u # t, Unheard(u, d, p)
      PROVE  FALSE
  <2>1. Step("unlisten", d, p) \in Ahead(u)
    BY <1>5, UnheardAhead
  <2>2. QED
    BY <2>1, <1>2, <1>5, HeadsApart
<1>6. ASSUME NEW e \in DOMAIN driver, NEW q \in Pads
      PROVE  driver'[e].dying[q] = One(\E u \in Threads : Unheard(u, e, q)')
  <2>1. CASE e # d \/ q # p
    <3>1. driver'[e].dying[q] = driver[e].dying[q]
      BY <2>1
    <3>2. driver[e].dying[q] = One(\E u \in Threads : Unheard(u, e, q))
      BY <1>1 DEF DyingInv
    <3>3. ~Unheard(t, e, q) /\ ~Unheard(t, e, q)'
      BY <2>1
    <3>4. (\E u \in Threads : Unheard(u, e, q)) <=> (\E u \in Threads : Unheard(u, e, q)')
      BY <3>3, <1>4
    <3>5. QED
      BY <3>1, <3>2, <3>4 DEF One
  <2>2. CASE e = d /\ q = p
    <3>1. Unheard(t, d, p)' <=> (\E u \in Threads : Unheard(u, d, p)')
      BY <1>4, <1>5
    <3>2. QED
      BY <2>2, <3>1 DEF One
  <2>3. QED
    BY <2>1, <2>2
<1>7. ASSUME NEW u \in Threads, NEW e \in DOMAIN driver, NEW q \in raw', Unheard(u, e, q)'
      PROVE  FALSE
  <2>1. CASE u = t
    BY <2>1, <1>7
  <2>2. CASE u # t
    <3>1. Unheard(u, e, q)
      BY <2>2, <1>4, <1>7
    <3>2. QED
      BY <3>1, <1>1, <1>7 DEF DyingInv
  <2>3. QED
    BY <2>1, <2>2
<1>8. QED
  BY <1>3, <1>6, <1>7 DEF DyingInv

\* ~TouchpadDriver reaches its touchpad: it is down to ~Driver, and told.
LEMMA DisableQuiet ==
  ASSUME RawParts, QuietParts, NEW t \in Threads, Busy(t), NEW d, NEW p, Head(work[t]) = Step("disable", d, p),
         Disable(t, d, p), Around
  PROVE  QuietParts'
<1> DEFINE x == Step("disable", d, p)
           s == work[t]
           H == driver[d].heard
           Y == [driver[d].dying EXCEPT ![p] = @ + 1]
<1>1. TypeInv /\ DyingInv
  BY DEF RawParts, QuietParts
<1>2. /\ d \in DOMAIN driver /\ p \in Pads /\ driver[d] \in DriverType /\ x \in Ahead(t)
      /\ H \in [Pads -> Int] /\ driver[d].dying \in [Pads -> Int]
      /\ Shape(s, Wireless) /\ s # <<>> /\ s[1] = x /\ 1 \in DOMAIN s
  BY HeadFacts
<1>3. Padded(x, Wireless) /\ Sure(x, Ahead(t))
  BY StepFacts DEF Padded, Sure
<1>4. Reachable(d, p)
  BY <1>3, QuietHead
<1>5. Turns(t, Tail(s)) /\ raw' = raw \ {p}
  BY <1>4 DEF Disable, Done, Turns, RawMode
<1>6. driver' = [driver EXCEPT ![d] = [driver[d] EXCEPT !.heard = H, !.dying = Y]]
  BY <1>2 DEF Disable, DriverType
<1>7. Y \in [Pads -> Int] /\ Y[p] = driver[d].dying[p] + 1 /\ \A q \in Pads : q # p => Y[q] = driver[d].dying[q]
  BY <1>2
<1> HIDE DEF H, Y
<1>8. /\ SameOpens
      /\ \A e \in DOMAIN driver, q \in Pads : driver'[e].dying[q] = IF e = d THEN Y[q] ELSE driver[e].dying[q]
  <2>1. H \in [Pads -> Int] /\ Y \in [Pads -> Int] /\ d \in DOMAIN driver
    BY <1>2, <1>7
  <2>2. QED
    BY <2>1, <1>1, <1>6, ObjParts
<1>9. /\ driver' \in Seq(DriverType) /\ SamePlaces /\ SameStates
      /\ \A e \in DOMAIN driver : driver'[e].listens = driver[e].listens /\ driver'[e].pads = driver[e].pads
      /\ \A e \in DOMAIN driver, q \in Pads : Obj(e, q)' = IF e = d THEN H[q] - Y[q] ELSE Obj(e, q)
  BY <1>1, <1>2, <1>6, <1>7, ObjChange
<1>10. OnceInv' /\ StateInv' /\ PadInv'
  BY <1>5, <1>8, <1>9, TailQuiet
<1>11. Tail(s) # <<>> /\ Head(Tail(s)) = Step("unlisten", d, p)
  <2>1. s \in Seq(StepType) /\ Chained(s, Wireless)
    BY <1>2 DEF Shape
  <2>2. x.op = "disable" /\ x.driver = d /\ x.pad = p
    BY StepFacts
  <2>3. 2 \in DOMAIN s /\ s[2] = After(x, Wireless)
    BY <2>1, <2>2, <1>2 DEF Chained
  <2>4. After(x, Wireless) = Step("unlisten", d, p)
    BY <2>2 DEF After
  <2>5. s # <<>>
    BY <1>2
  <2>6. /\ Tail(s) \in Seq(StepType)
        /\ Len(s) \in Nat \ {0}
        /\ Len(Tail(s)) = Len(s) - 1
        /\ Head(s) = s[1] /\ Head(s) \in StepType
        /\ \A i \in 1 .. Len(s) - 1 : Tail(s)[i] = s[i + 1]
    BY <2>1, <2>5, TailFacts
  <2>7. Len(s) >= 2
    BY <2>1, <2>3
  <2> HIDE DEF s
  <2>8. /\ Tail(s) # <<>> /\ Head(Tail(s)) = Tail(s)[1]
        /\ Tail(s)[1] = s[2]
    <3>1. Len(Tail(s)) \in Nat \ {0} /\ 1 \in 1 .. Len(s) - 1
      BY <2>6, <2>7
    <3>2. Tail(s) # <<>>
      <4>1. Len(<<>>) = 0
        OBVIOUS
      <4>2. QED
        BY <3>1, <4>1
    <3>3. Tail(s)[1] = s[1 + 1]
      BY <2>6, <3>1
    <3>4. QED
      BY <2>6, <3>2, <3>3
  <2>9. QED
    BY <2>3, <2>4, <2>8
<1>12. \A e, q : Unheard(t, e, q)' <=> e = d /\ q = p
  <2>1. \A e, q : Unheard(t, e, q)' <=> Tail(s) # <<>> /\ Head(Tail(s)) = Step("unlisten", e, q)
    BY <1>1, <1>5, UnheardTurn
  <2>2. QED
    BY <2>1, <1>11, StepEqual
<1>13. \A e, q : ~Unheard(t, e, q)
  BY StepEqual DEF Unheard
<1>14. driver[d].dying[p] = 0
  <2>1. ASSUME NEW u \in Threads, Unheard(u, d, p)
        PROVE  FALSE
    <3>1. u # t
      BY <2>1, <1>13
    <3>2. Step("unlisten", d, p) \in Ahead(u)
      BY <2>1, UnheardAhead
    <3>3. QED
      BY <3>1, <3>2, <1>2, HeadsApart
  <2>2. driver[d].dying[p] = One(\E u \in Threads : Unheard(u, d, p))
    BY <1>1, <1>2 DEF DyingInv
  <2>3. QED
    BY <2>1, <2>2 DEF One
<1>15. driver'[d].dying[p] = One(Unheard(t, d, p)')
  <2>1. driver'[d].dying[p] = Y[p]
    BY <1>2, <1>8
  <2>2. driver'[d].dying[p] = 1
    BY <2>1, <1>7, <1>14
  <2>3. QED
    BY <2>2, <1>12 DEF One
<1>16. \A e \in DOMAIN driver, q \in Pads : e # d \/ q # p => driver'[e].dying[q] = driver[e].dying[q]
  BY <1>7, <1>8
<1>17. DyingInv'
  <2>1. raw' \subseteq raw /\ (p \in raw' => ~Unheard(t, d, p)')
    BY <1>5
  <2>2. \A e, q : e # d \/ q # p => ~Unheard(t, e, q) /\ ~Unheard(t, e, q)'
    BY <1>12, <1>13
  <2>3. QED
    BY <2>1, <2>2, <1>3, <1>5, <1>9, <1>15, <1>16, DyingTurn
<1>18. QED
  BY <1>10, <1>17 DEF QuietParts

\* ~Driver ends what ~TouchpadDriver began.
LEMMA UnlistenQuiet ==
  ASSUME RawParts, QuietParts, NEW t \in Threads, Busy(t), NEW d, NEW p, Head(work[t]) = Step("unlisten", d, p),
         Unlisten(t, d, p), Around
  PROVE  QuietParts'
<1> DEFINE x == Step("unlisten", d, p)
           s == work[t]
           H == [driver[d].heard EXCEPT ![p] = @ - 1]
           Y == [driver[d].dying EXCEPT ![p] = @ - 1]
<1>1. TypeInv /\ DyingInv
  BY DEF RawParts, QuietParts
<1>2. /\ d \in DOMAIN driver /\ p \in Pads /\ driver[d] \in DriverType
      /\ driver[d].heard \in [Pads -> Int] /\ driver[d].dying \in [Pads -> Int]
      /\ Shape(s, Wireless) /\ s # <<>>
  BY HeadFacts
<1>3. UNCHANGED raw /\ Turns(t, Tail(s))
  BY DEF Unlisten, Done, Turns, effects
<1>4. driver' = [driver EXCEPT ![d] = [driver[d] EXCEPT !.heard = H, !.dying = Y]]
  BY <1>2 DEF Unlisten, DriverType
<1>5. H \in [Pads -> Int] /\ Y \in [Pads -> Int]
  BY <1>2
<1>6. Y[p] = driver[d].dying[p] - 1 /\ \A q \in Pads : q # p => Y[q] = driver[d].dying[q]
  BY <1>2
<1> HIDE DEF H, Y
<1>7. /\ SameOpens
      /\ \A e \in DOMAIN driver, q \in Pads : driver'[e].dying[q] = IF e = d THEN Y[q] ELSE driver[e].dying[q]
  <2>1. H \in [Pads -> Int] /\ Y \in [Pads -> Int] /\ d \in DOMAIN driver
    BY <1>2, <1>5
  <2>2. QED
    BY <2>1, <1>1, <1>4, ObjParts
<1>8. /\ driver' \in Seq(DriverType) /\ SamePlaces /\ SameStates
      /\ \A e \in DOMAIN driver : driver'[e].listens = driver[e].listens /\ driver'[e].pads = driver[e].pads
      /\ \A e \in DOMAIN driver, q \in Pads : Obj(e, q)' = IF e = d THEN H[q] - Y[q] ELSE Obj(e, q)
  BY <1>1, <1>2, <1>4, <1>5, ObjChange
<1>9. OnceInv' /\ StateInv' /\ PadInv'
  BY <1>3, <1>7, <1>8, TailQuiet
<1>10. \A e, q : ~Unheard(t, e, q)'
  <2>1. Head(s).op # "disable"
    BY StepFacts
  <2>2. Opens(Tail(s))
    BY <2>1, <1>2, OpensTail
  <2>3. QED
    BY <2>2, <1>1, <1>3, UnheardTurn
<1>11. \A e, q : Unheard(t, e, q) <=> e = d /\ q = p
  <2>1. \A e, q : Unheard(t, e, q) <=> x = Step("unlisten", e, q)
    BY DEF Unheard, Busy
  <2>2. QED
    BY <2>1, StepEqual
<1>12. driver'[d].dying[p] = One(Unheard(t, d, p)')
  <2>1. driver[d].dying[p] = One(\E u \in Threads : Unheard(u, d, p))
    BY <1>1, <1>2 DEF DyingInv
  <2>2. driver[d].dying[p] = 1
    BY <2>1, <1>11 DEF One
  <2>3. driver'[d].dying[p] = Y[p]
    BY <1>2, <1>7
  <2>4. driver'[d].dying[p] = 0
    BY <2>2, <2>3, <1>6
  <2>5. QED
    BY <2>4, <1>10 DEF One
<1>13. \A e \in DOMAIN driver, q \in Pads : e # d \/ q # p => driver'[e].dying[q] = driver[e].dying[q]
  BY <1>6, <1>7
<1>14. DyingInv'
  <2>1. raw' \subseteq raw /\ (p \in raw' => ~Unheard(t, d, p)')
    BY <1>3, <1>10
  <2>2. \A e, q : e # d \/ q # p => ~Unheard(t, e, q) /\ ~Unheard(t, e, q)'
    BY <1>10, <1>11
  <2>3. Padded(x, Wireless)
    BY StepFacts DEF Padded
  <2>4. QED
    BY <2>1, <2>2, <2>3, <1>3, <1>8, <1>12, <1>13, DyingTurn
<1>15. QED
  BY <1>9, <1>14 DEF QuietParts

\* An object that is destroyed where it would have been kept, or by a task.
LEMMA TakeQuiet ==
  ASSUME RawParts, QuietParts, NEW t \in Threads, Busy(t), NEW op \in {"emplace", "erase"}, NEW d, NEW p,
         Head(work[t]) = Step(op, d, p), Turns(t, Destruction(d, p) \o Tail(work[t])),
         Own(p, d), p \in linked, Around, UNCHANGED raw,
         driver' \in Seq(DriverType), SamePlaces, SameStates, SameOpens,
         \A e \in DOMAIN driver : driver'[e].listens = driver[e].listens,
         \A e \in DOMAIN driver : driver'[e].pads \subseteq driver[e].pads,
         \A e \in DOMAIN driver, q \in Pads : driver'[e].dying[q] = driver[e].dying[q]
  PROVE  QuietParts'
<1> DEFINE l == Destruction(d, p) \o Tail(work[t])
<1>1. TypeInv /\ PadInv
  BY DEF RawParts, QuietParts
<1>2. d \in DOMAIN driver /\ p \in Pads
  BY HeadFacts
<1>3. /\ Opens(l)
      /\ ToSet(l) = {Step("disable", d, p), Step("unlisten", d, p)} \cup (Ahead(t) \ {Step(op, d, p)})
  BY TakeApart
<1>4. Turns(t, l)
  OBVIOUS
<1> HIDE DEF l
<1>5. ASSUME NEW x \in ToSet(l)
      PROVE  Known(x, ToSet(l))
  <2>1. CASE x \in {Step("disable", d, p), Step("unlisten", d, p)}
    <3>1. x.driver = d /\ x.pad = p
      BY <2>1, StepFacts
    <3>2. QED
      BY <3>1 DEF Known
  <2>2. CASE x \in Ahead(t)
    <3>1. Known(x, Ahead(t))
      BY <2>2, <1>1 DEF PadInv
    <3>2. Step("probe", x.driver, x.pad) # Step(op, d, p)
      BY StepEqual
    <3>3. Sure(x, ToSet(l)) => Sure(x, Ahead(t))
      BY <3>2, <1>3 DEF Sure
    <3>4. QED
      BY <3>1, <3>3 DEF Known
  <2>3. QED
    BY <2>1, <2>2, <1>3
<1>6. \A x \in ToSet(l) :
         \/ x \in Ahead(t)
         \/ x.driver = Head(work[t]).driver /\ (x.op = "gone" => x.driver \notin Wireless)
  BY <1>3, StepFacts
<1>7. /\ \A e \in DOMAIN driver : \A q \in driver'[e].pads : q \in driver[e].pads \/ (Own(q, e) /\ q \in linked)
      /\ \A e \in DOMAIN driver : \A q \in driver'[e].listens : q \in driver[e].listens \/ Own(q, e)
  OBVIOUS
<1>8. OnceInv' /\ StateInv' /\ PadInv'
  BY <1>4, <1>5, <1>6, <1>7, QuietStep
<1>9. \A e \in DOMAIN driver, q \in Pads : ~Unheard(t, e, q)
  BY StepEqual DEF Unheard
<1>10. /\ raw' \in SUBSET Pads
       /\ \A u \in Threads : \A e \in DOMAIN driver, q \in raw' : q \notin raw => ~Unheard(u, e, q)
  BY <1>1 DEF TypeInv
<1>11. DyingInv'
  BY <1>3, <1>4, <1>9, <1>10, DyingKept
<1>12. QED
  BY <1>8, <1>11 DEF QuietParts

\* A touchpad that answered enters the map, or its second object goes.
LEMMA EmplaceQuiet ==
  ASSUME RawParts, QuietParts, NEW t \in Threads, Busy(t), NEW d, NEW p, Head(work[t]) = Step("emplace", d, p),
         Emplace(t, d, p), Around
  PROVE  QuietParts'
<1> DEFINE x == Step("emplace", d, p)
<1>1. TypeInv
  BY DEF RawParts
<1>2. /\ d \in DOMAIN driver /\ p \in Pads /\ driver[d] \in DriverType /\ d \in Wireless
      /\ Shape(work[t], Wireless) /\ work[t] # <<>>
  BY HeadFacts
<1>3. Own(p, d) /\ p \in linked
  <2>1. x = Keep(d, p, Wireless)
    BY <1>2 DEF Keep
  <2>2. Step("probe", d, p) \notin Ahead(t)
    BY <2>1, <1>2, AlreadyThere DEF Ahead
  <2>3. Padded(x, Wireless) /\ Sure(x, Ahead(t))
    BY <2>2, StepFacts DEF Padded, Sure
  <2>4. QED
    BY <2>3, QuietHead
<1>4. UNCHANGED raw /\ raw' \in SUBSET Pads
  BY <1>1 DEF Emplace, TypeInv
<1>5. CASE p \in driver[d].pads
  <2>1. UNCHANGED driver /\ Turns(t, Destruction(d, p) \o Tail(work[t]))
    BY <1>5 DEF Emplace, Turns
  <2>2. /\ driver' \in Seq(DriverType) /\ SamePlaces /\ SameStates
        /\ \A e \in DOMAIN driver : driver'[e].listens = driver[e].listens /\ driver'[e].pads = driver[e].pads
    BY <2>1, <1>1, SameDrivers
  <2>3. SameOpens /\ \A e \in DOMAIN driver, q \in Pads : driver'[e].dying[q] = driver[e].dying[q]
    BY <2>1 DEF SameOpens
  <2>4. QED
    BY <2>1, <2>2, <2>3, <1>3, <1>4, TakeQuiet
<1>6. CASE p \notin driver[d].pads
  <2> DEFINE P == driver[d].pads \cup {p}
             L == driver[d].listens
  <2>1. driver' = [driver EXCEPT ![d] = [driver[d] EXCEPT !.pads = P, !.listens = L]]
    BY <1>2, <1>6 DEF Emplace, DriverType
  <2>2. Turns(t, Tail(work[t]))
    BY <1>6 DEF Emplace, Done, Turns
  <2>3. P \in SUBSET Pads /\ L \in SUBSET Pads
    BY <1>2 DEF DriverType
  <2> HIDE DEF P, L
  <2>4. /\ driver' \in Seq(DriverType) /\ SamePlaces /\ SameStates
        /\ driver'[d].pads = P /\ driver'[d].listens = L
        /\ \A e \in DOMAIN driver : e # d =>
              driver'[e].listens = driver[e].listens /\ driver'[e].pads = driver[e].pads
        /\ \A e \in DOMAIN driver : \A q : Obj(e, q)' = Obj(e, q)
    BY <2>1, <2>3, <1>1, <1>2, PartChange
  <2>5. SameOpens /\ \A e \in DOMAIN driver, q \in Pads : driver'[e].dying[q] = driver[e].dying[q]
    BY <2>1, <2>3, <1>1, <1>2, PartParts
  <2>6. \A e \in DOMAIN driver : \A q \in driver'[e].pads : q \in driver[e].pads \/ (Own(q, e) /\ q \in linked)
    BY <2>4, <1>3 DEF P
  <2>7. \A e \in DOMAIN driver : \A q \in driver'[e].listens : q \in driver[e].listens \/ Own(q, e)
    BY <2>4 DEF L
  <2>8. QED
    BY <2>2, <2>4, <2>5, <2>6, <2>7, <1>4, PlainQuiet
<1>7. QED
  BY <1>5, <1>6

\* A touchpad leaves the map.
LEMMA EraseQuiet ==
  ASSUME RawParts, QuietParts, NEW t \in Threads, Busy(t), NEW d, NEW p, Head(work[t]) = Step("erase", d, p),
         Erase(t, d, p), Around
  PROVE  QuietParts'
<1> DEFINE P == driver[d].pads \ {p}
           L == driver[d].listens
<1>1. TypeInv /\ PadInv
  BY DEF RawParts, QuietParts
<1>2. d \in DOMAIN driver /\ p \in Pads /\ driver[d] \in DriverType /\ work[t] \in Seq(StepType)
  BY HeadFacts DEF Shape
<1>3. UNCHANGED raw /\ raw' \in SUBSET Pads
  BY <1>1 DEF Erase, effects, TypeInv
<1>4. driver' = [driver EXCEPT ![d] = [driver[d] EXCEPT !.pads = P, !.listens = L]]
  BY <1>2 DEF Erase, DriverType
<1>5. P \in SUBSET Pads /\ L \in SUBSET Pads /\ P \subseteq driver[d].pads
  BY <1>2 DEF DriverType
<1> HIDE DEF P, L
<1>6. /\ driver' \in Seq(DriverType) /\ SamePlaces /\ SameStates
      /\ driver'[d].pads = P /\ driver'[d].listens = L
      /\ \A e \in DOMAIN driver : e # d =>
            driver'[e].listens = driver[e].listens /\ driver'[e].pads = driver[e].pads
      /\ \A e \in DOMAIN driver : \A q : Obj(e, q)' = Obj(e, q)
  BY <1>1, <1>2, <1>4, <1>5, PartChange
<1>7. SameOpens /\ \A e \in DOMAIN driver, q \in Pads : driver'[e].dying[q] = driver[e].dying[q]
  BY <1>1, <1>2, <1>4, <1>5, PartParts
<1>8. /\ \A e \in DOMAIN driver : driver'[e].listens = driver[e].listens
      /\ \A e \in DOMAIN driver : driver'[e].pads \subseteq driver[e].pads
  BY <1>5, <1>6 DEF L
<1>9. CASE p \in driver[d].pads
  <2>1. Turns(t, Destruction(d, p) \o Tail(work[t]))
    BY <1>9 DEF Erase, Turns
  <2>2. Own(p, d) /\ p \in linked
    BY <1>1, <1>2, <1>9 DEF PadInv
  <2>3. QED
    BY <2>1, <2>2, <1>3, <1>6, <1>7, <1>8, TakeQuiet
<1>10. CASE p \notin driver[d].pads
  <2>1. work[t] # <<>>
    BY DEF Busy
  <2>2. Tail(work[t]) \in Seq(StepType)
    BY <2>1, <1>2
  <2>3. <<>> \o Tail(work[t]) = Tail(work[t])
    BY <2>2
  <2>4. Turns(t, Tail(work[t]))
    BY <2>3, <1>10 DEF Erase, Turns
  <2>5. /\ \A e \in DOMAIN driver : \A q \in driver'[e].pads : q \in driver[e].pads \/ (Own(q, e) /\ q \in linked)
        /\ \A e \in DOMAIN driver : \A q \in driver'[e].listens : q \in driver[e].listens \/ Own(q, e)
    BY <1>8
  <2>6. QED
    BY <2>4, <2>5, <1>3, <1>6, <1>7, PlainQuiet
<1>11. QED
  BY <1>9, <1>10

\* The driver of a node is complete: the main thread may work on it.
LEMMA AdoptQuiet ==
  ASSUME RawParts, QuietParts, NEW t \in Threads, Busy(t), NEW d, NEW p, Head(work[t]) = Step("adopt", d, p),
         Adopt(t, d, p), Around
  PROVE  QuietParts'
<1> DEFINE x == Step("adopt", d, p)
           path == driver[d].path
           P == IF path \in Mice THEN {p} ELSE driver[d].pads
<1>1. TypeInv /\ ListInv /\ NodeInv /\ OnceInv /\ StateInv /\ PadInv
  BY DEF RawParts, QuietParts
<1>2. /\ d \in DOMAIN driver /\ d \in Nat \ {0} /\ driver[d] \in DriverType /\ x \in Ahead(t)
      /\ d \notin Wireless => p \in Pads
  BY HeadFacts
<1>3. x.op = "adopt" /\ x.driver = d /\ x.pad = p /\ x.op \in Building
  BY StepFacts DEF Building
<1>4. t = "monitor" /\ Tail(work[t]) = <<>> /\ Ahead(t) = {x}
  BY AdoptLastStep
<1>5. node[path] = 0
  BY <1>2, <1>3, <1>4, NoOther
<1>6. path \in Mice <=> d \notin Wireless
  <2>1. path \in Receivers \cup Mice
    BY <1>2 DEF DriverType
  <2>2. QED
    BY <2>1, <1>2, PathAssumption DEF Wireless
<1>7. P \in SUBSET Pads
  BY <1>2, <1>6 DEF DriverType
<1>8. driver' = [Marked({0}) EXCEPT ![d].state = "live", ![d].pads = P]
  <2>1. Marked({0})[d].pads = driver[d].pads
    BY <1>2 DEF Marked, DriverType
  <2>2. driver' = [Marked({0}) EXCEPT ![d].state = "live", ![d].pads = IF path \in Mice THEN {p} ELSE @]
    BY <1>5 DEF Adopt
  <2>3. QED
    BY <2>1, <2>2
<1>9. UNCHANGED raw
  BY DEF Adopt
<1>10. Turns(t, <<>>)
  <2>1. DestroyDriver(0) \o <<>> = <<>>
    BY DEF DestroyDriver
  <2>2. QED
    BY <2>1, <1>4, <1>5 DEF Adopt, Turns
<1>11. \A q \in P : q \in driver[d].pads \/ (Own(q, d) /\ q \in linked)
  <2>1. CASE d \in Wireless
    BY <2>1, <1>6
  <2>2. CASE d \notin Wireless
    <3>1. Step("probe", d, p) \notin Ahead(t)
      BY <1>4, StepEqual
    <3>2. Padded(x, Wireless) /\ Sure(x, Ahead(t))
      BY <2>2, <3>1, <1>3 DEF Padded, Sure
    <3>3. Own(p, d) /\ p \in linked
      BY <3>2, QuietHead
    <3>4. QED
      BY <2>2, <3>3, <1>6
  <2>3. QED
    BY <2>1, <2>2
<1> HIDE DEF P, x, path
<1>12. /\ driver' \in Seq(DriverType) /\ SamePlaces
       /\ driver'[d].state = "live" /\ driver'[d].pads = P
       /\ \A e \in DOMAIN driver :
             /\ driver'[e].listens = driver[e].listens
             /\ driver'[e].open = driver[e].open /\ driver'[e].dying = driver[e].dying
             /\ e # d => driver'[e].pads = driver[e].pads
             /\ e # d => driver'[e].state = IF e = 0 THEN "dying" ELSE driver[e].state
       /\ \A e \in DOMAIN driver : \A q : Obj(e, q)' = Obj(e, q)
  <2>1. 0 \in Nat /\ 0 # d
    BY <1>2
  <2>2. QED
    BY <2>1, <1>1, <1>2, <1>7, <1>8, AdoptDrivers
<1>13. \A e \in DOMAIN driver : e # d => driver'[e].state = driver[e].state
  <2>1. 0 \notin DOMAIN driver
    BY <1>1 DEF TypeInv
  <2>2. QED
    BY <2>1, <1>12
<1>14. UNCHANGED <<queue, scan, found, udev, plugged, linked>>
  BY AroundFacts
<1>15. OnceInv'
  <2>1. SameOpens
    BY <1>12 DEF SameOpens
  <2>2. QED
    BY <2>1, <1>1, <1>12, <1>14, OnceKept
<1>16. ToSet(<<>>) = {} /\ Opens(<<>>)
  BY EmptyShape
<1>17. /\ Wireless' = Wireless /\ Ahead("monitor")' = {} /\ Ahead("main")' = Ahead("main")
  BY <1>1, <1>4, <1>10, <1>12, <1>16, TurnFacts DEF Threads
<1>18. PadInv'
  <2>1. /\ \A e \in DOMAIN driver : \A q \in driver'[e].pads : q \in driver[e].pads \/ (Own(q, e) /\ q \in linked)
        /\ \A e \in DOMAIN driver : \A q \in driver'[e].listens : q \in driver[e].listens \/ Own(q, e)
    BY <1>11, <1>12
  <2>2. /\ \A y \in ToSet(<<>>) : y.driver \in DOMAIN driver
        /\ \A y \in ToSet(<<>>) : Known(y, ToSet(<<>>))
    BY <1>16
  <2>3. OldQueue /\ UNCHANGED linked
    BY <1>14 DEF OldQueue
  <2>4. QED
    BY <2>3, <2>1, <2>2, <1>1, <1>10, <1>12, PadStep
<1>19. StateInv'
  <2>1. ASSUME NEW y \in Ahead("main")'
        PROVE  driver'[y.driver].state = IF scan' = "done" THEN "dying" ELSE "live"
    <3>1. y \in Ahead("main") /\ y.driver \in DOMAIN driver
      BY <2>1, <1>1, <1>17 DEF ListInv, Threads
    <3>2. y.driver # d
      BY <3>1, <1>2, <1>3, <1>4, ThreadsApart
    <3>3. driver'[y.driver].state = driver[y.driver].state
      BY <3>1, <3>2, <1>13
    <3>4. driver[y.driver].state = IF scan = "done" THEN "dying" ELSE "live"
      BY <3>1, <1>1 DEF StateInv
    <3>5. QED
      BY <3>3, <3>4, <1>14
  <2>2. \A e \in Wireless' : scan' # "done" => driver'[e].state \in {"building", "live"}
    BY <1>1, <1>12, <1>13, <1>14, <1>17 DEF StateInv, Wireless
  <2>3. \A i \in DOMAIN queue' : scan' # "done" => driver'[queue'[i].driver].state = "live"
    <3>1. \A i \in DOMAIN queue : queue[i].driver \in DOMAIN driver
      BY <1>1 DEF NodeInv, Wireless
    <3>2. \A i \in DOMAIN queue : scan # "done" => driver[queue[i].driver].state = "live"
      BY <1>1 DEF StateInv
    <3>3. QED
      BY <3>1, <3>2, <1>12, <1>13, <1>14
  <2>4. QED
    BY <2>1, <2>2, <2>3, <1>17 DEF StateInv
<1>20. DyingInv'
  <2>1. \A e \in DOMAIN driver, q \in Pads : ~Unheard(t, e, q)
    BY StepEqual DEF Unheard
  <2>2. \A e \in DOMAIN driver, q \in Pads : driver'[e].dying[q] = driver[e].dying[q]
    BY <1>12
  <2>3. /\ raw' \in SUBSET Pads
        /\ \A u \in Threads : \A e \in DOMAIN driver, q \in raw' : q \notin raw => ~Unheard(u, e, q)
    BY <1>1, <1>9 DEF TypeInv
  <2>4. QED
    BY <2>1, <2>2, <2>3, <1>10, <1>12, <1>16, DyingKept
<1>21. QED
  BY <1>15, <1>18, <1>19, <1>20 DEF QuietParts

\* A driver that goes has no step left.
LEMMA GoneTail ==
  ASSUME RawParts, NEW t \in Threads, Busy(t), NEW d, NEW p, Head(work[t]) = Step("gone", d, p)
  PROVE  \A x \in ToSet(Tail(work[t])) : x.driver # d
<1>1. /\ Shape(work[t], Wireless) /\ work[t] # <<>> /\ work[t][1] = Step("gone", d, p) /\ 1 \in DOMAIN work[t]
  BY HeadFacts
<1>2. work[t] \in Seq(StepType) /\ GoneLast(work[t])
  BY <1>1 DEF Shape
<1>3. \A i \in DOMAIN Tail(work[t]) : i + 1 \in DOMAIN work[t] /\ Tail(work[t])[i] = work[t][i + 1]
  BY <1>1, <1>2, FirstFacts
<1>4. ASSUME NEW i \in DOMAIN Tail(work[t])
      PROVE  Tail(work[t])[i].driver # d
  <2>1. i + 1 \in DOMAIN work[t] /\ Tail(work[t])[i] = work[t][i + 1]
    BY <1>3, <1>4
  <2>2. 1 < i + 1
    <3>1. Tail(work[t]) \in Seq(StepType)
      BY <1>1, <1>2, FirstFacts
    <3>2. i \in Nat \ {0}
      BY <3>1
    <3>3. QED
      BY <3>2
  <2>3. work[t][1].op = "gone" /\ work[t][1].driver = d
    BY <1>1, StepFacts
  <2>4. QED
    BY <2>1, <2>2, <2>3, <1>1, <1>2 DEF GoneLast
<1>5. QED
  BY <1>4 DEF ToSet

\* The driver of a node goes: a mouse that did not answer, or at the end of the program.
LEMMA GoneQuiet ==
  ASSUME RawParts, QuietParts, NEW t \in Threads, Busy(t), NEW d, NEW p, Head(work[t]) = Step("gone", d, p),
         Gone(t, d), Around
  PROVE  QuietParts'
<1> DEFINE x == Step("gone", d, p)
           l == Tail(work[t])
           r == [driver[d] EXCEPT !.state = "gone", !.listens = {}]
<1>1. TypeInv /\ ListInv /\ NodeInv /\ OnceInv /\ StateInv /\ PadInv
  BY DEF RawParts, QuietParts
<1>2. /\ d \in DOMAIN driver /\ driver[d] \in DriverType /\ x \in Ahead(t)
      /\ Shape(work[t], Wireless) /\ work[t] # <<>>
  BY HeadFacts
<1>3. ToSet(l) = Ahead(t) \ {x}
  BY <1>1, WorkFacts
<1>4. x.op = "gone" /\ x.driver = d
  BY StepFacts
<1>5. Turns(t, l) /\ UNCHANGED raw
  BY DEF Gone, Done, Turns, effects
<1>6. driver' = [driver EXCEPT ![d] = r]
  BY <1>2 DEF Gone, DriverType
<1>7. r \in DriverType
  BY <1>2 DEF DriverType
<1>8. /\ r.state = "gone" /\ r.listens = {} /\ r.path = driver[d].path /\ r.pads = driver[d].pads
      /\ r.open = driver[d].open /\ r.dying = driver[d].dying
  BY <1>2 DEF DriverType
<1>9. \A y \in ToSet(l) : y.driver # d
  BY GoneTail
<1>10. \A y \in ToSet(l) : Known(y, ToSet(l))
  BY KnownTail
<1>11. Opens(l)
  <2>1. Head(work[t]).op # "disable"
    BY <1>4
  <2>2. QED
    BY <2>1, <1>2, OpensTail
<1> HIDE DEF x, l, r
<1>12. /\ driver' \in Seq(DriverType) /\ DOMAIN driver' = DOMAIN driver
       /\ driver'[d] = r /\ \A e \in DOMAIN driver : e # d => driver'[e] = driver[e]
  BY <1>1, <1>2, <1>6, <1>7, DriverChange
<1>13. SamePlaces /\ SameOpens
  BY <1>8, <1>12 DEF SamePlaces, SameOpens
<1>14. UNCHANGED <<queue, scan, found, udev, plugged, linked>>
  BY AroundFacts
<1>15. OnceInv'
  BY <1>1, <1>13, <1>14, OnceKept
<1>16. /\ Wireless' = Wireless /\ Ahead(t)' = ToSet(l)
       /\ \A u \in Threads : u # t => Ahead(u)' = Ahead(u)
  BY <1>1, <1>5, <1>13, TurnFacts
<1>17. PadInv'
  <2>1. /\ \A e \in DOMAIN driver : \A q \in driver'[e].pads : q \in driver[e].pads \/ (Own(q, e) /\ q \in linked)
        /\ \A e \in DOMAIN driver : \A q \in driver'[e].listens : q \in driver[e].listens \/ Own(q, e)
    BY <1>8, <1>12
  <2>2. \A y \in ToSet(l) : y.driver \in DOMAIN driver
    BY <1>1, <1>3 DEF ListInv
  <2>3. OldQueue /\ UNCHANGED linked
    BY <1>14 DEF OldQueue
  <2>4. QED
    BY <2>3, <2>1, <2>2, <1>1, <1>5, <1>10, <1>13, PadStep
<1>18. t = "main" => scan = "done"
  BY <1>1, <1>2, <1>4 DEF ListInv
<1>19. t = "monitor" => d = Len(driver) /\ d \notin Wireless
  BY <1>1, <1>2, <1>4 DEF StateInv
<1>20. \A u \in Threads : \A y \in Ahead(u)' : y \in Ahead(u) /\ y.driver \in DOMAIN driver
  BY <1>1, <1>3, <1>16 DEF ListInv
<1>21. StateInv'
  <2>1. Ahead("monitor")' = {}
    <3>1. CASE t = "monitor"
      <4>1. \A y \in ToSet(l) : y.driver = Len(driver)
        BY <3>1, <1>1, <1>3 DEF StateInv
      <4>2. QED
        BY <3>1, <4>1, <1>9, <1>16, <1>19
    <3>2. CASE t # "monitor"
      <4>1. t = "main" /\ work["monitor"] = <<>>
        BY <3>2, <1>1, <1>18 DEF ListInv, Threads
      <4>2. Ahead("monitor") = {}
        BY <4>1, EmptyShape DEF Ahead
      <4>3. QED
        BY <3>2, <4>2, <1>16 DEF Threads
    <3>3. QED
      BY <3>1, <3>2
  <2>2. ASSUME NEW y \in Ahead("main")'
        PROVE  driver'[y.driver].state = IF scan' = "done" THEN "dying" ELSE "live"
    <3>1. y \in Ahead("main") /\ y.driver \in DOMAIN driver
      BY <2>2, <1>20 DEF Threads
    <3>2. y.driver # d
      <4>1. CASE t = "main"
        BY <4>1, <2>2, <1>9, <1>16
      <4>2. CASE t = "monitor"
        BY <4>2, <3>1, <1>2, <1>4, ThreadsApart
      <4>3. QED
        BY <4>1, <4>2 DEF Threads
    <3>3. driver'[y.driver].state = driver[y.driver].state
      BY <3>1, <3>2, <1>12
    <3>4. driver[y.driver].state = IF scan = "done" THEN "dying" ELSE "live"
      BY <3>1, <1>1 DEF StateInv
    <3>5. QED
      BY <3>3, <3>4, <1>14
  <2>3. scan # "done" => d \notin Wireless
    BY <1>18, <1>19 DEF Threads
  <2>4. ASSUME NEW e \in Wireless', scan' # "done"
        PROVE  driver'[e].state \in {"building", "live"}
    <3>1. e \in Wireless /\ e # d /\ e \in DOMAIN driver
      BY <2>3, <2>4, <1>14, <1>16 DEF Wireless
    <3>2. driver[e].state \in {"building", "live"}
      BY <3>1, <2>4, <1>1, <1>14 DEF StateInv
    <3>3. QED
      BY <3>1, <3>2, <1>12
  <2>5. ASSUME NEW i \in DOMAIN queue', scan' # "done"
        PROVE  driver'[queue'[i].driver].state = "live"
    <3>1. i \in DOMAIN queue /\ queue[i].driver \in Wireless
      BY <2>5, <1>1, <1>14 DEF NodeInv
    <3>2. queue[i].driver \in DOMAIN driver /\ queue[i].driver # d
      BY <3>1, <2>3, <2>5, <1>14 DEF Wireless
    <3>3. driver[queue[i].driver].state = "live"
      BY <3>1, <2>5, <1>1, <1>14 DEF StateInv
    <3>4. QED
      BY <3>2, <3>3, <1>12, <1>14
  <2>6. QED
    BY <2>1, <2>2, <2>4, <2>5 DEF StateInv
<1>22. DyingInv'
  <2>1. \A e \in DOMAIN driver, q \in Pads : ~Unheard(t, e, q)
    BY StepEqual DEF Unheard
  <2>2. \A e \in DOMAIN driver, q \in Pads : driver'[e].dying[q] = driver[e].dying[q]
    BY <1>8, <1>12
  <2>3. /\ raw' \in SUBSET Pads
        /\ \A u \in Threads : \A e \in DOMAIN driver, q \in raw' : q \notin raw => ~Unheard(u, e, q)
    BY <1>1, <1>5 DEF TypeInv
  <2>4. QED
    BY <2>1, <2>2, <2>3, <1>5, <1>11, <1>13, DyingKept
<1>23. QED
  BY <1>15, <1>17, <1>21, <1>22 DEF QuietParts

\* Whatever a thread does next.
LEMMA WorkQuiet ==
  ASSUME RawParts, QuietParts, NEW t \in Threads, Work(t)
  PROVE  QuietParts'
<1> DEFINE x == Head(work[t])
           op == x.op
           d == x.driver
           p == x.pad
<1>1. Busy(t) /\ Perform(t, x) /\ Around
  BY DEF Work, Around
<1>2. x \in StepType
  BY <1>1, WorkFacts DEF RawParts
<1>3. x = Step(op, d, p)
  BY <1>2 DEF StepType, Step
<1> HIDE DEF x, op, d, p
<1>4. /\ op = "probe" => Probe(t, d, p)
      /\ op = "listen" => Listen(t, d, p)
      /\ op = "enable" => Enable(t, d, p)
      /\ op = "disable" => Disable(t, d, p)
      /\ op = "unlisten" => Unlisten(t, d, p)
      /\ op = "emplace" => Emplace(t, d, p)
      /\ op = "erase" => Erase(t, d, p)
      /\ op = "addEvent" => AddEvent(t, d, p)
      /\ op = "adopt" => Adopt(t, d, p)
      /\ op = "gone" => Gone(t, d)
      /\ op \in {"probe", "listen", "enable", "disable", "unlisten", "emplace", "erase", "addEvent", "adopt", "gone"}
  BY <1>1 DEF Perform, op, d, p
<1>5. Head(work[t]) = Step(op, d, p)
  BY <1>3 DEF x
<1>6. CASE op = "probe"
  BY <1>1, <1>4, <1>5, <1>6, ProbeQuiet
<1>7. CASE op = "listen"
  BY <1>1, <1>4, <1>5, <1>7, ListenQuiet
<1>8. CASE op = "enable"
  BY <1>1, <1>4, <1>5, <1>8, EnableQuiet
<1>9. CASE op = "disable"
  BY <1>1, <1>4, <1>5, <1>9, DisableQuiet
<1>10. CASE op = "unlisten"
  BY <1>1, <1>4, <1>5, <1>10, UnlistenQuiet
<1>11. CASE op = "emplace"
  BY <1>1, <1>4, <1>5, <1>11, EmplaceQuiet
<1>12. CASE op = "erase"
  BY <1>1, <1>4, <1>5, <1>12, EraseQuiet
<1>13. CASE op = "addEvent"
  BY <1>1, <1>4, <1>5, <1>13, AddEventQuiet
<1>14. CASE op = "adopt"
  BY <1>1, <1>4, <1>5, <1>14, AdoptQuiet
<1>15. CASE op = "gone"
  BY <1>1, <1>4, <1>5, <1>15, GoneQuiet
<1>16. QED
  BY <1>4, <1>6, <1>7, <1>8, <1>9, <1>10, <1>11, <1>12, <1>13, <1>14, <1>15

\* Nothing changes but what is queued, linked or plugged.
LEMMA IdleQuiet ==
  ASSUME RawParts, QuietParts, UNCHANGED <<work, driver, raw>>, linked \subseteq linked',
         scan' = "done" <=> scan = "done", OnceInv',
         \A i \in DOMAIN queue' :
            /\ PathOf[queue'[i].pad] = driver[queue'[i].driver].path
            /\ scan # "done" => driver[queue'[i].driver].state = "live"
  PROVE  QuietParts'
<1>1. TypeInv /\ ListInv /\ StateInv /\ PadInv /\ DyingInv
  BY DEF QuietParts, RawParts
<1>2. driver' = driver /\ work' = work /\ raw' = raw /\ Wireless' = Wireless /\ \A t : Ahead(t)' = Ahead(t)
  BY DEF Wireless, Ahead
<1>3. StateInv'
  <2>1. /\ \A x \in Ahead("monitor")' :
              /\ x.driver = Len(driver') /\ driver'[x.driver].state = "building"
              /\ x.op = "gone" => x.driver \notin Wireless'
        /\ \A x \in Ahead("main")' :
              driver'[x.driver].state = IF scan' = "done" THEN "dying" ELSE "live"
    BY <1>1, <1>2 DEF StateInv
  <2>2. \A d \in Wireless' : scan' # "done" => driver'[d].state \in {"building", "live"}
    BY <1>1, <1>2 DEF StateInv
  <2>3. \A i \in DOMAIN queue' : scan' # "done" => driver'[queue'[i].driver].state = "live"
    BY <1>2
  <2>4. QED
    BY <2>1, <2>2, <2>3 DEF StateInv
<1>4. PadInv'
  <2>1. ASSUME NEW t \in Threads, NEW x \in Ahead(t)'
        PROVE  Known(x, Ahead(t))'
    <3>1. x \in Ahead(t) /\ x.driver \in DOMAIN driver /\ Known(x, Ahead(t))
      BY <2>1, <1>1, <1>2 DEF PadInv, ListInv
    <3>2. PICK B : B = Ahead(t)
      OBVIOUS
    <3>3. SamePlaces
      BY <1>2 DEF SamePlaces
    <3>4. Known(x, B)'
      BY <3>1, <3>2, <3>3, <1>2, KnownStays
    <3>5. QED
      BY <3>2, <3>4, <1>2 DEF Known
  <2>2. /\ \A d \in DOMAIN driver' : \A p \in driver'[d].pads : Own(p, d)' /\ p \in linked'
        /\ \A d \in DOMAIN driver' : \A p \in driver'[d].listens : Own(p, d)'
    BY <1>1, <1>2 DEF PadInv, Own
  <2>3. \A i \in DOMAIN queue' : Own(queue[i].pad, queue[i].driver)'
    BY <1>2 DEF Own
  <2>4. QED
    BY <2>1, <2>2, <2>3 DEF PadInv
<1>5. DyingInv'
  <2>1. \A t, d, p : Unheard(t, d, p)' <=> Unheard(t, d, p)
    BY <1>2 DEF Unheard
  <2>2. \A t \in Threads, d \in DOMAIN driver', p \in raw' : ~Unheard(t, d, p)'
    BY <2>1, <1>1, <1>2 DEF DyingInv
  <2>3. ASSUME NEW d \in DOMAIN driver', NEW p \in Pads
        PROVE  driver'[d].dying[p] = One(\E t \in Threads : Unheard(t, d, p)')
    <3>1. (\E t \in Threads : Unheard(t, d, p)) <=> (\E t \in Threads : Unheard(t, d, p)')
      BY <2>1
    <3>2. driver[d].dying[p] = One(\E t \in Threads : Unheard(t, d, p)) /\ driver' = driver
      BY <1>1, <1>2 DEF DyingInv
    <3>3. QED
      BY <3>1, <3>2 DEF One
  <2>4. QED
    BY <2>2, <2>3 DEF DyingInv
<1>6. QED
  BY <1>3, <1>4, <1>5 DEF QuietParts

\* Tasks are for receivers that are there, and for touchpads of theirs.
LEMMA QueuedFacts ==
  ASSUME RawParts, QuietParts
  PROVE  \A i \in DOMAIN queue :
            /\ queue[i].driver \in Wireless /\ queue[i].driver \in DOMAIN driver
            /\ PathOf[queue[i].pad] = driver[queue[i].driver].path
            /\ scan # "done" => driver[queue[i].driver].state = "live"
<1>1. NodeInv /\ StateInv /\ PadInv
  BY DEF RawParts, QuietParts
<1>2. QED
  BY <1>1 DEF NodeInv, StateInv, PadInv, Own, Wireless

\* Nothing changes but what is to be enumerated or heard of.
LEMMA StillQuiet ==
  ASSUME RawParts, QuietParts, UNCHANGED <<work, driver, raw, queue, linked>>,
         scan' = "done" <=> scan = "done", OnceInv'
  PROVE  QuietParts'
<1>1. \A i \in DOMAIN queue' :
         /\ PathOf[queue'[i].pad] = driver[queue'[i].driver].path
         /\ scan # "done" => driver[queue'[i].driver].state = "live"
  BY QueuedFacts
<1>2. linked \subseteq linked' /\ UNCHANGED <<work, driver, raw>>
  OBVIOUS
<1>3. QED
  BY <1>1, <1>2, IdleQuiet

\* The main thread waits, is interrupted or ends.
LEMMA MainIdleQuiet ==
  ASSUME RawParts, QuietParts, WaitForTask \/ LeaveLoop \/ MainEnds \/ SigInt \/ NotifyAll \/ WakeUp
  PROVE  QuietParts'
<1>1. UNCHANGED <<work, driver, raw, queue, linked>> /\ UNCHANGED <<scan, found, udev, plugged>>
  <2>1. CASE WaitForTask \/ SigInt \/ NotifyAll \/ WakeUp
    BY <2>1 DEF WaitForTask, SigInt, NotifyAll, WakeUp, threadVars, driverVars, worldVars, history,
                PopTest, PopWait, Interrupt, Notify, SpuriousWakeUp
  <2>2. CASE LeaveLoop \/ MainEnds
    BY <2>2 DEF LeaveLoop, MainEnds, PopNothing, queueVars, driverVars, worldVars, history
  <2>3. QED
    BY <2>1, <2>2
<1>2. OnceInv'
  <2>1. OnceInv
    BY DEF QuietParts
  <2>2. SamePlaces /\ SameOpens /\ UNCHANGED <<udev, found, plugged>> /\ scan' = scan
    BY <1>1 DEF SamePlaces, SameOpens
  <2>3. QED
    BY <2>1, <2>2, OnceKept
<1>3. scan' = "done" <=> scan = "done"
  BY <1>1
<1>4. QED
  BY <1>1, <1>2, <1>3, StillQuiet

\* A node is plugged in: it has no driver yet.
LEMMA PlugQuiet ==
  ASSUME RawParts, QuietParts, NEW path \in Paths, Plug(path), ~disturbed'
  PROVE  QuietParts'
<1> DEFINE e == [add |-> path \notin plugged, path |-> path]
<1>1. OnceInv /\ TypeInv
  BY DEF QuietParts, RawParts
<1>2. path \notin plugged /\ scan # "start"
  BY DEF Plug
<1>3. /\ plugged' = plugged \cup {path} /\ udev' = Append(udev, e)
      /\ UNCHANGED <<work, driver, raw, queue, linked>> /\ UNCHANGED <<scan, found>>
  BY <1>2 DEF Plug, queueVars, threadVars
<1>4. e.add /\ e.path = path /\ e \in [add : BOOLEAN, path : Paths]
  BY <1>2
<1> HIDE DEF e
<1>5. udev \in Seq([add : BOOLEAN, path : Paths])
  BY <1>1 DEF TypeInv
<1>6. /\ DOMAIN udev = 1 .. Len(udev) /\ Len(udev) \in Nat
      /\ DOMAIN udev' = 1 .. (Len(udev) + 1)
      /\ udev'[Len(udev) + 1] = e /\ \A i \in DOMAIN udev : udev'[i] = udev[i]
  BY <1>3, <1>4, <1>5
<1>7. \A i \in DOMAIN udev' : i \in DOMAIN udev \/ i = Len(udev) + 1
  BY <1>6
<1>8. /\ \A d \in DOMAIN driver : driver[d].path # path
      /\ \A i \in DOMAIN udev : udev[i].path # path
      /\ path \notin found
  BY <1>1, <1>2 DEF OnceInv
<1>9. OnceInv'
  <2>1. scan' # "start"
    BY <1>2, <1>3
  <2>2. \A d \in DOMAIN driver' : driver'[d].open /\ driver'[d].path \in plugged' \ found'
    BY <1>1, <1>3 DEF OnceInv
  <2>3. \A c, d \in DOMAIN driver' : driver'[c].path = driver'[d].path => c = d
    BY <1>1, <1>3 DEF OnceInv
  <2>4. ASSUME NEW i \in DOMAIN udev'
        PROVE  udev'[i].add /\ udev'[i].path \in plugged' \ found'
    <3>1. CASE i \in DOMAIN udev
      BY <3>1, <1>1, <1>3, <1>6 DEF OnceInv
    <3>2. CASE i = Len(udev) + 1
      BY <3>2, <1>3, <1>4, <1>6, <1>8
    <3>3. QED
      BY <3>1, <3>2, <1>7
  <2>5. ASSUME NEW i \in DOMAIN udev', NEW j \in DOMAIN udev', udev'[i].path = udev'[j].path
        PROVE  i = j
    <3>1. CASE i \in DOMAIN udev /\ j \in DOMAIN udev
      BY <3>1, <2>5, <1>1, <1>6 DEF OnceInv
    <3>2. CASE i = Len(udev) + 1 /\ j = Len(udev) + 1
      BY <3>2
    <3>3. CASE i \in DOMAIN udev /\ j = Len(udev) + 1
      BY <3>3, <2>5, <1>4, <1>6, <1>8
    <3>4. CASE j \in DOMAIN udev /\ i = Len(udev) + 1
      BY <3>4, <2>5, <1>4, <1>6, <1>8
    <3>5. QED
      BY <3>1, <3>2, <3>3, <3>4, <1>7
  <2>6. ASSUME NEW i \in DOMAIN udev', NEW d \in DOMAIN driver'
        PROVE  driver'[d].path # udev'[i].path
    <3>1. CASE i \in DOMAIN udev
      BY <3>1, <1>1, <1>3, <1>6 DEF OnceInv
    <3>2. CASE i = Len(udev) + 1
      BY <3>2, <1>3, <1>4, <1>6, <1>8
    <3>3. QED
      BY <3>1, <3>2, <1>7
  <2>7. found' \subseteq plugged'
    BY <1>1, <1>3 DEF OnceInv
  <2>8. QED
    BY <2>1, <2>2, <2>3, <2>4, <2>5, <2>6, <2>7 DEF OnceInv
<1>10. scan' = "done" <=> scan = "done"
  BY <1>3
<1>11. QED
  BY <1>3, <1>9, <1>10, StillQuiet

\* A touchpad is announced: every driver that listens is there.
LEMMA LinkQuiet ==
  ASSUME RawParts, QuietParts, NEW p \in Pads, Link(p), ~disturbed'
  PROVE  QuietParts'
<1> DEFINE b == p \in linked'
           n == Notified(p, b)
<1>1. OnceInv /\ StateInv /\ PadInv
  BY DEF QuietParts
<1>2. p \in linked' /\ \A d \in DOMAIN driver : driver[d].state # "building"
  BY DEF Link
<1>3. linked' = linked \cup {p} /\ UNCHANGED raw
  BY <1>2 DEF Link
<1>4. UNCHANGED <<work, driver, scan, found, udev, plugged>>
  BY DEF Link, threadVars, driverVars
<1>5. queue' = queue \o n \/ queue' = queue
  BY DEF Link, Push, queueVars
<1>6. b \in BOOLEAN
  OBVIOUS
<1> HIDE DEF b
<1>7. /\ n \in Seq(Call)
      /\ \A i \in DOMAIN n : n[i].driver \in Wireless /\ n[i].pad = p /\ p \in driver[n[i].driver].listens
  BY <1>6, NotifiedFacts
<1> HIDE DEF n
<1> DEFINE Q(e) == /\ PathOf[e.pad] = driver[e.driver].path
                   /\ scan # "done" => driver[e.driver].state = "live"
<1>8. \A i \in DOMAIN queue : Q(queue[i])
  BY QueuedFacts
<1>9. \A i \in DOMAIN n : Q(n[i])
  BY <1>1, <1>2, <1>7 DEF StateInv, PadInv, Own, Wireless
<1>10. \A i \in DOMAIN queue' : Q(queue'[i])
  <2> DEFINE R == {e \in Call : Q(e)}
  <2>1. queue \in Seq(R) /\ n \in Seq(R)
    <3>1. queue \in Seq(Call)
      BY DEF RawParts, TypeInv
    <3>2. QED
      BY <3>1, <1>7, <1>8, <1>9
  <2>2. \A e \in R : Q(e)
    OBVIOUS
  <2> HIDE DEF R, Q
  <2>3. queue \o n \in Seq(R)
    BY <2>1
  <2>4. queue' \in Seq(R)
    BY <2>1, <2>3, <1>5
  <2>5. QED
    BY <2>2, <2>4
<1>11. OnceInv'
  <2>1. SamePlaces /\ SameOpens /\ UNCHANGED <<udev, found, plugged>> /\ scan' = scan
    BY <1>4 DEF SamePlaces, SameOpens
  <2>2. QED
    BY <2>1, <1>1, OnceKept
<1>12. (scan' = "done" <=> scan = "done") /\ linked \subseteq linked' /\ UNCHANGED <<work, driver, raw>>
  BY <1>3, <1>4
<1>13. \A i \in DOMAIN queue' :
          /\ PathOf[queue'[i].pad] = driver[queue'[i].driver].path
          /\ scan # "done" => driver[queue'[i].driver].state = "live"
  BY <1>10
<1>14. QED
  BY <1>11, <1>12, <1>13, IdleQuiet

\* An event finds no object that is down to ~Driver.
LEMMA TouchQuiet ==
  ASSUME RawParts, QuietParts, NEW p, NEW c, Touch(p, c)
  PROVE  QuietParts' /\ cause' = cause
<1>1. /\ p \in raw /\ UNCHANGED <<work, driver, raw, queue, linked>>
      /\ UNCHANGED <<scan, found, udev, plugged>>
  BY DEF Touch, queueVars, driverVars
<1>2. TypeInv /\ OnceInv /\ DyingInv
  BY DEF RawParts, QuietParts
<1>3. p \in Pads
  BY <1>1, <1>2 DEF TypeInv
<1>4. \A d \in DOMAIN driver : driver[d].dying[p] = 0
  <2>1. ASSUME NEW d \in DOMAIN driver
        PROVE  driver[d].dying[p] = 0
    <3>1. ~\E t \in Threads : Unheard(t, d, p)
      BY <1>1, <1>2 DEF DyingInv
    <3>2. driver[d].dying[p] = One(\E t \in Threads : Unheard(t, d, p))
      BY <1>2, <1>3 DEF DyingInv
    <3>3. QED
      BY <3>1, <3>2 DEF One
  <2>2. QED
    BY <2>1
<1>5. cause' = cause
  <2>1. ~\E d \in {e \in DOMAIN driver : driver[e].open /\ driver[e].heard[p] > 0} : driver[d].dying[p] > 0
    BY <1>4
  <2>2. QED
    BY <2>1 DEF Touch
<1>6. OnceInv'
  <2>1. SamePlaces /\ SameOpens /\ UNCHANGED <<udev, found, plugged>> /\ scan' = scan
    BY <1>1 DEF SamePlaces, SameOpens
  <2>2. QED
    BY <2>1, <1>2, OnceKept
<1>7. scan' = "done" <=> scan = "done"
  BY <1>1
<1>8. QED
  BY <1>1, <1>5, <1>6, <1>7, StillQuiet

\* A driver's construction queries its touchpads before it relies on them.
LEMMA BuildsKnown ==
  ASSUME NEW W, NEW s, NEW d, NEW P \in SUBSET Pads, Builds(s, d, P, W), NEW x \in ToSet(s)
  PROVE  /\ x.driver = d /\ x.op \in Building
         /\ Padded(x, W) => x.pad \in P /\ ~Sure(x, ToSet(s))
<1>1. /\ Shape(s, W) /\ Only(s, Building \ {"erase"})
      /\ \A y \in ToSet(s) : y.driver = d /\ (y.op # "adopt" => y.pad \in P)
      /\ \A p \in Pads : Step("enable", d, p) \in ToSet(s) \/ Keep(d, p, W) \in ToSet(s) =>
            Step("probe", d, p) \in ToSet(s)
  BY DEF Builds
<1>2. x.driver = d /\ x.op \in Building
  BY <1>1, OnlySet
<1>3. x \in StepType /\ Fits(x, W)
  BY <1>1 DEF Shape, ToSet
<1>4. x = Step(x.op, d, x.pad)
  BY <1>2, <1>3 DEF StepType, Step
<1>5. ASSUME Padded(x, W)
      PROVE  x.pad \in P /\ ~Sure(x, ToSet(s))
  <2>1. x.pad \in Pads
    BY <1>3, <1>5 DEF Fits, Padded
  <2>2. x.op # "disable"
    BY <1>2 DEF Building
  <2>3. ASSUME x.op \in {"enable", "emplace", "adopt"}
        PROVE  Step("probe", d, x.pad) \in ToSet(s)
    <3>1. CASE x.op = "enable"
      BY <3>1, <2>1, <1>1, <1>4
    <3>2. CASE x.op = "emplace"
      <4>1. d \in W
        BY <3>2, <1>2, <1>3 DEF Fits
      <4>2. Keep(d, x.pad, W) = Step("emplace", d, x.pad)
        BY <4>1 DEF Keep
      <4>3. QED
        BY <3>2, <4>2, <2>1, <1>1, <1>4
    <3>3. CASE x.op = "adopt"
      <4>1. d \notin W
        BY <3>3, <1>2, <1>5 DEF Padded
      <4>2. Keep(d, x.pad, W) = Step("adopt", d, x.pad)
        BY <4>1 DEF Keep
      <4>3. QED
        BY <3>3, <4>2, <2>1, <1>1, <1>4
    <3>4. QED
      BY <2>3, <3>1, <3>2, <3>3
  <2>4. ~Sure(x, ToSet(s))
    BY <2>2, <2>3, <1>2 DEF Sure
  <2>5. x.pad \in P
    <3>1. CASE x.op = "adopt"
      <4>1. Step("probe", d, x.pad) \in ToSet(s)
        BY <3>1, <2>3
      <4>2. Step("probe", d, x.pad).op # "adopt" /\ Step("probe", d, x.pad).pad = x.pad
        BY StepFacts
      <4>3. QED
        BY <4>1, <4>2, <1>1
    <3>2. CASE x.op # "adopt"
      BY <3>2, <1>1
    <3>3. QED
      BY <3>1, <3>2
  <2>6. QED
    BY <2>4, <2>5
<1>6. QED
  BY <1>2, <1>5

\* The node of a driver that is added has none, and is no longer awaited.
LEMMA OnceAdded ==
  ASSUME TypeInv, OnceInv, NEW path \in Receivers \cup Mice, driver' = Append(driver, NewDriver(path)),
         UNCHANGED plugged, found' \subseteq found, path \in plugged \ found', scan' # "start",
         \A d \in DOMAIN driver : driver[d].path # path,
         \A i \in DOMAIN udev' : \E j \in DOMAIN udev : udev'[i] = udev[j] /\ udev[j].path # path,
         \A i, j \in DOMAIN udev' : udev'[i].path = udev'[j].path => i = j
  PROVE  OnceInv'
<1> DEFINE d == Len(driver) + 1
<1>1. /\ d \in Nat \ {0} /\ d \notin DOMAIN driver
      /\ driver' \in Seq(DriverType) /\ DOMAIN driver' = DOMAIN driver \cup {d}
      /\ driver'[d] = NewDriver(path) /\ \A e \in DOMAIN driver : driver'[e] = driver[e]
      /\ d \in Wireless' <=> path \in Receivers
      /\ \A e \in DOMAIN driver : e \in Wireless' <=> e \in Wireless
      /\ Wireless \subseteq Wireless' /\ Wireless' \subseteq DOMAIN driver \cup {d}
  BY NewPlace
<1> HIDE DEF d
<1>2. driver'[d].path = path /\ driver'[d].open
  BY <1>1 DEF NewDriver
<1>3. \A e \in DOMAIN driver' : driver'[e].open /\ driver'[e].path \in plugged' \ found'
  BY <1>1, <1>2 DEF OnceInv
<1>4. ASSUME NEW e \in DOMAIN driver', NEW c \in DOMAIN driver', driver'[e].path = driver'[c].path
      PROVE  e = c
  <2>1. CASE e \in DOMAIN driver /\ c \in DOMAIN driver
    BY <2>1, <1>4, <1>1 DEF OnceInv
  <2>2. CASE e = d /\ c \in DOMAIN driver
    BY <2>2, <1>4, <1>1, <1>2
  <2>3. CASE c = d /\ e \in DOMAIN driver
    BY <2>3, <1>4, <1>1, <1>2
  <2>4. QED
    BY <2>1, <2>2, <2>3, <1>1
<1>5. \A i \in DOMAIN udev' : udev'[i].add /\ udev'[i].path \in plugged' \ found'
  BY DEF OnceInv
<1>6. ASSUME NEW i \in DOMAIN udev', NEW e \in DOMAIN driver'
      PROVE  driver'[e].path # udev'[i].path
  <2>1. PICK j \in DOMAIN udev : udev'[i] = udev[j] /\ udev[j].path # path
    OBVIOUS
  <2>2. CASE e = d
    BY <2>1, <2>2, <1>2
  <2>3. CASE e \in DOMAIN driver
    BY <2>1, <2>3, <1>1 DEF OnceInv
  <2>4. QED
    BY <2>2, <2>3, <1>1
<1>7. found' \subseteq plugged'
  BY DEF OnceInv
<1>8. QED
  BY <1>3, <1>4, <1>5, <1>6, <1>7 DEF OnceInv

\* What is left to enumerate or to hear of is for other nodes.
LEMMA OnceFewer ==
  ASSUME OnceInv, UNCHANGED <<driver, plugged>>, found' \subseteq found, scan' # "start",
         \A i \in DOMAIN udev' : \E j \in DOMAIN udev : udev'[i] = udev[j],
         \A i, j \in DOMAIN udev' : udev'[i].path = udev'[j].path => i = j
  PROVE  OnceInv'
<1>1. /\ \A d \in DOMAIN driver' : driver'[d].open /\ driver'[d].path \in plugged' \ found'
      /\ \A c, d \in DOMAIN driver' : driver'[c].path = driver'[d].path => c = d
      /\ found' \subseteq plugged'
  BY DEF OnceInv
<1>2. \A i \in DOMAIN udev' : udev'[i].add /\ udev'[i].path \in plugged' \ found'
  BY DEF OnceInv
<1>3. \A i \in DOMAIN udev', d \in DOMAIN driver' : driver'[d].path # udev'[i].path
  BY DEF OnceInv
<1>4. QED
  BY <1>1, <1>2, <1>3 DEF OnceInv

\* The driver of a new node is the last one, and is being built.
LEMMA AddQuiet ==
  ASSUME RawParts, QuietParts, NEW path \in Receivers \cup Mice, driver' = Append(driver, NewDriver(path)),
         NEW d, d = Len(driver) + 1, NEW l, l = NodeWork(path, d, SetToSeq(PadsOf(path))),
         Turns("monitor", l), ~Busy("monitor"),
         UNCHANGED <<raw, queue, scan, linked>>, scan # "done", OnceInv'
  PROVE  QuietParts'
<1> DEFINE P == PadsOf(path)
<1>1. TypeInv /\ ListInv /\ NodeInv /\ StateInv /\ PadInv /\ DyingInv
  BY DEF RawParts, QuietParts
<1>2. /\ d \in Nat \ {0} /\ d \notin DOMAIN driver
      /\ driver' \in Seq(DriverType) /\ DOMAIN driver' = DOMAIN driver \cup {d}
      /\ driver'[d] = NewDriver(path) /\ \A e \in DOMAIN driver : driver'[e] = driver[e]
      /\ d \in Wireless' <=> path \in Receivers
      /\ \A e \in DOMAIN driver : e \in Wireless' <=> e \in Wireless
      /\ Wireless \subseteq Wireless' /\ Wireless' \subseteq DOMAIN driver \cup {d}
  BY <1>1, NewPlace
<1>3. PICK U : U = Wireless'
  OBVIOUS
<1>4. Builds(l, d, P, U)
  BY <1>2, <1>3, NodeWorkBuilds
<1>5. P \in SUBSET Pads /\ \A p \in P : PathOf[p] = path
  BY DEF PadsOf
<1> HIDE DEF P
<1>6. ASSUME NEW x \in ToSet(l)
      PROVE  /\ x.driver = d /\ x.op \in Building
             /\ Padded(x, U) => x.pad \in P /\ ~Sure(x, ToSet(l))
  BY <1>4, <1>5, BuildsKnown
<1>7. /\ work'["monitor"] = l /\ work'["main"] = work["main"] /\ work["monitor"] = <<>>
  BY <1>1 DEF TypeInv, Turns, Threads, Busy
<1>8. Ahead("monitor")' = ToSet(l) /\ Ahead("main")' = Ahead("main")
  BY <1>7 DEF Ahead
<1>9. /\ driver'[d].path = path /\ driver'[d].state = "building"
      /\ driver'[d].pads = {} /\ driver'[d].listens = {}
      /\ \A q \in Pads : driver'[d].heard[q] = 0 /\ driver'[d].dying[q] = 0
  BY <1>2, NewTypes
<1>10. \A x \in Ahead("main") : x.driver \in DOMAIN driver /\ x.driver # d
  BY <1>1, <1>2 DEF ListInv, Threads
<1>11. StateInv'
  <2>1. d = Len(driver')
    <3>1. DOMAIN driver' = 1 .. Len(driver') /\ Len(driver') \in Nat
      BY <1>2
    <3>2. driver \in Seq(DriverType)
      BY <1>1 DEF TypeInv
    <3>3. DOMAIN driver' = 1 .. d
      BY <3>2, <1>2
    <3>4. QED
      BY <3>1, <3>3, <1>2
  <2>2. ASSUME NEW x \in Ahead("monitor")'
        PROVE  /\ x.driver = Len(driver') /\ driver'[x.driver].state = "building"
               /\ x.op # "gone"
    <3>1. x.driver = d /\ x.op \in Building
      BY <2>2, <1>6, <1>8
    <3>2. QED
      BY <3>1, <2>1, <1>9 DEF Building
  <2>3. \A x \in Ahead("main")' : driver'[x.driver].state = IF scan' = "done" THEN "dying" ELSE "live"
    BY <1>1, <1>2, <1>8, <1>10 DEF StateInv
  <2>4. ASSUME NEW e \in Wireless', scan' # "done"
        PROVE  driver'[e].state \in {"building", "live"}
    <3>1. CASE e = d
      BY <3>1, <1>9
    <3>2. CASE e \in DOMAIN driver
      BY <3>2, <2>4, <1>1, <1>2 DEF StateInv
    <3>3. QED
      BY <3>1, <3>2, <2>4, <1>2
  <2>5. \A i \in DOMAIN queue' : scan' # "done" => driver'[queue'[i].driver].state = "live"
    <3>1. \A i \in DOMAIN queue :
            /\ queue[i].driver \in Wireless /\ queue[i].driver \in DOMAIN driver
            /\ PathOf[queue[i].pad] = driver[queue[i].driver].path
            /\ scan # "done" => driver[queue[i].driver].state = "live"
      BY QueuedFacts
    <3>2. QED
      BY <3>1, <1>2
  <2>6. QED
    BY <2>2, <2>3, <2>4, <2>5 DEF StateInv
<1>12. PadInv'
  <2>1. ASSUME NEW x \in ToSet(l)
        PROVE  Known(x, ToSet(l))'
    <3>1. /\ x.driver = d
          /\ Padded(x, U) => x.pad \in P /\ ~Sure(x, ToSet(l))
      BY <2>1, <1>6
    <3>2. Padded(x, Wireless') => PathOf[x.pad] = driver'[x.driver].path /\ ~Sure(x, ToSet(l))
      BY <3>1, <1>3, <1>5, <1>9
    <3>3. QED
      BY <3>2 DEF Known, Own
  <2>2. ASSUME NEW x \in Ahead("main")
        PROVE  Known(x, Ahead("main"))'
    <3>1. Known(x, Ahead("main")) /\ x.driver \in DOMAIN driver
      BY <2>2, <1>1, <1>10 DEF PadInv, Threads
    <3>2. driver'[x.driver] = driver[x.driver] /\ (x.driver \in Wireless' <=> x.driver \in Wireless)
      BY <3>1, <1>2
    <3>3. Padded(x, Wireless') <=> Padded(x, Wireless)
      BY <3>2 DEF Padded
    <3>4. Padded(x, Wireless') =>
            PathOf[x.pad] = driver'[x.driver].path /\ (Sure(x, Ahead("main")) => x.pad \in linked')
      BY <3>1, <3>2, <3>3 DEF Known, Own
    <3>5. QED
      BY <3>4, <1>8 DEF Known, Own
  <2>3. \A t \in Threads : \A x \in Ahead(t)' : Known(x, Ahead(t))'
    <3>1. ASSUME NEW x \in Ahead("monitor")'
          PROVE  Known(x, Ahead("monitor"))'
      BY <3>1, <2>1, <1>8 DEF Known
    <3>2. ASSUME NEW x \in Ahead("main")'
          PROVE  Known(x, Ahead("main"))'
      BY <3>2, <2>2, <1>8
    <3>3. QED
      BY <3>1, <3>2 DEF Threads
  <2>4. ASSUME NEW e \in DOMAIN driver'
        PROVE  /\ \A p \in driver'[e].pads : Own(p, e)' /\ p \in linked'
               /\ \A p \in driver'[e].listens : Own(p, e)'
    <3>1. CASE e = d
      BY <3>1, <1>9
    <3>2. CASE e \in DOMAIN driver
      BY <3>2, <1>1, <1>2 DEF PadInv, Own
    <3>3. QED
      BY <3>1, <3>2, <2>4, <1>2
  <2>5. \A i \in DOMAIN queue' : Own(queue[i].pad, queue[i].driver)'
    <3>1. \A i \in DOMAIN queue :
            /\ queue[i].driver \in Wireless /\ queue[i].driver \in DOMAIN driver
            /\ PathOf[queue[i].pad] = driver[queue[i].driver].path
            /\ scan # "done" => driver[queue[i].driver].state = "live"
      BY QueuedFacts
    <3>2. QED
      BY <3>1, <1>2 DEF Own
  <2>6. QED
    BY <2>3, <2>4, <2>5 DEF PadInv
<1>13. DyingInv'
  <2>1. \A e, p : ~Unheard("monitor", e, p)'
    <3>1. l # <<>> => Head(l) \in ToSet(l)
      <4>1. l \in Seq(StepType)
        BY <1>4 DEF Builds, Shape
      <4>2. l # <<>> => 1 \in DOMAIN l /\ Head(l) = l[1]
        BY <4>1
      <4>3. QED
        BY <4>2 DEF ToSet
    <3>2. l # <<>> => Head(l).op # "unlisten"
      BY <3>1, <1>6 DEF Building
    <3>3. QED
      BY <3>2, <1>7, StepFacts DEF Unheard
  <2>2. \A e, p : ~Unheard("monitor", e, p)
    BY <1>7 DEF Unheard
  <2>3. \A e, p : Unheard("main", e, p)' <=> Unheard("main", e, p)
    BY <1>7 DEF Unheard
  <2>4. ASSUME NEW e \in DOMAIN driver', NEW p \in Pads
        PROVE  driver'[e].dying[p] = One(\E t \in Threads : Unheard(t, e, p)')
    <3>1. CASE e = d
      <4>1. ~\E t \in Threads : Unheard(t, e, p)'
        <5>1. ASSUME Unheard("main", e, p)
              PROVE  FALSE
          <6>1. "main" \in Threads
            BY DEF Threads
          <6>2. e \in DOMAIN driver
            BY <5>1, <6>1, UnheardAhead
          <6>3. QED
            BY <6>2, <3>1, <1>2
        <5>2. QED
          BY <5>1, <2>1, <2>3 DEF Threads
      <4>2. QED
        BY <4>1, <3>1, <1>9 DEF One
    <3>2. CASE e \in DOMAIN driver
      <4>1. (\E t \in Threads : Unheard(t, e, p)) <=> (\E t \in Threads : Unheard(t, e, p)')
        BY <2>1, <2>2, <2>3 DEF Threads
      <4>2. driver[e].dying[p] = One(\E t \in Threads : Unheard(t, e, p)) /\ driver'[e] = driver[e]
        BY <3>2, <1>1, <1>2 DEF DyingInv
      <4>3. QED
        BY <4>1, <4>2 DEF One
    <3>3. QED
      BY <3>1, <3>2, <2>4, <1>2
  <2>5. ASSUME NEW t \in Threads, NEW e \in DOMAIN driver', NEW p \in raw', Unheard(t, e, p)'
        PROVE  FALSE
    <3>1. t = "main" /\ Unheard("main", e, p)
      BY <2>5, <2>1, <2>3 DEF Threads
    <3>2. e \in DOMAIN driver
      BY <3>1, UnheardAhead
    <3>3. QED
      BY <3>1, <3>2, <1>1 DEF DyingInv
  <2>6. QED
    BY <2>4, <2>5 DEF DyingInv
<1>14. QED
  BY <1>11, <1>12, <1>13 DEF QuietParts

\* The head of the events of the udev monitor, and the others.
LEMMA UdevFacts ==
  ASSUME TypeInv, OnceInv, udev # <<>>, udev' = Tail(udev)
  PROVE  /\ Head(udev).add /\ Head(udev).path \in Paths /\ Head(udev).path \in plugged \ found
         /\ \A d \in DOMAIN driver : driver[d].path # Head(udev).path
         /\ \A i \in DOMAIN udev' : \E j \in DOMAIN udev : udev'[i] = udev[j] /\ udev[j].path # Head(udev).path
         /\ \A i, j \in DOMAIN udev' : udev'[i].path = udev'[j].path => i = j
<1>1. udev \in Seq([add : BOOLEAN, path : Paths])
  BY DEF TypeInv
<1>2. /\ Head(udev) \in [add : BOOLEAN, path : Paths] /\ Head(udev) = udev[1] /\ 1 \in DOMAIN udev
      /\ Tail(udev) \in Seq([add : BOOLEAN, path : Paths])
      /\ \A i \in DOMAIN Tail(udev) : i + 1 \in DOMAIN udev /\ Tail(udev)[i] = udev[i + 1]
  BY <1>1, FirstFacts
<1>3. /\ Head(udev).add /\ Head(udev).path \in Paths /\ Head(udev).path \in plugged \ found
      /\ \A d \in DOMAIN driver : driver[d].path # Head(udev).path
  BY <1>2 DEF OnceInv
<1>4. \A i \in DOMAIN udev' : i \in Nat /\ i + 1 \in DOMAIN udev /\ i + 1 # 1 /\ udev'[i] = udev[i + 1]
  <2>1. \A i \in DOMAIN udev' : i \in Nat \ {0}
    BY <1>2
  <2>2. QED
    BY <2>1, <1>2
<1>5. ASSUME NEW i \in DOMAIN udev'
      PROVE  \E j \in DOMAIN udev : udev'[i] = udev[j] /\ udev[j].path # Head(udev).path
  <2>1. i + 1 \in DOMAIN udev /\ i + 1 # 1 /\ udev'[i] = udev[i + 1]
    BY <1>4
  <2>2. udev[i + 1].path # udev[1].path
    BY <2>1, <1>2 DEF OnceInv
  <2>3. QED
    BY <2>1, <2>2, <1>2
<1>6. ASSUME NEW i \in DOMAIN udev', NEW j \in DOMAIN udev', udev'[i].path = udev'[j].path
      PROVE  i = j
  <2>1. /\ i \in Nat /\ i + 1 \in DOMAIN udev /\ udev'[i] = udev[i + 1]
        /\ j \in Nat /\ j + 1 \in DOMAIN udev /\ udev'[j] = udev[j + 1]
    BY <1>4
  <2>2. i + 1 = j + 1
    BY <2>1, <1>6 DEF OnceInv
  <2>3. QED
    BY <2>1, <2>2
<1>7. QED
  BY <1>3, <1>5, <1>6

\* MyMonitor::addDevice, for a node that was not added before.
LEMMA AddNodeQuiet ==
  ASSUME RawParts, QuietParts, NEW path \in Paths, AddNode(path), ~Busy("monitor"),
         scan \in {"enumerate", "listen"}, UNCHANGED <<queue, scan, linked, plugged>>,
         found' \subseteq found, path \in plugged \ found',
         \A d \in DOMAIN driver : driver[d].path # path,
         \A i \in DOMAIN udev' : \E j \in DOMAIN udev : udev'[i] = udev[j] /\ udev[j].path # path,
         \A i, j \in DOMAIN udev' : udev'[i].path = udev'[j].path => i = j
  PROVE  QuietParts'
<1>1. TypeInv /\ OnceInv
  BY DEF RawParts, QuietParts
<1>2. UNCHANGED raw /\ scan' # "start" /\ scan # "done" /\ (scan' = "done" <=> scan = "done")
  BY DEF AddNode, effects
<1>3. CASE path \in plugged \ Others
  <2> DEFINE d == Len(driver) + 1
             l == NodeWork(path, d, SetToSeq(PadsOf(path)))
  <2>1. path \in Receivers \cup Mice
    BY <1>3 DEF Paths
  <2>2. driver' = Append(driver, NewDriver(path)) /\ Turns("monitor", l)
    BY <1>3 DEF AddNode, Turns, NodeWork
  <2>3. d = Len(driver) + 1 /\ l = NodeWork(path, d, SetToSeq(PadsOf(path)))
    OBVIOUS
  <2> HIDE DEF d, l
  <2>4. OnceInv'
    BY <2>1, <2>2, <1>1, <1>2, OnceAdded
  <2>5. UNCHANGED <<raw, queue, scan, linked>>
    BY <1>2
  <2>6. QED
    BY <2>1, <2>2, <2>3, <2>4, <2>5, <1>2, AddQuiet
<1>4. CASE path \notin plugged \ Others
  <2>1. UNCHANGED <<driver, work>>
    BY <1>4 DEF AddNode
  <2>2. OnceInv'
    BY <2>1, <1>1, <1>2, OnceFewer
  <2>3. UNCHANGED <<work, driver, raw, queue, linked>>
    BY <2>1, <1>2
  <2>4. QED
    BY <2>2, <2>3, <1>2, StillQuiet
<1>5. QED
  BY <1>3, <1>4

\* An event of the udev monitor: a node that is new.
LEMMA UdevQuiet ==
  ASSUME RawParts, QuietParts, UdevEvent
  PROVE  QuietParts'
<1> DEFINE path == Head(udev).path
<1>1. TypeInv /\ OnceInv
  BY DEF RawParts, QuietParts
<1>2. udev # <<>> /\ udev' = Tail(udev)
  BY DEF UdevEvent
<1>3. /\ Head(udev).add /\ path \in Paths /\ path \in plugged \ found
      /\ \A d \in DOMAIN driver : driver[d].path # path
      /\ \A i \in DOMAIN udev' : \E j \in DOMAIN udev : udev'[i] = udev[j] /\ udev[j].path # path
      /\ \A i, j \in DOMAIN udev' : udev'[i].path = udev'[j].path => i = j
  BY <1>1, <1>2, UdevFacts
<1>4. /\ ~Busy("monitor") /\ scan = "listen" /\ AddNode(path)
      /\ UNCHANGED <<queue, scan, linked, plugged>> /\ found' = found
  BY <1>3 DEF UdevEvent, queueVars, surroundings
<1> HIDE DEF path
<1>5. scan \in {"enumerate", "listen"} /\ found' \subseteq found /\ path \in plugged \ found'
  BY <1>3, <1>4
<1>6. QED
  BY <1>3, <1>4, <1>5, AddNodeQuiet

\* DeviceMonitor::enumerate: every node once.
LEMMA EnumerateQuiet ==
  ASSUME RawParts, QuietParts, Enumerate
  PROVE  QuietParts'
<1>1. /\ ~Busy("monitor") /\ UNCHANGED <<queue, udev, linked, plugged>>
  BY DEF Enumerate, queueVars, surroundings
<1>2. TypeInv /\ OnceInv
  BY DEF RawParts, QuietParts
<1>3. CASE scan = "start" /\ scan' = "enumerate" /\ found' = plugged /\ UNCHANGED <<driverVars, work, effects>>
  <2>1. UNCHANGED <<work, driver, raw, queue, linked>>
    BY <1>1, <1>3 DEF driverVars, effects
  <2>2. DOMAIN driver = {} /\ DOMAIN udev = {}
    BY <1>2, <1>3 DEF OnceInv
  <2>3. OnceInv'
    BY <2>1, <2>2, <1>1, <1>3 DEF OnceInv
  <2>4. QED
    BY <2>1, <2>3, <1>3, StillQuiet
<1>4. CASE scan = "enumerate" /\ UNCHANGED scan /\ \E path \in found : found' = found \ {path} /\ AddNode(path)
  <2>1. PICK path \in found : found' = found \ {path} /\ AddNode(path)
    BY <1>4
  <2>2. path \in Paths
    BY <1>2 DEF TypeInv
  <2>3. /\ found' \subseteq found /\ path \in plugged \ found'
        /\ \A d \in DOMAIN driver : driver[d].path # path
    BY <2>1, <1>2 DEF OnceInv
  <2>4. /\ \A i \in DOMAIN udev' : \E j \in DOMAIN udev : udev'[i] = udev[j] /\ udev[j].path # path
        /\ \A i, j \in DOMAIN udev' : udev'[i].path = udev'[j].path => i = j
    BY <1>1, <1>2 DEF OnceInv
  <2>5. scan \in {"enumerate", "listen"} /\ UNCHANGED <<queue, scan, linked, plugged>>
    BY <1>1, <1>4
  <2>6. QED
    BY <2>1, <2>2, <2>3, <2>4, <2>5, <1>1, AddNodeQuiet
<1>5. CASE scan = "enumerate" /\ scan' = "listen" /\ UNCHANGED <<found, driverVars, work, effects>>
  <2>1. UNCHANGED <<work, driver, raw, queue, linked>> /\ found' = found
    BY <1>1, <1>5 DEF driverVars, effects
  <2>2. OnceInv'
    <3>1. SamePlaces /\ SameOpens /\ UNCHANGED <<udev, found, plugged>>
      BY <2>1, <1>1 DEF SamePlaces, SameOpens
    <3>2. scan' # "start"
      BY <1>5
    <3>3. QED
      BY <3>1, <3>2, <1>2, OnceKept
  <2>3. QED
    BY <2>1, <2>2, <1>5, StillQuiet
<1>6. QED
  BY <1>3, <1>4, <1>5 DEF Enumerate

\* ReceiverDriver::event in the main thread: the driver is there.
LEMMA TaskQuiet ==
  ASSUME RawParts, QuietParts, RunTask
  PROVE  QuietParts'
<1> DEFINE e == Head(queue)
           d == e.driver
           p == e.pad
           l == Task(e)
<1>1. TypeInv /\ ListInv /\ NodeInv /\ OnceInv /\ StateInv /\ PadInv
  BY DEF RawParts, QuietParts
<1>2. /\ program = "running" /\ work["main"] = <<>> /\ queue # <<>> /\ queue' = Tail(queue)
      /\ work' = [work EXCEPT !["main"] = l]
      /\ UNCHANGED <<driver, raw, linked>> /\ UNCHANGED <<scan, found, udev, plugged>>
  BY DEF RunTask, MainIdle, Busy, PopEvent, driverVars, worldVars
<1>3. scan # "done"
  BY <1>1, <1>2 DEF ListInv
<1>4. /\ e \in Call /\ e = queue[1] /\ 1 \in DOMAIN queue
      /\ \A i \in DOMAIN queue' : i + 1 \in DOMAIN queue /\ queue'[i] = queue[i + 1]
  <2>1. queue # <<>> /\ queue \in Seq(Call)
    BY <1>1, <1>2 DEF TypeInv
  <2>2. /\ Head(queue) \in Call /\ Head(queue) = queue[1] /\ 1 \in DOMAIN queue /\ Tail(queue) \in Seq(Call)
        /\ \A i \in DOMAIN Tail(queue) : i + 1 \in DOMAIN queue /\ Tail(queue)[i] = queue[i + 1]
    BY <2>1, FirstFacts
  <2>3. QED
    BY <2>2, <1>2
<1>5. OldQueue
  BY <1>4 DEF OldQueue
<1>6. /\ d \in Wireless /\ d \in DOMAIN driver /\ p \in Pads
      /\ PathOf[p] = driver[d].path /\ driver[d].state = "live"
  <2>1. \A i \in DOMAIN queue :
            /\ queue[i].driver \in Wireless /\ queue[i].driver \in DOMAIN driver
            /\ PathOf[queue[i].pad] = driver[queue[i].driver].path
            /\ scan # "done" => driver[queue[i].driver].state = "live"
    BY QueuedFacts
  <2>2. QED
    BY <2>1, <1>3, <1>4 DEF Call
<1>7. d \in Nat \ {0}
  BY <1>1, <1>6 DEF TypeInv
<1> HIDE DEF d, p
<1>8. /\ l \in Seq(StepType)
      /\ \A x \in ToSet(l) :
            /\ x.driver = d /\ x.op \in Building
            /\ Padded(x, Wireless) => x.pad = p /\ ~Sure(x, ToSet(l))
  <2>1. CASE e.linked
    <3>1. l = AddWireless(d, p)
      BY <2>1 DEF Task, d, p
    <3>2. Builds(AddWireless(d, p), d, {p}, Wireless)
      BY <1>6, <1>7, WirelessShape
    <3> HIDE DEF e, l
    <3>3. Builds(l, d, {p}, Wireless) /\ {p} \in SUBSET Pads
      BY <3>1, <3>2, <1>6
    <3>4. \A x \in ToSet(l) :
             /\ x.driver = d /\ x.op \in Building
             /\ Padded(x, Wireless) => x.pad \in {p} /\ ~Sure(x, ToSet(l))
      BY <3>3, BuildsKnown
    <3>5. l \in Seq(StepType)
      BY <3>3 DEF Builds, Shape
    <3>6. QED
      BY <3>4, <3>5
  <2>2. CASE ~e.linked
    <3> DEFINE x == Step("erase", d, p)
    <3>1. l = <<x>>
      BY <2>2 DEF Task, d, p
    <3>2. x.op = "erase" /\ x.driver = d /\ x.pad = p
      BY StepFacts
    <3>3. x \in StepType
      BY <1>6, <1>7 DEF StepType, Step, Building
    <3> HIDE DEF e, l, x
    <3>4. l \in Seq(StepType) /\ ToSet(l) = {x}
      BY <3>1, <3>3 DEF ToSet
    <3>5. "erase" \in Building
      BY DEF Building
    <3>6. ~Sure(x, ToSet(l))
      BY <3>2 DEF Sure
    <3>7. QED
      BY <3>2, <3>4, <3>5, <3>6
  <2>3. QED
    BY <2>1, <2>2
<1> HIDE DEF e, l
<1>9. UNCHANGED driver /\ UNCHANGED linked /\ UNCHANGED <<udev, found, plugged>> /\ scan' = scan /\ raw' = raw
  BY <1>2
<1>10. SamePlaces /\ SameOpens /\ Turns("main", l) /\ "main" \in Threads /\ "monitor" \in Threads
  BY <1>2 DEF SamePlaces, SameOpens, Turns, Threads
<1>11. OnceInv'
  BY <1>1, <1>9, <1>10, OnceKept
<1>12. PadInv'
  <2>1. \A x \in ToSet(l) : x.driver \in DOMAIN driver
    BY <1>6, <1>8
  <2>2. \A x \in ToSet(l) : Known(x, ToSet(l))
    BY <1>6, <1>8 DEF Known, Own
  <2>3. /\ \A c \in DOMAIN driver : \A q \in driver'[c].pads : q \in driver[c].pads \/ (Own(q, c) /\ q \in linked)
        /\ \A c \in DOMAIN driver : \A q \in driver'[c].listens : q \in driver[c].listens \/ Own(q, c)
    BY <1>9
  <2>4. UNCHANGED linked
    BY <1>9
  <2>5. QED
    BY <2>1, <2>2, <2>3, <2>4, <1>1, <1>5, <1>10, PadStep
<1>13. /\ Wireless' = Wireless /\ Ahead("main")' = ToSet(l) /\ Ahead("monitor")' = Ahead("monitor")
  BY <1>1, <1>10, TurnFacts
<1>14. StateInv'
  <2>1. \A x \in Ahead("monitor")' :
           /\ x.driver = Len(driver') /\ driver'[x.driver].state = "building"
           /\ x.op = "gone" => x.driver \notin Wireless'
    BY <1>1, <1>9, <1>13 DEF StateInv
  <2>2. \A x \in Ahead("main")' : driver'[x.driver].state = IF scan' = "done" THEN "dying" ELSE "live"
    BY <1>3, <1>6, <1>8, <1>9, <1>13
  <2>3. \A c \in Wireless' : scan' # "done" => driver'[c].state \in {"building", "live"}
    BY <1>1, <1>9, <1>13 DEF StateInv
  <2>4. \A i \in DOMAIN queue' : scan' # "done" => driver'[queue'[i].driver].state = "live"
    BY <1>1, <1>4, <1>9 DEF StateInv
  <2>5. QED
    BY <2>1, <2>2, <2>3, <2>4 DEF StateInv
<1>15. DyingInv'
  <2>1. Opens(l)
    <3>1. \A x \in ToSet(l) : x.op # "unlisten"
      BY <1>8 DEF Building
    <3>2. QED
      BY <3>1, <1>8, OpensSet
  <2>2. \A c \in DOMAIN driver, q \in Pads : ~Unheard("main", c, q)
    BY <1>2 DEF Unheard
  <2>3. /\ raw' \in SUBSET Pads
        /\ \A c \in DOMAIN driver, q \in Pads : driver'[c].dying[q] = driver[c].dying[q]
        /\ \A u \in Threads : \A c \in DOMAIN driver, q \in raw' : q \notin raw => ~Unheard(u, c, q)
    BY <1>1, <1>9 DEF TypeInv
  <2>4. QED
    BY <2>1, <2>2, <2>3, <1>10, DyingKept
<1>16. QED
  BY <1>11, <1>12, <1>14, <1>15 DEF QuietParts

\* ~MyMonitor: the main thread destroys every driver, when the monitor thread is done.
LEMMA StopQuiet ==
  ASSUME RawParts, QuietParts, MonitorStops
  PROVE  QuietParts'
<1> DEFINE C == {node[path] : path \in Paths}
           l == FlattenSeq(SetToSeq({EraseNode(path) : path \in Paths}))
<1>1. TypeInv /\ ListInv /\ NodeInv /\ OnceInv /\ StateInv /\ PadInv
  BY DEF RawParts, QuietParts
<1>2. /\ ~Busy("monitor") /\ scan = "listen" /\ stopping /\ scan' = "done"
      /\ work' = [work EXCEPT !["main"] = l] /\ driver' = Marked(C)
      /\ UNCHANGED <<queue, found, plugged, raw, linked, udev>>
  BY DEF MonitorStops, worldVars, queueVars
<1>3. /\ C \in SUBSET Nat
      /\ \A c \in C : c \in Nat /\ (c # 0 => c \in DOMAIN driver /\ driver[c].pads \in SUBSET Pads)
  BY NodeTypes
<1>4. Standing(C)
  BY <1>2, NodesStand
<1>5. Tears(l, C) /\ Opens(l)
  BY <1>2, StopShape
<1> HIDE DEF l, C
<1>6. /\ Turns("main", l) /\ "monitor" \in Threads /\ "main" \in Threads
      /\ work["main"] = <<>> /\ work["monitor"] = <<>>
  BY <1>1, <1>2 DEF Turns, Threads, Busy, ListInv
<1>7. /\ driver' \in Seq(DriverType) /\ SamePlaces
      /\ \A e \in DOMAIN driver :
            /\ driver'[e].listens = driver[e].listens /\ driver'[e].pads = driver[e].pads
            /\ driver'[e].open = driver[e].open /\ driver'[e].dying = driver[e].dying
            /\ driver'[e].state = IF e \in C THEN "dying" ELSE driver[e].state
      /\ \A e \in DOMAIN driver : \A q : Obj(e, q)' = Obj(e, q)
  BY <1>1, <1>2, MarkedFacts
<1>8. SameOpens
  BY <1>7 DEF SameOpens
<1>9. UNCHANGED <<udev, found, plugged>> /\ UNCHANGED linked /\ OldQueue /\ scan' # "start" /\ raw' = raw
  BY <1>2 DEF OldQueue
<1>10. OnceInv'
  BY <1>1, <1>7, <1>8, <1>9, OnceKept
<1>11. \A x \in ToSet(l) : x.driver \in C \ {0} /\ x.driver \in DOMAIN driver
  <2>1. /\ \A x \in ToSet(l) : x.op \in Undoing /\ x.driver \in C \ {0} /\ x.driver \in DOMAIN driver
        /\ \A c \in C : c # 0 => Step("gone", c, NoPad) \in ToSet(l)
        /\ \A e, q, W : /\ Claims(ToSet(l), e, q, W) <= 1
                        /\ ~(e \in C /\ e # 0 /\ q \in driver[e].pads) => Claims(ToSet(l), e, q, W) = 0
                        /\ Switches(ToSet(l), e, q) = 0
    BY <1>1, <1>3, <1>4, <1>5, TearsFacts
  <2>2. QED
    BY <2>1
<1>12. ASSUME NEW x \in ToSet(l)
       PROVE  Known(x, ToSet(l))
  <2>1. PICK c \in C : x \in ToSet(DestroyDriver(c))
    BY <1>5 DEF Tears
  <2>2. /\ c # 0
        /\ \/ \E p \in driver[c].pads : x \in {Step("disable", c, p), Step("unlisten", c, p)}
           \/ x = Step("gone", c, NoPad)
    <3>1. c \in Nat /\ (c # 0 => c \in DOMAIN driver /\ driver[c].pads \in SUBSET Pads)
      BY <1>3
    <3>2. \A y : y \in ToSet(DestroyDriver(c)) =>
             /\ c # 0
             /\ \/ \E p \in driver[c].pads : y \in {Step("disable", c, p), Step("unlisten", c, p)}
                \/ y = Step("gone", c, NoPad)
      BY <3>1, DestroyShape
    <3>3. QED
      BY <3>2, <2>1
  <2>3. CASE x = Step("gone", c, NoPad)
    BY <2>3, StepFacts DEF Known, Padded
  <2>4. ASSUME NEW p \in driver[c].pads, x \in {Step("disable", c, p), Step("unlisten", c, p)}
        PROVE  Known(x, ToSet(l))
    <3>1. c \in DOMAIN driver
      BY <2>2, <1>3
    <3>2. Own(p, c) /\ p \in linked
      BY <2>4, <3>1, <1>1 DEF PadInv
    <3>3. x.driver = c /\ x.pad = p
      BY <2>4, StepFacts
    <3>4. QED
      BY <3>2, <3>3 DEF Known
  <2>5. QED
    BY <2>2, <2>3, <2>4
<1>13. PadInv'
  <2>1. /\ \A e \in DOMAIN driver : \A q \in driver'[e].pads : q \in driver[e].pads \/ (Own(q, e) /\ q \in linked)
        /\ \A e \in DOMAIN driver : \A q \in driver'[e].listens : q \in driver[e].listens \/ Own(q, e)
    BY <1>7
  <2>2. \A x \in ToSet(l) : x.driver \in DOMAIN driver
    BY <1>11
  <2>3. QED
    BY <2>1, <2>2, <1>1, <1>6, <1>7, <1>9, <1>12, PadStep
<1>14. Ahead("main")' = ToSet(l) /\ Ahead("monitor")' = {}
  <2>1. /\ Wireless' = Wireless
        /\ Ahead("main")' = ToSet(l) /\ work'["main"] = l
        /\ \A u \in Threads : u # "main" => Ahead(u)' = Ahead(u) /\ work'[u] = work[u]
    BY <1>1, <1>6, <1>7, TurnFacts
  <2>2. Ahead("monitor") = {}
    BY <1>6, EmptyShape DEF Ahead
  <2>3. QED
    BY <2>1, <2>2, <1>6
<1>15. StateInv'
  <2>1. \A x \in Ahead("main")' : driver'[x.driver].state = IF scan' = "done" THEN "dying" ELSE "live"
    BY <1>2, <1>7, <1>11, <1>14
  <2>2. QED
    BY <2>1, <1>2, <1>14 DEF StateInv
<1>16. DyingInv'
  <2>1. \A e \in DOMAIN driver, q \in Pads : ~Unheard("main", e, q)
    BY <1>6 DEF Unheard
  <2>2. \A e \in DOMAIN driver, q \in Pads : driver'[e].dying[q] = driver[e].dying[q]
    BY <1>7
  <2>3. /\ raw' \in SUBSET Pads
        /\ \A u \in Threads : \A e \in DOMAIN driver, q \in raw' : q \notin raw => ~Unheard(u, e, q)
    BY <1>1, <1>9 DEF TypeInv
  <2>4. QED
    BY <2>1, <2>2, <2>3, <1>5, <1>6, <1>7, DyingKept
<1>17. QED
  BY <1>10, <1>13, <1>15, <1>16 DEF QuietParts

-----------------------------------------------------------------------------
\* At the start there is no driver.
LEMMA QuietInit ==
  ASSUME Init
  PROVE  QuietInv
<1>1. /\ queue = <<>> /\ scan = "start" /\ found = {} /\ udev = <<>>
      /\ driver = <<>> /\ raw = {} /\ cause = {}
      /\ work = [t \in Threads |-> <<>>]
  BY DEF Init, QueueInit
<1>2. \A t \in Threads : work[t] = <<>> /\ Ahead(t) = {}
  BY <1>1, EmptyShape DEF Ahead
<1>3. DOMAIN driver = {} /\ DOMAIN queue = {} /\ DOMAIN udev = {}
  BY <1>1
<1>4. OnceInv
  BY <1>1, <1>3 DEF OnceInv
<1>5. StateInv /\ PadInv
  BY <1>2, <1>3 DEF StateInv, PadInv, Wireless, Threads
<1>6. DyingInv
  BY <1>2, <1>3 DEF DyingInv, Unheard
<1>7. QED
  BY <1>1, <1>4, <1>5, <1>6 DEF QuietInv, QuietParts

\* A run that was disturbed stays so.
LEMMA DisturbedGrows ==
  ASSUME [Next]_vars
  PROVE  disturbed => disturbed'
<1>1. ASSUME NEW t \in Threads, Work(t) \/ Undefined(t)
      PROVE  disturbed' = disturbed
  BY <1>1 DEF Work, Undefined, surroundings
<1>2. CASE RunTask \/ WaitForTask \/ LeaveLoop \/ MainEnds
  BY <1>2 DEF RunTask, WaitForTask, LeaveLoop, MainEnds, history
<1>3. CASE Enumerate \/ UdevEvent \/ MonitorStops
  BY <1>3 DEF Enumerate, UdevEvent, MonitorStops, history, surroundings
<1>4. CASE SigInt \/ NotifyAll \/ WakeUp \/ Race
  BY <1>4 DEF SigInt, NotifyAll, WakeUp, Race, history
<1>5. CASE World
  BY <1>5 DEF World, Plug, Link, Touch
<1>6. CASE UNCHANGED vars
  BY <1>6 DEF vars, history
<1>7. QED
  BY <1>1, <1>2, <1>3, <1>4, <1>5, <1>6 DEF Next, Main, Monitor, Threads

\* Only work on a driver that is gone, a race or an event for an object that
\* is down to ~Driver is undefined.
LEMMA CauseKept ==
  ASSUME [Next]_vars, \A t \in Threads : ~Undefined(t), ~Race, ~World
  PROVE  cause' = cause
<1>1. ASSUME NEW t \in Threads, Work(t)
      PROVE  cause' = cause
  BY <1>1 DEF Work, surroundings
<1>2. CASE RunTask \/ WaitForTask \/ LeaveLoop \/ MainEnds
  BY <1>2 DEF RunTask, WaitForTask, LeaveLoop, MainEnds, history
<1>3. CASE Enumerate \/ UdevEvent \/ MonitorStops
  BY <1>3 DEF Enumerate, UdevEvent, MonitorStops, history, surroundings
<1>4. CASE SigInt \/ NotifyAll \/ WakeUp
  BY <1>4 DEF SigInt, NotifyAll, WakeUp, history
<1>5. CASE UNCHANGED vars
  BY <1>5 DEF vars, history
<1>6. QED
  BY <1>1, <1>2, <1>3, <1>4, <1>5 DEF Next, Main, Monitor, Threads

\* A thread finds the driver it works on.
LEMMA DriversThere ==
  ASSUME RawParts, QuietParts, NEW t \in Threads
  PROVE  ~Undefined(t)
<1> SUFFICES ASSUME Undefined(t)
             PROVE  FALSE
  OBVIOUS
<1> DEFINE x == Head(work[t])
<1>1. Busy(t) /\ ~Usable(t, x.driver)
  BY DEF Undefined
<1>2. TypeInv /\ ListInv /\ StateInv
  BY DEF RawParts, QuietParts
<1>3. x \in Ahead(t)
  BY <1>1, <1>2, WorkFacts
<1> HIDE DEF x
<1>4. CASE t = "monitor"
  BY <1>1, <1>2, <1>3, <1>4 DEF StateInv, Usable
<1>5. CASE t = "main"
  BY <1>1, <1>2, <1>3, <1>5 DEF StateInv, Usable, Destroyer
<1>6. QED
  BY <1>4, <1>5 DEF Threads

\* The threads never change the map of one receiver.
LEMMA NoRace ==
  ASSUME RawParts, QuietParts
  PROVE  ~Race
<1> SUFFICES ASSUME Race
             PROVE  FALSE
  OBVIOUS
<1>1. "main" \in Threads /\ "monitor" \in Threads
  BY DEF Threads
<1>2. /\ Busy("main") /\ Busy("monitor")
      /\ Head(work["main"]).driver = Head(work["monitor"]).driver
  BY <1>1 DEF Race
<1>3. TypeInv /\ ListInv
  BY DEF RawParts
<1>4. Head(work["main"]) \in Ahead("main")
  BY <1>1, <1>2, <1>3, WorkFacts
<1>5. Head(work["monitor"]) \in Ahead("monitor")
  BY <1>1, <1>2, <1>3, WorkFacts
<1>6. QED
  BY <1>2, <1>4, <1>5, ThreadsApart

\* Every step of a quiet run keeps it defined.
LEMMA QuietNext ==
  ASSUME RawInv, QuietInv, [Next]_vars
  PROVE  QuietInv'
<1> SUFFICES ASSUME ~disturbed'
             PROVE  cause' = {} /\ QuietParts'
  BY DEF QuietInv
<1>1. cause = {} /\ RawParts /\ QuietParts
  BY DisturbedGrows DEF QuietInv, RawInv, RawParts
<1>2. (\A t \in Threads : ~Undefined(t)) /\ ~Race
  BY <1>1, DriversThere, NoRace
<1>3. "main" \in Threads /\ "monitor" \in Threads
  BY DEF Threads
<1>4. CASE World
  <2>1. CASE \E path \in Paths : Plug(path)
    <3>1. PICK path \in Paths : Plug(path)
      BY <2>1
    <3>2. QuietParts'
      BY <3>1, <1>1, PlugQuiet
    <3>3. cause' = cause
      BY <3>1 DEF Plug
    <3>4. QED
      BY <3>2, <3>3, <1>1
  <2>2. CASE \E p \in Pads : Link(p)
    <3>1. PICK p \in Pads : Link(p)
      BY <2>2
    <3>2. QuietParts'
      BY <3>1, <1>1, LinkQuiet
    <3>3. cause' = cause
      BY <3>1 DEF Link
    <3>4. QED
      BY <3>2, <3>3, <1>1
  <2>3. CASE \E p \in Pads, c \in Fingers : Touch(p, c)
    BY <2>3, <1>1, TouchQuiet
  <2>4. QED
    BY <1>4, <2>1, <2>2, <2>3 DEF World
<1>5. CASE ~World
  <2>1. cause' = {}
    BY <1>1, <1>2, <1>5, CauseKept
  <2>2. CASE RunTask
    BY <2>1, <2>2, <1>1, TaskQuiet
  <2>3. CASE WaitForTask \/ LeaveLoop \/ MainEnds \/ SigInt \/ NotifyAll \/ WakeUp
    BY <2>1, <2>3, <1>1, MainIdleQuiet
  <2>4. CASE Enumerate
    BY <2>1, <2>4, <1>1, EnumerateQuiet
  <2>5. CASE UdevEvent
    BY <2>1, <2>5, <1>1, UdevQuiet
  <2>6. CASE MonitorStops
    BY <2>1, <2>6, <1>1, StopQuiet
  <2>7. CASE Work("main") \/ Work("monitor")
    BY <2>1, <2>7, <1>1, <1>3, WorkQuiet
  <2>8. CASE UNCHANGED vars
    <3>1. UNCHANGED <<work, driver, raw, queue, linked>> /\ UNCHANGED <<scan, found, udev, plugged>>
      BY <2>8 DEF vars, queueVars, threadVars, driverVars, worldVars
    <3>2. SamePlaces /\ SameOpens /\ UNCHANGED <<udev, found, plugged>> /\ scan' = scan
      BY <3>1 DEF SamePlaces, SameOpens
    <3>3. OnceInv'
      BY <3>2, <1>1, OnceKept DEF QuietParts
    <3>4. scan' = "done" <=> scan = "done"
      BY <3>1
    <3>5. QED
      BY <2>1, <3>1, <3>3, <3>4, <1>1, StillQuiet
  <2>9. QED
    BY <2>2, <2>3, <2>4, <2>5, <2>6, <2>7, <2>8, <1>2, <1>3, <1>5 DEF Next, Main, Monitor
<1>6. QED
  BY <1>4, <1>5

\* The invariant of quiet runs: as long as nothing happened that the
\* program does not cope with (a node unplugged, or plugged in before the
\* enumeration, a touchpad out of reach, an announcement while the driver
\* of its receiver is built), each node has one driver, each thread works
\* on drivers that the other does not touch and that are there, and the
\* object that is down to ~Driver is the one a thread removes next.
THEOREM QuietRunsKept == Spec => []QuietInv
<1>1. Init => QuietInv
  BY QuietInit
<1>2. RawInv /\ QuietInv /\ [Next]_vars => QuietInv'
  BY QuietNext
<1>3. QED
  BY <1>1, <1>2, DriversAccounted, PTL DEF Spec

\* Tasks of destroyed drivers, a map that two threads change and events
\* for an object that is down to ~Driver take one of these happenings: the
\* end of the program, at any time, is safe without.
THEOREM QuietRunsDefined == Spec => []QuietRunIsDefined
<1>1. QuietInv => QuietRunIsDefined
  BY DEF QuietInv, QuietRunIsDefined
<1>2. QED
  BY <1>1, QuietRunsKept, PTL
=============================================================================
