----------------------------- MODULE QueueFacts -----------------------------
(***************************************************************************)
(* Facts that the proofs of several modules use: what the queues of the    *)
(* models (the reports the kernel keeps for a reader, the packets for a    *)
(* device) do when an element is appended or the first one is taken, and   *)
(* induction over the numbers.                                             *)
(***************************************************************************)
EXTENDS Integers, Sequences, FiniteSets, SequenceTheorems, FiniteSetTheorems, TLAPS

\* Taking the first element moves every other one forward.
LEMMA TailFacts ==
    ASSUME NEW S, NEW s \in Seq(S), s # <<>>
    PROVE  /\ Tail(s) \in Seq(S)
           /\ Len(s) \in Nat \ {0}
           /\ Len(Tail(s)) = Len(s) - 1
           /\ Head(s) = s[1] /\ Head(s) \in S
           /\ \A i \in 1 .. Len(s) - 1 : Tail(s)[i] = s[i + 1]
OBVIOUS

\* Appending leaves the elements before where they are.
LEMMA AppendFacts ==
    ASSUME NEW S, NEW s \in Seq(S), NEW e \in S
    PROVE  /\ Append(s, e) \in Seq(S)
           /\ Append(s, e) # <<>>
           /\ Len(Append(s, e)) = Len(s) + 1
           /\ \A i \in 1 .. Len(s) : Append(s, e)[i] = s[i]
           /\ Append(s, e)[Len(s) + 1] = e
OBVIOUS

\* The places where a queue holds an element of M.
PlacesOf(s, M) == {i \in DOMAIN s : s[i] \in M}

LEMMA PlacesFinite ==
    ASSUME NEW S, NEW s \in Seq(S), NEW M
    PROVE  /\ IsFiniteSet(PlacesOf(s, M))
           /\ Cardinality(PlacesOf(s, M)) \in Nat
<1>1. Len(s) \in Nat /\ DOMAIN s = 1 .. Len(s)
  OBVIOUS
<1>2. IsFiniteSet(1 .. Len(s))
  BY <1>1, FS_Interval
<1>3. PlacesOf(s, M) \in SUBSET (1 .. Len(s))
  BY <1>1 DEF PlacesOf
<1>4. QED
  BY <1>2, <1>3, FS_Subset, FS_CardinalityType

\* An element of M that is appended counts, no other element does.
LEMMA CountAppend ==
    ASSUME NEW S, NEW s \in Seq(S), NEW e \in S, NEW M
    PROVE  Cardinality(PlacesOf(Append(s, e), M)) =
               Cardinality(PlacesOf(s, M)) + (IF e \in M THEN 1 ELSE 0)
<1>1. /\ Len(s) \in Nat
      /\ DOMAIN s = 1 .. Len(s)
      /\ DOMAIN Append(s, e) = (1 .. Len(s)) \cup {Len(s) + 1}
      /\ Len(s) + 1 \notin 1 .. Len(s)
  OBVIOUS
<1>2. CASE e \in M
  <2>1. PlacesOf(Append(s, e), M) = PlacesOf(s, M) \cup {Len(s) + 1}
    BY <1>1, <1>2, AppendFacts DEF PlacesOf
  <2>2. Len(s) + 1 \notin PlacesOf(s, M)
    BY <1>1 DEF PlacesOf
  <2>3. QED
    BY <1>2, <2>1, <2>2, PlacesFinite, FS_AddElement
<1>3. CASE e \notin M
  <2>1. PlacesOf(Append(s, e), M) = PlacesOf(s, M)
    BY <1>1, <1>3, AppendFacts DEF PlacesOf
  <2>2. QED
    BY <1>3, <2>1, PlacesFinite
<1>4. QED
  BY <1>2, <1>3

\* The first element is no longer counted once it is taken.
LEMMA CountTail ==
    ASSUME NEW S, NEW s \in Seq(S), s # <<>>, NEW M
    PROVE  Cardinality(PlacesOf(s, M)) =
               Cardinality(PlacesOf(Tail(s), M)) + (IF Head(s) \in M THEN 1 ELSE 0)
<1> DEFINE rest == PlacesOf(s, M) \ {1}
           moved == PlacesOf(Tail(s), M)
           f == [i \in moved |-> i + 1]
<1>1. /\ Len(s) \in Nat \ {0}
      /\ DOMAIN s = 1 .. Len(s)
      /\ Tail(s) \in Seq(S)
      /\ DOMAIN Tail(s) = 1 .. Len(s) - 1
      /\ \A i \in 1 .. Len(s) - 1 : Tail(s)[i] = s[i + 1]
      /\ Head(s) = s[1]
  BY TailFacts
<1>2. /\ moved \subseteq 1 .. Len(s) - 1
      /\ rest \subseteq 2 .. Len(s)
      /\ \A i \in 1 .. Len(s) - 1 : i \in moved <=> i + 1 \in rest
  BY <1>1 DEF PlacesOf
<1>3. f \in Bijection(moved, rest)
  <2>1. \A i \in moved : i \in 1 .. Len(s) - 1 /\ f[i] = i + 1 /\ f[i] \in rest
    BY <1>2
  <2>2. f \in [moved -> rest]
    BY <2>1
  <2>3. \A i, j \in moved : f[i] = f[j] => i = j
    BY <1>1, <2>1
  <2>4. \A k \in rest : \E i \in moved : f[i] = k
    <3>1. TAKE k \in rest
    <3>2. k - 1 \in 1 .. Len(s) - 1 /\ (k - 1) + 1 = k
      BY <1>1, <1>2
    <3>3. k - 1 \in moved
      BY <1>2, <3>2
    <3>4. QED
      BY <3>2, <3>3
  <2>5. QED
    BY <2>2, <2>3, <2>4 DEF Bijection, Injection, Surjection, IsInjective
<1>4. Cardinality(rest) = Cardinality(moved)
  <2>1. IsFiniteSet(moved)
    BY <1>1, PlacesFinite
  <2>2. ExistsBijection(moved, rest)
    BY <1>3 DEF ExistsBijection
  <2>3. QED
    BY <2>1, <2>2, FS_Bijection
<1>5. /\ Cardinality(rest) = IF 1 \in PlacesOf(s, M)
                               THEN Cardinality(PlacesOf(s, M)) - 1
                               ELSE Cardinality(PlacesOf(s, M))
      /\ Cardinality(PlacesOf(s, M)) \in Nat
      /\ Cardinality(moved) \in Nat
  BY <1>1, PlacesFinite, FS_RemoveElement
<1>6. 1 \in PlacesOf(s, M) <=> Head(s) \in M
  BY <1>1 DEF PlacesOf
<1>7. QED
  BY <1>4, <1>5, <1>6

-----------------------------------------------------------------------------
(* Induction, as a fact about sets of numbers.                             *)

\* A set of natural numbers has a least one.
LEMMA LeastElement ==
    ASSUME NEW T \in SUBSET Nat, T # {}
    PROVE  \E x \in T : \A y \in T : x <= y
<1> DEFINE R == {ss \in Nat \X Nat : ss[1] < ss[2]}
<1>1. \A a, b \in Nat : a < b => <<a, b>> \in R
    OBVIOUS
<1>2. IsWellFoundedOn(R, Nat)
    BY NatLessThanWellFounded DEF OpToRel
<1> HIDE DEF R
<1>3. PICK x \in T : \A y \in T : ~ (<<y, x>> \in R)
    BY <1>2, WFMin
<1>4. ASSUME NEW y \in T
      PROVE  x <= y
    <2>1. x \in Nat /\ y \in Nat
        OBVIOUS
    <2>2. ~(y < x)
        BY <2>1, <1>1, <1>3
    <2>3. QED
        BY <2>1, <2>2
<1>5. QED
    BY <1>4

\* A set with 0 and the successors of its elements has all the numbers.
LEMMA SetInduction ==
    ASSUME NEW T \in SUBSET Nat, 0 \in T, \A n \in T : n + 1 \in T
    PROVE  \A n \in Nat : n \in T
<1> SUFFICES ASSUME Nat \ T # {}
             PROVE  FALSE
    OBVIOUS
<1>1. PICK x \in Nat \ T : \A y \in Nat \ T : x <= y
    BY LeastElement
<1>2. x # 0 /\ x - 1 \in Nat
    BY <1>1
<1>3. x - 1 \in T
    BY <1>1, <1>2
<1>4. QED
    BY <1>1, <1>2, <1>3
=============================================================================
