-------------------------- MODULE IntervalTheorems --------------------------
(***************************************************************************)
(* Sets of integers between two bounds have a greatest and a least         *)
(* element, and a run of them that begins above a has an end: what the     *)
(* proofs need in order to say what a CHOOSE of the modules returns.       *)
(***************************************************************************)
EXTENDS Integers, FiniteSets, FiniteSetsExt, FiniteSetTheorems, WellFoundedInduction, TLAPS

\* A nonempty set of integers between two bounds has a greatest element: the
\* sets of what lies above its elements are ordered by strict inclusion.
LEMMA GreatestElement ==
  ASSUME NEW lo \in Int, NEW hi \in Int,
         NEW T, T \subseteq lo..hi, T # {}
  PROVE  \E c \in T : \A d \in T : d <= c
<1> DEFINE Above(c) == (c + 1)..hi
           Family == {Above(c) : c \in T}
           Strict == StrictSubsetOrdering(lo..hi)
<1>1. IsWellFoundedOn(Strict, FiniteSubsetsOf(lo..hi))
  BY FS_StrictSubsetOrderingWellFounded
<1>2. Family \subseteq FiniteSubsetsOf(lo..hi)
  <2> SUFFICES ASSUME NEW c \in T PROVE Above(c) \in FiniteSubsetsOf(lo..hi)
    OBVIOUS
  <2>1. Above(c) \subseteq lo..hi
    OBVIOUS
  <2> QED
    BY <2>1, FS_Interval DEF FiniteSubsetsOf
<1>3. Family # {}
  OBVIOUS
<1>4. \E x \in Family : \A y \in Family : <<y, x>> \notin Strict
  <2> HIDE DEF Family, Strict
  <2> QED
    BY <1>1, <1>2, <1>3, WFMin, Zenon
<1>5. PICK c \in T : \A y \in Family : <<y, Above(c)>> \notin Strict
  BY <1>4
<1>6. ASSUME NEW d \in T, d > c PROVE FALSE
  <2>1. Above(d) \in Family /\ Above(c) \in Family
    OBVIOUS
  <2>2. Above(d) \subseteq Above(c) /\ d \in Above(c) /\ d \notin Above(d)
    BY <1>6
  <2>3. <<Above(d), Above(c)>> \in Strict
    <3> HIDE DEF Above, Family
    <3> QED
      BY <2>1, <2>2, <1>2 DEF StrictSubsetOrdering, FiniteSubsetsOf
  <2> QED
    BY <2>1, <2>3, <1>5
<1> QED
  BY <1>6

\* And a least one.
LEMMA LeastElement ==
  ASSUME NEW lo \in Int, NEW hi \in Int,
         NEW T, T \subseteq lo..hi, T # {}
  PROVE  \E c \in T : \A d \in T : c <= d
<1> DEFINE U == {0 - d : d \in T}
<1>1. U \subseteq (0 - hi)..(0 - lo) /\ U # {}
  <2>1. \A d \in lo..hi : 0 - d \in (0 - hi)..(0 - lo)
    OBVIOUS
  <2>2. \A d \in T : 0 - d \in (0 - hi)..(0 - lo)
    BY <2>1
  <2>3. PICK d \in T : TRUE
    OBVIOUS
  <2>4. 0 - d \in U
    OBVIOUS
  <2>5. U \subseteq (0 - hi)..(0 - lo)
    BY <2>2, Zenon
  <2> QED
    BY <2>4, <2>5, Zenon
<1>2. 0 - hi \in Int /\ 0 - lo \in Int
  OBVIOUS
<1>3. PICK e \in U : \A d \in U : d <= e
  <2> HIDE DEF U
  <2> QED
    BY <1>1, <1>2, GreatestElement
<1>4. PICK c \in T : e = 0 - c
  BY <1>3
<1>5. \A d \in T : d \in Int /\ 0 - d \in U
  OBVIOUS
<1>6. \A d \in T : c <= d
  <2> HIDE DEF U
  <2> QED
    BY <1>3, <1>4, <1>5
<1> QED
  BY <1>6

\* The Min and the Max of the community modules are what they are called.
LEMMA MinIsLeast ==
  ASSUME NEW lo \in Int, NEW hi \in Int,
         NEW T, T \subseteq lo..hi, T # {}
  PROVE  Min(T) \in T /\ \A d \in T : Min(T) <= d
<1>1. \E c \in T : \A d \in T : c <= d
  BY LeastElement
<1> QED
  BY <1>1 DEF Min

LEMMA MaxIsGreatest ==
  ASSUME NEW lo \in Int, NEW hi \in Int,
         NEW T, T \subseteq lo..hi, T # {}
  PROVE  Max(T) \in T /\ \A d \in T : d <= Max(T)
<1>1. \E c \in T : \A d \in T : c >= d
  <2>1. PICK c \in T : \A d \in T : d <= c
    BY GreatestElement
  <2>2. \A d \in T : d \in Int
    OBVIOUS
  <2> QED
    BY <2>1, <2>2
<1> QED
  <2>1. Max(T) \in T /\ \A d \in T : Max(T) >= d
    BY <1>1 DEF Max
  <2>2. \A d \in T : d \in Int
    OBVIOUS
  <2> QED
    BY <2>1, <2>2

\* n numbers from a on are n.
LEMMA RunSize ==
  ASSUME NEW a \in Int, NEW n \in Nat
  PROVE  IsFiniteSet(a..(a + n - 1)) /\ Cardinality(a..(a + n - 1)) = n
<1> DEFINE b == a + n - 1
<1>1. b \in Int /\ (IF a > b THEN 0 ELSE b - a + 1) = n
  OBVIOUS
<1> HIDE DEF b
<1>2. IsFiniteSet(a..b) /\ Cardinality(a..b) = IF a > b THEN 0 ELSE b - a + 1
  BY <1>1, FS_Interval
<1> QED
  BY <1>1, <1>2 DEF b

\* From a on, a set holds a run of integers, maybe empty, and then misses one.
LEMMA EndOfRun ==
  ASSUME NEW a \in Int, NEW hi \in Int,
         NEW T, \A d \in T : d \in Int /\ d <= hi
  PROVE  \E c \in {a} \cup T : (a + 1)..c \subseteq T /\ c + 1 \notin T /\ a <= c
<1> DEFINE top == IF hi > a THEN hi ELSE a
           Run == {c \in a..top : (a + 1)..c \subseteq T}
<1>1. top \in Int /\ a <= top /\ hi <= top
  OBVIOUS
<1> HIDE DEF top
<1>2. a \in Run
  BY <1>1
<1>3. Run \subseteq a..top
  OBVIOUS
<1>4. PICK c \in Run : \A d \in Run : d <= c
  <2> HIDE DEF Run
  <2> QED
    BY <1>1, <1>2, <1>3, GreatestElement
<1>5. c \in Int /\ a <= c /\ c <= top /\ (a + 1)..c \subseteq T
  BY <1>1, <1>4
<1>6. ASSUME c + 1 \in T PROVE FALSE
  <2>1. c + 1 \in a..top
    BY <1>1, <1>5, <1>6
  <2>2. (a + 1)..(c + 1) \subseteq T
    BY <1>5, <1>6
  <2>3. c + 1 \in Run
    BY <2>1, <2>2
  <2> QED
    BY <1>4, <1>5, <2>3
<1>7. c = a \/ c \in T
  BY <1>5
<1> QED
  BY <1>5, <1>6, <1>7
=============================================================================
