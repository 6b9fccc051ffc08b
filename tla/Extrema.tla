------------------------------- MODULE Extrema -------------------------------
(* Lemmas on finite sets of integers, for the proofs about clauses: their   *)
(* robustness is a least or a greatest value of a window.                   *)
EXTENDS Integers, Sequences, SequencesExt, TLAPS, FiniteSetTheorems, WellFoundedInduction

(* A finite, nonempty set of integers has a least element: no smallest     *)
(* such set is without one.                                                *)
LEMMA HasLeast ==
  ASSUME NEW S \in SUBSET Int, S # {}, IsFiniteSet(S)
  PROVE  \E x \in S : \A y \in S : x <= y
<1> DEFINE Bad == {T \in FiniteSubsetsOf(S) : T # {} /\ ~ \E x \in T : \A y \in T : x <= y}
<1>1. SUFFICES ASSUME Bad # {} PROVE FALSE
  <2>1. S \in FiniteSubsetsOf(S)
    BY DEF FiniteSubsetsOf
  <2>2. QED
    BY <2>1
<1>2. PICK T \in Bad : \A U \in Bad : <<U, T>> \notin StrictSubsetOrdering(S)
  <2>1. IsWellFoundedOn(StrictSubsetOrdering(S), FiniteSubsetsOf(S))
    BY FS_StrictSubsetOrderingWellFounded
  <2>2. QED
    BY <2>1, <1>1, WFMin
<1>3. T \in SUBSET S /\ IsFiniteSet(T) /\ T # {}
  BY <1>2 DEF FiniteSubsetsOf
<1>4. PICK x \in T : TRUE
  BY <1>3
<1> DEFINE U == T \ {x}
<1>5. CASE U = {}
  <2>1. T = {x} /\ x <= x
    BY <1>3, <1>4, <1>5
  <2>2. QED
    BY <2>1, <1>2
<1>6. CASE U # {}
  <2>1. U \in FiniteSubsetsOf(S)
    BY <1>3, FS_RemoveElement DEF FiniteSubsetsOf
  <2>2. <<U, T>> \in StrictSubsetOrdering(S)
    BY <1>3, <1>4 DEF StrictSubsetOrdering
  <2>3. PICK u \in U : \A y \in U : u <= y
    BY <2>1, <2>2, <1>2, <1>6
  <2>4. u \in T /\ u \in Int /\ x \in Int /\ T = U \cup {x}
    BY <1>3, <1>4, <2>3
  <2>5. \E z \in T : \A y \in T : z <= y
    <3>1. CASE u <= x
      BY <3>1, <2>3, <2>4
    <3>2. CASE x <= u
      <4>1. \A y \in U : y \in Int
        BY <1>3
      <4>2. QED
        BY <3>2, <2>3, <2>4, <4>1
    <3>3. QED
      BY <3>1, <3>2, <2>4
  <2>6. QED
    BY <2>5, <1>2
<1>7. QED
  BY <1>5, <1>6

LEMMA HasGreatest ==
  ASSUME NEW S \in SUBSET Int, S # {}, IsFiniteSet(S)
  PROVE  \E x \in S : \A y \in S : x >= y
<1> DEFINE f == [x \in S |-> -x]
           T == {-x : x \in S}
<1>1. T \in SUBSET Int /\ T # {}
  OBVIOUS
<1>2. f \in Surjection(S, T)
  BY DEF Surjection
<1>3. IsFiniteSet(T)
  BY <1>2, FS_Surjection
<1>4. PICK u \in T : \A y \in T : u <= y
  BY <1>1, <1>3, HasLeast
<1>5. PICK x \in S : u = -x
  BY <1>4
<1>6. \A y \in S : -y \in T /\ -x <= -y
  BY <1>4, <1>5
<1>7. QED
  BY <1>5, <1>6

(* The image of a finite set of indices. *)
LEMMA FiniteImage ==
  ASSUME NEW S, IsFiniteSet(S), NEW f, f = [x \in S |-> f[x]]
  PROVE  IsFiniteSet({f[x] : x \in S})
<1>1. f \in Surjection(S, {f[x] : x \in S})
  BY DEF Surjection
<1>2. QED
  BY <1>1, FS_Surjection

(* The least of a nonempty sequence of integers is one of its elements.     *)
LEMMA LeastOfWindow ==
  ASSUME NEW S \in SUBSET Int, NEW s \in Seq(S), Len(s) > 0
  PROVE  /\ Min(ToSet(s)) \in ToSet(s)
         /\ \A y \in ToSet(s) : Min(ToSet(s)) <= y
         /\ ToSet(s) \in SUBSET Int
<1>1. ToSet(s) = {s[i] : i \in 1..Len(s)}
  BY DEF ToSet
<1>2. IsFiniteSet(1..Len(s)) /\ s = [i \in 1..Len(s) |-> s[i]]
  <2>1. 1 \in Int /\ Len(s) \in Int /\ s = [i \in 1..Len(s) |-> s[i]]
    OBVIOUS
  <2>2. QED
    BY <2>1, FS_Interval
<1>3. IsFiniteSet(ToSet(s))
  BY <1>1, <1>2, FiniteImage
<1>4. ToSet(s) \in SUBSET Int /\ ToSet(s) # {}
  <2>1. \A i \in 1..Len(s) : s[i] \in S
    OBVIOUS
  <2>2. 1 \in 1..Len(s)
    OBVIOUS
  <2>3. QED
    BY <1>1, <2>1, <2>2
<1>5. \E x \in ToSet(s) : \A y \in ToSet(s) : x <= y
  BY <1>3, <1>4, HasLeast
<1>6. QED
  BY <1>4, <1>5 DEF Min
=============================================================================
