--------------------------- MODULE FoldInduction ----------------------------
(***************************************************************************)
(* Induction over a fold: what holds at its base and is kept by each of    *)
(* its steps holds of its result.  A module whose operators fold takes an  *)
(* instance of this one, with the step, the order and what is to be shown, *)
(* because an operator can be substituted for a constant of a module but   *)
(* not for a parameter of a theorem.                                       *)
(***************************************************************************)
EXTENDS Naturals, FiniteSets, FiniteSetTheorems, WellFoundedInduction, TLAPS

CONSTANTS Op(_, _, _),   \* the step: context, element, what was folded before
          Pick(_),       \* the element of a set that is folded in last
          P(_, _, _)     \* what is shown: context, result, the elements folded

Fold(c, base, S) ==
  LET iter[s \in SUBSET S] ==
        IF s = {} THEN base
        ELSE LET x == Pick(s)
             IN  Op(c, x, iter[s \ {x}])
  IN  iter[S]

\* The recursive function of Fold, from itself.
Iteration(c, base, S, g) ==
  [s \in SUBSET S |-> IF s = {} THEN base ELSE Op(c, Pick(s), g[s \ {Pick(s)}])]

\* A set of natural numbers has a least element.
LEMMA LeastNatural ==
  ASSUME NEW T, T \subseteq Nat, T # {}
  PROVE  \E x \in T : \A y \in T : ~(y < x)
<1>1. IsWellFoundedOn({r \in Nat \X Nat : r[1] < r[2]}, Nat)
  BY NatLessThanWellFounded DEF OpToRel
<1>2. PICK x \in T : \A y \in T : ~(<<y, x>> \in {r \in Nat \X Nat : r[1] < r[2]})
  BY <1>1, WFMin
<1> QED BY <1>2

\* Induction over the natural numbers.
LEMMA NaturalInduction ==
  ASSUME NEW S, 0 \in S, \A n \in Nat : n \in S => n + 1 \in S
  PROVE  Nat \subseteq S
<1> SUFFICES ASSUME ~(Nat \subseteq S) PROVE FALSE
  OBVIOUS
<1>1. PICK x \in Nat \ S : \A y \in Nat \ S : ~(y < x)
  BY LeastNatural
<1>2. x # 0 /\ x - 1 \in Nat
  OBVIOUS
<1>3. x - 1 \in S
  BY <1>1, <1>2
<1> QED BY <1>2, <1>3

\* The recursive function of a fold exists.
LEMMA IterExists ==
  ASSUME NEW c, NEW base, NEW S, IsFiniteSet(S),
         \A s \in SUBSET S : s # {} => Pick(s) \in s
  PROVE  \E g : g = Iteration(c, base, S, g)
<1> DEFINE Upto(k) == {s \in SUBSET S : Cardinality(s) <= k}
           Value(g, s) == IF s = {} THEN base ELSE Op(c, Pick(s), g[s \ {Pick(s)}])
           Iter(g, k) == g = [s \in Upto(k) |-> Value(g, s)]
           Good == {k \in Nat : \E g : Iter(g, k)}
<1>1. \A s \in SUBSET S : IsFiniteSet(s) /\ Cardinality(s) \in Nat
  BY FS_Subset, FS_CardinalityType
<1>2. 0 \in Good
  <2> DEFINE g == [s \in Upto(0) |-> base]
  <2>1. \A s \in Upto(0) : s = {}
    BY <1>1, FS_EmptySet
  <2>2. Iter(g, 0)
    BY <2>1
  <2> QED BY <2>2
<1>3. ASSUME NEW k \in Nat, k \in Good
      PROVE  k + 1 \in Good
  <2>1. PICK g : Iter(g, k)
    BY <1>3
  <2> DEFINE h == [s \in Upto(k + 1) |-> Value(g, s)]
  <2>2. ASSUME NEW s \in Upto(k + 1), s # {}
        PROVE  s \ {Pick(s)} \in Upto(k) /\ s \ {Pick(s)} \in Upto(k + 1)
    <3>1. Cardinality(s \ {Pick(s)}) = Cardinality(s) - 1
      BY <1>1, <2>2, FS_RemoveElement
    <3>2. s \ {Pick(s)} \in SUBSET S /\ Cardinality(s) \in Nat /\ Cardinality(s) <= k + 1
      BY <1>1
    <3> QED BY <3>1, <3>2
  <2>3. ASSUME NEW s \in Upto(k)
        PROVE  s \in Upto(k + 1) /\ h[s] = g[s]
    <3>1. s \in Upto(k + 1)
      BY <1>1
    <3>2. g[s] = Value(g, s)
      BY <2>1
    <3>3. h[s] = Value(g, s)
      BY <3>1
    <3> QED BY <3>1, <3>2, <3>3
  <2>4. \A s \in Upto(k + 1) : Value(g, s) = Value(h, s)
    BY <2>2, <2>3
  <2>5. Iter(h, k + 1)
    BY <2>4
  <2> HIDE DEF h, Iter
  <2> QED BY <2>5
<1>4. Cardinality(S) \in Good
  <2> HIDE DEF Good
  <2>1. Nat \subseteq Good
    BY <1>2, <1>3, NaturalInduction
  <2> QED BY <2>1, <1>1
<1>5. Upto(Cardinality(S)) = SUBSET S
  BY <1>1, FS_Subset
<1>6. PICK g : Iter(g, Cardinality(S))
  BY <1>4
<1>7. g = Iteration(c, base, S, g)
  BY <1>5, <1>6 DEF Iteration
<1> QED BY <1>7

\* What each step keeps holds of the result.
THEOREM FoldInvariant ==
  ASSUME NEW c, NEW base, NEW S, IsFiniteSet(S),
         \A s \in SUBSET S : s # {} => Pick(s) \in s,
         P(c, base, {}),
         \A T \in SUBSET S, x \in S : \A a :
           x \notin T /\ Pick(T \cup {x}) = x /\ P(c, a, T) => P(c, Op(c, x, a), T \cup {x})
  PROVE  P(c, Fold(c, base, S), S)
<1> DEFINE iter == CHOOSE g : g = Iteration(c, base, S, g)
           Bad == {s \in SUBSET S : ~P(c, iter[s], s)}
<1>1. iter = Iteration(c, base, S, iter)
  <2>1. \E g : g = Iteration(c, base, S, g)
    BY IterExists
  <2> QED BY <2>1
<1>2. Fold(c, base, S) = iter[S]
  BY DEF Fold, Iteration
<1> HIDE DEF iter
<1>3. Bad = {}
  <2> SUFFICES ASSUME Bad # {} PROVE FALSE
    OBVIOUS
  <2>1. Bad \subseteq FiniteSubsetsOf(S)
    BY FS_FiniteSubsetsOfFinite
  <2>2. PICK s \in Bad : \A t \in Bad : <<t, s>> \notin StrictSubsetOrdering(S)
    BY <2>1, FS_StrictSubsetOrderingWellFounded, WFMin
  <2>3. s # {}
    BY <1>1 DEF Iteration
  <2> DEFINE x == Pick(s)
             t == s \ {x}
  <2>4. x \in s /\ t \in SUBSET S /\ t # s /\ t \subseteq s /\ s = t \cup {x}
    BY <2>3
  <2>5. <<t, s>> \in StrictSubsetOrdering(S)
    BY <2>4, FS_FiniteSubsetsOfFinite DEF StrictSubsetOrdering, FiniteSubsetsOf
  <2>6. P(c, iter[t], t)
    BY <2>2, <2>4, <2>5
  <2>7. iter[s] = Op(c, x, iter[t])
    BY <1>1, <2>3 DEF Iteration
  <2>8. P(c, Op(c, x, iter[t]), t \cup {x})
    BY <2>4, <2>6
  <2> QED BY <2>4, <2>7, <2>8
<1> QED BY <1>2, <1>3
=============================================================================
