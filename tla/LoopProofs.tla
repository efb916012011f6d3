----------------------------- MODULE LoopProofs -----------------------------
(***************************************************************************)
(* The rule for loops.  Op is the body of a loop of module Loops, Inv its  *)
(* invariant: Inv(c, i, a) says that a is a good state after i rounds of a *)
(* loop that was entered in the context c.  A module that proves something *)
(* about a loop takes this one with INSTANCE, Op and Inv being the body    *)
(* and the invariant of that loop.                                         *)
(***************************************************************************)
EXTENDS Loops, NaturalsInduction, WellFoundedInduction, TLAPS

CONSTANTS Op(_), Inv(_, _, _)

\* Induction over the naturals, for a set of numbers.
LEMMA SetInduction ==
    ASSUME NEW T \in SUBSET Nat, 0 \in T, \A n \in T : n + 1 \in T
    PROVE  T = Nat
<1> SUFFICES ASSUME NEW n \in Nat, n \notin T
             PROVE  FALSE
  OBVIOUS
<1>1. IsWellFoundedOn(OpToRel(<, Nat), Nat)
  BY NatLessThanWellFounded
<1>2. PICK m \in Nat \ T : \A i \in Nat \ T : ~(<<i, m>> \in OpToRel(<, Nat))
  BY <1>1, WFMin
<1>3. m - 1 \in Nat /\ <<m - 1, m>> \in OpToRel(<, Nat)
  <2>1. m # 0 /\ m - 1 \in Nat
    OBVIOUS
  <2> QED
    BY <2>1 DEF OpToRel
<1>4. m - 1 \in T
  BY <1>2, <1>3
<1>5. (m - 1) + 1 = m
  OBVIOUS
<1> QED
  BY <1>4, <1>5

\* The loop is a function of the number of rounds: there is a function that
\* satisfies its recursive definition.
LEMMA IterateExists ==
    ASSUME NEW a, NEW n \in Nat
    PROVE  \E g : g = [i \in 0..n |-> IF i = 0 THEN a ELSE Op(g[i - 1])]
<1> DEFINE Run(m, g) == g = [i \in 0..m |-> IF i = 0 THEN a ELSE Op(g[i - 1])]
           T == {m \in Nat : \E g : Run(m, g)}
<1>1. 0 \in T
  <2>1. Run(0, [i \in 0..0 |-> a])
    OBVIOUS
  <2> QED
    BY <2>1
<1>2. ASSUME NEW m \in T PROVE m + 1 \in T
  <2>1. PICK g : Run(m, g)
    OBVIOUS
  <2> HIDE DEF Run
  <2> DEFINE h == [i \in 0..(m + 1) |-> IF i = m + 1 THEN Op(g[m]) ELSE g[i]]
  <2>2. \A i \in 0..m : h[i] = g[i] /\ g[i] = IF i = 0 THEN a ELSE Op(g[i - 1])
    BY <2>1 DEF Run
  <2>3. ASSUME NEW i \in 0..(m + 1)
        PROVE  h[i] = IF i = 0 THEN a ELSE Op(h[i - 1])
    <3>1. CASE i \in 0..m
      BY <2>2, <3>1
    <3>2. CASE i = m + 1
      BY <3>2
    <3> QED
      BY <3>1, <3>2
  <2>4. Run(m + 1, h)
    BY <2>3 DEF Run
  <2> QED
    BY <2>4
<1>3. T = Nat
  <2> HIDE DEF T
  <2>1. T \in SUBSET Nat
    BY DEF T
  <2> QED
    BY <1>1, <1>2, <2>1, SetInduction
<1> QED
  BY <1>3

\* An invariant of the body holds at the end of the loop.
LEMMA LoopInvariant ==
    ASSUME NEW c, NEW n \in Nat, NEW a, Inv(c, 0, a),
           \A i \in 0..(n - 1) : \A b : Inv(c, i, b) => Inv(c, i + 1, Op(b))
    PROVE  Inv(c, n, Iterate(Op, n, a))
<1> DEFINE Run(g) == g = [i \in 0..n |-> IF i = 0 THEN a ELSE Op(g[i - 1])]
           f == CHOOSE g : Run(g)
           T == {m \in Nat : m <= n => Inv(c, m, f[m])}
<1>1. Run(f)
  BY IterateExists
<1>2. Iterate(Op, n, a) = f[n]
  BY DEF Iterate
<1> HIDE DEF f
<1>3. 0 \in T
  BY <1>1
<1>4. ASSUME NEW m \in T PROVE m + 1 \in T
  <2> SUFFICES ASSUME m + 1 <= n PROVE Inv(c, m + 1, f[m + 1])
    OBVIOUS
  <2>1. f[m + 1] = Op(f[m])
    BY <1>1
  <2>2. Inv(c, m, f[m])
    OBVIOUS
  <2> QED
    BY <2>1, <2>2
<1>5. T = Nat
  <2> HIDE DEF T
  <2>1. T \in SUBSET Nat
    BY DEF T
  <2> QED
    BY <1>3, <1>4, <2>1, SetInduction
<1> QED
  BY <1>2, <1>5
=============================================================================
