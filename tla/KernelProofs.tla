---------------------------- MODULE KernelProofs ----------------------------
(***************************************************************************)
(* What the functions of tasks.c do to the kernel state, for any number of *)
(* tasks, priorities and event lists; before that, what the operations of  *)
(* list.c do to the members and the order of a list of any length.         *)
(*                                                                         *)
(* A good kernel state is one of type Kernel whose state lists are Apart:  *)
(* no task hangs in two of them, a ready one hangs in the list of its      *)
(* priority, and the delayed lists are sorted.  Every function is shown to *)
(* keep a kernel state good, with what it does to the sets of ready,       *)
(* delayed, suspended, ... tasks; the loops by LoopProofs.                 *)
(***************************************************************************)
EXTENDS Tasks, SequenceTheorems, FiniteSetTheorems, NaturalsInduction,
        WellFoundedInduction, TLAPS

-----------------------------------------------------------------------------
(* The lists of list.c.                                                    *)

\* The items of the list do not decrease.
Sorted(list, value) ==
    \A i, j \in 1..Len(list) : i < j => value[list[i]] <= value[list[j]]

\* A ring over the items of S: the marker and items, none of them twice.
Ring(S) ==
    {r \in Seq(S \cup {xListEnd}) : IsInjective(r) /\ xListEnd \in ToSet(r)}

-----------------------------------------------------------------------------
(* Sequences.                                                              *)

\* Membership, in all the ways it is written.
LEMMA Elements ==
    ASSUME NEW S, NEW s \in Seq(S)
    PROVE  /\ \A e : e \in ToSet(s) <=> \E i \in 1..Len(s) : s[i] = e
           /\ \A e : Contains(s, e) <=> e \in ToSet(s)
           /\ ToSet(s) \subseteq S
           /\ DOMAIN s = 1..Len(s)
           /\ s # <<>> => Head(s) \in ToSet(s) /\ Head(s) = s[1] /\ Len(s) >= 1
BY DEF ToSet, Contains

\* An injective sequence holds every element at one position.
LEMMA Injective ==
    ASSUME NEW S, NEW s \in Seq(S)
    PROVE  IsInjective(s) <=> \A i, j \in 1..Len(s) : s[i] = s[j] => i = j
BY DEF IsInjective

\* A sequence without the element at a position.
LEMMA RemoveAtElements ==
    ASSUME NEW S, NEW s \in Seq(S), NEW i \in 1..Len(s)
    PROVE  /\ RemoveAt(s, i) \in Seq(S)
           /\ Len(RemoveAt(s, i)) = Len(s) - 1
           /\ \A j \in 1..(Len(s) - 1) :
                 RemoveAt(s, i)[j] = IF j < i THEN s[j] ELSE s[j + 1]
<1> DEFINE a == SubSeq(s, 1, i - 1)
           b == SubSeq(s, i + 1, Len(s))
<1>1. /\ a \in Seq(S) /\ Len(a) = i - 1
      /\ \A j \in 1..(i - 1) : a[j] = s[j]
  OBVIOUS
<1>2. /\ b \in Seq(S) /\ Len(b) = Len(s) - i
      /\ \A j \in 1..(Len(s) - i) : b[j] = s[i + j]
  OBVIOUS
<1> HIDE DEF a, b
<1>3. RemoveAt(s, i) = a \o b
  BY DEF RemoveAt, a, b
<1>4. /\ a \o b \in Seq(S) /\ Len(a \o b) = Len(a) + Len(b)
      /\ \A j \in 1..(Len(a) + Len(b)) :
            (a \o b)[j] = IF j <= Len(a) THEN a[j] ELSE b[j - Len(a)]
  BY <1>1, <1>2, ConcatProperties
<1>5. ASSUME NEW j \in 1..(Len(s) - 1)
      PROVE  (a \o b)[j] = IF j < i THEN s[j] ELSE s[j + 1]
  BY <1>1, <1>2, <1>4
<1> QED
  BY <1>1, <1>2, <1>3, <1>4, <1>5

\* A sequence with an element put in at a position.
LEMMA InsertAtElements ==
    ASSUME NEW S, NEW s \in Seq(S), NEW i \in 1..(Len(s) + 1), NEW e \in S
    PROVE  /\ InsertAt(s, i, e) \in Seq(S)
           /\ Len(InsertAt(s, i, e)) = Len(s) + 1
           /\ \A j \in 1..(Len(s) + 1) :
                 InsertAt(s, i, e)[j] = IF j < i THEN s[j] ELSE IF j = i THEN e ELSE s[j - 1]
<1> DEFINE a == SubSeq(s, 1, i - 1)
           b == SubSeq(s, i, Len(s))
           c == a \o <<e>>
<1>1. /\ a \in Seq(S) /\ Len(a) = i - 1
      /\ \A j \in 1..(i - 1) : a[j] = s[j]
  OBVIOUS
<1>2. /\ b \in Seq(S) /\ Len(b) = Len(s) - i + 1
      /\ \A j \in 1..(Len(s) - i + 1) : b[j] = s[i + j - 1]
  OBVIOUS
<1> HIDE DEF a, b
<1>3. /\ c \in Seq(S) /\ Len(c) = i
      /\ \A j \in 1..i : c[j] = IF j < i THEN s[j] ELSE e
  BY <1>1
<1> HIDE DEF c
<1>4. InsertAt(s, i, e) = c \o b
  BY DEF InsertAt, a, b, c
<1>5. /\ c \o b \in Seq(S) /\ Len(c \o b) = Len(c) + Len(b)
      /\ \A j \in 1..(Len(c) + Len(b)) :
            (c \o b)[j] = IF j <= Len(c) THEN c[j] ELSE b[j - Len(c)]
  BY <1>2, <1>3, ConcatProperties
<1>6. ASSUME NEW j \in 1..(Len(s) + 1)
      PROVE  (c \o b)[j] = IF j < i THEN s[j] ELSE IF j = i THEN e ELSE s[j - 1]
  BY <1>2, <1>3, <1>5
<1> QED
  BY <1>2, <1>3, <1>4, <1>5, <1>6

\* A natural number with a property is not below some least one.
LEMMA Least ==
    ASSUME NEW T \in SUBSET Nat, NEW n \in T
    PROVE  \E m \in T : \A i \in T : m <= i
<1>1. IsWellFoundedOn(OpToRel(<, Nat), Nat)
  BY NatLessThanWellFounded
<1>2. PICK m \in T : \A i \in T : ~(<<i, m>> \in OpToRel(<, Nat))
  BY <1>1, WFMin
<1>3. \A i \in T : ~(i < m)
  BY <1>2 DEF OpToRel
<1> QED
  BY <1>3

-----------------------------------------------------------------------------
(* Plain lists.                                                            *)

\* Removing an item.
LEMMA UnlinkItems ==
    ASSUME NEW S, NEW s \in Seq(S), IsInjective(s), NEW e
    PROVE  /\ Unlink(s, e) \in Seq(S) /\ IsInjective(Unlink(s, e))
           /\ ToSet(Unlink(s, e)) = ToSet(s) \ {e}
           /\ \A value : Sorted(s, value) => Sorted(Unlink(s, e), value)
           /\ e \notin ToSet(s) => Unlink(s, e) = s
           /\ e \in ToSet(s) => Len(Unlink(s, e)) = Len(s) - 1
<1>1. CASE e \notin ToSet(s)
  <2>1. Unlink(s, e) = s
    BY <1>1, Elements DEF Unlink
  <2> QED
    BY <1>1, <2>1
<1>2. CASE e \in ToSet(s)
  <2> DEFINE i == CHOOSE j \in DOMAIN s : s[j] = e
             u == RemoveAt(s, i)
  <2>1. i \in 1..Len(s) /\ s[i] = e
    BY <1>2, Elements
  <2>2. Unlink(s, e) = u
    BY <1>2, Elements DEF Unlink
  <2> HIDE DEF i
  <2>3. /\ u \in Seq(S) /\ Len(u) = Len(s) - 1
        /\ \A j \in 1..(Len(s) - 1) : u[j] = IF j < i THEN s[j] ELSE s[j + 1]
    BY <2>1, RemoveAtElements
  <2> HIDE DEF u
  <2>4. \A j, l \in 1..Len(s) : s[j] = s[l] => j = l
    BY Injective
  <2>5. IsInjective(u)
    <3> SUFFICES ASSUME NEW j \in 1..Len(u), NEW l \in 1..Len(u), u[j] = u[l]
                 PROVE  j = l
      BY <2>3, Injective
    <3> DEFINE at(x) == IF x < i THEN x ELSE x + 1
    <3>1. /\ at(j) \in 1..Len(s) /\ at(l) \in 1..Len(s)
          /\ u[j] = s[at(j)] /\ u[l] = s[at(l)]
      BY <2>1, <2>3
    <3>2. at(j) = at(l)
      BY <2>4, <3>1
    <3> QED
      BY <2>1, <3>2
  <2>6. ASSUME NEW x \in ToSet(u) PROVE x \in ToSet(s) \ {e}
    <3>1. PICK j \in 1..(Len(s) - 1) : u[j] = x
      BY <2>3, Elements
    <3>2. CASE j < i
      BY <2>1, <2>3, <2>4, <3>1, <3>2, Elements
    <3>3. CASE ~(j < i)
      BY <2>1, <2>3, <2>4, <3>1, <3>3, Elements
    <3> QED
      BY <3>2, <3>3
  <2>7. ASSUME NEW x \in ToSet(s) \ {e} PROVE x \in ToSet(u)
    <3>1. PICK j \in 1..Len(s) : s[j] = x
      BY Elements
    <3>2. CASE j < i
      <4>1. j \in 1..(Len(s) - 1) /\ u[j] = x
        BY <2>1, <2>3, <3>1, <3>2
      <4> QED
        BY <2>3, <4>1, Elements
    <3>3. CASE ~(j < i)
      <4>1. j # i
        BY <2>1, <3>1
      <4>2. (j - 1) \in 1..(Len(s) - 1) /\ ~(j - 1 < i) /\ (j - 1) + 1 = j
        BY <2>1, <3>3, <4>1
      <4>3. u[j - 1] = x
        BY <2>3, <3>1, <4>2
      <4> QED
        BY <2>3, <4>2, <4>3, Elements
    <3> QED
      BY <3>2, <3>3
  <2>8. ASSUME NEW value, Sorted(s, value) PROVE Sorted(u, value)
    <3> SUFFICES ASSUME NEW j \in 1..Len(u), NEW l \in 1..Len(u), j < l
                 PROVE  value[u[j]] <= value[u[l]]
      BY DEF Sorted
    <3>1. \E a, b \in 1..Len(s) : a < b /\ u[j] = s[a] /\ u[l] = s[b]
      BY <2>1, <2>3
    <3> QED
      BY <2>8, <3>1 DEF Sorted
  <2> QED
    BY <1>2, <2>2, <2>3, <2>5, <2>6, <2>7, <2>8
<1> QED
  BY <1>1, <1>2

\* Removing the first item.
LEMMA UnlinkHead ==
    ASSUME NEW S, NEW s \in Seq(S), IsInjective(s), s # <<>>
    PROVE  Unlink(s, Head(s)) = Tail(s)
<1> DEFINE i == CHOOSE j \in DOMAIN s : s[j] = Head(s)
           u == RemoveAt(s, i)
<1>1. Head(s) \in ToSet(s) /\ Head(s) = s[1] /\ Len(s) >= 1 /\ DOMAIN s = 1..Len(s)
  BY Elements
<1>2. i \in 1..Len(s) /\ s[i] = s[1]
  BY <1>1
<1>3. Unlink(s, Head(s)) = u
  BY <1>1, Elements DEF Unlink
<1> HIDE DEF i
<1>4. i = 1
  BY <1>1, <1>2, Injective
<1>5. /\ u \in Seq(S) /\ Len(u) = Len(s) - 1
      /\ \A j \in 1..(Len(s) - 1) : u[j] = IF j < i THEN s[j] ELSE s[j + 1]
  BY <1>2, RemoveAtElements
<1>6. /\ Tail(s) \in Seq(S) /\ Len(Tail(s)) = Len(s) - 1
      /\ \A j \in 1..(Len(s) - 1) : Tail(s)[j] = s[j + 1]
  BY HeadTailProperties
<1> HIDE DEF u
<1>7. \A j \in 1..Len(u) : u[j] = Tail(s)[j]
  BY <1>1, <1>4, <1>5, <1>6
<1> QED
  BY <1>3, <1>5, <1>6, <1>7, SeqEqual

\* Taking the first item off.
LEMMA TailItems ==
    ASSUME NEW S, NEW s \in Seq(S), IsInjective(s), s # <<>>
    PROVE  /\ Tail(s) \in Seq(S) /\ IsInjective(Tail(s))
           /\ Len(Tail(s)) = Len(s) - 1
           /\ ToSet(Tail(s)) = ToSet(s) \ {Head(s)}
           /\ \A value : Sorted(s, value) => Sorted(Tail(s), value)
<1>1. Head(s) \in ToSet(s) /\ Unlink(s, Head(s)) = Tail(s)
  BY UnlinkHead, Elements
<1> DEFINE u == Unlink(s, Head(s))
<1>2. /\ u \in Seq(S) /\ IsInjective(u)
      /\ ToSet(u) = ToSet(s) \ {Head(s)}
      /\ \A value : Sorted(s, value) => Sorted(u, value)
      /\ Len(u) = Len(s) - 1
  BY <1>1, UnlinkItems
<1> QED
  BY <1>1, <1>2

\* Adding an item at the end.
LEMMA AppendItems ==
    ASSUME NEW S, NEW s \in Seq(S), NEW e \in S
    PROVE  /\ Append(s, e) \in Seq(S) /\ Append(s, e) # <<>>
           /\ Len(Append(s, e)) = Len(s) + 1
           /\ ToSet(Append(s, e)) = ToSet(s) \cup {e}
           /\ IsInjective(s) /\ e \notin ToSet(s) => IsInjective(Append(s, e))
           /\ s # <<>> => Head(Append(s, e)) = Head(s)
<1> DEFINE u == Append(s, e)
<1>1. /\ u \in Seq(S) /\ u # <<>> /\ Len(u) = Len(s) + 1
      /\ \A i \in 1..Len(s) : u[i] = s[i]
      /\ u[Len(s) + 1] = e
  BY AppendProperties
<1>2. s # <<>> => Head(u) = Head(s)
  BY <1>1, Elements
<1> HIDE DEF u
<1>3. ToSet(u) = ToSet(s) \cup {e}
  <2>1. ASSUME NEW x \in ToSet(u) PROVE x \in ToSet(s) \cup {e}
    <3>1. PICK i \in 1..(Len(s) + 1) : u[i] = x
      BY <1>1, Elements
    <3>2. i \in 1..Len(s) \/ i = Len(s) + 1
      OBVIOUS
    <3> QED
      BY <1>1, <3>1, <3>2, Elements
  <2>2. ASSUME NEW x \in ToSet(s) PROVE x \in ToSet(u)
    <3>1. PICK i \in 1..Len(s) : s[i] = x
      BY Elements
    <3>2. i \in 1..Len(u) /\ u[i] = x
      BY <1>1, <3>1
    <3> QED
      BY <1>1, <3>2, Elements
  <2>3. e \in ToSet(u)
    <3>1. Len(s) + 1 \in 1..Len(u)
      BY <1>1
    <3> QED
      BY <1>1, <3>1, Elements
  <2> QED
    BY <2>1, <2>2, <2>3
<1>4. ASSUME IsInjective(s), e \notin ToSet(s) PROVE IsInjective(u)
  <2> SUFFICES ASSUME NEW i \in 1..Len(u), NEW j \in 1..Len(u), u[i] = u[j], i < j
               PROVE  FALSE
    BY <1>1, Injective
  <2>1. i \in 1..Len(s)
    BY <1>1
  <2>2. CASE j \in 1..Len(s)
    BY <1>1, <1>4, <2>1, <2>2, Injective
  <2>3. CASE j = Len(s) + 1
    BY <1>1, <1>4, <2>1, <2>3, Elements
  <2> QED
    BY <1>1, <2>2, <2>3
<1> QED
  BY <1>1, <1>2, <1>3, <1>4 DEF u

\* Putting an item in at a position.
LEMMA InsertAtItems ==
    ASSUME NEW S, NEW s \in Seq(S), NEW m \in 1..(Len(s) + 1), NEW e \in S
    PROVE  /\ ToSet(InsertAt(s, m, e)) = ToSet(s) \cup {e}
           /\ IsInjective(s) /\ e \notin ToSet(s) => IsInjective(InsertAt(s, m, e))
<1> DEFINE u == InsertAt(s, m, e)
<1>1. /\ u \in Seq(S) /\ Len(u) = Len(s) + 1
      /\ \A j \in 1..(Len(s) + 1) :
            u[j] = IF j < m THEN s[j] ELSE IF j = m THEN e ELSE s[j - 1]
  BY InsertAtElements
<1> HIDE DEF u
<1>2. ToSet(u) = ToSet(s) \cup {e}
  <2>1. ASSUME NEW x \in ToSet(u) PROVE x \in ToSet(s) \cup {e}
    <3>1. PICK j \in 1..(Len(s) + 1) : u[j] = x
      BY <1>1, Elements
    <3>2. x = e \/ \E i \in 1..Len(s) : s[i] = x
      <4>1. CASE j < m
        BY <1>1, <3>1, <4>1
      <4>2. CASE j = m
        BY <1>1, <3>1, <4>2
      <4>3. CASE j > m
        <5>1. j - 1 \in 1..Len(s) /\ s[j - 1] = x
          BY <1>1, <3>1, <4>3
        <5> QED
          BY <5>1
      <4> QED
        BY <4>1, <4>2, <4>3
    <3> QED
      BY <3>2, Elements
  <2>2. ASSUME NEW x \in ToSet(s) PROVE x \in ToSet(u)
    <3>1. PICK i \in 1..Len(s) : s[i] = x
      BY Elements
    <3>2. CASE i < m
      BY <1>1, <3>1, <3>2, Elements
    <3>3. CASE ~(i < m)
      <4>1. i + 1 \in 1..Len(u) /\ u[i + 1] = x
        BY <1>1, <3>1, <3>3
      <4> QED
        BY <1>1, <4>1, Elements
    <3> QED
      BY <3>2, <3>3
  <2>3. e \in ToSet(u)
    BY <1>1, Elements
  <2> QED
    BY <2>1, <2>2, <2>3
<1>3. ASSUME IsInjective(s), e \notin ToSet(s) PROVE IsInjective(u)
  <2>1. \A i, j \in 1..Len(s) : s[i] = s[j] => i = j
    BY <1>3, Injective
  <2>2. \A i \in 1..Len(s) : s[i] # e
    BY <1>3, Elements
  <2> SUFFICES ASSUME NEW i \in 1..Len(u), NEW j \in 1..Len(u), u[i] = u[j], i < j
               PROVE  FALSE
    BY <1>1, Injective
  <2>3. CASE i < m /\ j < m
    BY <1>1, <2>1, <2>3
  <2>4. CASE i < m /\ j = m
    BY <1>1, <2>2, <2>4
  <2>5. CASE i < m /\ j > m
    <3>1. j - 1 \in 1..Len(s) /\ u[j] = s[j - 1] /\ u[i] = s[i] /\ i \in 1..Len(s) /\ i # j - 1
      BY <1>1, <2>5
    <3> QED
      BY <2>1, <3>1
  <2>6. CASE i = m
    <3>1. j - 1 \in 1..Len(s) /\ u[j] = s[j - 1] /\ u[i] = e
      BY <1>1, <2>6
    <3> QED
      BY <2>2, <3>1
  <2>7. CASE i > m
    <3>1. j - 1 \in 1..Len(s) /\ u[j] = s[j - 1] /\ i - 1 \in 1..Len(s) /\ u[i] = s[i - 1]
      BY <1>1, <2>7
    <3>2. i - 1 = j - 1
      BY <2>1, <3>1
    <3> QED
      BY <3>2
  <2> QED
    BY <2>3, <2>4, <2>5, <2>6, <2>7
<1> QED
  BY <1>2, <1>3 DEF u

\* vListInsert: the item goes in behind those that are not larger.
LEMMA InsertItems ==
    ASSUME NEW S, NEW s \in Seq(S), NEW e \in S, NEW value \in [S -> Int]
    PROVE  /\ vListInsert(s, e, value) \in Seq(S) /\ vListInsert(s, e, value) # <<>>
           /\ ToSet(vListInsert(s, e, value)) = ToSet(s) \cup {e}
           /\ IsInjective(s) /\ e \notin ToSet(s) => IsInjective(vListInsert(s, e, value))
           /\ Sorted(s, value) => Sorted(vListInsert(s, e, value), value)
<1> DEFINE larger == {i \in 1..(Len(s) + 1) : i = Len(s) + 1 \/ value[s[i]] > value[e]}
           passed == {i \in 1..Len(s) : \A j \in 1..i : value[s[j]] <= value[e]}
<1>1. PICK m \in larger : \A i \in larger : m <= i
  <2>1. larger \in SUBSET Nat /\ Len(s) + 1 \in larger
    OBVIOUS
  <2> QED
    BY <2>1, Least
<1>2. /\ m \in 1..(Len(s) + 1)
      /\ \A i \in 1..(m - 1) : value[s[i]] <= value[e]
      /\ m \in 1..Len(s) => value[s[m]] > value[e]
  <2>1. ASSUME NEW i \in 1..(m - 1) PROVE value[s[i]] <= value[e]
    <3>1. i \in 1..Len(s) /\ i \notin larger
      BY <1>1
    <3>2. ~(value[s[i]] > value[e])
      BY <3>1
    <3>3. value[s[i]] \in Int /\ value[e] \in Int
      BY <3>1, ElementOfSeq
    <3> QED
      BY <3>2, <3>3
  <2> QED
    BY <1>1, <2>1
<1>3. passed = 1..(m - 1)
  <2>1. ASSUME NEW i \in passed PROVE i \in 1..(m - 1)
    <3> SUFFICES ASSUME m <= i PROVE FALSE
      BY <1>2
    <3>1. m \in 1..Len(s) /\ m \in 1..i
      BY <1>2
    <3>2. value[s[m]] <= value[e] /\ value[s[m]] > value[e]
      BY <1>2, <3>1
    <3>3. value[s[m]] \in Int /\ value[e] \in Int
      BY <3>1, ElementOfSeq
    <3> QED
      BY <3>2, <3>3
  <2>2. ASSUME NEW i \in 1..(m - 1) PROVE i \in passed
    <3>1. i \in 1..Len(s) /\ \A j \in 1..i : j \in 1..(m - 1)
      BY <1>2
    <3> QED
      BY <1>2, <3>1
  <2> QED
    BY <2>1, <2>2
<1>4. Cardinality(passed) + 1 = m
  <2>1. 1 \in Int /\ m - 1 \in Int /\ m >= 1
    BY <1>2
  <2>2. Cardinality(1..(m - 1)) = IF 1 > m - 1 THEN 0 ELSE m - 1 - 1 + 1
    BY <2>1, FS_Interval
  <2>3. Cardinality(1..(m - 1)) + 1 = m
    BY <2>1, <2>2
  <2> HIDE DEF passed
  <2> QED
    BY <1>3, <2>3
<1> DEFINE u == InsertAt(s, m, e)
<1>5. vListInsert(s, e, value) = u
  BY <1>4 DEF vListInsert
<1>6. /\ u \in Seq(S) /\ Len(u) = Len(s) + 1
      /\ \A j \in 1..(Len(s) + 1) :
            u[j] = IF j < m THEN s[j] ELSE IF j = m THEN e ELSE s[j - 1]
  BY <1>2, InsertAtElements
<1>7. /\ ToSet(u) = ToSet(s) \cup {e}
      /\ IsInjective(s) /\ e \notin ToSet(s) => IsInjective(u)
  BY <1>2, InsertAtItems
<1> HIDE DEF larger, passed, u
<1>8. ASSUME Sorted(s, value) PROVE Sorted(u, value)
  <2> SUFFICES ASSUME NEW i \in 1..Len(u), NEW j \in 1..Len(u), i < j
               PROVE  value[u[i]] <= value[u[j]]
    BY DEF Sorted
  <2>1. \A a, b \in 1..Len(s) : a < b => value[s[a]] <= value[s[b]]
    BY <1>8 DEF Sorted
  <2>2. \A a \in 1..Len(s) : value[s[a]] \in Int
    BY ElementOfSeq
  <2>3. value[e] \in Int
    OBVIOUS
  <2>4. CASE i < m /\ j < m
    <3>1. i \in 1..Len(s) /\ j \in 1..Len(s) /\ i \in 1..(Len(s) + 1) /\ j \in 1..(Len(s) + 1)
      BY <1>2, <1>6, <2>4, SMTT(40)
    <3>2. u[i] = s[i]
      BY <1>2, <1>6, <2>4, <3>1, SMTT(40)
    <3>3. u[j] = s[j]
      BY <1>2, <1>6, <2>4, <3>1, SMTT(40)
    <3> QED
      BY <2>1, <3>1, <3>2, <3>3
  <2>5. CASE i < m /\ j = m
    <3>1. i \in 1..Len(s) /\ i \in 1..(Len(s) + 1) /\ j \in 1..(Len(s) + 1)
      BY <1>2, <1>6, <2>5, SMTT(40)
    <3>2. u[i] = s[i]
      BY <1>2, <1>6, <2>5, <3>1, SMTT(40)
    <3>3. u[j] = e
      BY <1>2, <1>6, <2>5, <3>1, SMTT(40)
    <3> QED
      BY <1>2, <2>5, <3>1, <3>2, <3>3
  <2>6. CASE i < m /\ j > m
    <3>1. /\ i \in 1..Len(s) /\ j - 1 \in 1..Len(s) /\ i < j - 1
          /\ i \in 1..(Len(s) + 1) /\ j \in 1..(Len(s) + 1)
      BY <1>2, <1>6, <2>6, SMTT(40)
    <3>2. u[i] = s[i]
      BY <1>2, <1>6, <2>6, <3>1, SMTT(40)
    <3>3. u[j] = s[j - 1]
      BY <1>2, <1>6, <2>6, <3>1, SMTT(40)
    <3> QED
      BY <2>1, <3>1, <3>2, <3>3
  <2>7. CASE i = m
    <3>0. /\ j - 1 \in 1..Len(s) /\ m \in 1..Len(s) /\ m <= j - 1
          /\ i \in 1..(Len(s) + 1) /\ j \in 1..(Len(s) + 1)
      BY <1>2, <1>6, <2>7, SMTT(40)
    <3>1. j - 1 \in 1..Len(s) /\ m \in 1..Len(s) /\ m <= j - 1 /\ u[i] = e /\ u[j] = s[j - 1]
      BY <1>2, <1>6, <2>7, <3>0, SMTT(40)
    <3>2. value[e] < value[s[m]]
      BY <1>2, <3>1
    <3>3. value[s[m]] <= value[s[j - 1]]
      <4>1. CASE m = j - 1
        BY <2>2, <3>1, <4>1
      <4>2. CASE m < j - 1
        BY <2>1, <3>1, <4>2
      <4> QED
        BY <3>1, <4>1, <4>2
    <3> QED
      BY <2>2, <2>3, <3>1, <3>2, <3>3
  <2>8. CASE i > m
    <3>1. /\ i - 1 \in 1..Len(s) /\ j - 1 \in 1..Len(s) /\ i - 1 < j - 1
          /\ i \in 1..(Len(s) + 1) /\ j \in 1..(Len(s) + 1)
      BY <1>2, <1>6, <2>8, SMTT(40)
    <3>2. u[i] = s[i - 1]
      BY <1>2, <1>6, <2>8, <3>1, SMTT(40)
    <3>3. u[j] = s[j - 1]
      BY <1>2, <1>6, <2>8, <3>1, SMTT(40)
    <3> QED
      BY <2>1, <3>1, <3>2, <3>3
  <2> QED
    BY <2>4, <2>5, <2>6, <2>7, <2>8, <1>2
<1>9. u # <<>>
  BY <1>6
<1> QED
  BY <1>5, <1>6, <1>7, <1>8, <1>9

-----------------------------------------------------------------------------
(* Rings.                                                                  *)

\* A ring has the marker, so it is not an empty sequence.
LEMMA RingFacts ==
    ASSUME NEW S, xListEnd \notin S, NEW r \in Ring(S)
    PROVE  /\ r \in Seq(S \cup {xListEnd}) /\ IsInjective(r) /\ xListEnd \in ToSet(r)
           /\ r # <<>> /\ Len(r) >= 1 /\ Len(r) \in Nat
           /\ Items(r) \subseteq S
           /\ \A e \in S : Contains(r, e) <=> e \in Items(r)
           /\ listLIST_IS_EMPTY(r) <=> Items(r) = {}
           /\ Len(r) = 1 <=> Items(r) = {}
<1>1. r \in Seq(S \cup {xListEnd}) /\ IsInjective(r) /\ xListEnd \in ToSet(r)
  BY DEF Ring
<1>2. PICK m \in 1..Len(r) : r[m] = xListEnd
  BY <1>1, Elements
<1>3. r # <<>> /\ Len(r) >= 1 /\ Len(r) \in Nat
  BY <1>1, <1>2
<1>4. Items(r) \subseteq S /\ \A e \in S : Contains(r, e) <=> e \in Items(r)
  BY <1>1, Elements DEF Items
<1>5. Len(r) = 1 <=> Items(r) = {}
  <2>1. ASSUME Len(r) = 1, NEW x \in Items(r) PROVE FALSE
    <3>1. PICK i \in 1..Len(r) : r[i] = x
      BY <1>1, Elements DEF Items
    <3>2. i = m
      BY <2>1
    <3> QED
      BY <1>2, <3>1, <3>2 DEF Items
  <2>2. ASSUME Len(r) # 1 PROVE Items(r) # {}
    <3>1. PICK i \in 1..Len(r) : i # m
      <4>1. 1 \in 1..Len(r) /\ 2 \in 1..Len(r)
        BY <1>3, <2>2
      <4> QED
        BY <4>1
    <3>2. r[i] # xListEnd /\ r[i] \in ToSet(r)
      BY <1>1, <1>2, <3>1, Injective, Elements
    <3> QED
      BY <3>2 DEF Items
  <2> QED
    BY <2>1, <2>2
<1>6. listLIST_IS_EMPTY(r) <=> Len(r) = 1
  BY <1>3 DEF listLIST_IS_EMPTY, listCURRENT_LIST_LENGTH
<1> QED
  BY <1>1, <1>3, <1>4, <1>5, <1>6

\* vListInitialise: the marker only.
LEMMA RingInitialise ==
    ASSUME NEW S
    PROVE  vListInitialise \in Ring(S) /\ Items(vListInitialise) = {}
BY DEF vListInitialise, Ring, Items, ToSet, IsInjective

\* listINSERT_END.
LEMMA RingInsertEnd ==
    ASSUME NEW S, xListEnd \notin S, NEW r \in Ring(S), NEW e \in S, e \notin Items(r)
    PROVE  /\ listINSERT_END(r, e) \in Ring(S)
           /\ Items(listINSERT_END(r, e)) = Items(r) \cup {e}
<1>1. r \in Seq(S \cup {xListEnd}) /\ IsInjective(r) /\ xListEnd \in ToSet(r)
  BY RingFacts
<1>2. e \notin ToSet(r) /\ e # xListEnd
  BY DEF Items
<1>3. /\ Append(r, e) \in Seq(S \cup {xListEnd}) /\ IsInjective(Append(r, e))
      /\ ToSet(Append(r, e)) = ToSet(r) \cup {e}
  BY <1>1, <1>2, AppendItems
<1> QED
  BY <1>1, <1>2, <1>3 DEF listINSERT_END, Items, Ring

\* uxListRemove, also of the item under pxIndex.
LEMMA RingRemove ==
    ASSUME NEW S, xListEnd \notin S, NEW r \in Ring(S), NEW e \in Items(r)
    PROVE  /\ uxListRemove(r, e) \in Ring(S)
           /\ Items(uxListRemove(r, e)) = Items(r) \ {e}
<1> DEFINE T == S \cup {xListEnd}
           u == uxListRemove(r, e)
<1>1. /\ r \in Seq(T) /\ IsInjective(r) /\ xListEnd \in ToSet(r)
      /\ r # <<>> /\ Len(r) >= 1 /\ Len(r) \in Nat /\ e \in S
  BY RingFacts
<1>2. e \in ToSet(r) /\ e # xListEnd
  BY DEF Items
<1> SUFFICES u \in Seq(T) /\ IsInjective(u) /\ ToSet(u) = ToSet(r) \ {e}
  BY <1>1, <1>2 DEF Ring, Items
<1> HIDE DEF T
<1>3. CASE Head(r) # e
  BY <1>1, <1>3, UnlinkItems DEF uxListRemove
<1>4. CASE Head(r) = e
  <2>1. \A i, j \in 1..Len(r) : r[i] = r[j] => i = j
    BY <1>1, Injective
  <2>2. r[1] = e
    BY <1>1, <1>4, Elements
  <2>3. PICK m \in 1..Len(r) : r[m] = xListEnd
    BY <1>1, Elements
  <2>4. Len(r) >= 2
    BY <1>1, <1>2, <2>2, <2>3
  <2> DEFINE f == Front(r)
             t == Tail(f)
  <2>5. /\ f \in Seq(T) /\ Len(f) = Len(r) - 1 /\ f # <<>>
        /\ \A i \in 1..(Len(r) - 1) : f[i] = r[i]
    <3>1. \A i \in 1..(Len(r) - 1) : r[i] \in T
      BY <1>1, ElementOfSeq
    <3>2. /\ f \in Seq(T) /\ Len(f) = Len(r) - 1
          /\ \A i \in 1..(Len(r) - 1) : f[i] = r[i]
      BY <1>1, <2>4, <3>1 DEF Front
    <3> HIDE DEF f
    <3> QED
      BY <2>4, <3>2, EmptySeq
  <2> HIDE DEF f
  <2>6. /\ t \in Seq(T) /\ Len(t) = Len(r) - 2
        /\ \A i \in 1..(Len(r) - 2) : t[i] = r[i + 1]
    <3>1. /\ t \in Seq(T) /\ Len(t) = Len(f) - 1
          /\ \A i \in 1..Len(t) : t[i] = f[i + 1]
      BY <2>5, HeadTailProperties
    <3> QED
      BY <2>4, <2>5, <3>1
  <2> DEFINE h == <<Last(r)>>
  <2>7. h \in Seq(T) /\ Len(h) = 1 /\ h[1] = r[Len(r)]
    BY <1>1, <2>4 DEF Last
  <2> HIDE DEF h, t
  <2>8. u = h \o t
    BY <1>4 DEF uxListRemove, h, t, f
  <2>9. /\ h \o t \in Seq(T) /\ Len(h \o t) = Len(r) - 1
        /\ \A i \in 1..(Len(r) - 1) : (h \o t)[i] = IF i = 1 THEN r[Len(r)] ELSE r[i]
    <3>1. /\ h \o t \in Seq(T) /\ Len(h \o t) = Len(h) + Len(t)
          /\ \A i \in 1..(Len(h) + Len(t)) :
                (h \o t)[i] = IF i <= Len(h) THEN h[i] ELSE t[i - Len(h)]
      BY <2>6, <2>7, ConcatProperties
    <3>2. ASSUME NEW i \in 1..(Len(r) - 1)
          PROVE  (h \o t)[i] = IF i = 1 THEN r[Len(r)] ELSE r[i]
      <4>1. CASE i = 1
        BY <2>4, <2>6, <2>7, <3>1, <4>1
      <4>2. CASE i # 1
        <5>1. i - 1 \in 1..(Len(r) - 2) /\ ~(i <= 1) /\ (i - 1) + 1 = i
          BY <2>4, <4>2
        <5>2. (h \o t)[i] = t[i - 1]
          BY <2>4, <2>6, <2>7, <3>1, <5>1
        <5>3. t[i - 1] = r[(i - 1) + 1]
          BY <2>6, <5>1
        <5> QED
          BY <4>2, <5>1, <5>2, <5>3
      <4> QED
        BY <4>1, <4>2
    <3> QED
      BY <2>4, <2>6, <2>7, <3>1, <3>2
  <2> DEFINE at(i) == IF i = 1 THEN Len(r) ELSE i
  <2>10. /\ u \in Seq(T) /\ Len(u) = Len(r) - 1
         /\ \A i \in 1..(Len(r) - 1) : at(i) \in 2..Len(r) /\ u[i] = r[at(i)]
    BY <2>4, <2>8, <2>9
  <2> HIDE DEF u
  <2>11. IsInjective(u)
    <3> SUFFICES ASSUME NEW i \in 1..Len(u), NEW j \in 1..Len(u), u[i] = u[j]
                 PROVE  i = j
      BY <2>10, Injective
    <3>1. at(i) = at(j)
      BY <2>1, <2>10
    <3> QED
      BY <2>10, <3>1
  <2>12. ASSUME NEW x \in ToSet(u) PROVE x \in ToSet(r) \ {e}
    <3>1. PICK i \in 1..(Len(r) - 1) : u[i] = x
      BY <2>10, Elements
    <3>2. at(i) \in 1..Len(r) /\ at(i) # 1 /\ r[at(i)] = x
      BY <2>10, <3>1
    <3>3. x # e
      BY <1>1, <2>1, <2>2, <3>2
    <3> QED
      BY <1>1, <3>2, <3>3, Elements
  <2>13. ASSUME NEW x \in ToSet(r) \ {e} PROVE x \in ToSet(u)
    <3>1. PICK i \in 1..Len(r) : r[i] = x
      BY <1>1, Elements
    <3>2. i # 1
      BY <2>2, <3>1
    <3>3. \E j \in 1..(Len(r) - 1) : at(j) = i
      <4>1. CASE i = Len(r)
        BY <2>4, <4>1
      <4>2. CASE i # Len(r)
        BY <3>2, <4>2
      <4> QED
        BY <4>1, <4>2
    <3>4. PICK j \in 1..Len(u) : u[j] = x
      BY <2>10, <3>1, <3>3
    <3> QED
      BY <2>10, <3>4, Elements
  <2> QED
    BY <2>10, <2>11, <2>12, <2>13
<1> QED
  BY <1>3, <1>4

\* One step of the walk.
LEMMA RingStep ==
    ASSUME NEW S, xListEnd \notin S, NEW r \in Ring(S)
    PROVE  /\ Step(r) \in Ring(S) /\ Items(Step(r)) = Items(r)
           /\ Len(Step(r)) = Len(r)
           /\ Len(r) > 1 => Head(Step(r)) = r[2]
<1> DEFINE T == S \cup {xListEnd}
<1>1. /\ r \in Seq(T) /\ IsInjective(r) /\ xListEnd \in ToSet(r)
      /\ r # <<>> /\ Len(r) >= 1 /\ Len(r) \in Nat
  BY RingFacts
<1> HIDE DEF T
<1>2. /\ Tail(r) \in Seq(T) /\ IsInjective(Tail(r)) /\ Len(Tail(r)) = Len(r) - 1
      /\ ToSet(Tail(r)) = ToSet(r) \ {Head(r)}
  BY <1>1, TailItems
<1>3. Head(r) \in T /\ Head(r) \in ToSet(r)
  BY <1>1, Elements
<1> DEFINE t == Tail(r)
           h == Head(r)
<1>4. /\ Step(r) \in Seq(T) /\ Step(r) # <<>> /\ Len(Step(r)) = Len(r)
      /\ ToSet(Step(r)) = ToSet(r) /\ IsInjective(Step(r))
      /\ Tail(r) # <<>> => Head(Step(r)) = Head(Tail(r))
  <2>1. Step(r) = Append(t, h)
    BY DEF Step
  <2> HIDE DEF t, h
  <2>2. /\ t \in Seq(T) /\ h \in T /\ IsInjective(t) /\ h \notin ToSet(t)
        /\ Len(t) = Len(r) - 1 /\ ToSet(t) \cup {h} = ToSet(r)
    BY <1>2, <1>3 DEF t, h
  <2>3. /\ Append(t, h) \in Seq(T) /\ Append(t, h) # <<>>
        /\ Len(Append(t, h)) = Len(t) + 1
        /\ ToSet(Append(t, h)) = ToSet(t) \cup {h} /\ IsInjective(Append(t, h))
        /\ t # <<>> => Head(Append(t, h)) = Head(t)
    BY <2>2, AppendItems
  <2> QED
    BY <1>1, <2>1, <2>2, <2>3 DEF t
<1>5. ASSUME Len(r) > 1 PROVE Head(Step(r)) = r[2]
  <2>1. \A i \in 1..Len(t) : t[i] = r[i + 1]
    BY <1>1, HeadTailProperties
  <2> HIDE DEF t
  <2>2. t \in Seq(T) /\ 1 \in 1..Len(t)
    BY <1>1, <1>2, <1>5 DEF t
  <2>3. t # <<>> /\ Head(t) = t[1]
    BY <2>2
  <2> QED
    BY <1>4, <2>1, <2>2, <2>3 DEF t
<1> QED
  BY <1>1, <1>4, <1>5 DEF Ring, Items, T

\* listGET_OWNER_OF_NEXT_ENTRY: pxIndex stands on an item again.
LEMMA RingNext ==
    ASSUME NEW S, xListEnd \notin S, NEW r \in Ring(S), Items(r) # {}
    PROVE  /\ listGET_OWNER_OF_NEXT_ENTRY(r) \in Ring(S)
           /\ Items(listGET_OWNER_OF_NEXT_ENTRY(r)) = Items(r)
           /\ Head(listGET_OWNER_OF_NEXT_ENTRY(r)) \in Items(r)
<1> DEFINE a == Step(r)
           b == Step(a)
<1>1. /\ r \in Seq(S \cup {xListEnd}) /\ Len(r) \in Nat /\ Len(r) > 1
      /\ \A i, j \in 1..Len(r) : r[i] = r[j] => i = j
  <2>1. Len(r) # 1
    BY RingFacts
  <2>2. /\ r \in Seq(S \cup {xListEnd}) /\ Len(r) >= 1 /\ Len(r) \in Nat /\ IsInjective(r)
    BY RingFacts
  <2>3. Len(r) > 1
    <3> DEFINE n == Len(r)
    <3>1. n \in Nat /\ n >= 1 /\ n # 1
      BY <2>1, <2>2
    <3> HIDE DEF n
    <3>2. n > 1
      BY <3>1
    <3> QED
      BY <3>2 DEF n
  <2> QED
    BY <2>2, <2>3, Injective
<1>2. a \in Ring(S) /\ Items(a) = Items(r) /\ Len(a) = Len(r) /\ Head(a) = r[2]
  BY <1>1, RingStep
<1> HIDE DEF a
<1>3. b \in Ring(S) /\ Items(b) = Items(r) /\ Len(b) = Len(r) /\ Head(b) = a[2]
  BY <1>1, <1>2, RingStep
<1> HIDE DEF b
<1>4. /\ a \in Seq(S \cup {xListEnd}) /\ a # <<>> /\ Head(a) = a[1] /\ Head(a) \in ToSet(a)
      /\ \A i, j \in 1..Len(r) : a[i] = a[j] => i = j
      /\ a[2] \in ToSet(a)
  <2>1. a \in Seq(S \cup {xListEnd}) /\ a # <<>> /\ IsInjective(a)
    BY <1>2, RingFacts
  <2>2. 2 \in 1..Len(a)
    BY <1>1, <1>2
  <2> QED
    BY <1>2, <2>1, <2>2, Elements, Injective
<1>5. CASE Head(a) = xListEnd
  <2>1. a[2] # xListEnd
    BY <1>1, <1>4, <1>5
  <2>2. Head(b) \in Items(r)
    BY <1>2, <1>3, <1>4, <2>1 DEF Items
  <2>3. listGET_OWNER_OF_NEXT_ENTRY(r) = b
    BY <1>5 DEF listGET_OWNER_OF_NEXT_ENTRY, a, b
  <2> QED
    BY <1>3, <2>2, <2>3
<1>6. CASE Head(a) # xListEnd
  <2>1. listGET_OWNER_OF_NEXT_ENTRY(r) = a
    BY <1>6 DEF listGET_OWNER_OF_NEXT_ENTRY, a
  <2>2. Head(a) \in Items(r)
    BY <1>2, <1>4, <1>6 DEF Items
  <2> QED
    BY <1>2, <2>1, <2>2
<1> QED
  BY <1>5, <1>6

-----------------------------------------------------------------------------
(* The kernel state.                                                       *)

\* A list that holds no task twice.
TaskList == {s \in Seq(Task) : IsInjective(s)}

\* The types of the fields, by name.
TaskOrNull == Task \cup {NULL}
TaskSet == SUBSET Task
Priorities == [Task -> Priority]
WakeTimes == [Task -> Tick]
ReadyLists == [Priority -> Ring(Task)]
EventLists == [EventList -> TaskList]
OverflowCount == 0..(OverflowMod - 1)
NotifyStates == [Task -> {"NOT_WAITING", "WAITING", "RECEIVED"}]
NotifyValues == [Task -> Nat]

Kernel ==
    [cur : TaskOrNull, live : TaskSet, prio : Priorities, wake : WakeTimes,
     ready : ReadyLists, top : Priority, delayed : TaskList, overflow : TaskList,
     pending : TaskList, suspended : TaskSet, dead : TaskList, event : EventLists,
     tick : Tick, next : Tick, pended : Nat, yield : BOOLEAN, locks : Nat,
     running : BOOLEAN, overflows : OverflowCount, notify : NotifyStates,
     value : NotifyValues, asleep : TaskSet, gone : TaskSet]

\* The tasks whose state item hangs in a list.
Hung(k) == ReadyTasks(k) \cup Blocked(k) \cup k.suspended \cup ToSet(k.dead)

\* No state item hangs in two lists, those of the ready tasks hang in the
\* list of their priority, and the delayed lists are sorted by wake time.
Apart(k) ==
    /\ \A p \in Priority : \A t \in Items(k.ready[p]) : k.prio[t] = p
    /\ \A t \in ReadyTasks(k) :
          t \notin ToSet(k.delayed) \cup ToSet(k.overflow) \cup k.suspended \cup ToSet(k.dead)
    /\ \A t \in ToSet(k.delayed) : t \notin ToSet(k.overflow) \cup k.suspended \cup ToSet(k.dead)
    /\ \A t \in ToSet(k.overflow) : t \notin k.suspended \cup ToSet(k.dead)
    /\ \A t \in k.suspended : t \notin ToSet(k.dead)
    /\ Sorted(k.delayed, k.wake) /\ Sorted(k.overflow, k.wake)

\* What an operation leaves alone.
SameTasks(k, m) ==
    /\ m.live = k.live /\ m.prio = k.prio /\ m.notify = k.notify /\ m.value = k.value
    /\ m.asleep = k.asleep /\ m.gone = k.gone
SameClock(k, m) == m.tick = k.tick /\ m.pended = k.pended /\ m.overflows = k.overflows
SameCpu(k, m) == m.cur = k.cur /\ m.locks = k.locks /\ m.running = k.running
SameEvents(k, m) == m.pending = k.pending /\ m.event = k.event
SameState(k, m) ==
    /\ m.ready = k.ready /\ m.delayed = k.delayed /\ m.overflow = k.overflow
    /\ m.suspended = k.suspended /\ m.dead = k.dead /\ m.wake = k.wake

\* The tasks of W have become ready, nobody else has moved.
Readied(k, m, W) ==
    /\ ReadyTasks(m) = ReadyTasks(k) \cup W
    /\ ToSet(m.delayed) = ToSet(k.delayed) \ W /\ ToSet(m.overflow) = ToSet(k.overflow) \ W
    /\ ToSet(m.dead) = ToSet(k.dead) \ W /\ m.suspended = k.suspended \ W
    /\ \A u \in Task \ W : m.wake[u] = k.wake[u]
    /\ m.top >= k.top /\ \A u \in W : m.top >= k.prio[u]
    /\ SameTasks(k, m) /\ SameClock(k, m) /\ SameCpu(k, m)

\* The tasks of W have left the event lists, and nobody else has.
EventsLeft(k, m, W) ==
    /\ ToSet(m.pending) = ToSet(k.pending) \ W
    /\ \A l \in EventList :
          /\ ToSet(m.event[l]) = ToSet(k.event[l]) \ W
          /\ \A value : Sorted(k.event[l], value) => Sorted(m.event[l], value)

\* The tasks of W have left the delayed lists for their ready lists, while
\* time may have passed.
Woken(k, m, W) ==
    /\ W \subseteq Blocked(k) /\ Blocked(m) = Blocked(k) \ W
    /\ ReadyTasks(m) = ReadyTasks(k) \cup W
    /\ m.suspended = k.suspended /\ ToSet(m.dead) = ToSet(k.dead)
    /\ \A u \in Task \ W : m.wake[u] = k.wake[u]
    /\ m.top >= k.top /\ \A u \in W : m.top >= k.prio[u]
    /\ SameTasks(k, m) /\ SameCpu(k, m) /\ EventsLeft(k, m, W)

\* Nobody has moved, but another task may have been chosen to run.
Switched(k, m) ==
    /\ ReadyTasks(m) = ReadyTasks(k)
    /\ m.delayed = k.delayed /\ m.overflow = k.overflow /\ m.dead = k.dead
    /\ m.suspended = k.suspended /\ m.wake = k.wake /\ m.next = k.next
    /\ m.locks = k.locks /\ m.running = k.running
    /\ SameTasks(k, m) /\ SameClock(k, m) /\ SameEvents(k, m)

-----------------------------------------------------------------------------
(* The state and its lists.                                                *)

\* The fields of a kernel state have their types.
LEMMA KernelFields ==
    ASSUME NEW k \in Kernel
    PROVE  /\ k.cur \in Task \cup {NULL} /\ k.live \in SUBSET Task
           /\ k.prio \in [Task -> Priority] /\ k.wake \in [Task -> Tick]
           /\ k.ready \in [Priority -> Ring(Task)] /\ k.top \in Priority
           /\ k.delayed \in TaskList /\ k.overflow \in TaskList /\ k.pending \in TaskList
           /\ k.suspended \in SUBSET Task /\ k.dead \in TaskList
           /\ k.event \in [EventList -> TaskList]
           /\ k.tick \in Tick /\ k.next \in Tick /\ k.pended \in Nat /\ k.yield \in BOOLEAN
           /\ k.locks \in Nat /\ k.running \in BOOLEAN /\ k.overflows \in 0..(OverflowMod - 1)
           /\ k.notify \in [Task -> {"NOT_WAITING", "WAITING", "RECEIVED"}]
           /\ k.value \in [Task -> Nat]
           /\ k.asleep \in SUBSET Task /\ k.gone \in SUBSET Task
BY DEF Kernel, TaskOrNull, TaskSet, Priorities, WakeTimes, ReadyLists, EventLists, OverflowCount,
       NotifyStates, NotifyValues

\* The ready lists are rings over the tasks.
LEMMA ReadyRings ==
    ASSUME NEW k \in Kernel, NEW p \in Priority
    PROVE  /\ k.ready[p] \in Ring(Task) /\ Items(k.ready[p]) \subseteq Task
           /\ \A t \in Task : Contains(k.ready[p], t) <=> t \in Items(k.ready[p])
           /\ listLIST_IS_EMPTY(k.ready[p]) <=> Items(k.ready[p]) = {}
<1>1. k.ready[p] \in Ring(Task) /\ xListEnd \notin Task
  BY KernelFields, TasksAssumption
<1> QED
  BY <1>1, RingFacts

\* The lists of tasks.
LEMMA TaskLists ==
    ASSUME NEW s \in TaskList
    PROVE  /\ s \in Seq(Task) /\ IsInjective(s) /\ ToSet(s) \subseteq Task
           /\ \A t : Contains(s, t) <=> t \in ToSet(s)
           /\ s # <<>> => Head(s) \in ToSet(s)
           /\ s = <<>> <=> ToSet(s) = {}
<1>1. s \in Seq(Task) /\ IsInjective(s)
  BY DEF TaskList
<1>2. s = <<>> => ToSet(s) = {}
  BY DEF ToSet
<1> QED
  BY <1>1, <1>2, Elements

\* Taking a task out of a list of tasks.
LEMMA TaskUnlink ==
    ASSUME NEW s \in TaskList, NEW t
    PROVE  /\ Unlink(s, t) \in TaskList /\ ToSet(Unlink(s, t)) = ToSet(s) \ {t}
           /\ \A value : Sorted(s, value) => Sorted(Unlink(s, t), value)
           /\ t \notin ToSet(s) => Unlink(s, t) = s
           /\ t \in ToSet(s) => Len(Unlink(s, t)) = Len(s) - 1
BY UnlinkItems DEF TaskList

\* A ready task is in the ready list of its priority.
LEMMA ReadyHere ==
    ASSUME NEW k \in Kernel, Apart(k), NEW t
    PROVE  /\ t \in ReadyTasks(k) => t \in Task /\ t \in Items(k.ready[k.prio[t]])
           /\ \A p \in Priority : t \in Items(k.ready[p]) <=> t \in ReadyTasks(k) /\ k.prio[t] = p
<1>1. t \in ReadyTasks(k) <=> \E p \in Priority : t \in Items(k.ready[p])
  BY DEF ReadyTasks
<1>2. \A p \in Priority : Items(k.ready[p]) \subseteq Task
  BY ReadyRings
<1>3. \A p \in Priority : t \in Items(k.ready[p]) => k.prio[t] = p
  BY DEF Apart
<1> QED
  BY <1>1, <1>2, <1>3

\* Sortedness looks at the values of the items in the list only.
LEMMA SortedSame ==
    ASSUME NEW s \in TaskList, NEW v, NEW w, \A t \in ToSet(s) : v[t] = w[t], Sorted(s, v)
    PROVE  Sorted(s, w)
<1>1. \A i \in 1..Len(s) : s[i] \in ToSet(s)
  BY TaskLists, Elements
<1> QED
  BY <1>1 DEF Sorted

\* The first item of a sorted list is the least.
LEMMA SortedHead ==
    ASSUME NEW s \in TaskList, NEW v \in [Task -> Tick], Sorted(s, v), NEW t \in ToSet(s)
    PROVE  s # <<>> /\ v[Head(s)] <= v[t]
<1>1. s \in Seq(Task) /\ s # <<>> /\ Head(s) = s[1] /\ Len(s) >= 1 /\ Len(s) \in Nat /\ t \in Task
  BY TaskLists, Elements
<1>2. PICK i \in 1..Len(s) : s[i] = t
  BY <1>1, Elements
<1>3. v[t] \in Int
  BY <1>1 DEF Tick
<1>4. CASE i = 1
  BY <1>1, <1>2, <1>3, <1>4
<1>5. CASE i > 1
  BY <1>1, <1>2, <1>5 DEF Sorted
<1> QED
  BY <1>1, <1>4, <1>5

-----------------------------------------------------------------------------
(* Moving list items.                                                      *)

\* uxListRemove on the state item.
LEMMA RemoveState ==
    ASSUME NEW k \in Kernel, NEW t \in Task
    PROVE  LET m == RemoveStateItem(k, t) IN
           /\ m \in Kernel
           /\ \A p \in Priority : Items(m.ready[p]) = Items(k.ready[p]) \ {t}
           /\ m.delayed = Unlink(k.delayed, t) /\ m.overflow = Unlink(k.overflow, t)
           /\ m.dead = Unlink(k.dead, t) /\ m.suspended = k.suspended \ {t}
           /\ m.wake = [k.wake EXCEPT ![t] = 0]
           /\ m.top = k.top /\ m.next = k.next /\ m.yield = k.yield
           /\ SameTasks(k, m) /\ SameClock(k, m) /\ SameCpu(k, m) /\ SameEvents(k, m)
<1> DEFINE r == [p \in Priority |-> IF Contains(k.ready[p], t) THEN uxListRemove(k.ready[p], t)
                                    ELSE k.ready[p]]
           w == [k.wake EXCEPT ![t] = 0]
           x == k.suspended \ {t}
           m == RemoveStateItem(k, t)
<1>1. ASSUME NEW p \in Priority
      PROVE  r[p] \in Ring(Task) /\ Items(r[p]) = Items(k.ready[p]) \ {t}
  <2>1. k.ready[p] \in Ring(Task) /\ xListEnd \notin Task
    BY KernelFields, TasksAssumption
  <2>2. Contains(k.ready[p], t) <=> t \in Items(k.ready[p])
    BY ReadyRings
  <2>3. CASE t \in Items(k.ready[p])
    BY <2>1, <2>2, <2>3, RingRemove
  <2>4. CASE t \notin Items(k.ready[p])
    BY <2>1, <2>2, <2>4
  <2> QED
    BY <2>3, <2>4
<1>2. /\ Unlink(k.delayed, t) \in TaskList /\ Unlink(k.overflow, t) \in TaskList
      /\ Unlink(k.dead, t) \in TaskList
  BY KernelFields, TaskUnlink
<1>3. r \in ReadyLists
  BY <1>1 DEF ReadyLists
<1>4. w \in WakeTimes /\ x \in TaskSet
  BY KernelFields, TicksAssumption DEF Tick, WakeTimes, TaskSet
<1>5. m = [k EXCEPT !.wake = w, !.ready = r,
                    !.delayed = Unlink(k.delayed, t), !.overflow = Unlink(k.overflow, t),
                    !.suspended = x, !.dead = Unlink(k.dead, t)]
  BY DEF RemoveStateItem, Kernel
<1> HIDE DEF r, w, x, m
<1>6. m \in Kernel
  BY <1>2, <1>3, <1>4, <1>5 DEF Kernel
<1>7. /\ m.ready = r /\ m.wake = w
      /\ m.delayed = Unlink(k.delayed, t) /\ m.overflow = Unlink(k.overflow, t)
      /\ m.dead = Unlink(k.dead, t) /\ m.suspended = x
  BY <1>5 DEF Kernel
<1>8. /\ m.top = k.top /\ m.next = k.next /\ m.yield = k.yield
      /\ SameTasks(k, m) /\ SameClock(k, m) /\ SameCpu(k, m) /\ SameEvents(k, m)
  BY <1>5 DEF Kernel, SameTasks, SameClock, SameCpu, SameEvents
<1>9. \A p \in Priority : Items(m.ready[p]) = Items(k.ready[p]) \ {t}
  BY <1>1, <1>7
<1> QED
  BY <1>6, <1>7, <1>8, <1>9 DEF w, x, m

\* The same, for the sets of tasks: t leaves whichever it is in.
LEMMA RemoveStateSets ==
    ASSUME NEW k \in Kernel, Apart(k), NEW t \in Task
    PROVE  LET m == RemoveStateItem(k, t) IN
           /\ m \in Kernel /\ Apart(m) /\ t \notin Hung(m)
           /\ ReadyTasks(m) = ReadyTasks(k) \ {t} /\ ToSet(m.delayed) = ToSet(k.delayed) \ {t}
           /\ ToSet(m.overflow) = ToSet(k.overflow) \ {t} /\ ToSet(m.dead) = ToSet(k.dead) \ {t}
           /\ m.suspended = k.suspended \ {t}
           /\ \A u \in Task \ {t} : m.wake[u] = k.wake[u]
           /\ m.top = k.top /\ m.next = k.next /\ m.yield = k.yield
           /\ SameTasks(k, m) /\ SameClock(k, m) /\ SameCpu(k, m) /\ SameEvents(k, m)
<1> DEFINE m == RemoveStateItem(k, t)
<1>1. /\ m \in Kernel
      /\ \A p \in Priority : Items(m.ready[p]) = Items(k.ready[p]) \ {t}
      /\ m.delayed = Unlink(k.delayed, t) /\ m.overflow = Unlink(k.overflow, t)
      /\ m.dead = Unlink(k.dead, t) /\ m.suspended = k.suspended \ {t}
      /\ m.wake = [k.wake EXCEPT ![t] = 0] /\ SameTasks(k, m)
      /\ m.top = k.top /\ m.next = k.next /\ m.yield = k.yield
      /\ SameClock(k, m) /\ SameCpu(k, m) /\ SameEvents(k, m)
  BY RemoveState
<1> HIDE DEF m
<1>2. \A u \in Task \ {t} : m.wake[u] = k.wake[u]
  BY <1>1, KernelFields
<1>3. /\ ToSet(m.delayed) = ToSet(k.delayed) \ {t} /\ ToSet(m.overflow) = ToSet(k.overflow) \ {t}
      /\ ToSet(m.dead) = ToSet(k.dead) \ {t}
      /\ Sorted(m.delayed, k.wake) /\ Sorted(m.overflow, k.wake)
  <2>1. k.delayed \in TaskList /\ k.overflow \in TaskList /\ k.dead \in TaskList
    BY KernelFields
  <2>2. Sorted(k.delayed, k.wake) /\ Sorted(k.overflow, k.wake)
    BY DEF Apart
  <2> QED
    BY <1>1, <2>1, <2>2, TaskUnlink
<1>4. ReadyTasks(m) = ReadyTasks(k) \ {t}
  BY <1>1 DEF ReadyTasks
<1>5. Sorted(m.delayed, m.wake) /\ Sorted(m.overflow, m.wake)
  <2>1. m.delayed \in TaskList /\ m.overflow \in TaskList
    BY <1>1, KernelFields
  <2>2. ToSet(m.delayed) \subseteq Task \ {t} /\ ToSet(m.overflow) \subseteq Task \ {t}
    BY <1>3, <2>1, TaskLists
  <2> QED
    BY <1>2, <1>3, <2>1, <2>2, SortedSame
<1>6. \A p \in Priority : \A u \in Items(m.ready[p]) : m.prio[u] = p
  BY <1>1 DEF Apart, SameTasks
<1>7. Apart(m)
  BY <1>1, <1>3, <1>4, <1>5, <1>6 DEF Apart
<1>8. t \notin Hung(m)
  BY <1>1, <1>3, <1>4 DEF Hung, Blocked
<1> QED
  BY <1>1, <1>2, <1>3, <1>4, <1>7, <1>8 DEF m

\* uxListRemove on the event item.
LEMMA RemoveEvent ==
    ASSUME NEW k \in Kernel, NEW t \in Task
    PROVE  LET m == RemoveEventItem(k, t) IN
           /\ m \in Kernel
           /\ m.pending = Unlink(k.pending, t)
           /\ \A l \in EventList : m.event[l] = Unlink(k.event[l], t)
           /\ m.top = k.top /\ m.next = k.next /\ m.yield = k.yield
           /\ SameTasks(k, m) /\ SameClock(k, m) /\ SameCpu(k, m) /\ SameState(k, m)
<1> DEFINE e == [l \in EventList |-> Unlink(k.event[l], t)]
           m == RemoveEventItem(k, t)
<1>1. Unlink(k.pending, t) \in TaskList
  BY KernelFields, TaskUnlink
<1>2. e \in EventLists
  BY KernelFields, TaskUnlink DEF EventLists
<1>3. m = [k EXCEPT !.pending = Unlink(k.pending, t), !.event = e]
  BY DEF RemoveEventItem, Kernel
<1> HIDE DEF e, m
<1>4. m \in Kernel
  BY <1>1, <1>2, <1>3 DEF Kernel
<1>5. m.pending = Unlink(k.pending, t) /\ m.event = e
  BY <1>3 DEF Kernel
<1>6. /\ m.top = k.top /\ m.next = k.next /\ m.yield = k.yield
      /\ SameTasks(k, m) /\ SameClock(k, m) /\ SameCpu(k, m) /\ SameState(k, m)
  BY <1>3 DEF Kernel, SameTasks, SameClock, SameCpu, SameState
<1> QED
  BY <1>4, <1>5, <1>6 DEF e, m

\* The greater and the less of two numbers.
LEMMA MaxOfTwo ==
    ASSUME NEW a \in Int, NEW b \in Int
    PROVE  Max({a, b}) \in {a, b} /\ Max({a, b}) >= a /\ Max({a, b}) >= b
<1>1. \E x \in {a, b} : \A y \in {a, b} : x >= y
  <2>1. CASE a >= b
    BY <2>1
  <2>2. CASE b >= a
    BY <2>2
  <2> QED
    BY <2>1, <2>2
<1> QED
  BY <1>1 DEF Max

\* Min on two numbers.
LEMMA MinOfTwo ==
    ASSUME NEW a \in Int, NEW b \in Int
    PROVE  Min({a, b}) \in {a, b} /\ Min({a, b}) <= a /\ Min({a, b}) <= b
<1>1. \E x \in {a, b} : \A y \in {a, b} : x =< y
  <2>1. CASE a >= b
    BY <2>1
  <2>2. CASE b >= a
    BY <2>2
  <2> QED
    BY <2>1, <2>2
<1> QED
  BY <1>1 DEF Min

\* prvAddTaskToReadyList, for a task that hangs in no state list.
LEMMA AddReady ==
    ASSUME NEW k \in Kernel, Apart(k), NEW t \in Task, t \notin Hung(k)
    PROVE  LET m == prvAddTaskToReadyList(k, t) IN
           /\ m \in Kernel /\ Apart(m)
           /\ ReadyTasks(m) = ReadyTasks(k) \cup {t}
           /\ m.delayed = k.delayed /\ m.overflow = k.overflow /\ m.dead = k.dead
           /\ m.suspended = k.suspended /\ m.wake = k.wake
           /\ m.top >= k.top /\ m.top >= k.prio[t]
           /\ m.next = k.next /\ m.yield = k.yield
           /\ SameTasks(k, m) /\ SameClock(k, m) /\ SameCpu(k, m) /\ SameEvents(k, m)
<1> DEFINE p == k.prio[t]
           x == Max({k.top, p})
           r == [k.ready EXCEPT ![p] = listINSERT_END(@, t)]
           m == prvAddTaskToReadyList(k, t)
<1>1. p \in Priority /\ k.top \in Priority /\ \A q \in Priority : q \in Int
  BY KernelFields DEF Priority
<1>2. x \in Priority /\ x >= k.top /\ x >= p
  BY <1>1, MaxOfTwo
<1>3. \A q \in Priority : t \notin Items(k.ready[q])
  BY DEF Hung, ReadyTasks
<1>4. /\ listINSERT_END(k.ready[p], t) \in Ring(Task)
      /\ Items(listINSERT_END(k.ready[p], t)) = Items(k.ready[p]) \cup {t}
  BY <1>1, <1>3, KernelFields, TasksAssumption, RingInsertEnd
<1>5. /\ r \in ReadyLists
      /\ \A q \in Priority : Items(r[q]) = IF q = p THEN Items(k.ready[q]) \cup {t} ELSE Items(k.ready[q])
  BY <1>1, <1>4, KernelFields DEF ReadyLists
<1>6. m = [k EXCEPT !.top = x, !.ready = r]
  BY DEF prvAddTaskToReadyList, Kernel
<1> HIDE DEF x, r, m
<1>7. m \in Kernel
  BY <1>2, <1>5, <1>6 DEF Kernel
<1>8. /\ m.ready = r /\ m.top = x /\ m.delayed = k.delayed /\ m.overflow = k.overflow
      /\ m.dead = k.dead /\ m.suspended = k.suspended /\ m.wake = k.wake
      /\ m.next = k.next /\ m.yield = k.yield
  BY <1>6 DEF Kernel
<1>9. SameTasks(k, m) /\ SameClock(k, m) /\ SameCpu(k, m) /\ SameEvents(k, m)
  BY <1>6 DEF Kernel, SameTasks, SameClock, SameCpu, SameEvents
<1> HIDE DEF p
<1>a. \A q \in Priority : \A u : u \in Items(m.ready[q]) <=> u \in Items(k.ready[q]) \/ (q = p /\ u = t)
  BY <1>5, <1>8
<1>10. ReadyTasks(m) = ReadyTasks(k) \cup {t}
  <2>1. \A u : u \in ReadyTasks(m) <=> \E q \in Priority : u \in Items(m.ready[q])
    BY DEF ReadyTasks
  <2>2. \A u : u \in ReadyTasks(k) <=> \E q \in Priority : u \in Items(k.ready[q])
    BY DEF ReadyTasks
  <2> QED
    BY <1>1, <1>a, <2>1, <2>2
<1>11. \A q \in Priority : \A u \in Items(m.ready[q]) : m.prio[u] = q
  <2>1. \A q \in Priority : \A u \in Items(k.ready[q]) : k.prio[u] = q
    BY DEF Apart
  <2> QED
    BY <1>a, <1>9, <2>1 DEF SameTasks, p
<1>12. Apart(m)
  BY <1>8, <1>10, <1>11 DEF Apart, Hung, Blocked
<1> QED
  BY <1>2, <1>7, <1>8, <1>9, <1>10, <1>12 DEF m, p

\* A task moves from whichever list it is in to its ready list.
LEMMA MoveReady ==
    ASSUME NEW k \in Kernel, Apart(k), NEW t \in Task
    PROVE  LET m == MoveToReady(k, t) IN
           /\ m \in Kernel /\ Apart(m) /\ Readied(k, m, {t})
           /\ m.next = k.next /\ m.yield = k.yield /\ SameEvents(k, m)
<1> DEFINE a == RemoveStateItem(k, t)
           m == prvAddTaskToReadyList(a, t)
<1>1. /\ a \in Kernel /\ Apart(a) /\ t \notin Hung(a)
      /\ ReadyTasks(a) = ReadyTasks(k) \ {t} /\ ToSet(a.delayed) = ToSet(k.delayed) \ {t}
      /\ ToSet(a.overflow) = ToSet(k.overflow) \ {t} /\ ToSet(a.dead) = ToSet(k.dead) \ {t}
      /\ a.suspended = k.suspended \ {t}
      /\ \A u \in Task \ {t} : a.wake[u] = k.wake[u]
      /\ a.top = k.top /\ a.next = k.next /\ a.yield = k.yield
      /\ SameTasks(k, a) /\ SameClock(k, a) /\ SameCpu(k, a) /\ SameEvents(k, a)
  BY RemoveStateSets
<1> HIDE DEF a
<1>2. /\ m \in Kernel /\ Apart(m)
      /\ ReadyTasks(m) = ReadyTasks(a) \cup {t}
      /\ m.delayed = a.delayed /\ m.overflow = a.overflow /\ m.dead = a.dead
      /\ m.suspended = a.suspended /\ m.wake = a.wake
      /\ m.top >= a.top /\ m.top >= a.prio[t]
      /\ m.next = a.next /\ m.yield = a.yield
      /\ SameTasks(a, m) /\ SameClock(a, m) /\ SameCpu(a, m) /\ SameEvents(a, m)
  BY <1>1, AddReady
<1> HIDE DEF m
<1>3. SameTasks(k, m) /\ SameClock(k, m) /\ SameCpu(k, m) /\ SameEvents(k, m)
  BY <1>1, <1>2 DEF SameTasks, SameClock, SameCpu, SameEvents
<1>4. \A u \in {t} : m.top >= k.prio[u]
  BY <1>1, <1>2 DEF SameTasks
<1>5. Readied(k, m, {t})
  BY <1>1, <1>2, <1>3, <1>4 DEF Readied
<1> QED
  BY <1>1, <1>2, <1>3, <1>5 DEF MoveToReady, m, a

\* prvResetNextTaskUnblockTime.
LEMMA ResetNext ==
    ASSUME NEW k \in Kernel
    PROVE  LET m == prvResetNextTaskUnblockTime(k) IN
           /\ m \in Kernel
           /\ k.delayed # <<>> => m.next = k.wake[Head(k.delayed)]
           /\ m.ready = k.ready /\ m.delayed = k.delayed /\ m.overflow = k.overflow
           /\ m.suspended = k.suspended /\ m.dead = k.dead /\ m.wake = k.wake
           /\ m.top = k.top /\ m.yield = k.yield /\ SameTasks(k, m) /\ SameClock(k, m)
           /\ SameCpu(k, m) /\ SameEvents(k, m)
<1> DEFINE x == IF k.delayed = <<>> THEN portMAX_DELAY ELSE k.wake[Head(k.delayed)]
           m == prvResetNextTaskUnblockTime(k)
<1>1. x \in Tick
  <2>1. portMAX_DELAY \in Tick
    BY TicksAssumption DEF portMAX_DELAY, Tick
  <2>2. k.delayed # <<>> => k.wake[Head(k.delayed)] \in Tick
    BY KernelFields, TaskLists
  <2> QED
    BY <2>1, <2>2
<1>2. m = [k EXCEPT !.next = x]
  BY DEF prvResetNextTaskUnblockTime
<1>3. k.delayed # <<>> => x = k.wake[Head(k.delayed)]
  OBVIOUS
<1> HIDE DEF x, m
<1>4. m \in Kernel /\ m.next = x
  BY <1>1, <1>2 DEF Kernel
<1>5. /\ m.ready = k.ready /\ m.delayed = k.delayed /\ m.overflow = k.overflow
      /\ m.suspended = k.suspended /\ m.dead = k.dead /\ m.wake = k.wake
      /\ m.top = k.top /\ m.yield = k.yield /\ SameTasks(k, m) /\ SameClock(k, m)
      /\ SameCpu(k, m) /\ SameEvents(k, m)
  BY <1>2 DEF Kernel, SameTasks, SameClock, SameCpu, SameEvents
<1> QED
  BY <1>3, <1>4, <1>5 DEF m

\* States with the same state lists.
LEMMA ApartSame ==
    ASSUME NEW k, NEW m, Apart(k), m.ready = k.ready, m.delayed = k.delayed,
           m.overflow = k.overflow, m.suspended = k.suspended, m.dead = k.dead,
           m.wake = k.wake, m.prio = k.prio
    PROVE  Apart(m) /\ ReadyTasks(m) = ReadyTasks(k) /\ Blocked(m) = Blocked(k) /\ Hung(m) = Hung(k)
<1>1. ReadyTasks(m) = ReadyTasks(k) /\ Blocked(m) = Blocked(k)
  BY DEF ReadyTasks, Blocked
<1>2. Hung(m) = Hung(k)
  BY <1>1 DEF Hung
<1>3. Apart(m)
  BY <1>1 DEF Apart
<1> QED
  BY <1>1, <1>2, <1>3

\* The second half of taskSELECT_HIGHEST_PRIORITY_TASK, from a list with tasks.
LEMMA Select ==
    ASSUME NEW k \in Kernel, Apart(k), NEW p \in Priority, Items(k.ready[p]) # {}
    PROVE  LET m == SelectFrom(k, p) IN
           /\ m \in Kernel /\ Apart(m) /\ Switched(k, m) /\ m.yield = k.yield /\ m.top = p
           /\ m.cur \in ReadyTasks(k) /\ k.prio[m.cur] = p
<1> DEFINE ring == listGET_OWNER_OF_NEXT_ENTRY(k.ready[p])
           c == Head(ring)
           r == [k.ready EXCEPT ![p] = ring]
           m == SelectFrom(k, p)
<1>1. ring \in Ring(Task) /\ Items(ring) = Items(k.ready[p]) /\ c \in Items(k.ready[p])
  BY KernelFields, TasksAssumption, RingNext
<1>2. m = [k EXCEPT !.ready = r, !.cur = c, !.top = p]
  BY DEF SelectFrom, Kernel
<1> HIDE DEF ring
<1>3. r \in ReadyLists /\ \A q \in Priority : Items(r[q]) = Items(k.ready[q])
  BY <1>1, KernelFields DEF ReadyLists
<1>4. c \in ReadyTasks(k) /\ c \in TaskOrNull /\ k.prio[c] = p
  <2>1. c \in Task
    BY <1>1, ReadyRings
  <2> QED
    BY <1>1, <2>1, ReadyHere DEF TaskOrNull
<1> HIDE DEF c, r, m
<1>5. m \in Kernel
  BY <1>2, <1>3, <1>4 DEF Kernel
<1>6. /\ m.ready = r /\ m.cur = c /\ m.top = p /\ m.yield = k.yield
      /\ m.delayed = k.delayed /\ m.overflow = k.overflow /\ m.dead = k.dead
      /\ m.suspended = k.suspended /\ m.wake = k.wake /\ m.next = k.next
      /\ m.locks = k.locks /\ m.running = k.running
  BY <1>2 DEF Kernel
<1>7. SameTasks(k, m) /\ SameClock(k, m) /\ SameEvents(k, m)
  BY <1>2 DEF Kernel, SameTasks, SameClock, SameEvents
<1>8. ReadyTasks(m) = ReadyTasks(k)
  BY <1>3, <1>6 DEF ReadyTasks
<1>9. Apart(m)
  <2>1. \A q \in Priority : \A u \in Items(m.ready[q]) : m.prio[u] = q
    BY <1>3, <1>6, <1>7 DEF Apart, SameTasks
  <2> QED
    BY <1>6, <1>8, <2>1 DEF Apart
<1>10. Switched(k, m)
  BY <1>6, <1>7, <1>8 DEF Switched
<1> QED
  BY <1>4, <1>5, <1>6, <1>9, <1>10 DEF m

\* A bounded set of numbers has a greatest one.
LEMMA MaxOfBounded ==
    ASSUME NEW n \in Nat, NEW S \in SUBSET (0..n), NEW e \in S
    PROVE  Max(S) \in S /\ \A i \in S : i <= Max(S)
<1> DEFINE T == {i \in Nat : n - i \in S}
<1>1. n - e \in T
  OBVIOUS
<1>2. PICK m \in T : \A i \in T : m <= i
  BY <1>1, Least
<1>3. n - m \in S /\ \A i \in S : n - m >= i
  <2>1. \A i \in S : n - i \in T
    OBVIOUS
  <2> QED
    BY <1>2, <2>1
<1> QED
  BY <1>3 DEF Max

\* The idle task is ready, with the lowest priority.
IdleReady(k) == Idle \in ReadyTasks(k) /\ k.prio[Idle] = 0

\* Only yield, xYieldPending, differs.
LEMMA SetYield ==
    ASSUME NEW k \in Kernel, Apart(k), NEW y \in BOOLEAN
    PROVE  LET m == [k EXCEPT !.yield = y] IN
           /\ m \in Kernel /\ Apart(m) /\ m.yield = y /\ Switched(k, m) /\ m.cur = k.cur
           /\ m.top = k.top /\ m.ready = k.ready
<1> DEFINE m == [k EXCEPT !.yield = y]
<1>1. m \in Kernel
  BY DEF Kernel
<1>2. /\ m.yield = y /\ m.cur = k.cur /\ m.top = k.top /\ m.ready = k.ready
      /\ m.delayed = k.delayed /\ m.overflow = k.overflow /\ m.dead = k.dead
      /\ m.suspended = k.suspended /\ m.wake = k.wake /\ m.next = k.next
      /\ m.locks = k.locks /\ m.running = k.running
  BY DEF Kernel
<1>3. SameTasks(k, m) /\ SameClock(k, m) /\ SameEvents(k, m)
  BY DEF Kernel, SameTasks, SameClock, SameEvents
<1> HIDE DEF m
<1>4. Apart(m) /\ ReadyTasks(m) = ReadyTasks(k)
  BY <1>2, <1>3, ApartSame DEF SameTasks
<1>5. Switched(k, m)
  BY <1>2, <1>3, <1>4 DEF Switched
<1> QED
  BY <1>1, <1>2, <1>4, <1>5 DEF m

\* vTaskSwitchContext: a ready task runs, one of the highest priority if
\* uxTopReadyPriority is not too low.
LEMMA SwitchContext ==
    ASSUME NEW k \in Kernel, Apart(k), IdleReady(k)
    PROVE  LET m == vTaskSwitchContext(k) IN
           /\ m \in Kernel /\ Apart(m) /\ Switched(k, m)
           /\ k.locks # 0 => m.cur = k.cur /\ m.top = k.top /\ m.yield = TRUE
           /\ k.locks = 0 =>
                 /\ m.yield = FALSE /\ m.cur \in ReadyTasks(k) /\ m.top = k.prio[m.cur]
                 /\ (\A u \in ReadyTasks(k) : k.prio[u] <= k.top) =>
                       \A u \in ReadyTasks(k) : k.prio[u] <= k.prio[m.cur]
<1> DEFINE m == vTaskSwitchContext(k)
<1>1. CASE k.locks # 0
  <2>1. m = [k EXCEPT !.yield = TRUE]
    BY <1>1 DEF vTaskSwitchContext
  <2> QED
    BY <1>1, <2>1, SetYield
<1>2. CASE k.locks = 0
  <2> DEFINE a == [k EXCEPT !.yield = FALSE]
             S == {p \in 0..a.top : ~listLIST_IS_EMPTY(a.ready[p])}
             q == Max(S)
  <2>1. m = SelectFrom(a, q)
    BY <1>2 DEF vTaskSwitchContext, taskSELECT_HIGHEST_PRIORITY_TASK
  <2>2. /\ a \in Kernel /\ Apart(a) /\ a.yield = FALSE /\ Switched(k, a)
        /\ a.top = k.top /\ a.ready = k.ready
    BY SetYield
  <2> HIDE DEF a, m
  <2>3. a.top \in Nat /\ 0..a.top \subseteq Priority /\ 0 \in Priority
    <3>1. a.top \in Priority
      BY <2>2, KernelFields
    <3> QED
      BY <3>1, TasksAssumption DEF Priority
  <2>4. \A p \in Priority : ~listLIST_IS_EMPTY(a.ready[p]) <=> Items(a.ready[p]) # {}
    BY <2>2, ReadyRings
  <2>5. Idle \in Items(a.ready[0])
    <3>1. Idle \in ReadyTasks(a) /\ a.prio[Idle] = 0
      BY <2>2 DEF IdleReady, Switched, SameTasks
    <3> QED
      BY <2>2, <2>3, <3>1, ReadyHere
  <2>6. 0 \in S /\ S \in SUBSET (0..a.top)
    BY <2>3, <2>4, <2>5
  <2>7. q \in S /\ \A i \in S : i <= q
    BY <2>3, <2>6, MaxOfBounded
  <2>8. q \in Priority /\ Items(a.ready[q]) # {}
    BY <2>3, <2>4, <2>7
  <2>9. \A p \in Priority : p <= a.top /\ Items(a.ready[p]) # {} => p <= q
    BY <2>3, <2>4, <2>7 DEF Priority
  <2> HIDE DEF S, q
  <2>10. /\ m \in Kernel /\ Apart(m) /\ Switched(a, m) /\ m.yield = a.yield /\ m.top = q
         /\ m.cur \in ReadyTasks(a) /\ a.prio[m.cur] = q
    BY <2>1, <2>2, <2>8, Select
  <2>11. Switched(k, m)
    BY <2>2, <2>10 DEF Switched, SameTasks, SameClock, SameEvents
  <2>12. ReadyTasks(a) = ReadyTasks(k) /\ a.prio = k.prio
    BY <2>2 DEF Switched, SameTasks
  <2>13. ASSUME \A u \in ReadyTasks(k) : k.prio[u] <= k.top, NEW u \in ReadyTasks(k)
         PROVE  k.prio[u] <= k.prio[m.cur]
    <3>1. u \in Items(a.ready[a.prio[u]]) /\ a.prio[u] \in Priority
      BY <2>2, <2>12, ReadyHere, KernelFields
    <3>2. a.prio[u] <= a.top
      BY <2>2, <2>12, <2>13
    <3> QED
      BY <2>9, <2>10, <2>12, <3>1, <3>2
  <2> QED
    BY <1>2, <2>2, <2>10, <2>11, <2>12, <2>13 DEF m
<1> QED
  BY <1>1, <1>2

-----------------------------------------------------------------------------
(* Time.                                                                   *)

\* The tasks of the current delayed list wake in this round of the tick
\* counter, those of the other one in the next, and xNextTaskUnblockTime is
\* not too late.
Timed(k) ==
    /\ \A t \in ToSet(k.delayed) : k.wake[t] > k.tick /\ k.next <= k.wake[t]
    /\ \A t \in ToSet(k.overflow) : k.wake[t] < k.tick

\* The current task has left its list for one of the lists it waits in.
Blocks(k, m, t) ==
    /\ ReadyTasks(m) = ReadyTasks(k) \ {t} /\ ToSet(m.dead) = ToSet(k.dead) \ {t}
    /\ t \in Blocked(m) \cup m.suspended
    /\ \A u \in Task \ {t} :
          /\ u \in ToSet(m.delayed) <=> u \in ToSet(k.delayed)
          /\ u \in ToSet(m.overflow) <=> u \in ToSet(k.overflow)
          /\ u \in m.suspended <=> u \in k.suspended
          /\ m.wake[u] = k.wake[u]
    /\ m.top = k.top /\ m.yield = k.yield
    /\ SameTasks(k, m) /\ SameClock(k, m) /\ SameCpu(k, m) /\ SameEvents(k, m)

\* The arithmetic of a wake time.
LEMMA WakeTime ==
    ASSUME NEW a \in Tick, NEW n \in Tick \ {0}
    PROVE  TimeToWake(a, n) \in Tick /\ TimeToWake(a, n) # a
BY TicksAssumption, Z3 DEF Tick, TimeToWake

\* Inserting a task that is not there.
LEMMA TaskInsert ==
    ASSUME NEW s \in TaskList, NEW t \in Task, t \notin ToSet(s), NEW v \in [Task -> Int], Sorted(s, v)
    PROVE  /\ vListInsert(s, t, v) \in TaskList
           /\ ToSet(vListInsert(s, t, v)) = ToSet(s) \cup {t}
           /\ Sorted(vListInsert(s, t, v), v)
<1>1. s \in Seq(Task) /\ IsInjective(s)
  BY TaskLists
<1>2. /\ vListInsert(s, t, v) \in Seq(Task)
      /\ ToSet(vListInsert(s, t, v)) = ToSet(s) \cup {t}
      /\ IsInjective(vListInsert(s, t, v))
      /\ Sorted(vListInsert(s, t, v), v)
  BY <1>1, InsertItems
<1> QED
  BY <1>2 DEF TaskList

\* prvAddCurrentTaskToDelayedList.
LEMMA AddDelayed ==
    ASSUME NEW k \in Kernel, Apart(k), Timed(k), k.cur \in Task, NEW n \in Tick \ {0}, NEW c \in BOOLEAN
    PROVE  LET m == prvAddCurrentTaskToDelayedList(k, n, c) IN
           /\ m \in Kernel /\ Apart(m) /\ Timed(m) /\ Blocks(k, m, k.cur)
           /\ ~c => k.cur \in Blocked(m)
<1> DEFINE t == k.cur
           x == TimeToWake(k.tick, n)
           a == RemoveStateItem(k, t)
           w == [a.wake EXCEPT ![t] = x]
           m == prvAddCurrentTaskToDelayedList(k, n, c)
<1>1. /\ a \in Kernel /\ Apart(a) /\ t \notin Hung(a)
      /\ ReadyTasks(a) = ReadyTasks(k) \ {t} /\ ToSet(a.delayed) = ToSet(k.delayed) \ {t}
      /\ ToSet(a.overflow) = ToSet(k.overflow) \ {t} /\ ToSet(a.dead) = ToSet(k.dead) \ {t}
      /\ a.suspended = k.suspended \ {t}
      /\ \A u \in Task \ {t} : a.wake[u] = k.wake[u]
      /\ a.top = k.top /\ a.next = k.next /\ a.yield = k.yield
      /\ SameTasks(k, a) /\ SameClock(k, a) /\ SameCpu(k, a) /\ SameEvents(k, a)
  BY RemoveStateSets
<1>2. k.tick \in Tick /\ x \in Tick /\ x # k.tick
  BY KernelFields, WakeTime
<1> HIDE DEF a, x
<1>3. /\ w \in WakeTimes /\ w[t] = x /\ \A u \in Task \ {t} : w[u] = k.wake[u]
  BY <1>1, <1>2, KernelFields DEF WakeTimes
<1>4. w \in [Task -> Int]
  BY <1>3 DEF WakeTimes, Tick
<1>5. /\ a.delayed \in TaskList /\ a.overflow \in TaskList /\ a.suspended \in SUBSET Task
      /\ a.dead \in TaskList
      /\ t \notin ToSet(a.delayed) /\ t \notin ToSet(a.overflow) /\ t \notin a.suspended
      /\ t \notin ToSet(a.dead) /\ t \notin ReadyTasks(a)
  BY <1>1, KernelFields DEF Hung, Blocked
<1>6. ToSet(a.delayed) \subseteq Task \ {t} /\ ToSet(a.overflow) \subseteq Task \ {t}
  BY <1>5, TaskLists
<1>7. Sorted(a.delayed, w) /\ Sorted(a.overflow, w)
  <2>1. Sorted(a.delayed, a.wake) /\ Sorted(a.overflow, a.wake)
    BY <1>1 DEF Apart
  <2>2. (\A u \in ToSet(a.delayed) : a.wake[u] = w[u]) /\ (\A u \in ToSet(a.overflow) : a.wake[u] = w[u])
    BY <1>1, <1>3, <1>6
  <2> QED
    BY <1>5, <2>1, <2>2, SortedSame
<1>8. CASE n = portMAX_DELAY /\ c
  <2> DEFINE s == a.suspended \cup {t}
  <2>1. m = [a EXCEPT !.suspended = s]
    BY <1>8 DEF prvAddCurrentTaskToDelayedList, a
  <2>2. s \in TaskSet
    BY <1>5 DEF TaskSet
  <2> HIDE DEF s, m
  <2>3. m \in Kernel
    BY <1>1, <2>1, <2>2 DEF Kernel
  <2>4. /\ m.suspended = s /\ m.ready = a.ready /\ m.delayed = a.delayed /\ m.overflow = a.overflow
        /\ m.dead = a.dead /\ m.wake = a.wake /\ m.top = a.top /\ m.yield = a.yield /\ m.next = a.next
    BY <1>1, <2>1 DEF Kernel
  <2>5. SameTasks(a, m) /\ SameClock(a, m) /\ SameCpu(a, m) /\ SameEvents(a, m)
    BY <1>1, <2>1 DEF Kernel, SameTasks, SameClock, SameCpu, SameEvents
  <2>6. SameTasks(k, m) /\ SameClock(k, m) /\ SameCpu(k, m) /\ SameEvents(k, m)
    BY <1>1, <2>5 DEF SameTasks, SameClock, SameCpu, SameEvents
  <2>7. ReadyTasks(m) = ReadyTasks(a)
    BY <2>4 DEF ReadyTasks
  <2>8. Apart(m)
    BY <1>1, <1>5, <2>4, <2>5, <2>7 DEF Apart, SameTasks, s
  <2>9. Timed(m)
    BY <1>1, <1>6, <2>4, <2>6 DEF Timed, SameClock
  <2>10. Blocks(k, m, t)
    BY <1>1, <2>4, <2>6, <2>7 DEF Blocks, s
  <2> QED
    BY <1>8, <2>3, <2>8, <2>9, <2>10 DEF m
<1>9. CASE ~(n = portMAX_DELAY /\ c) /\ x < k.tick
  <2> DEFINE s == vListInsert(a.overflow, t, w)
  <2>1. m = [a EXCEPT !.wake = w, !.overflow = s]
    BY <1>1, <1>9 DEF prvAddCurrentTaskToDelayedList, WakeOverflows, a, x, Kernel
  <2>2. s \in TaskList /\ ToSet(s) = ToSet(a.overflow) \cup {t} /\ Sorted(s, w)
    BY <1>4, <1>5, <1>7, TaskInsert
  <2> HIDE DEF s, m, w
  <2>3. m \in Kernel
    BY <1>1, <1>3, <2>1, <2>2 DEF Kernel
  <2>4. /\ m.overflow = s /\ m.ready = a.ready /\ m.delayed = a.delayed /\ m.suspended = a.suspended
        /\ m.dead = a.dead /\ m.wake = w /\ m.top = a.top /\ m.yield = a.yield /\ m.next = a.next
    BY <1>1, <2>1 DEF Kernel
  <2>5. SameTasks(a, m) /\ SameClock(a, m) /\ SameCpu(a, m) /\ SameEvents(a, m)
    BY <1>1, <2>1 DEF Kernel, SameTasks, SameClock, SameCpu, SameEvents
  <2>6. SameTasks(k, m) /\ SameClock(k, m) /\ SameCpu(k, m) /\ SameEvents(k, m)
    BY <1>1, <2>5 DEF SameTasks, SameClock, SameCpu, SameEvents
  <2>7. ReadyTasks(m) = ReadyTasks(a)
    BY <2>4 DEF ReadyTasks
  <2>8. Apart(m)
    BY <1>1, <1>5, <1>7, <2>2, <2>4, <2>5, <2>7 DEF Apart, SameTasks
  <2>9. Timed(m)
    BY <1>1, <1>3, <1>6, <1>9, <2>2, <2>4, <2>6 DEF Timed, SameClock
  <2>10. Blocks(k, m, t) /\ t \in Blocked(m)
    BY <1>1, <1>3, <2>2, <2>4, <2>6, <2>7 DEF Blocks, Blocked
  <2> QED
    BY <2>3, <2>8, <2>9, <2>10 DEF m
<1>10. CASE ~(n = portMAX_DELAY /\ c) /\ ~(x < k.tick)
  <2> DEFINE s == vListInsert(a.delayed, t, w)
             y == Min({a.next, x})
  <2>1. m = [a EXCEPT !.wake = w, !.delayed = s, !.next = y]
    BY <1>1, <1>10 DEF prvAddCurrentTaskToDelayedList, WakeOverflows, a, x, Kernel
  <2>2. s \in TaskList /\ ToSet(s) = ToSet(a.delayed) \cup {t} /\ Sorted(s, w)
    BY <1>4, <1>5, <1>7, TaskInsert
  <2>3. y \in Tick /\ y <= a.next /\ y <= x
    <3>1. a.next \in Tick /\ Tick \subseteq Int
      BY <1>1, KernelFields DEF Tick
    <3> QED
      BY <1>2, <3>1, MinOfTwo
  <2> HIDE DEF s, m, w, y
  <2>4. m \in Kernel
    BY <1>1, <1>3, <2>1, <2>2, <2>3 DEF Kernel
  <2>5. /\ m.delayed = s /\ m.ready = a.ready /\ m.overflow = a.overflow /\ m.suspended = a.suspended
        /\ m.dead = a.dead /\ m.wake = w /\ m.top = a.top /\ m.yield = a.yield /\ m.next = y
    BY <1>1, <2>1 DEF Kernel
  <2>6. SameTasks(a, m) /\ SameClock(a, m) /\ SameCpu(a, m) /\ SameEvents(a, m)
    BY <1>1, <2>1 DEF Kernel, SameTasks, SameClock, SameCpu, SameEvents
  <2>7. SameTasks(k, m) /\ SameClock(k, m) /\ SameCpu(k, m) /\ SameEvents(k, m)
    BY <1>1, <2>6 DEF SameTasks, SameClock, SameCpu, SameEvents
  <2>8. ReadyTasks(m) = ReadyTasks(a)
    BY <2>5 DEF ReadyTasks
  <2>9. Apart(m)
    BY <1>1, <1>5, <1>7, <2>2, <2>5, <2>6, <2>8 DEF Apart, SameTasks
  <2>10. Timed(m)
    <3>1. x > k.tick
      BY <1>2, <1>10 DEF Tick
    <3>2. \A u \in ToSet(a.delayed) : w[u] = k.wake[u] /\ w[u] > k.tick /\ y <= w[u]
      <4>1. \A u \in ToSet(a.delayed) : w[u] = k.wake[u] /\ w[u] > k.tick /\ a.next <= w[u]
        BY <1>1, <1>3, <1>6 DEF Timed
      <4>2. \A u \in ToSet(a.delayed) : w[u] \in Int
        BY <1>4, <1>6 DEF w
      <4>3. y \in Int /\ a.next \in Int
        BY <1>1, <2>3, KernelFields DEF Tick
      <4> QED
        BY <2>3, <4>1, <4>2, <4>3
    <3>3. \A u \in ToSet(a.overflow) : w[u] < k.tick
      BY <1>1, <1>3, <1>6 DEF Timed
    <3> QED
      BY <1>3, <2>2, <2>3, <2>5, <2>7, <3>1, <3>2, <3>3 DEF Timed, SameClock
  <2>11. Blocks(k, m, t) /\ t \in Blocked(m)
    BY <1>1, <1>3, <2>2, <2>5, <2>7, <2>8 DEF Blocks, Blocked
  <2> QED
    BY <2>4, <2>9, <2>10, <2>11 DEF m
<1> QED
  BY <1>8, <1>9, <1>10

\* One task is unblocked, then more.
LEMMA ReadiedThen ==
    ASSUME NEW a \in Kernel, NEW b \in Kernel, NEW c \in Kernel, NEW V, NEW W,
           Readied(a, b, V), Readied(b, c, W)
    PROVE  Readied(a, c, V \cup W)
<1>1. a.top \in Int /\ b.top \in Int /\ c.top \in Int
  BY KernelFields DEF Priority
<1>2. SameTasks(a, c) /\ SameClock(a, c) /\ SameCpu(a, c)
  BY DEF Readied, SameTasks, SameClock, SameCpu
<1>3. c.top >= a.top
  BY <1>1 DEF Readied
<1>4. \A u \in V \cup W : c.top >= a.prio[u]
  <2>1. SUFFICES ASSUME NEW u \in V \cup W PROVE c.top >= a.prio[u]
    OBVIOUS
  <2>2. CASE u \in W
    BY <2>2 DEF Readied, SameTasks
  <2>3. CASE u \in V /\ a.prio[u] \in Int
    BY <1>1, <2>3 DEF Readied
  <2>4. u \in V => a.prio[u] \in Int
    <3>1. u \in V => u \in ReadyTasks(b)
      BY DEF Readied
    <3>2. \A p \in Priority : Items(b.ready[p]) \subseteq Task
      BY ReadyRings
    <3>3. u \in V => u \in Task
      BY <3>1, <3>2 DEF ReadyTasks
    <3> QED
      BY <3>3, KernelFields DEF Priority
  <2> QED
    BY <2>2, <2>3, <2>4
<1>5. \A u \in Task \ (V \cup W) : c.wake[u] = a.wake[u]
  BY DEF Readied
<1> QED
  BY <1>2, <1>3, <1>4, <1>5 DEF Readied

\* Two steps that take event items out of their lists.
LEMMA EventsLeftThen ==
    ASSUME NEW a, NEW b, NEW c, NEW V, NEW W, EventsLeft(a, b, V), EventsLeft(b, c, W)
    PROVE  EventsLeft(a, c, V \cup W)
BY DEF EventsLeft

\* Taking the event item out of its list.
LEMMA EventRemoved ==
    ASSUME NEW k \in Kernel, NEW t \in Task
    PROVE  LET m == RemoveEventItem(k, t) IN EventsLeft(k, m, {t})
<1> DEFINE m == RemoveEventItem(k, t)
<1>1. m.pending = Unlink(k.pending, t) /\ \A l \in EventList : m.event[l] = Unlink(k.event[l], t)
  BY RemoveEvent
<1>2. k.pending \in TaskList /\ \A l \in EventList : k.event[l] \in TaskList
  BY KernelFields
<1> HIDE DEF m
<1>3. ToSet(m.pending) = ToSet(k.pending) \ {t}
  BY <1>1, <1>2, TaskUnlink
<1>4. ASSUME NEW l \in EventList
      PROVE  /\ ToSet(m.event[l]) = ToSet(k.event[l]) \ {t}
             /\ \A value : Sorted(k.event[l], value) => Sorted(m.event[l], value)
  BY <1>1, <1>2, TaskUnlink
<1> QED
  BY <1>3, <1>4 DEF EventsLeft, m

\* Both items of a task are taken out of their lists.
LEMMA RemoveBoth ==
    ASSUME NEW k \in Kernel, Apart(k), NEW t \in Task
    PROVE  LET m == RemoveEventItem(RemoveStateItem(k, t), t) IN
           /\ m \in Kernel /\ Apart(m) /\ t \notin Hung(m)
           /\ ReadyTasks(m) = ReadyTasks(k) \ {t} /\ m.delayed = Unlink(k.delayed, t)
           /\ ToSet(m.delayed) = ToSet(k.delayed) \ {t}
           /\ ToSet(m.overflow) = ToSet(k.overflow) \ {t} /\ ToSet(m.dead) = ToSet(k.dead) \ {t}
           /\ m.suspended = k.suspended \ {t}
           /\ \A u \in Task \ {t} : m.wake[u] = k.wake[u]
           /\ m.top = k.top /\ m.next = k.next /\ m.yield = k.yield
           /\ SameTasks(k, m) /\ SameClock(k, m) /\ SameCpu(k, m) /\ EventsLeft(k, m, {t})
<1> DEFINE a == RemoveStateItem(k, t)
           m == RemoveEventItem(a, t)
<1>1. /\ a \in Kernel /\ Apart(a) /\ t \notin Hung(a)
      /\ ReadyTasks(a) = ReadyTasks(k) \ {t} /\ ToSet(a.delayed) = ToSet(k.delayed) \ {t}
      /\ ToSet(a.overflow) = ToSet(k.overflow) \ {t} /\ ToSet(a.dead) = ToSet(k.dead) \ {t}
      /\ a.suspended = k.suspended \ {t}
      /\ \A u \in Task \ {t} : a.wake[u] = k.wake[u]
      /\ a.top = k.top /\ a.next = k.next /\ a.yield = k.yield
      /\ SameTasks(k, a) /\ SameClock(k, a) /\ SameCpu(k, a) /\ SameEvents(k, a)
  BY RemoveStateSets
<1>2. a.delayed = Unlink(k.delayed, t)
  BY RemoveState
<1> HIDE DEF a
<1>3. /\ m \in Kernel /\ m.top = a.top /\ m.next = a.next /\ m.yield = a.yield
      /\ SameTasks(a, m) /\ SameClock(a, m) /\ SameCpu(a, m) /\ SameState(a, m)
  BY <1>1, RemoveEvent
<1>4. EventsLeft(a, m, {t})
  BY <1>1, EventRemoved
<1> HIDE DEF m
<1>5. SameTasks(k, m) /\ SameClock(k, m) /\ SameCpu(k, m)
  BY <1>1, <1>3 DEF SameTasks, SameClock, SameCpu
<1>6. EventsLeft(k, m, {t})
  BY <1>1, <1>4 DEF SameEvents, EventsLeft
<1>7. Apart(m) /\ ReadyTasks(m) = ReadyTasks(a) /\ Hung(m) = Hung(a)
  BY <1>1, <1>3, ApartSame DEF SameState, SameTasks
<1> QED
  BY <1>1, <1>2, <1>3, <1>5, <1>6, <1>7 DEF SameState, m, a

\* A delayed task is made ready.
LEMMA Unblock ==
    ASSUME NEW k \in Kernel, Apart(k), NEW t \in ToSet(k.delayed)
    PROVE  LET m == prvAddTaskToReadyList(RemoveEventItem(RemoveStateItem(k, t), t), t) IN
           /\ m \in Kernel /\ Apart(m) /\ Readied(k, m, {t}) /\ EventsLeft(k, m, {t})
           /\ m.next = k.next /\ m.yield = k.yield /\ Len(m.delayed) = Len(k.delayed) - 1
<1> DEFINE a == RemoveEventItem(RemoveStateItem(k, t), t)
           m == prvAddTaskToReadyList(a, t)
<1>0. t \in Task /\ k.delayed \in TaskList
  BY KernelFields, TaskLists
<1>1. /\ a \in Kernel /\ Apart(a) /\ t \notin Hung(a)
      /\ ReadyTasks(a) = ReadyTasks(k) \ {t} /\ a.delayed = Unlink(k.delayed, t)
      /\ ToSet(a.delayed) = ToSet(k.delayed) \ {t}
      /\ ToSet(a.overflow) = ToSet(k.overflow) \ {t} /\ ToSet(a.dead) = ToSet(k.dead) \ {t}
      /\ a.suspended = k.suspended \ {t}
      /\ \A u \in Task \ {t} : a.wake[u] = k.wake[u]
      /\ a.top = k.top /\ a.next = k.next /\ a.yield = k.yield
      /\ SameTasks(k, a) /\ SameClock(k, a) /\ SameCpu(k, a) /\ EventsLeft(k, a, {t})
  BY <1>0, RemoveBoth
<1>2. Len(a.delayed) = Len(k.delayed) - 1
  BY <1>0, <1>1, TaskUnlink
<1> HIDE DEF a
<1>3. /\ m \in Kernel /\ Apart(m)
      /\ ReadyTasks(m) = ReadyTasks(a) \cup {t}
      /\ m.delayed = a.delayed /\ m.overflow = a.overflow /\ m.dead = a.dead
      /\ m.suspended = a.suspended /\ m.wake = a.wake
      /\ m.top >= a.top /\ m.top >= a.prio[t]
      /\ m.next = a.next /\ m.yield = a.yield
      /\ SameTasks(a, m) /\ SameClock(a, m) /\ SameCpu(a, m) /\ SameEvents(a, m)
  BY <1>0, <1>1, AddReady
<1> HIDE DEF m
<1>4. SameTasks(k, m) /\ SameClock(k, m) /\ SameCpu(k, m)
  BY <1>1, <1>3 DEF SameTasks, SameClock, SameCpu
<1>5. EventsLeft(k, m, {t})
  BY <1>1, <1>3 DEF SameEvents, EventsLeft
<1>6. \A u \in {t} : m.top >= k.prio[u]
  BY <1>1, <1>3 DEF SameTasks
<1>7. Readied(k, m, {t})
  BY <1>1, <1>3, <1>4, <1>6 DEF Readied
<1> QED
  BY <1>1, <1>2, <1>3, <1>5, <1>7 DEF m, a

\* Between the counting of a tick and the unblocking of tasks: the first
\* tasks of the delayed list may be due.
Counted(k) ==
    /\ \A t \in ToSet(k.delayed) : k.wake[t] >= k.tick /\ k.next <= k.wake[t]
    /\ \A t \in ToSet(k.overflow) : k.wake[t] < k.tick

\* The arithmetic of one tick.
LEMMA OneTick ==
    ASSUME NEW a \in Tick
    PROVE  TimeToWake(a, 1) = IF a + 1 = TickMod THEN 0 ELSE a + 1
BY TicksAssumption, Z3 DEF Tick, TimeToWake

\* The tick count and the delayed lists.
LEMMA CountTick ==
    ASSUME NEW k \in Kernel, Apart(k), Timed(k)
    PROVE  LET m == Count(k) IN
           /\ m \in Kernel /\ Apart(m) /\ Counted(m)
           /\ m.tick = TimeToWake(k.tick, 1) /\ m.pended = k.pended
           /\ ReadyTasks(m) = ReadyTasks(k) /\ Blocked(m) = Blocked(k)
           /\ m.suspended = k.suspended /\ m.dead = k.dead /\ m.wake = k.wake
           /\ m.top = k.top /\ m.yield = k.yield
           /\ SameTasks(k, m) /\ SameCpu(k, m) /\ SameEvents(k, m)
<1> DEFINE x == TimeToWake(k.tick, 1)
           a == [k EXCEPT !.tick = x]
           m == Count(k)
<1>1. k.tick \in Tick /\ x \in Tick /\ x = IF k.tick + 1 = TickMod THEN 0 ELSE k.tick + 1
  BY KernelFields, OneTick, TicksAssumption DEF Tick
<1> HIDE DEF x
<1>2. a \in Kernel
  BY <1>1 DEF Kernel
<1>3. /\ a.tick = x /\ a.pended = k.pended /\ a.overflows = k.overflows
      /\ a.ready = k.ready /\ a.delayed = k.delayed /\ a.overflow = k.overflow
      /\ a.suspended = k.suspended /\ a.dead = k.dead /\ a.wake = k.wake
      /\ a.top = k.top /\ a.yield = k.yield /\ a.next = k.next
      /\ SameTasks(k, a) /\ SameCpu(k, a) /\ SameEvents(k, a)
  BY DEF Kernel, SameTasks, SameCpu, SameEvents
<1>4. m = IF a.tick = 0 THEN taskSWITCH_DELAYED_LISTS(a) ELSE a
  BY DEF Count, x
<1>5. k.delayed \in TaskList /\ k.overflow \in TaskList /\ k.wake \in [Task -> Tick] /\ k.next \in Tick
  BY KernelFields
<1>6. ToSet(k.delayed) \subseteq Task /\ ToSet(k.overflow) \subseteq Task
  BY <1>5, TaskLists
<1>7. \A t \in Task : k.wake[t] \in Tick
  BY <1>5
<1> HIDE DEF a, m
<1>8. Apart(a) /\ ReadyTasks(a) = ReadyTasks(k) /\ Blocked(a) = Blocked(k)
  BY <1>3, ApartSame DEF SameTasks
<1>9. CASE x # 0
  <2>1. m = a
    BY <1>3, <1>4, <1>9
  <2>2. Counted(a)
    <3>1. \A t \in ToSet(k.delayed) : k.wake[t] >= x /\ k.next <= k.wake[t]
      BY <1>1, <1>6, <1>7, <1>9 DEF Timed, Tick
    <3>2. \A t \in ToSet(k.overflow) : k.wake[t] < x
      BY <1>1, <1>6, <1>7, <1>9 DEF Timed, Tick
    <3> QED
      BY <1>3, <3>1, <3>2 DEF Counted
  <2> QED
    BY <1>2, <1>3, <1>8, <2>1, <2>2 DEF x, m
<1>10. CASE x = 0
  <2> DEFINE o == (a.overflows + 1) % OverflowMod
             b == [a EXCEPT !.delayed = a.overflow, !.overflow = a.delayed, !.overflows = o]
  <2>1. m = prvResetNextTaskUnblockTime(b)
    BY <1>3, <1>4, <1>10 DEF taskSWITCH_DELAYED_LISTS
  <2>2. o \in OverflowCount
    BY <1>2, KernelFields, TasksAssumption, Z3 DEF OverflowCount
  <2> HIDE DEF o
  <2>3. a.delayed \in TaskList /\ a.overflow \in TaskList
    BY <1>3, <1>5
  <2>4. b \in Kernel
    BY <1>2, <2>2, <2>3 DEF Kernel
  <2>5. /\ b.delayed = a.overflow /\ b.overflow = a.delayed /\ b.ready = a.ready
        /\ b.suspended = a.suspended /\ b.dead = a.dead /\ b.wake = a.wake
        /\ b.tick = a.tick /\ b.pended = a.pended /\ b.top = a.top /\ b.yield = a.yield
        /\ SameTasks(a, b) /\ SameCpu(a, b) /\ SameEvents(a, b)
    BY <1>2 DEF Kernel, SameTasks, SameCpu, SameEvents
  <2> HIDE DEF b
  <2>6. ReadyTasks(b) = ReadyTasks(a) /\ Blocked(b) = Blocked(a)
    BY <2>5 DEF ReadyTasks, Blocked
  <2>7. Apart(b)
    <3>1. \A p \in Priority : \A t \in Items(b.ready[p]) : b.prio[t] = p
      BY <1>8, <2>5 DEF Apart, SameTasks
    <3> QED
      BY <1>8, <2>5, <2>6, <3>1 DEF Apart
  <2>8. /\ m \in Kernel /\ (b.delayed # <<>> => m.next = b.wake[Head(b.delayed)])
        /\ m.ready = b.ready /\ m.delayed = b.delayed /\ m.overflow = b.overflow
        /\ m.suspended = b.suspended /\ m.dead = b.dead /\ m.wake = b.wake
        /\ m.top = b.top /\ m.yield = b.yield /\ SameTasks(b, m) /\ SameClock(b, m)
        /\ SameCpu(b, m) /\ SameEvents(b, m)
    BY <2>1, <2>4, ResetNext
  <2>9. Apart(m) /\ ReadyTasks(m) = ReadyTasks(b) /\ Blocked(m) = Blocked(b)
    BY <2>7, <2>8, ApartSame DEF SameTasks
  <2>10. m.tick = 0 /\ m.pended = k.pended
    BY <1>3, <1>10, <2>5, <2>8 DEF SameClock
  <2>11. m.delayed = k.overflow /\ m.overflow = k.delayed /\ m.wake = k.wake
    BY <1>3, <2>5, <2>8
  <2>12. ToSet(m.overflow) = {}
    <3>1. k.tick = TickMod - 1
      BY <1>1, <1>10 DEF Tick
    <3> QED
      BY <1>6, <1>7, <2>11, <3>1, TicksAssumption DEF Timed, Tick
  <2>13. \A t \in ToSet(m.delayed) : m.wake[t] >= 0 /\ m.next <= m.wake[t]
    <3> SUFFICES ASSUME NEW t \in ToSet(m.delayed) PROVE m.wake[t] >= 0 /\ m.next <= m.wake[t]
      OBVIOUS
    <3>1. m.delayed # <<>> /\ m.wake[Head(m.delayed)] <= m.wake[t]
      <4>1. Sorted(m.delayed, m.wake) /\ m.delayed \in TaskList /\ m.wake \in [Task -> Tick]
        BY <1>5, <2>9, <2>11 DEF Apart
      <4> QED
        BY <4>1, SortedHead
    <3>2. m.next = m.wake[Head(m.delayed)]
      BY <2>8, <3>1
    <3>3. m.wake[t] \in Tick
      BY <1>6, <1>7, <2>11
    <3> QED
      BY <3>1, <3>2, <3>3 DEF Tick
  <2>14. Counted(m)
    BY <2>10, <2>12, <2>13 DEF Counted
  <2>15. SameTasks(k, m) /\ SameCpu(k, m) /\ SameEvents(k, m)
    BY <1>3, <2>5, <2>8 DEF SameTasks, SameCpu, SameEvents
  <2> QED
    BY <1>3, <1>8, <1>10, <2>5, <2>6, <2>8, <2>9, <2>10, <2>14, <2>15 DEF x, m
<1> QED
  BY <1>9, <1>10

\* The loop of xTaskIncrementTick, in which b is the state after i rounds
\* from state c: the tasks that were first in the delayed list and due are
\* ready.
UnblockInv(c, i, b) ==
    LET m == b.k
        W == ToSet(c.delayed) \ ToSet(m.delayed)
    IN  /\ b = [k |-> m, switch |-> b.switch] /\ b.switch \in BOOLEAN
        /\ m \in Kernel /\ Apart(m) /\ Readied(c, m, W) /\ EventsLeft(c, m, W)
        /\ m.next = c.next /\ m.yield = c.yield
        /\ \A t \in W : c.wake[t] <= c.tick
        /\ ~b.switch => \A t \in W : c.prio[t] <= c.prio[c.cur]
        /\ Len(m.delayed) <= Len(c.delayed) - i \/ ~Due(m)

Unblocking == INSTANCE LoopProofs WITH Op <- UnblockFirst, Inv <- UnblockInv

\* One round.
LEMMA UnblockRound ==
    ASSUME NEW c \in Kernel, Apart(c), c.cur \in Task, NEW i \in Nat, NEW b, UnblockInv(c, i, b)
    PROVE  UnblockInv(c, i + 1, UnblockFirst(b))
<1> DEFINE m == b.k
           t == Head(m.delayed)
           W == ToSet(c.delayed) \ ToSet(m.delayed)
<1>1. /\ b = [k |-> m, switch |-> b.switch] /\ b.switch \in BOOLEAN
      /\ m \in Kernel /\ Apart(m) /\ Readied(c, m, W) /\ EventsLeft(c, m, W)
      /\ m.next = c.next /\ m.yield = c.yield
      /\ \A u \in W : c.wake[u] <= c.tick
      /\ ~b.switch => \A u \in W : c.prio[u] <= c.prio[c.cur]
      /\ Len(m.delayed) <= Len(c.delayed) - i \/ ~Due(m)
  BY DEF UnblockInv
<1>2. Len(c.delayed) \in Nat /\ Len(m.delayed) \in Nat
  <2>1. c.delayed \in Seq(Task) /\ m.delayed \in Seq(Task)
    BY <1>1, KernelFields, TaskLists
  <2> QED
    BY <2>1
<1>3. CASE ~Due(m)
  <2>1. UnblockFirst(b) = b
    BY <1>3 DEF UnblockFirst
  <2> QED
    BY <1>1, <1>3, <2>1 DEF UnblockInv
<1>4. CASE Due(m)
  <2> DEFINE n == prvAddTaskToReadyList(RemoveEventItem(RemoveStateItem(m, t), t), t)
             s == b.switch \/ m.prio[t] > m.prio[m.cur]
             V == ToSet(c.delayed) \ ToSet(n.delayed)
  <2>1. UnblockFirst(b) = [k |-> n, switch |-> s]
    BY <1>4 DEF UnblockFirst
  <2>2. m.delayed \in TaskList /\ m.delayed # <<>> /\ m.wake[t] <= m.tick
    BY <1>1, <1>4, KernelFields DEF Due
  <2>3. t \in ToSet(m.delayed) /\ t \in Task
    BY <2>2, TaskLists
  <2>4. /\ n \in Kernel /\ Apart(n) /\ Readied(m, n, {t}) /\ EventsLeft(m, n, {t})
        /\ n.next = m.next /\ n.yield = m.yield /\ Len(n.delayed) = Len(m.delayed) - 1
    BY <1>1, <2>3, Unblock
  <2> HIDE DEF m, n, t
  <2>5. ToSet(m.delayed) = ToSet(c.delayed) \ W /\ ToSet(n.delayed) = ToSet(m.delayed) \ {t}
    BY <1>1, <2>4 DEF Readied
  <2>6. V = W \cup {t} /\ t \notin W
    BY <2>3, <2>5
  <2> HIDE DEF V, W
  <2>7. Readied(c, n, V) /\ EventsLeft(c, n, V)
    <3>1. Readied(c, n, W \cup {t})
      BY <1>1, <2>4, ReadiedThen
    <3>2. EventsLeft(c, n, W \cup {t})
      BY <1>1, <2>4, EventsLeftThen
    <3> QED
      BY <2>6, <3>1, <3>2
  <2>8. m.prio = c.prio /\ m.cur = c.cur /\ m.tick = c.tick /\ m.wake[t] = c.wake[t]
    BY <1>1, <2>3, <2>6 DEF Readied, SameTasks, SameCpu, SameClock
  <2>9. \A u \in V : c.wake[u] <= c.tick
    BY <1>1, <2>2, <2>6, <2>8
  <2>10. s \in BOOLEAN /\ (~s => \A u \in V : c.prio[u] <= c.prio[c.cur])
    <3>1. c.prio[t] \in Int /\ c.prio[c.cur] \in Int
      BY <2>3, KernelFields DEF Priority
    <3> QED
      BY <1>1, <2>6, <2>8, <3>1
  <2>11. Len(n.delayed) <= Len(c.delayed) - (i + 1)
    BY <1>1, <1>2, <1>4, <2>4
  <2>12. n.next = c.next /\ n.yield = c.yield
    BY <1>1, <2>4
  <2> HIDE DEF s
  <2>13. UnblockInv(c, i + 1, [k |-> n, switch |-> s])
    BY <2>4, <2>7, <2>9, <2>10, <2>11, <2>12 DEF UnblockInv, V
  <2> QED
    BY <2>1, <2>13
<1> QED
  BY <1>3, <1>4

\* The whole loop: whoever is due is ready, and nobody else.
LEMMA UnblockAll ==
    ASSUME NEW k \in Kernel, Apart(k), Counted(k), k.cur \in Task
    PROVE  LET r == UnblockExpired(k)
               m == r.k
               W == ToSet(k.delayed) \ ToSet(m.delayed)
           IN  /\ r = [k |-> m, switch |-> r.switch] /\ r.switch \in BOOLEAN
               /\ m \in Kernel /\ Apart(m) /\ Timed(m) /\ Readied(k, m, W) /\ EventsLeft(k, m, W)
               /\ m.yield = k.yield
               /\ \A t \in W : k.wake[t] = k.tick
               /\ ~r.switch => \A t \in W : k.prio[t] <= k.prio[k.cur]
<1> DEFINE n == Len(k.delayed)
           s == [k |-> k, switch |-> FALSE]
           b == Iterate(UnblockFirst, n, s)
           a == b.k
           m == prvResetNextTaskUnblockTime(a)
           W == ToSet(k.delayed) \ ToSet(a.delayed)
<1>1. n \in Nat /\ k.delayed \in TaskList
  BY KernelFields, TaskLists
<1>2. UnblockInv(k, 0, s)
  <2>1. Readied(k, k, {}) /\ EventsLeft(k, k, {})
    <3>1. k.top \in Int
      BY KernelFields DEF Priority
    <3> QED
      BY <3>1 DEF Readied, EventsLeft, SameTasks, SameClock, SameCpu
  <2>2. ToSet(k.delayed) \ ToSet(k.delayed) = {}
    OBVIOUS
  <2>3. s = [k |-> k, switch |-> FALSE] /\ s.k = k /\ s.switch = FALSE
    OBVIOUS
  <2>4. Len(k.delayed) <= Len(k.delayed) - 0
    BY <1>1
  <2> HIDE DEF s, n
  <2> QED
    BY <2>1, <2>2, <2>3, <2>4 DEF UnblockInv
<1>3. \A i \in 0..(n - 1) : \A c : UnblockInv(k, i, c) => UnblockInv(k, i + 1, UnblockFirst(c))
  BY UnblockRound
<1> HIDE DEF n, s
<1>4. UnblockInv(k, n, b)
  BY <1>1, <1>2, <1>3, Unblocking!LoopInvariant DEF Iterate, Unblocking!Iterate
<1> HIDE DEF b
<1>5. /\ b = [k |-> a, switch |-> b.switch] /\ b.switch \in BOOLEAN
      /\ a \in Kernel /\ Apart(a) /\ Readied(k, a, W) /\ EventsLeft(k, a, W)
      /\ a.next = k.next /\ a.yield = k.yield
      /\ \A t \in W : k.wake[t] <= k.tick
      /\ ~b.switch => \A t \in W : k.prio[t] <= k.prio[k.cur]
      /\ Len(a.delayed) <= Len(k.delayed) - n \/ ~Due(a)
  <2> HIDE DEF W, a
  <2>1. a = b.k /\ W = ToSet(k.delayed) \ ToSet(a.delayed)
    BY DEF a, W
  <2> QED
    BY <1>4, <2>1 DEF UnblockInv
<1>6. UnblockExpired(k) = [k |-> m, switch |-> b.switch]
  <2>1. UnblockExpired(k) = [b EXCEPT !.k = prvResetNextTaskUnblockTime(@)]
    BY Zenon DEF UnblockExpired, b, n, s
  <2>2. b = [k |-> a, switch |-> b.switch]
    BY <1>5
  <2> QED
    BY <2>1, <2>2
<1> HIDE DEF a
<1>7. a.delayed \in TaskList /\ a.delayed \in Seq(Task) /\ a.wake \in [Task -> Tick] /\ a.tick \in Tick
  BY <1>5, KernelFields, TaskLists
<1>8. ~Due(a)
  <2>1. Len(a.delayed) <= 0 => a.delayed = <<>>
    BY <1>7
  <2>2. Len(k.delayed) - n = 0
    BY <1>1 DEF n
  <2> QED
    BY <1>5, <2>1, <2>2 DEF Due
<1>9. /\ m \in Kernel /\ (a.delayed # <<>> => m.next = a.wake[Head(a.delayed)])
      /\ m.ready = a.ready /\ m.delayed = a.delayed /\ m.overflow = a.overflow
      /\ m.suspended = a.suspended /\ m.dead = a.dead /\ m.wake = a.wake
      /\ m.top = a.top /\ m.yield = a.yield /\ SameTasks(a, m) /\ SameClock(a, m)
      /\ SameCpu(a, m) /\ SameEvents(a, m)
  BY <1>5, ResetNext
<1> HIDE DEF m
<1>10. Apart(m) /\ ReadyTasks(m) = ReadyTasks(a)
  BY <1>5, <1>9, ApartSame DEF SameTasks
<1>11. Readied(k, m, W) /\ EventsLeft(k, m, W)
  <2>1. SameTasks(k, m) /\ SameClock(k, m) /\ SameCpu(k, m)
    BY <1>5, <1>9 DEF Readied, SameTasks, SameClock, SameCpu
  <2>2. Readied(k, m, W)
    BY <1>5, <1>9, <1>10, <2>1 DEF Readied
  <2> QED
    BY <1>5, <1>9, <2>2 DEF EventsLeft, SameEvents
<1>12. ToSet(a.delayed) \subseteq Task
  BY <1>7, TaskLists
<1>13. \A t \in ToSet(m.delayed) : m.wake[t] > m.tick /\ m.next <= m.wake[t]
  <2> SUFFICES ASSUME NEW t \in ToSet(a.delayed)
               PROVE  a.wake[t] > a.tick /\ m.next <= a.wake[t]
    BY <1>9 DEF SameClock
  <2>1. a.delayed # <<>> /\ a.wake[Head(a.delayed)] <= a.wake[t]
    <3>1. Sorted(a.delayed, a.wake)
      BY <1>5 DEF Apart
    <3> QED
      BY <1>7, <3>1, SortedHead
  <2>2. Head(a.delayed) \in Task /\ t \in Task
    BY <1>7, <1>12, <2>1, TaskLists
  <2>3. a.wake[Head(a.delayed)] > a.tick
    BY <1>7, <1>8, <2>1, <2>2 DEF Due, Tick
  <2> QED
    BY <1>7, <1>9, <2>1, <2>2, <2>3 DEF Tick
<1>14. \A t \in ToSet(m.overflow) : m.wake[t] < m.tick
  <2>1. \A t \in ToSet(m.overflow) : t \in ToSet(k.overflow) /\ t \in Task \ W
    <3>1. k.overflow \in TaskList
      BY KernelFields
    <3> QED
      BY <1>11, <3>1, TaskLists DEF Readied
  <2> QED
    BY <1>11, <2>1 DEF Readied, SameClock, Counted
<1>15. \A t \in W : k.wake[t] = k.tick
  <2>1. \A t \in W : t \in ToSet(k.delayed) /\ k.wake[t] \in Int
    BY <1>1, KernelFields, TaskLists DEF Tick
  <2>2. k.tick \in Int
    BY KernelFields DEF Tick
  <2> QED
    BY <1>5, <2>1, <2>2 DEF Counted
<1>16. W = ToSet(k.delayed) \ ToSet(m.delayed)
  BY <1>9
<1>17. Timed(m)
  BY <1>13, <1>14 DEF Timed
<1> HIDE DEF W
<1>18. UnblockExpired(k).k = m /\ UnblockExpired(k).switch = b.switch
  BY <1>6
<1>19. m.yield = k.yield /\ (~b.switch => \A t \in W : k.prio[t] <= k.prio[k.cur])
  BY <1>5, <1>9
<1> QED
  BY <1>5, <1>6, <1>9, <1>10, <1>11, <1>15, <1>16, <1>17, <1>18, <1>19, Zenon

\* xTaskIncrementTick when the scheduler is not suspended: the tasks that
\* become ready are those whose time has come, and if none of them must be
\* switched to, none has a higher priority than the current task.
LEMMA TickTasks ==
    ASSUME NEW k \in Kernel, Apart(k), Timed(k), k.cur \in Task
    PROVE  LET r == Ticked(k)
               m == r.k
               W == ReadyTasks(m) \ ReadyTasks(k)
           IN  /\ r.switch \in BOOLEAN
               /\ m \in Kernel /\ Apart(m) /\ Timed(m) /\ Woken(k, m, W)
               /\ m.tick = TimeToWake(k.tick, 1) /\ m.pended = k.pended /\ m.yield = k.yield
               /\ \A t \in W : k.wake[t] = m.tick
               /\ ~r.switch => ~m.yield /\ \A t \in W : k.prio[t] <= k.prio[k.cur]
<1> DEFINE a == Count(k)
           e == UnblockExpired(a)
           b == IF a.tick >= a.next THEN e ELSE [k |-> a, switch |-> FALSE]
           m == b.k
           s == \/ b.switch
                \/ listCURRENT_LIST_LENGTH(m.ready[k.prio[k.cur]]) > 1
                \/ m.yield
           V == ToSet(a.delayed) \ ToSet(m.delayed)
           W == ReadyTasks(m) \ ReadyTasks(k)
<1>1. Ticked(k) = [k |-> m, switch |-> s]
  BY DEF Ticked
<1>2. /\ a \in Kernel /\ Apart(a) /\ Counted(a)
      /\ a.tick = TimeToWake(k.tick, 1) /\ a.pended = k.pended
      /\ ReadyTasks(a) = ReadyTasks(k) /\ Blocked(a) = Blocked(k)
      /\ a.suspended = k.suspended /\ a.dead = k.dead /\ a.wake = k.wake
      /\ a.top = k.top /\ a.yield = k.yield
      /\ SameTasks(k, a) /\ SameCpu(k, a) /\ SameEvents(k, a)
  BY CountTick
<1> HIDE DEF a
<1>3. a.cur \in Task /\ a.cur = k.cur /\ a.prio = k.prio
  BY <1>2 DEF SameCpu, SameTasks
<1>4. /\ m \in Kernel /\ Apart(m) /\ Timed(m) /\ Readied(a, m, V) /\ EventsLeft(a, m, V)
      /\ m.yield = a.yield /\ b.switch \in BOOLEAN
      /\ \A t \in V : a.wake[t] = a.tick
      /\ ~b.switch => \A t \in V : a.prio[t] <= a.prio[a.cur]
  <2>1. CASE a.tick >= a.next
    <3>1. b = e
      BY <2>1
    <3> HIDE DEF b, e
    <3> QED
      BY <1>2, <1>3, <3>1, UnblockAll DEF e
  <2>2. CASE ~(a.tick >= a.next)
    <3>1. m = a /\ b.switch = FALSE /\ V = {}
      BY <2>2
    <3>2. Timed(a)
      <4>1. a.tick \in Int /\ a.next \in Int /\ \A t \in ToSet(a.delayed) : a.wake[t] \in Int
        <5>1. a.delayed \in TaskList /\ a.wake \in [Task -> Tick] /\ a.tick \in Tick /\ a.next \in Tick
          BY <1>2, KernelFields
        <5> QED
          BY <5>1, TaskLists DEF Tick
      <4> QED
        BY <1>2, <2>2, <4>1 DEF Counted, Timed
    <3>3. Readied(a, a, {}) /\ EventsLeft(a, a, {})
      <4>1. a.top \in Int
        BY <1>2, KernelFields DEF Priority
      <4> QED
        BY <4>1 DEF Readied, EventsLeft, SameTasks, SameClock, SameCpu
    <3> QED
      BY <1>2, <3>1, <3>2, <3>3
  <2> QED
    BY <2>1, <2>2
<1> HIDE DEF b, m, s
<1>5. V \subseteq ToSet(a.delayed) /\ V \subseteq Blocked(a)
  BY DEF Blocked
<1>6. \A t \in V : t \notin ReadyTasks(a) /\ t \notin ToSet(a.overflow) /\ t \notin a.suspended /\ t \notin ToSet(a.dead)
  BY <1>2, <1>5 DEF Apart
<1> HIDE DEF V
<1>7. W = V
  BY <1>2, <1>4, <1>6 DEF Readied
<1>8. /\ ReadyTasks(m) = ReadyTasks(k) \cup V /\ Blocked(m) = Blocked(k) \ V
      /\ m.suspended = k.suspended /\ ToSet(m.dead) = ToSet(k.dead)
  BY <1>2, <1>4, <1>6 DEF Readied, Blocked
<1>9. SameTasks(k, m) /\ SameCpu(k, m) /\ EventsLeft(k, m, V)
  BY <1>2, <1>4 DEF Readied, SameTasks, SameCpu, SameEvents, EventsLeft
<1>10. /\ \A u \in Task \ V : m.wake[u] = k.wake[u]
       /\ m.top >= k.top /\ \A u \in V : m.top >= k.prio[u]
  BY <1>2, <1>3, <1>4 DEF Readied
<1>11. Woken(k, m, V)
  BY <1>2, <1>5, <1>8, <1>9, <1>10 DEF Woken
<1>12. m.tick = TimeToWake(k.tick, 1) /\ m.pended = k.pended /\ m.yield = k.yield
  BY <1>2, <1>4 DEF Readied, SameClock
<1>13. \A t \in V : k.wake[t] = m.tick
  BY <1>2, <1>4, <1>12
<1>14. s \in BOOLEAN /\ (~s => ~m.yield /\ ~b.switch)
  BY DEF s
<1> HIDE DEF W
<1> QED
  BY <1>1, <1>3, <1>4, <1>7, <1>11, <1>12, <1>13, <1>14 DEF W

-----------------------------------------------------------------------------
(* Resuming the scheduler.                                                 *)

\* Tasks that leave the delayed lists leave the others in time.
LEMMA TimedAfter ==
    ASSUME NEW k \in Kernel, NEW m, NEW W, Timed(k), Readied(k, m, W), m.next = k.next
    PROVE  Timed(m)
<1>1. ToSet(k.delayed) \subseteq Task /\ ToSet(k.overflow) \subseteq Task
  BY KernelFields, TaskLists
<1>2. m.tick = k.tick
  BY DEF Readied, SameClock
<1>3. \A t \in ToSet(m.delayed) : t \in ToSet(k.delayed) /\ m.wake[t] = k.wake[t]
  BY <1>1 DEF Readied
<1>4. \A t \in ToSet(m.overflow) : t \in ToSet(k.overflow) /\ m.wake[t] = k.wake[t]
  BY <1>1 DEF Readied
<1> QED
  BY <1>2, <1>3, <1>4 DEF Timed

\* Nobody moves.
LEMMA ReadiedNobody ==
    ASSUME NEW k \in Kernel
    PROVE  Readied(k, k, {}) /\ EventsLeft(k, k, {})
<1>1. k.top \in Int
  BY KernelFields DEF Priority
<1> QED
  BY <1>1 DEF Readied, EventsLeft, SameTasks, SameClock, SameCpu

\* The loop of xTaskResumeAll over xPendingReadyList.
FlushInv(c, i, b) ==
    LET W == ToSet(c.pending) \ ToSet(b.pending)
    IN  /\ b \in Kernel /\ Apart(b) /\ Readied(c, b, W) /\ EventsLeft(c, b, W)
        /\ b.next = c.next
        /\ ~b.yield => ~c.yield /\ \A t \in W : c.prio[t] < c.prio[c.cur]
        /\ Len(b.pending) <= Len(c.pending) - i

Flushing == INSTANCE LoopProofs WITH Op <- FlushFirst, Inv <- FlushInv

\* One round.
LEMMA FlushRound ==
    ASSUME NEW c \in Kernel, Apart(c), c.cur \in Task, NEW i \in 0..(Len(c.pending) - 1), NEW b,
           FlushInv(c, i, b)
    PROVE  FlushInv(c, i + 1, FlushFirst(b))
<1> DEFINE t == Head(b.pending)
           W == ToSet(c.pending) \ ToSet(b.pending)
<1>1. /\ b \in Kernel /\ Apart(b) /\ Readied(c, b, W) /\ EventsLeft(c, b, W)
      /\ b.next = c.next
      /\ ~b.yield => ~c.yield /\ \A u \in W : c.prio[u] < c.prio[c.cur]
      /\ Len(b.pending) <= Len(c.pending) - i
  BY DEF FlushInv
<1>2. Len(c.pending) \in Nat /\ Len(b.pending) \in Nat /\ b.pending \in TaskList
  <2>1. c.pending \in Seq(Task) /\ b.pending \in Seq(Task) /\ b.pending \in TaskList
    BY <1>1, KernelFields, TaskLists
  <2> QED
    BY <2>1
<1>3. CASE b.pending = <<>>
  <2>1. FlushFirst(b) = b
    BY <1>3 DEF FlushFirst
  <2>2. Len(b.pending) <= Len(c.pending) - (i + 1)
    BY <1>2, <1>3
  <2> QED
    BY <1>1, <2>1, <2>2 DEF FlushInv
<1>4. CASE b.pending # <<>>
  <2> DEFINE a == RemoveEventItem(b, t)
             n == MoveToReady(a, t)
             y == n.yield \/ b.prio[t] >= b.prio[b.cur]
             m == [n EXCEPT !.yield = y]
             V == ToSet(c.pending) \ ToSet(m.pending)
  <2>1. FlushFirst(b) = m
    BY <1>4 DEF FlushFirst
  <2>2. t \in ToSet(b.pending) /\ t \in Task
    BY <1>2, <1>4, TaskLists
  <2>3. /\ a \in Kernel /\ a.top = b.top /\ a.next = b.next /\ a.yield = b.yield
        /\ SameTasks(b, a) /\ SameClock(b, a) /\ SameCpu(b, a) /\ SameState(b, a)
        /\ a.pending = Unlink(b.pending, t)
    BY <1>1, <2>2, RemoveEvent
  <2>4. EventsLeft(b, a, {t})
    BY <1>1, <2>2, EventRemoved
  <2> HIDE DEF a
  <2>5. Apart(a) /\ ReadyTasks(a) = ReadyTasks(b)
    BY <1>1, <2>3, ApartSame DEF SameState, SameTasks
  <2>6. /\ n \in Kernel /\ Apart(n) /\ Readied(a, n, {t})
        /\ n.next = a.next /\ n.yield = a.yield /\ SameEvents(a, n)
    BY <2>2, <2>3, <2>5, MoveReady
  <2> HIDE DEF n
  <2>7. y \in BOOLEAN
    OBVIOUS
  <2> HIDE DEF y
  <2>8. /\ m \in Kernel /\ Apart(m) /\ m.yield = y /\ Switched(n, m) /\ m.cur = n.cur
        /\ m.top = n.top
    BY <2>6, <2>7, SetYield
  <2> HIDE DEF m
  <2>9. Readied(b, m, {t})
    <3>1. SameTasks(b, m) /\ SameClock(b, m) /\ SameCpu(b, m)
      BY <2>3, <2>6, <2>8 DEF Readied, Switched, SameTasks, SameClock, SameCpu
    <3>2. \A u \in {t} : m.top >= b.prio[u]
      BY <2>3, <2>6, <2>8 DEF Readied, SameTasks
    <3> QED
      BY <2>3, <2>5, <2>6, <2>8, <3>1, <3>2 DEF Readied, Switched, SameState
  <2>10. EventsLeft(b, m, {t})
    BY <2>4, <2>6, <2>8 DEF EventsLeft, SameEvents, Switched
  <2>11. V = W \cup {t}
    <3>1. ToSet(m.pending) = ToSet(b.pending) \ {t} /\ ToSet(b.pending) = ToSet(c.pending) \ W
      BY <1>1, <2>10 DEF EventsLeft
    <3> QED
      BY <2>2, <3>1
  <2> HIDE DEF V, W
  <2>12. Readied(c, m, V) /\ EventsLeft(c, m, V)
    <3>1. Readied(c, m, W \cup {t})
      BY <1>1, <2>8, <2>9, ReadiedThen
    <3>2. EventsLeft(c, m, W \cup {t})
      BY <1>1, <2>10, EventsLeftThen
    <3> QED
      BY <2>11, <3>1, <3>2
  <2>13. ~m.yield => ~c.yield /\ \A u \in V : c.prio[u] < c.prio[c.cur]
    <3>1. b.prio = c.prio /\ b.cur = c.cur
      BY <1>1 DEF Readied, SameTasks, SameCpu
    <3>2. c.prio[t] \in Int /\ c.prio[c.cur] \in Int
      BY <2>2, KernelFields DEF Priority
    <3>3. ~y => ~b.yield /\ c.prio[t] < c.prio[c.cur]
      BY <2>3, <2>6, <3>1, <3>2 DEF y
    <3> QED
      BY <1>1, <2>8, <2>11, <3>3
  <2>14. Len(m.pending) <= Len(c.pending) - (i + 1)
    <3>1. m.pending = Unlink(b.pending, t)
      BY <2>3, <2>6, <2>8 DEF SameEvents, Switched
    <3>2. Len(m.pending) = Len(b.pending) - 1
      BY <1>2, <2>2, <3>1, TaskUnlink
    <3> QED
      BY <1>1, <1>2, <3>2
  <2>15. m.next = c.next
    BY <1>1, <2>3, <2>6, <2>8 DEF Switched
  <2>16. FlushInv(c, i + 1, m)
    BY <2>8, <2>12, <2>13, <2>14, <2>15 DEF FlushInv, V
  <2> QED
    BY <2>1, <2>16
<1> QED
  BY <1>3, <1>4

\* The whole loop.
LEMMA Flush ==
    ASSUME NEW k \in Kernel, Apart(k), Timed(k), k.cur \in Task
    PROVE  LET m == FlushPending(k)
               W == ToSet(k.pending)
           IN  /\ m \in Kernel /\ Apart(m) /\ Timed(m) /\ Readied(k, m, W) /\ EventsLeft(k, m, W)
               /\ m.pending = <<>>
               /\ ~m.yield => ~k.yield /\ \A t \in W : k.prio[t] < k.prio[k.cur]
<1> DEFINE n == Len(k.pending)
           b == Iterate(FlushFirst, n, k)
           a == prvResetNextTaskUnblockTime(b)
           W == ToSet(k.pending)
           m == FlushPending(k)
<1>1. k.pending \in TaskList /\ k.pending \in Seq(Task) /\ n \in Nat
  BY KernelFields, TaskLists
<1>2. CASE k.pending = <<>>
  <2>1. m = k
    BY <1>2 DEF FlushPending
  <2>2. W = {}
    BY <1>1, <1>2, TaskLists
  <2>3. Readied(k, k, {}) /\ EventsLeft(k, k, {})
    BY ReadiedNobody
  <2> HIDE DEF m
  <2> QED
    BY <1>2, <2>1, <2>2, <2>3 DEF m
<1>3. CASE k.pending # <<>>
  <2>1. m = a
    BY <1>3, Zenon DEF FlushPending
  <2>2. FlushInv(k, 0, k)
    <3>1. Readied(k, k, {}) /\ EventsLeft(k, k, {})
      BY ReadiedNobody
    <3>2. ToSet(k.pending) \ ToSet(k.pending) = {}
      OBVIOUS
    <3>3. Len(k.pending) <= Len(k.pending) - 0
      BY <1>1
    <3> QED
      BY <3>1, <3>2, <3>3 DEF FlushInv
  <2>3. \A i \in 0..(n - 1) : \A c : FlushInv(k, i, c) => FlushInv(k, i + 1, FlushFirst(c))
    BY FlushRound
  <2> HIDE DEF n, m
  <2>4. FlushInv(k, n, b)
    BY <1>1, <2>2, <2>3, Flushing!LoopInvariant DEF Iterate, Flushing!Iterate
  <2> HIDE DEF b
  <2>5. /\ b \in Kernel /\ Apart(b)
        /\ Readied(k, b, W \ ToSet(b.pending)) /\ EventsLeft(k, b, W \ ToSet(b.pending))
        /\ b.next = k.next
        /\ ~b.yield => ~k.yield /\ \A t \in W \ ToSet(b.pending) : k.prio[t] < k.prio[k.cur]
        /\ Len(b.pending) <= n - n
    BY <2>4 DEF FlushInv, n
  <2>6. b.pending \in Seq(Task) /\ b.pending \in TaskList
    BY <2>5, KernelFields, TaskLists
  <2>7. b.pending = <<>> /\ W \ ToSet(b.pending) = W
    <3>1. Len(b.pending) = 0
      BY <1>1, <2>5, <2>6
    <3>2. b.pending = <<>>
      BY <2>6, <3>1
    <3>3. ToSet(b.pending) = {}
      BY <2>6, <3>2, TaskLists
    <3> QED
      BY <3>2, <3>3
  <2>8. Readied(k, b, W) /\ EventsLeft(k, b, W) /\ (~b.yield => ~k.yield /\ \A t \in W : k.prio[t] < k.prio[k.cur])
    BY <2>5, <2>7
  <2>9. /\ a \in Kernel /\ (b.delayed # <<>> => a.next = b.wake[Head(b.delayed)])
        /\ a.ready = b.ready /\ a.delayed = b.delayed /\ a.overflow = b.overflow
        /\ a.suspended = b.suspended /\ a.dead = b.dead /\ a.wake = b.wake
        /\ a.top = b.top /\ a.yield = b.yield /\ SameTasks(b, a) /\ SameClock(b, a)
        /\ SameCpu(b, a) /\ SameEvents(b, a)
    BY <2>5, ResetNext
  <2> HIDE DEF a, W
  <2>10. Apart(a) /\ ReadyTasks(a) = ReadyTasks(b)
    BY <2>5, <2>9, ApartSame DEF SameTasks
  <2>11. Readied(k, a, W)
    <3>1. SameTasks(k, a) /\ SameClock(k, a) /\ SameCpu(k, a)
      BY <2>8, <2>9 DEF Readied, SameTasks, SameClock, SameCpu
    <3> QED
      BY <2>8, <2>9, <2>10, <3>1 DEF Readied
  <2>12. EventsLeft(k, a, W)
    BY <2>8, <2>9 DEF EventsLeft, SameEvents
  <2>13. Timed(a)
    <3>1. Timed(b)
      BY <2>5, <2>8, TimedAfter
    <3>2. \A t \in ToSet(b.delayed) : b.delayed # <<>> /\ b.wake[Head(b.delayed)] <= b.wake[t]
      <4>1. b.delayed \in TaskList /\ b.wake \in [Task -> Tick] /\ Sorted(b.delayed, b.wake)
        BY <2>5, KernelFields DEF Apart
      <4> QED
        BY <4>1, SortedHead
    <3> QED
      BY <2>9, <3>1, <3>2 DEF Timed, SameClock
  <2> QED
    BY <2>1, <2>7, <2>8, <2>9, <2>10, <2>11, <2>12, <2>13 DEF SameEvents, m, W
<1> QED
  BY <1>2, <1>3

\* One tick after i ticks.
LEMMA TickAfter ==
    ASSUME NEW a \in Tick, NEW i \in Nat
    PROVE  /\ TimeToWake(a, 0) = a /\ TimeToWake(a, i) \in Tick
           /\ TimeToWake(TimeToWake(a, i), 1) = TimeToWake(a, i + 1)
<1> DEFINE b == a + i
           q == b \div TickMod
           r == b % TickMod
<1>1. TimeToWake(a, 0) = a
  BY TicksAssumption, Z3 DEF Tick, TimeToWake
<1>2. b \in Nat /\ TickMod \in Nat /\ TickMod > 0
  BY TicksAssumption DEF Tick
<1> HIDE DEF b
<1>3. q \in Nat
  BY <1>2, Z3
<1>4. r \in Tick
  BY <1>2, Z3 DEF Tick
<1>5. b = TickMod * q + r
  BY <1>2, Z3
<1>6. \A p \in Nat, s \in Tick : (TickMod * p + s) % TickMod = s
  BY <1>2, Z3 DEF Tick
<1> HIDE DEF q, r
<1>7. (r + 1) % TickMod = (b + 1) % TickMod
  <2>1. CASE r + 1 < TickMod
    <3>1. r + 1 \in Tick /\ b + 1 = TickMod * q + (r + 1) /\ r + 1 = TickMod * 0 + (r + 1)
      BY <1>2, <1>3, <1>4, <1>5, <2>1 DEF Tick
    <3> QED
      BY <1>3, <1>6, <3>1
  <2>2. CASE r + 1 >= TickMod
    <3>1. r + 1 = TickMod
      BY <1>2, <1>4, <2>2 DEF Tick
    <3>2. b + 1 = TickMod * (q + 1) + 0
      BY <1>2, <1>3, <1>4, <1>5, <3>1, Z3 DEF Tick
    <3>3. r + 1 = TickMod * 1 + 0 /\ 0 \in Tick
      BY <1>2, <3>1 DEF Tick
    <3> QED
      BY <1>3, <1>6, <3>2, <3>3
  <2> QED
    BY <1>2, <1>4, <2>1, <2>2 DEF Tick
<1>8. TimeToWake(a, i) = r
  BY DEF TimeToWake, r, b
<1>9. TimeToWake(a, i + 1) = (b + 1) % TickMod
  <2>1. a + (i + 1) = b + 1
    BY DEF b, Tick
  <2> QED
    BY <2>1 DEF TimeToWake
<1> QED
  BY <1>1, <1>4, <1>7, <1>8, <1>9 DEF TimeToWake

\* Tasks wake, then more.
LEMMA WokenThen ==
    ASSUME NEW a \in Kernel, NEW b \in Kernel, NEW c \in Kernel, NEW V, NEW W,
           Woken(a, b, V), Woken(b, c, W)
    PROVE  Woken(a, c, V \cup W)
<1>1. a.top \in Int /\ b.top \in Int /\ c.top \in Int
  BY KernelFields DEF Priority
<1>2. SameTasks(a, c) /\ SameCpu(a, c)
  BY DEF Woken, SameTasks, SameCpu
<1>3. EventsLeft(a, c, V \cup W)
  BY EventsLeftThen DEF Woken
<1>4. V \subseteq Task
  <2>1. ToSet(a.delayed) \subseteq Task /\ ToSet(a.overflow) \subseteq Task
    BY KernelFields, TaskLists
  <2> QED
    BY <2>1 DEF Woken, Blocked
<1>5. \A u \in V : a.prio[u] \in Int
  BY <1>4, KernelFields DEF Priority
<1>6. c.top >= a.top /\ \A u \in V \cup W : c.top >= a.prio[u]
  BY <1>1, <1>5 DEF Woken, SameTasks
<1>7. \A u \in Task \ (V \cup W) : c.wake[u] = a.wake[u]
  BY DEF Woken
<1>8. V \cup W \subseteq Blocked(a) /\ Blocked(c) = Blocked(a) \ (V \cup W)
  BY DEF Woken
<1> QED
  BY <1>2, <1>3, <1>6, <1>7, <1>8 DEF Woken

\* The loop of xTaskResumeAll over the pended ticks.
CatchInv(c, i, b) ==
    LET W == ReadyTasks(b) \ ReadyTasks(c)
    IN  /\ b \in Kernel /\ Apart(b) /\ Timed(b) /\ Woken(c, b, W)
        /\ b.tick = TimeToWake(c.tick, i) /\ b.pended = c.pended
        /\ \A t \in W : \E j \in 1..i : c.wake[t] = TimeToWake(c.tick, j)
        /\ ~b.yield => ~c.yield /\ \A t \in W : c.prio[t] <= c.prio[c.cur]

Catching == INSTANCE LoopProofs WITH Op <- TickAgain, Inv <- CatchInv

\* One round.
LEMMA CatchRound ==
    ASSUME NEW c \in Kernel, Apart(c), c.cur \in Task, c.locks = 0, NEW i \in Nat, NEW b, CatchInv(c, i, b)
    PROVE  CatchInv(c, i + 1, TickAgain(b))
<1> DEFINE r == Ticked(b)
           n == r.k
           y == n.yield \/ r.switch
           m == [n EXCEPT !.yield = y]
           V == ReadyTasks(b) \ ReadyTasks(c)
           W == ReadyTasks(n) \ ReadyTasks(b)
           X == ReadyTasks(m) \ ReadyTasks(c)
<1>1. /\ b \in Kernel /\ Apart(b) /\ Timed(b) /\ Woken(c, b, V)
      /\ b.tick = TimeToWake(c.tick, i) /\ b.pended = c.pended
      /\ \A t \in V : \E j \in 1..i : c.wake[t] = TimeToWake(c.tick, j)
      /\ ~b.yield => ~c.yield /\ \A t \in V : c.prio[t] <= c.prio[c.cur]
  BY DEF CatchInv
<1>2. b.cur = c.cur /\ b.locks = 0 /\ b.prio = c.prio
  BY <1>1 DEF Woken, SameCpu, SameTasks
<1>3. TickAgain(b) = m
  BY <1>2 DEF TickAgain, xTaskIncrementTick
<1>4. /\ r.switch \in BOOLEAN
      /\ n \in Kernel /\ Apart(n) /\ Timed(n) /\ Woken(b, n, W)
      /\ n.tick = TimeToWake(b.tick, 1) /\ n.pended = b.pended /\ n.yield = b.yield
      /\ \A t \in W : b.wake[t] = n.tick
      /\ ~r.switch => ~n.yield /\ \A t \in W : b.prio[t] <= b.prio[b.cur]
  BY <1>1, <1>2, TickTasks
<1> HIDE DEF r, n
<1>5. y \in BOOLEAN
  OBVIOUS
<1>6. ~y => ~n.yield /\ ~r.switch
  OBVIOUS
<1> HIDE DEF y
<1>7. /\ m \in Kernel /\ Apart(m) /\ m.yield = y /\ Switched(n, m) /\ m.cur = n.cur
      /\ m.top = n.top
  BY <1>4, <1>5, SetYield
<1> HIDE DEF m, V, W
<1>8. Woken(b, m, W)
  <2>1. SameTasks(b, m) /\ SameCpu(b, m)
    BY <1>4, <1>7 DEF Woken, Switched, SameTasks, SameCpu
  <2>2. EventsLeft(b, m, W)
    BY <1>4, <1>7 DEF Woken, Switched, SameEvents, EventsLeft
  <2>3. Blocked(m) = Blocked(n)
    BY <1>7 DEF Switched, Blocked
  <2> QED
    BY <1>4, <1>7, <2>1, <2>2, <2>3 DEF Woken, Switched
<1>9. Woken(c, m, V \cup W)
  BY <1>1, <1>7, <1>8, WokenThen
<1>10. V \subseteq Blocked(c) /\ W \subseteq Blocked(b) /\ Blocked(b) = Blocked(c) \ V
  BY <1>1, <1>4 DEF Woken
<1>11. X = V \cup W
  <2>1. \A t \in V \cup W : t \notin ReadyTasks(c)
    BY <1>10 DEF Apart, Blocked
  <2> QED
    BY <1>9, <2>1 DEF Woken
<1>12. m.tick = TimeToWake(c.tick, i + 1) /\ m.pended = c.pended /\ Timed(m)
  <2>1. c.tick \in Tick
    BY KernelFields
  <2> QED
    BY <1>1, <1>4, <1>7, <2>1, TickAfter DEF Switched, SameClock, Timed
<1>13. \A t \in V \cup W : \E j \in 1..(i + 1) : c.wake[t] = TimeToWake(c.tick, j)
  <2>1. \A t \in V : \E j \in 1..(i + 1) : c.wake[t] = TimeToWake(c.tick, j)
    BY <1>1
  <2>2. \A t \in W : c.wake[t] = TimeToWake(c.tick, i + 1)
    <3>1. W \subseteq Task \ V
      <4>1. ToSet(b.delayed) \subseteq Task /\ ToSet(b.overflow) \subseteq Task
        BY <1>1, KernelFields, TaskLists
      <4> QED
        BY <1>10, <4>1 DEF Blocked
    <3>2. \A t \in W : b.wake[t] = c.wake[t]
      BY <1>1, <3>1 DEF Woken
    <3>3. n.tick = m.tick
      BY <1>7 DEF Switched, SameClock
    <3> QED
      BY <1>4, <1>12, <3>2, <3>3
  <2>3. i + 1 \in 1..(i + 1)
    OBVIOUS
  <2> QED
    BY <2>1, <2>2, <2>3
<1>14. ~m.yield => ~c.yield /\ \A t \in V \cup W : c.prio[t] <= c.prio[c.cur]
  BY <1>1, <1>2, <1>4, <1>6, <1>7
<1>15. CatchInv(c, i + 1, m)
  BY <1>7, <1>9, <1>11, <1>12, <1>13, <1>14 DEF CatchInv
<1> QED
  BY <1>3, <1>15

\* Only pended, xPendedTicks, and locks, uxSchedulerSuspended, differ.
WithCounts(k, p, l) == [k EXCEPT !.pended = p, !.locks = l]

\* Only xPendedTicks and uxSchedulerSuspended are written.
LEMMA SetCounts ==
    ASSUME NEW k \in Kernel, Apart(k), NEW p \in Nat, NEW l \in Nat
    PROVE  LET m == WithCounts(k, p, l) IN
           /\ m \in Kernel /\ Apart(m) /\ m.pended = p /\ m.locks = l /\ SameState(k, m)
           /\ ReadyTasks(m) = ReadyTasks(k) /\ Blocked(m) = Blocked(k)
           /\ SameTasks(k, m) /\ SameEvents(k, m)
           /\ m.cur = k.cur /\ m.running = k.running /\ m.yield = k.yield /\ m.top = k.top
           /\ m.next = k.next /\ m.tick = k.tick /\ m.overflows = k.overflows
<1> DEFINE m == WithCounts(k, p, l)
<1>1. m \in Kernel /\ m.pended = p /\ m.locks = l
  BY DEF Kernel, WithCounts
<1>2. SameState(k, m) /\ SameTasks(k, m) /\ SameEvents(k, m)
  BY DEF Kernel, SameState, SameTasks, SameEvents, WithCounts
<1>3. /\ m.cur = k.cur /\ m.running = k.running /\ m.yield = k.yield /\ m.top = k.top
      /\ m.next = k.next /\ m.tick = k.tick /\ m.overflows = k.overflows
  BY DEF Kernel, WithCounts
<1> HIDE DEF m
<1>4. Apart(m) /\ ReadyTasks(m) = ReadyTasks(k) /\ Blocked(m) = Blocked(k)
  BY <1>2, ApartSame DEF SameState, SameTasks
<1> QED
  BY <1>1, <1>2, <1>3, <1>4 DEF m

\* The whole loop over the pended ticks.
LEMMA Catch ==
    ASSUME NEW k \in Kernel, Apart(k), Timed(k), k.cur \in Task, k.locks = 0
    PROVE  LET m == CatchUp(k)
               W == ReadyTasks(m) \ ReadyTasks(k)
           IN  /\ m \in Kernel /\ Apart(m) /\ Timed(m) /\ Woken(k, m, W)
               /\ m.tick = TimeToWake(k.tick, k.pended) /\ m.pended = 0
               /\ \A t \in W : \E j \in 1..k.pended : k.wake[t] = TimeToWake(k.tick, j)
               /\ ~m.yield => ~k.yield /\ \A t \in W : k.prio[t] <= k.prio[k.cur]
<1> DEFINE n == k.pended
           b == Iterate(TickAgain, n, k)
           W == ReadyTasks(b) \ ReadyTasks(k)
           m == CatchUp(k)
<1>1. n \in Nat /\ k.tick \in Tick
  BY KernelFields
<1>2. CatchInv(k, 0, k)
  <2>1. Woken(k, k, {})
    <3>1. Readied(k, k, {}) /\ EventsLeft(k, k, {})
      BY ReadiedNobody
    <3> QED
      BY <3>1 DEF Readied, Woken
  <2>2. ReadyTasks(k) \ ReadyTasks(k) = {}
    OBVIOUS
  <2>3. TimeToWake(k.tick, 0) = k.tick
    BY <1>1, TickAfter
  <2> QED
    BY <2>1, <2>2, <2>3 DEF CatchInv
<1>3. \A i \in 0..(n - 1) : \A c : CatchInv(k, i, c) => CatchInv(k, i + 1, TickAgain(c))
  BY CatchRound
<1>4. m = [b EXCEPT !.pended = 0]
  BY Zenon DEF CatchUp
<1> HIDE DEF n, m
<1>5. CatchInv(k, n, b)
  BY <1>1, <1>2, <1>3, Catching!LoopInvariant DEF Iterate, Catching!Iterate
<1> HIDE DEF b
<1>6. /\ b \in Kernel /\ Apart(b) /\ Timed(b) /\ Woken(k, b, W)
      /\ b.tick = TimeToWake(k.tick, n) /\ b.pended = k.pended
      /\ \A t \in W : \E j \in 1..n : k.wake[t] = TimeToWake(k.tick, j)
      /\ ~b.yield => ~k.yield /\ \A t \in W : k.prio[t] <= k.prio[k.cur]
  BY <1>5 DEF CatchInv
<1> HIDE DEF W
<1>7. m = WithCounts(b, 0, b.locks) /\ b.locks \in Nat
  BY <1>4, <1>6, KernelFields DEF Kernel, WithCounts
<1>8. /\ m \in Kernel /\ Apart(m) /\ m.pended = 0 /\ m.locks = b.locks /\ SameState(b, m)
      /\ ReadyTasks(m) = ReadyTasks(b) /\ Blocked(m) = Blocked(b)
      /\ SameTasks(b, m) /\ SameEvents(b, m)
      /\ m.cur = b.cur /\ m.running = b.running /\ m.yield = b.yield /\ m.top = b.top
      /\ m.next = b.next /\ m.tick = b.tick
  BY <1>6, <1>7, SetCounts
<1>9. Woken(k, m, W)
  <2>1. SameTasks(k, m) /\ SameCpu(k, m)
    BY <1>6, <1>8 DEF Woken, SameTasks, SameCpu
  <2>2. EventsLeft(k, m, W)
    BY <1>6, <1>8 DEF Woken, SameEvents, EventsLeft
  <2> QED
    BY <1>6, <1>8, <2>1, <2>2 DEF Woken, SameState
<1>10. Timed(m)
  BY <1>6, <1>8 DEF Timed, SameState
<1>11. W = ReadyTasks(m) \ ReadyTasks(k)
  BY <1>8 DEF W
<1> QED
  BY <1>6, <1>8, <1>9, <1>10, <1>11 DEF m, n

\* uxTopReadyPriority is not too low.
TopOK(k) == \A u \in ReadyTasks(k) : k.prio[u] <= k.top

\* The current task is ready, and no ready task has a higher priority.
Highest(k) == k.cur \in ReadyTasks(k) /\ \A u \in ReadyTasks(k) : k.prio[u] <= k.prio[k.cur]

\* The tasks of P, pending, and those of W, whose time has come, have become
\* ready.
Roused(k, m, P, W) ==
    /\ W \subseteq Blocked(k) \ P /\ Blocked(m) = Blocked(k) \ (P \cup W)
    /\ ReadyTasks(m) = ReadyTasks(k) \cup P \cup W
    /\ m.suspended = k.suspended \ P /\ ToSet(m.dead) = ToSet(k.dead) \ P
    /\ \A u \in Task \ (P \cup W) : m.wake[u] = k.wake[u]
    /\ m.running = k.running /\ SameTasks(k, m) /\ EventsLeft(k, m, P \cup W)

\* xTaskResumeAll, called by the task that suspended the scheduler once.
LEMMA ResumeScheduler ==
    ASSUME NEW k \in Kernel, Apart(k), Timed(k), k.cur \in Task, IdleReady(k), k.locks = 1
    PROVE  LET r == xTaskResumeAll(k)
               m == r.k
               P == ToSet(k.pending)
               W == ReadyTasks(m) \ (ReadyTasks(k) \cup P)
           IN  /\ r.yielded \in BOOLEAN
               /\ m \in Kernel /\ Apart(m) /\ Timed(m) /\ Roused(k, m, P, W)
               /\ m.locks = 0 /\ m.pended = 0 /\ m.pending = <<>> /\ ~m.yield
               /\ m.tick = TimeToWake(k.tick, k.pended)
               /\ \A t \in W : \E j \in 1..k.pended : k.wake[t] = TimeToWake(k.tick, j)
               /\ TopOK(k) => TopOK(m)
               /\ r.yielded => m.cur \in ReadyTasks(m) /\ (TopOK(k) => Highest(m))
               /\ ~r.yielded => m.cur = k.cur /\ ~k.yield /\ (Highest(k) => Highest(m))
<1> DEFINE a == [k EXCEPT !.locks = @ - 1]
           b == FlushPending(a)
           c == CatchUp(b)
           P == ToSet(k.pending)
           V == ReadyTasks(c) \ ReadyTasks(b)
<1>1. a = WithCounts(k, k.pended, 0) /\ k.pended \in Nat
  <2>1. k.pended \in Nat /\ a = [k EXCEPT !.locks = 0]
    BY KernelFields
  <2>2. [k EXCEPT !.locks = 0] = WithCounts(k, k.pended, 0)
    BY DEF Kernel, WithCounts
  <2> QED
    BY <2>1, <2>2
<1>2. /\ a \in Kernel /\ Apart(a) /\ a.pended = k.pended /\ a.locks = 0 /\ SameState(k, a)
      /\ ReadyTasks(a) = ReadyTasks(k) /\ Blocked(a) = Blocked(k)
      /\ SameTasks(k, a) /\ SameEvents(k, a)
      /\ a.cur = k.cur /\ a.running = k.running /\ a.yield = k.yield /\ a.top = k.top
      /\ a.next = k.next /\ a.tick = k.tick
  <2> DEFINE w == WithCounts(k, k.pended, 0)
  <2>1. /\ w \in Kernel /\ Apart(w) /\ w.pended = k.pended /\ w.locks = 0 /\ SameState(k, w)
        /\ ReadyTasks(w) = ReadyTasks(k) /\ Blocked(w) = Blocked(k)
        /\ SameTasks(k, w) /\ SameEvents(k, w)
        /\ w.cur = k.cur /\ w.running = k.running /\ w.yield = k.yield /\ w.top = k.top
        /\ w.next = k.next /\ w.tick = k.tick
    BY <1>1, SetCounts
  <2> HIDE DEF a, w
  <2>2. a = w
    BY <1>1 DEF w
  <2> QED
    BY <2>1, <2>2
<1>3. xTaskResumeAll(k) = IF c.yield THEN [k |-> vTaskSwitchContext(c), yielded |-> TRUE]
                          ELSE [k |-> c, yielded |-> FALSE]
  BY <1>2 DEF xTaskResumeAll
<1> HIDE DEF a
<1>4. Timed(a) /\ a.pending = k.pending
  BY <1>2 DEF Timed, SameState, SameEvents
<1>5. /\ b \in Kernel /\ Apart(b) /\ Timed(b) /\ Readied(a, b, P) /\ EventsLeft(a, b, P)
      /\ b.pending = <<>>
      /\ ~b.yield => ~a.yield /\ \A t \in P : a.prio[t] < a.prio[a.cur]
  BY <1>2, <1>4, Flush
<1> HIDE DEF b
<1>6. b.locks = 0 /\ b.cur = k.cur /\ b.prio = k.prio /\ b.pended = k.pended /\ b.tick = k.tick /\ b.running = k.running
  BY <1>2, <1>5 DEF Readied, SameCpu, SameClock, SameTasks
<1>7. /\ c \in Kernel /\ Apart(c) /\ Timed(c) /\ Woken(b, c, V)
      /\ c.tick = TimeToWake(k.tick, k.pended) /\ c.pended = 0
      /\ \A t \in V : \E j \in 1..k.pended : b.wake[t] = TimeToWake(k.tick, j)
      /\ ~c.yield => ~b.yield /\ \A t \in V : k.prio[t] <= k.prio[k.cur]
  <2>1. b.cur \in Task
    BY <1>6
  <2>2. /\ c \in Kernel /\ Apart(c) /\ Timed(c) /\ Woken(b, c, V)
        /\ c.tick = TimeToWake(b.tick, b.pended) /\ c.pended = 0
        /\ \A t \in V : \E j \in 1..b.pended : b.wake[t] = TimeToWake(b.tick, j)
        /\ ~c.yield => ~b.yield /\ \A t \in V : b.prio[t] <= b.prio[b.cur]
    BY <1>5, <1>6, <2>1, Catch
  <2> HIDE DEF c, V
  <2> QED
    BY <1>6, <2>2
<1> HIDE DEF c, V, P
<1>8. \A t \in P \cup V : t \in Task
  <2>1. k.pending \in TaskList /\ b.delayed \in TaskList /\ b.overflow \in TaskList
    BY <1>5, KernelFields
  <2> QED
    BY <1>7, <2>1, TaskLists DEF Woken, Blocked, P
<1>9. /\ V \subseteq Blocked(k) \ P /\ Blocked(c) = Blocked(k) \ (P \cup V)
      /\ ReadyTasks(c) = ReadyTasks(k) \cup P \cup V
      /\ c.suspended = k.suspended \ P /\ ToSet(c.dead) = ToSet(k.dead) \ P
  <2>1. Blocked(b) = Blocked(a) \ P
    BY <1>5 DEF Readied, Blocked
  <2> QED
    BY <1>2, <1>5, <1>7, <2>1 DEF Readied, Woken, SameState
<1>10. \A u \in Task \ (P \cup V) : c.wake[u] = k.wake[u]
  BY <1>2, <1>5, <1>7 DEF Readied, Woken, SameState
<1>11. SameTasks(k, c) /\ c.running = k.running /\ c.cur = k.cur /\ c.locks = 0
  BY <1>2, <1>5, <1>6, <1>7 DEF Readied, Woken, SameTasks, SameCpu
<1>12. EventsLeft(k, c, P \cup V)
  <2>1. EventsLeft(a, c, P \cup V)
    BY <1>5, <1>7, EventsLeftThen DEF Woken
  <2> QED
    BY <1>2, <2>1 DEF SameEvents, EventsLeft
<1>13. Roused(k, c, P, V)
  BY <1>9, <1>10, <1>11, <1>12 DEF Roused
<1>14. V = ReadyTasks(c) \ (ReadyTasks(k) \cup P)
  <2>1. \A t \in V : t \notin ReadyTasks(k)
    BY <1>9 DEF Apart, Blocked
  <2> QED
    BY <1>9, <2>1
<1>15. c.pending = <<>>
  <2>1. c.pending \in TaskList
    BY <1>7, KernelFields
  <2>2. b.pending \in TaskList /\ ToSet(b.pending) = {}
    BY <1>5, KernelFields, TaskLists
  <2>3. ToSet(c.pending) = {}
    BY <1>7, <2>2 DEF Woken, EventsLeft
  <2> QED
    BY <2>1, <2>3, TaskLists
<1>16. \A t \in V : \E j \in 1..k.pended : k.wake[t] = TimeToWake(k.tick, j)
  <2>1. \A t \in V : b.wake[t] = k.wake[t]
    BY <1>2, <1>5, <1>8, <1>9 DEF Readied, SameState
  <2> QED
    BY <1>7, <2>1
<1>17. TopOK(k) => TopOK(c)
  <2>1. k.top \in Int /\ b.top \in Int /\ c.top \in Int /\ \A t \in Task : k.prio[t] \in Int
    BY <1>5, <1>7, KernelFields DEF Priority
  <2>2. b.top >= k.top /\ c.top >= b.top
    BY <1>2, <1>5, <1>7 DEF Readied, Woken
  <2>3. \A t \in P : b.top >= k.prio[t]
    BY <1>2, <1>5 DEF Readied, SameTasks
  <2>4. \A t \in V : c.top >= k.prio[t]
    BY <1>6, <1>7 DEF Woken
  <2>5. \A t \in ReadyTasks(k) : t \in Task
    BY ReadyHere
  <2>6. \A t \in P : c.top >= k.prio[t]
    BY <1>8, <2>1, <2>2, <2>3
  <2> QED
    BY <1>9, <1>11, <2>1, <2>2, <2>4, <2>5, <2>6 DEF TopOK, SameTasks
<1>18. CASE ~c.yield
  <2>1. xTaskResumeAll(k).k = c /\ xTaskResumeAll(k).yielded = FALSE
    BY <1>3, <1>18
  <2>2. Highest(k) => Highest(c)
    <3>1. \A t \in P \cup V : k.prio[t] <= k.prio[k.cur]
      <4>1. \A t \in Task : k.prio[t] \in Int
        BY KernelFields DEF Priority
      <4>2. \A t \in P : k.prio[t] < k.prio[k.cur]
        BY <1>2, <1>5, <1>7, <1>18 DEF SameTasks
      <4> QED
        BY <1>7, <1>8, <1>18, <4>1, <4>2
    <3> QED
      BY <1>9, <1>11, <3>1 DEF Highest, SameTasks
  <2>3. ~k.yield
    BY <1>2, <1>5, <1>7, <1>18
  <2> QED
    BY <1>7, <1>11, <1>13, <1>14, <1>15, <1>16, <1>17, <1>18, <2>1, <2>2, <2>3 DEF P
<1>19. CASE c.yield
  <2> DEFINE m == vTaskSwitchContext(c)
  <2>1. xTaskResumeAll(k).k = m /\ xTaskResumeAll(k).yielded = TRUE
    BY <1>3, <1>19
  <2>2. IdleReady(c)
    BY <1>9, <1>11 DEF IdleReady, SameTasks
  <2>3. /\ m \in Kernel /\ Apart(m) /\ Switched(c, m)
        /\ m.yield = FALSE /\ m.cur \in ReadyTasks(c) /\ m.top = c.prio[m.cur]
        /\ TopOK(c) => \A u \in ReadyTasks(c) : c.prio[u] <= c.prio[m.cur]
    BY <1>7, <1>11, <2>2, SwitchContext DEF TopOK
  <2> HIDE DEF m
  <2>4. /\ ReadyTasks(m) = ReadyTasks(c) /\ Blocked(m) = Blocked(c) /\ m.prio = c.prio
        /\ m.pending = c.pending /\ m.tick = c.tick /\ m.pended = c.pended /\ m.locks = c.locks
    BY <2>3 DEF Switched, SameTasks, SameEvents, SameClock, Blocked
  <2>5. Timed(m)
    BY <1>7, <2>3, <2>4 DEF Timed, Switched
  <2>6. Roused(k, m, P, V)
    <3>1. SameTasks(k, m) /\ m.running = k.running
      BY <1>11, <2>3 DEF SameTasks, Switched
    <3>2. EventsLeft(k, m, P \cup V)
      BY <1>12, <2>3 DEF EventsLeft, Switched, SameEvents
    <3> QED
      BY <1>9, <1>10, <2>3, <2>4, <3>1, <3>2 DEF Roused, Switched
  <2>7. (TopOK(k) => TopOK(m)) /\ (TopOK(k) => Highest(m))
    BY <1>17, <2>3, <2>4 DEF TopOK, Highest
  <2>8. V = ReadyTasks(m) \ (ReadyTasks(k) \cup P)
    BY <1>14, <2>4
  <2> QED
    BY <1>7, <1>11, <1>15, <1>16, <2>1, <2>3, <2>4, <2>5, <2>6, <2>7, <2>8 DEF P
<1> QED
  BY <1>18, <1>19

-----------------------------------------------------------------------------
(* The operations on single tasks.                                         *)

\* Nothing has happened to a task.
Same(k, m, u) ==
    /\ u \in ReadyTasks(m) <=> u \in ReadyTasks(k)
    /\ u \in Blocked(m) <=> u \in Blocked(k)
    /\ u \in m.suspended <=> u \in k.suspended
    /\ u \in ToSet(m.dead) <=> u \in ToSet(k.dead)
    /\ u \in ToSet(m.pending) <=> u \in ToSet(k.pending)
    /\ u \in m.live <=> u \in k.live
    /\ u \in m.gone <=> u \in k.gone
    /\ u \in m.asleep <=> u \in k.asleep
    /\ m.prio[u] = k.prio[u] /\ m.wake[u] = k.wake[u]
    /\ m.notify[u] = k.notify[u] /\ m.value[u] = k.value[u]

\* Nothing has happened but to the tasks of T.
Others(k, m, T) == \A u \in Task \ T : Same(k, m, u)

\* Neither time nor the processor nor what it is to do next has changed.
Steady(k, m) == SameClock(k, m) /\ SameCpu(k, m) /\ m.yield = k.yield

\* The relations above in these terms.
LEMMA ReadiedOthers ==
    ASSUME NEW k, NEW m, NEW W, Readied(k, m, W), EventsLeft(k, m, W)
    PROVE  Others(k, m, W)
BY DEF Readied, EventsLeft, Others, Same, SameTasks, Blocked

\* Tasks the tick has not unblocked are as they were.
LEMMA WokenOthers ==
    ASSUME NEW k, NEW m, NEW W, Woken(k, m, W)
    PROVE  Others(k, m, W)
BY DEF Woken, EventsLeft, Others, Same, SameTasks

\* Tasks that xTaskResumeAll has neither flushed nor unblocked are as they
\* were.
LEMMA RousedOthers ==
    ASSUME NEW k, NEW m, NEW P, NEW W, Roused(k, m, P, W)
    PROVE  Others(k, m, P \cup W)
BY DEF Roused, EventsLeft, Others, Same, SameTasks

\* vTaskSwitchContext touches no TCB.
LEMMA SwitchedOthers ==
    ASSUME NEW k, NEW m, Switched(k, m)
    PROVE  Others(k, m, {})
BY DEF Switched, SameEvents, Others, Same, SameTasks, Blocked

\* Putting a task to sleep touches no other task.
LEMMA BlocksOthers ==
    ASSUME NEW k, NEW m, NEW t, Blocks(k, m, t)
    PROVE  Others(k, m, {t})
BY DEF Blocks, SameEvents, Others, Same, SameTasks, Blocked

\* What two steps leave alone.
LEMMA OthersThen ==
    ASSUME NEW k, NEW m, NEW n, NEW S, NEW T, Others(k, m, S), Others(m, n, T)
    PROVE  Others(k, n, S \cup T)
BY DEF Others, Same

\* A task is taken out of all lists, in time.
LEMMA RemoveTimed ==
    ASSUME NEW k \in Kernel, Apart(k), Timed(k), NEW t \in Task
    PROVE  LET m == RemoveEventItem(RemoveStateItem(k, t), t) IN
           /\ m \in Kernel /\ Apart(m) /\ Timed(m) /\ t \notin Hung(m) /\ Others(k, m, {t})
           /\ t \notin ToSet(m.pending) /\ m.top = k.top /\ SameTasks(k, m) /\ Steady(k, m)
           /\ EventsLeft(k, m, {t})
           /\ ToSet(m.delayed) = ToSet(k.delayed) \ {t} /\ ToSet(m.overflow) = ToSet(k.overflow) \ {t}
<1> DEFINE m == RemoveEventItem(RemoveStateItem(k, t), t)
<1>1. /\ m \in Kernel /\ Apart(m) /\ t \notin Hung(m)
      /\ ReadyTasks(m) = ReadyTasks(k) \ {t} /\ m.delayed = Unlink(k.delayed, t)
      /\ ToSet(m.delayed) = ToSet(k.delayed) \ {t}
      /\ ToSet(m.overflow) = ToSet(k.overflow) \ {t} /\ ToSet(m.dead) = ToSet(k.dead) \ {t}
      /\ m.suspended = k.suspended \ {t}
      /\ \A u \in Task \ {t} : m.wake[u] = k.wake[u]
      /\ m.top = k.top /\ m.next = k.next /\ m.yield = k.yield
      /\ SameTasks(k, m) /\ SameClock(k, m) /\ SameCpu(k, m) /\ EventsLeft(k, m, {t})
  BY RemoveBoth
<1> HIDE DEF m
<1>2. Others(k, m, {t})
  BY <1>1 DEF Others, Same, Blocked, SameTasks, EventsLeft
<1>3. ToSet(k.delayed) \subseteq Task /\ ToSet(k.overflow) \subseteq Task
  BY KernelFields, TaskLists
<1>4. Timed(m)
  BY <1>1, <1>3 DEF Timed, SameClock
<1> QED
  BY <1>1, <1>2, <1>4 DEF Steady, EventsLeft, m

\* vTaskSuspend.
LEMMA Suspend ==
    ASSUME NEW k \in Kernel, Apart(k), Timed(k), NEW t \in Task
    PROVE  LET m == SuspendTask(k, t) IN
           /\ m \in Kernel /\ Apart(m) /\ Timed(m) /\ Others(k, m, {t}) /\ Steady(k, m)
           /\ m.top = k.top /\ m.live = k.live /\ m.gone = k.gone /\ m.prio = k.prio
           /\ t \in m.suspended /\ t \in m.asleep /\ t \notin ToSet(m.pending)
           /\ m.notify[t] # "WAITING" /\ m.value = k.value
           /\ m.notify[t] \in {k.notify[t], "NOT_WAITING"}
<1> DEFINE a == RemoveEventItem(RemoveStateItem(k, t), t)
           s == a.suspended \cup {t}
           z == a.asleep \cup {t}
           f == [a.notify EXCEPT ![t] = IF @ = "WAITING" THEN "NOT_WAITING" ELSE @]
           m == SuspendTask(k, t)
<1>1. /\ a \in Kernel /\ Apart(a) /\ Timed(a) /\ t \notin Hung(a) /\ Others(k, a, {t})
      /\ t \notin ToSet(a.pending) /\ a.top = k.top /\ SameTasks(k, a) /\ Steady(k, a)
  BY RemoveTimed
<1>2. m = [a EXCEPT !.suspended = s, !.asleep = z, !.notify = f]
  BY <1>1 DEF SuspendTask, Kernel
<1> HIDE DEF a
<1>3. /\ s \in TaskSet /\ z \in TaskSet /\ f \in NotifyStates
      /\ f[t] # "WAITING" /\ f[t] \in {a.notify[t], "NOT_WAITING"}
      /\ \A u \in Task \ {t} : f[u] = a.notify[u]
  BY <1>1, KernelFields DEF TaskSet, NotifyStates
<1> HIDE DEF f, m
<1>4. m \in Kernel
  <2> HIDE DEF s, z
  <2> QED
    BY <1>1, <1>2, <1>3 DEF Kernel
<1>5. /\ m.suspended = s /\ m.asleep = z /\ m.notify = f
      /\ m.ready = a.ready /\ m.delayed = a.delayed /\ m.overflow = a.overflow /\ m.dead = a.dead
      /\ m.wake = a.wake /\ m.prio = a.prio /\ m.live = a.live /\ m.gone = a.gone /\ m.value = a.value
      /\ m.top = a.top /\ m.next = a.next /\ SameEvents(a, m) /\ Steady(a, m)
  BY <1>1, <1>2 DEF Kernel, SameEvents, Steady, SameClock, SameCpu
<1>6. ReadyTasks(m) = ReadyTasks(a) /\ Blocked(m) = Blocked(a)
  BY <1>5 DEF ReadyTasks, Blocked
<1>7. Apart(m)
  BY <1>1, <1>5, <1>6 DEF Apart, Hung, Blocked
<1>8. Timed(m)
  BY <1>1, <1>5 DEF Timed, Steady, SameClock
<1>9. Others(a, m, {t})
  BY <1>3, <1>5, <1>6 DEF Others, Same, SameEvents
<1>10. Others(k, m, {t})
  BY <1>1, <1>9, OthersThen
<1>11. Steady(k, m)
  BY <1>1, <1>5 DEF Steady, SameClock, SameCpu
<1> QED
  BY <1>1, <1>3, <1>4, <1>5, <1>7, <1>8, <1>10, <1>11 DEF SameTasks, SameEvents, m

\* A task has become ready.
Risen(k, m, t) ==
    /\ m \in Kernel /\ Apart(m) /\ Timed(m) /\ Others(k, m, {t})
    /\ SameClock(k, m) /\ SameCpu(k, m)
    /\ ReadyTasks(m) = ReadyTasks(k) \cup {t} /\ (TopOK(k) => TopOK(m))
    /\ m.live = k.live /\ m.gone = k.gone /\ m.prio = k.prio /\ m.pending = k.pending

\* The event item of a task has been put in xPendingReadyList.
Pends(k, m, t) ==
    /\ m \in Kernel /\ Apart(m) /\ Timed(m) /\ Others(k, m, {t})
    /\ SameClock(k, m) /\ SameCpu(k, m) /\ SameState(k, m) /\ m.top = k.top
    /\ m.live = k.live /\ m.gone = k.gone /\ m.prio = k.prio
    /\ ToSet(m.pending) = ToSet(k.pending) \cup {t}

\* A task moves to its ready list, in time.
LEMMA MoveTimed ==
    ASSUME NEW k \in Kernel, Apart(k), Timed(k), NEW t \in Task
    PROVE  LET m == MoveToReady(k, t) IN
           Risen(k, m, t) /\ m.yield = k.yield /\ SameTasks(k, m) /\ SameEvents(k, m)
<1> DEFINE m == MoveToReady(k, t)
<1>1. /\ m \in Kernel /\ Apart(m) /\ Readied(k, m, {t})
      /\ m.next = k.next /\ m.yield = k.yield /\ SameEvents(k, m)
  BY MoveReady
<1> HIDE DEF m
<1>2. Timed(m)
  BY <1>1, TimedAfter
<1>3. Others(k, m, {t})
  BY <1>1 DEF Readied, SameEvents, Others, Same, SameTasks, Blocked
<1>4. TopOK(k) => TopOK(m)
  <2>1. k.top \in Int /\ m.top \in Int /\ \A u \in Task : k.prio[u] \in Int
    BY <1>1, KernelFields DEF Priority
  <2>2. \A u \in ReadyTasks(k) : u \in Task
    BY ReadyHere
  <2>3. m.top >= k.top /\ m.top >= k.prio[t] /\ m.prio = k.prio /\ ReadyTasks(m) = ReadyTasks(k) \cup {t}
    BY <1>1 DEF Readied, SameTasks
  <2> QED
    BY <2>1, <2>2, <2>3 DEF TopOK
<1>5. /\ SameClock(k, m) /\ SameCpu(k, m) /\ SameTasks(k, m)
      /\ ReadyTasks(m) = ReadyTasks(k) \cup {t}
  BY <1>1 DEF Readied
<1> QED
  BY <1>1, <1>2, <1>3, <1>4, <1>5 DEF Risen, SameTasks, SameEvents, m

\* Fields that no list depends on: asleep, yield, notify and value.
WithMarks(k, z, y, f, v) == [k EXCEPT !.asleep = z, !.yield = y, !.notify = f, !.value = v]

\* Only the notification fields, the asleep marks and xYieldPending are
\* written.
LEMMA SetMarks ==
    ASSUME NEW k \in Kernel, Apart(k), Timed(k), NEW z \in TaskSet, NEW y \in BOOLEAN,
           NEW f \in NotifyStates, NEW v \in NotifyValues
    PROVE  LET m == WithMarks(k, z, y, f, v) IN
           /\ m \in Kernel /\ Apart(m) /\ Timed(m) /\ SameState(k, m) /\ SameClock(k, m)
           /\ SameCpu(k, m) /\ SameEvents(k, m) /\ m.top = k.top /\ m.next = k.next
           /\ ReadyTasks(m) = ReadyTasks(k) /\ Blocked(m) = Blocked(k)
           /\ m.live = k.live /\ m.gone = k.gone /\ m.prio = k.prio
           /\ m.asleep = z /\ m.yield = y /\ m.notify = f /\ m.value = v
<1> DEFINE m == WithMarks(k, z, y, f, v)
<1>1. m \in Kernel /\ m.asleep = z /\ m.yield = y /\ m.notify = f /\ m.value = v
  BY DEF Kernel, WithMarks
<1>2. /\ SameState(k, m) /\ SameClock(k, m) /\ SameCpu(k, m) /\ SameEvents(k, m)
  BY DEF Kernel, WithMarks, SameState, SameClock, SameCpu, SameEvents
<1>3. m.top = k.top /\ m.next = k.next /\ m.live = k.live /\ m.gone = k.gone /\ m.prio = k.prio
  BY DEF Kernel, WithMarks
<1> HIDE DEF m
<1>4. Apart(m) /\ ReadyTasks(m) = ReadyTasks(k) /\ Blocked(m) = Blocked(k)
  BY <1>2, <1>3, ApartSame DEF SameState
<1>5. Timed(m)
  BY <1>2, <1>3 DEF Timed, SameState, SameClock
<1> QED
  BY <1>1, <1>2, <1>3, <1>4, <1>5 DEF m

\* Marks set before or after a task becomes ready or pending.
LEMMA RisenMarks ==
    ASSUME NEW k \in Kernel, NEW n, NEW t \in Task, Risen(k, n, t),
           NEW z \in TaskSet, NEW y \in BOOLEAN, NEW f \in NotifyStates, NEW v \in NotifyValues,
           \A u \in Task \ {t} : (u \in z <=> u \in k.asleep) /\ f[u] = k.notify[u] /\ v[u] = k.value[u]
    PROVE  LET m == WithMarks(n, z, y, f, v) IN
           /\ Risen(k, m, t) /\ m.yield = y
           /\ m.asleep = z /\ m.notify = f /\ m.value = v
<1> DEFINE m == WithMarks(n, z, y, f, v)
<1>1. n \in Kernel /\ Apart(n) /\ Timed(n)
  BY DEF Risen
<1>2. /\ m \in Kernel /\ Apart(m) /\ Timed(m) /\ SameState(n, m) /\ SameClock(n, m)
      /\ SameCpu(n, m) /\ SameEvents(n, m) /\ m.top = n.top
      /\ ReadyTasks(m) = ReadyTasks(n) /\ Blocked(m) = Blocked(n)
      /\ m.live = n.live /\ m.gone = n.gone /\ m.prio = n.prio
      /\ m.asleep = z /\ m.yield = y /\ m.notify = f /\ m.value = v
  BY <1>1, SetMarks
<1> HIDE DEF m
<1>3. Others(k, m, {t})
  BY <1>2 DEF Risen, Others, Same, SameState, SameEvents
<1>4. TopOK(k) => TopOK(m)
  BY <1>2 DEF Risen, TopOK
<1>5. SameClock(k, m) /\ SameCpu(k, m)
  BY <1>2 DEF Risen, SameClock, SameCpu
<1>6. Risen(k, m, t)
  BY <1>2, <1>3, <1>4, <1>5 DEF Risen, SameEvents
<1> QED
  BY <1>2, <1>6 DEF m

\* The event item of a task that is not in xPendingReadyList is put there.
LEMMA PendTask ==
    ASSUME NEW k \in Kernel, Apart(k), Timed(k), NEW t \in Task, t \notin ToSet(k.pending)
    PROVE  LET m == [k EXCEPT !.pending = Append(@, t)] IN
           Pends(k, m, t) /\ m.yield = k.yield /\ SameTasks(k, m) /\ m.event = k.event
<1> DEFINE s == Append(k.pending, t)
           m == [k EXCEPT !.pending = Append(@, t)]
<1>1. s \in TaskList /\ ToSet(s) = ToSet(k.pending) \cup {t}
  <2>1. k.pending \in Seq(Task) /\ IsInjective(k.pending)
    BY KernelFields, TaskLists
  <2> QED
    BY <2>1, AppendItems DEF TaskList
<1>2. m = [k EXCEPT !.pending = s]
  OBVIOUS
<1> HIDE DEF s, m
<1>3. m \in Kernel /\ m.pending = s /\ m.yield = k.yield /\ m.top = k.top /\ m.next = k.next /\ m.event = k.event
  BY <1>1, <1>2 DEF Kernel
<1>4. SameState(k, m) /\ SameTasks(k, m) /\ SameClock(k, m) /\ SameCpu(k, m)
  BY <1>2 DEF Kernel, SameState, SameTasks, SameClock, SameCpu
<1>5. Apart(m) /\ ReadyTasks(m) = ReadyTasks(k) /\ Blocked(m) = Blocked(k)
  BY <1>4, ApartSame DEF SameState, SameTasks
<1>6. Timed(m)
  BY <1>3, <1>4 DEF Timed, SameState, SameClock
<1>7. Others(k, m, {t})
  BY <1>1, <1>3, <1>4, <1>5 DEF Others, Same, SameState, SameTasks
<1> QED
  BY <1>1, <1>3, <1>4, <1>5, <1>6, <1>7 DEF Pends, SameTasks, m

\* The notification fields may be written after a task was made pending.
LEMMA PendsMarks ==
    ASSUME NEW k \in Kernel, NEW n, NEW t \in Task, Pends(k, n, t),
           NEW z \in TaskSet, NEW y \in BOOLEAN, NEW f \in NotifyStates, NEW v \in NotifyValues,
           \A u \in Task \ {t} : (u \in z <=> u \in k.asleep) /\ f[u] = k.notify[u] /\ v[u] = k.value[u]
    PROVE  LET m == WithMarks(n, z, y, f, v) IN
           /\ Pends(k, m, t) /\ m.yield = y
           /\ m.asleep = z /\ m.notify = f /\ m.value = v
<1> DEFINE m == WithMarks(n, z, y, f, v)
<1>1. n \in Kernel /\ Apart(n) /\ Timed(n)
  BY DEF Pends
<1>2. /\ m \in Kernel /\ Apart(m) /\ Timed(m) /\ SameState(n, m) /\ SameClock(n, m)
      /\ SameCpu(n, m) /\ SameEvents(n, m) /\ m.top = n.top
      /\ ReadyTasks(m) = ReadyTasks(n) /\ Blocked(m) = Blocked(n)
      /\ m.live = n.live /\ m.gone = n.gone /\ m.prio = n.prio
      /\ m.asleep = z /\ m.yield = y /\ m.notify = f /\ m.value = v
  BY <1>1, SetMarks
<1> HIDE DEF m
<1>3. Others(k, m, {t})
  BY <1>2 DEF Pends, Others, Same, SameState, SameEvents
<1>4. SameClock(k, m) /\ SameCpu(k, m) /\ SameState(k, m)
  BY <1>2 DEF Pends, SameClock, SameCpu, SameState
<1>5. Pends(k, m, t)
  BY <1>2, <1>3, <1>4 DEF Pends, SameEvents
<1> QED
  BY <1>2, <1>5 DEF m

\* vTaskResume.
LEMMA Resume ==
    ASSUME NEW k \in Kernel, Apart(k), Timed(k), NEW t \in Task, k.cur \in Task
    PROVE  LET r == ResumeTask(k, t)
               m == r.k
           IN  \/ m = k /\ r.yield = FALSE
               \/ /\ t \in k.suspended /\ t \notin ToSet(k.pending) /\ Risen(k, m, t) /\ m.yield = k.yield
                  /\ t \notin m.asleep /\ m.notify = k.notify /\ m.value = k.value
                  /\ r.yield \in BOOLEAN /\ (~r.yield => k.prio[t] < k.prio[k.cur])
<1>1. CASE ~(t # k.cur /\ prvTaskIsTaskSuspended(k, t))
  BY <1>1 DEF ResumeTask
<1>2. CASE t # k.cur /\ prvTaskIsTaskSuspended(k, t)
  <2> DEFINE n == MoveToReady(k, t)
             z == n.asleep \ {t}
             m == WithMarks(n, z, n.yield, n.notify, n.value)
             y == k.prio[t] >= k.prio[k.cur]
  <2>1. Risen(k, n, t) /\ n.yield = k.yield /\ SameTasks(k, n)
    BY MoveTimed
  <2>2. n \in Kernel
    BY <2>1 DEF Risen
  <2>3. ResumeTask(k, t) = [k |-> [n EXCEPT !.asleep = z], yield |-> y]
    BY <1>2 DEF ResumeTask
  <2> HIDE DEF n
  <2>4. [n EXCEPT !.asleep = z] = m
    BY <2>2 DEF WithMarks, Kernel
  <2>5. /\ z \in TaskSet /\ n.yield \in BOOLEAN /\ n.notify \in NotifyStates /\ n.value \in NotifyValues
    BY <2>2 DEF Kernel, TaskSet
  <2>6. \A u \in Task \ {t} : (u \in z <=> u \in k.asleep) /\ n.notify[u] = k.notify[u] /\ n.value[u] = k.value[u]
    BY <2>1 DEF SameTasks
  <2>7. t \notin z
    OBVIOUS
  <2> HIDE DEF z
  <2>8. /\ Risen(k, m, t) /\ m.yield = n.yield /\ m.asleep = z /\ m.notify = n.notify /\ m.value = n.value
    BY <2>1, <2>5, <2>6, RisenMarks
  <2>9. t \in k.suspended /\ t \notin ToSet(k.pending)
    <3>1. k.pending \in TaskList
      BY KernelFields
    <3> QED
      BY <1>2, <3>1, TaskLists DEF prvTaskIsTaskSuspended, InEventList
  <2>10. y \in BOOLEAN /\ (~y => k.prio[t] < k.prio[k.cur])
    BY KernelFields DEF Priority
  <2> HIDE DEF m, y
  <2>11. ResumeTask(k, t).k = m /\ ResumeTask(k, t).yield = y
    BY <2>3, <2>4
  <2>12. m.yield = k.yield /\ t \notin m.asleep /\ m.notify = k.notify /\ m.value = k.value
    BY <2>1, <2>7, <2>8 DEF SameTasks
  <2> QED
    BY <2>8, <2>9, <2>10, <2>11, <2>12
<1> QED
  BY <1>1, <1>2

\* xTaskResumeFromISR.
LEMMA ResumeFromISR ==
    ASSUME NEW k \in Kernel, Apart(k), Timed(k), NEW t \in Task, k.cur \in Task
    PROVE  LET m == xTaskResumeFromISR(k, t)
           IN  \/ m = k
               \/ /\ t \in k.suspended /\ t \notin ToSet(k.pending)
                  /\ t \notin m.asleep /\ m.notify = k.notify /\ m.value = k.value
                  /\ \/ k.locks = 0 /\ Risen(k, m, t) /\ (~m.yield => ~k.yield /\ k.prio[t] < k.prio[k.cur])
                     \/ k.locks # 0 /\ Pends(k, m, t) /\ m.yield = k.yield
<1> DEFINE m == xTaskResumeFromISR(k, t)
           z == k.asleep \ {t}
           a == WithMarks(k, z, k.yield, k.notify, k.value)
<1>1. CASE ~prvTaskIsTaskSuspended(k, t)
  BY <1>1 DEF xTaskResumeFromISR
<1>2. CASE prvTaskIsTaskSuspended(k, t)
  <2>1. t \in k.suspended /\ t \notin ToSet(k.pending)
    <3>1. k.pending \in TaskList
      BY KernelFields
    <3> QED
      BY <1>2, <3>1, TaskLists DEF prvTaskIsTaskSuspended, InEventList
  <2>2. [k EXCEPT !.asleep = z] = a
    BY DEF WithMarks, Kernel
  <2>3. z \in TaskSet /\ k.yield \in BOOLEAN /\ k.notify \in NotifyStates /\ k.value \in NotifyValues
    BY DEF Kernel, TaskSet
  <2>4. /\ a \in Kernel /\ Apart(a) /\ Timed(a) /\ SameState(k, a) /\ SameClock(k, a)
        /\ SameCpu(k, a) /\ SameEvents(k, a) /\ a.top = k.top /\ a.next = k.next
        /\ ReadyTasks(a) = ReadyTasks(k) /\ Blocked(a) = Blocked(k)
        /\ a.live = k.live /\ a.gone = k.gone /\ a.prio = k.prio
        /\ a.asleep = z /\ a.yield = k.yield /\ a.notify = k.notify /\ a.value = k.value
    <3> HIDE DEF z
    <3> QED
      BY <2>3, SetMarks
  <2>5. Others(k, a, {t})
    <3> HIDE DEF a
    <3> QED
      BY <2>4 DEF Others, Same, SameState, SameEvents
  <2>6. CASE k.locks = 0
    <3> DEFINE n == MoveToReady(a, t)
               y == n.yield \/ k.prio[t] >= k.prio[k.cur]
               w == [n EXCEPT !.yield = y]
    <3>1. m = w
      BY <1>2, <2>2, <2>6 DEF xTaskResumeFromISR
    <3> HIDE DEF a, z
    <3>2. Risen(a, n, t) /\ n.yield = a.yield /\ SameTasks(a, n)
      BY <2>4, MoveTimed
    <3> HIDE DEF n, m
    <3>3. n \in Kernel /\ Apart(n)
      BY <3>2 DEF Risen
    <3>4. y \in BOOLEAN
      OBVIOUS
    <3>5. ~y => ~k.yield /\ k.prio[t] < k.prio[k.cur]
      BY <2>4, <3>2, KernelFields DEF Priority
    <3> HIDE DEF y
    <3>6. w \in Kernel /\ Apart(w) /\ w.yield = y /\ Switched(n, w) /\ w.cur = n.cur /\ w.top = n.top
      BY <3>3, <3>4, SetYield
    <3> HIDE DEF w
    <3>7. Risen(k, w, t)
      <4>1. Others(k, w, {t})
        <5>1. Others(a, n, {t}) /\ Others(n, w, {})
          BY <3>2, <3>6, SwitchedOthers DEF Risen
        <5>2. Others(k, n, {t})
          BY <2>5, <5>1, OthersThen
        <5> QED
          BY <5>1, <5>2, OthersThen
      <4>2. SameClock(k, w) /\ SameCpu(k, w)
        BY <2>4, <3>2, <3>6 DEF Risen, Switched, SameClock, SameCpu
      <4>3. Timed(w)
        BY <3>2, <3>6 DEF Risen, Timed, Switched, SameClock
      <4>4. ReadyTasks(w) = ReadyTasks(k) \cup {t} /\ w.live = k.live /\ w.gone = k.gone /\ w.prio = k.prio /\ w.pending = k.pending
        BY <2>4, <3>2, <3>6 DEF Risen, Switched, SameTasks, SameEvents
      <4>5. TopOK(k) => TopOK(w)
        <5>1. TopOK(k) => TopOK(a)
          BY <2>4 DEF TopOK
        <5>2. TopOK(n) => TopOK(w)
          BY <3>6 DEF TopOK, Switched, SameTasks
        <5> QED
          BY <3>2, <5>1, <5>2 DEF Risen
      <4> QED
        BY <3>6, <4>1, <4>2, <4>3, <4>4, <4>5 DEF Risen
    <3>8. t \notin w.asleep /\ w.notify = k.notify /\ w.value = k.value
      BY <2>4, <3>2, <3>6 DEF Switched, SameTasks, z
    <3> QED
      BY <2>1, <2>6, <3>1, <3>5, <3>6, <3>7, <3>8 DEF m
  <2>7. CASE k.locks # 0
    <3> DEFINE w == [a EXCEPT !.pending = Append(@, t)]
    <3>1. m = w
      BY <1>2, <2>2, <2>7 DEF xTaskResumeFromISR
    <3> HIDE DEF a, z
    <3>2. t \notin ToSet(a.pending)
      BY <2>1, <2>4 DEF SameEvents
    <3>3. Pends(a, w, t) /\ w.yield = a.yield /\ SameTasks(a, w)
      BY <2>4, <3>2, PendTask
    <3> HIDE DEF w, m
    <3>4. Pends(k, w, t)
      <4>1. Others(k, w, {t})
        BY <2>5, <3>3, OthersThen DEF Pends
      <4>2. SameClock(k, w) /\ SameCpu(k, w) /\ SameState(k, w)
        BY <2>4, <3>3 DEF Pends, SameClock, SameCpu, SameState
      <4> QED
        BY <2>4, <3>3, <4>1, <4>2 DEF Pends, SameEvents
    <3>5. t \notin w.asleep /\ w.notify = k.notify /\ w.value = k.value /\ w.yield = k.yield
      BY <2>4, <3>3 DEF SameTasks, z
    <3> QED
      BY <2>1, <2>7, <3>1, <3>4, <3>5 DEF m
  <2> QED
    BY <2>6, <2>7
<1> QED
  BY <1>1, <1>2

\* Only the marks of a task have changed.
Marked(k, m, t) ==
    /\ m \in Kernel /\ Apart(m) /\ Timed(m) /\ Others(k, m, {t}) /\ SameState(k, m)
    /\ SameClock(k, m) /\ SameCpu(k, m) /\ SameEvents(k, m) /\ m.top = k.top
    /\ ReadyTasks(m) = ReadyTasks(k) /\ Blocked(m) = Blocked(k)
    /\ m.live = k.live /\ m.gone = k.gone /\ m.prio = k.prio /\ m.asleep = k.asleep

\* The marks change and then the lists, or the lists and then xYieldPending.
LEMMA MarkedRisen ==
    ASSUME NEW k, NEW m, NEW n, NEW t, Marked(k, m, t), Risen(m, n, t)
    PROVE  Risen(k, n, t)
<1>1. Others(k, n, {t})
  BY OthersThen DEF Marked, Risen
<1>2. SameClock(k, n) /\ SameCpu(k, n)
  BY DEF Marked, Risen, SameClock, SameCpu
<1>3. TopOK(k) => TopOK(n)
  BY DEF Marked, Risen, TopOK
<1> QED
  BY <1>1, <1>2, <1>3 DEF Marked, Risen, SameEvents

\* A task is marked and then made pending (the FromISR functions while the
\* scheduler is suspended).
LEMMA MarkedPends ==
    ASSUME NEW k, NEW m, NEW n, NEW t, Marked(k, m, t), Pends(m, n, t)
    PROVE  Pends(k, n, t)
<1>1. Others(k, n, {t})
  BY OthersThen DEF Marked, Pends
<1>2. SameClock(k, n) /\ SameCpu(k, n) /\ SameState(k, n)
  BY DEF Marked, Pends, SameClock, SameCpu, SameState
<1> QED
  BY <1>1, <1>2 DEF Marked, Pends, SameEvents

\* Setting xYieldPending after a task was made ready.
LEMMA RisenYield ==
    ASSUME NEW k, NEW n, NEW t, Risen(k, n, t), NEW y \in BOOLEAN
    PROVE  LET m == [n EXCEPT !.yield = y] IN Risen(k, m, t) /\ SameTasks(n, m) /\ m.yield = y
<1> DEFINE m == [n EXCEPT !.yield = y]
<1>1. m \in Kernel /\ Apart(m) /\ m.yield = y /\ Switched(n, m) /\ m.cur = n.cur /\ m.top = n.top
  BY SetYield DEF Risen
<1> HIDE DEF m
<1>2. Others(k, m, {t})
  <2>1. Others(k, n, {t}) /\ Others(n, m, {})
    BY <1>1, SwitchedOthers DEF Risen
  <2> QED
    BY <2>1, OthersThen
<1>3. SameClock(k, m) /\ SameCpu(k, m) /\ SameTasks(n, m)
  BY <1>1 DEF Risen, Switched, SameClock, SameCpu
<1>4. Timed(m) /\ (TopOK(k) => TopOK(m))
  BY <1>1 DEF Risen, Timed, Switched, SameClock, TopOK, SameTasks
<1>5. Risen(k, m, t)
  BY <1>1, <1>2, <1>3, <1>4 DEF Risen, Switched, SameTasks, SameEvents
<1> QED
  BY <1>1, <1>3, <1>5 DEF m

\* Setting xYieldPending after a task was made pending.
LEMMA PendsYield ==
    ASSUME NEW k, NEW n, NEW t, Pends(k, n, t), NEW y \in BOOLEAN
    PROVE  LET m == [n EXCEPT !.yield = y] IN Pends(k, m, t) /\ SameTasks(n, m) /\ m.yield = y
<1> DEFINE m == [n EXCEPT !.yield = y]
<1>1. n \in Kernel /\ Apart(n)
  BY DEF Pends
<1>2. m \in Kernel /\ Apart(m) /\ m.yield = y /\ Switched(n, m) /\ m.cur = n.cur /\ m.top = n.top /\ m.ready = n.ready
  BY <1>1, SetYield
<1> HIDE DEF m
<1>3. Others(k, m, {t})
  <2>1. Others(k, n, {t}) /\ Others(n, m, {})
    BY <1>2, SwitchedOthers DEF Pends
  <2> QED
    BY <2>1, OthersThen
<1>4. SameClock(k, m) /\ SameCpu(k, m) /\ SameTasks(n, m) /\ SameState(k, m)
  BY <1>2 DEF Pends, Switched, SameClock, SameCpu, SameState
<1>5. Timed(m)
  BY <1>2 DEF Pends, Timed, Switched, SameClock
<1>6. Pends(k, m, t)
  BY <1>2, <1>3, <1>4, <1>5 DEF Pends, Switched, SameTasks, SameEvents
<1> QED
  BY <1>2, <1>4, <1>6 DEF m

\* The state and the value of a task's notification are set.
WithNotify(k, t, s, v) == [k EXCEPT !.notify[t] = s, !.value[t] = v]

\* Only the notification state and value of one task are written.
LEMMA SetNotify ==
    ASSUME NEW k \in Kernel, Apart(k), Timed(k), NEW t \in Task,
           NEW s \in {"NOT_WAITING", "WAITING", "RECEIVED"}, NEW v \in Nat
    PROVE  LET m == WithNotify(k, t, s, v) IN
           /\ Marked(k, m, t) /\ m.yield = k.yield /\ m.notify[t] = s /\ m.value[t] = v
<1> DEFINE m == WithNotify(k, t, s, v)
           f == [k.notify EXCEPT ![t] = s]
           g == [k.value EXCEPT ![t] = v]
           w == WithMarks(k, k.asleep, k.yield, f, g)
<1>1. m = w
  BY DEF WithNotify, WithMarks, Kernel
<1>2. /\ k.asleep \in TaskSet /\ k.yield \in BOOLEAN
      /\ f \in NotifyStates /\ g \in NotifyValues /\ f[t] = s /\ g[t] = v
      /\ \A u \in Task \ {t} : f[u] = k.notify[u] /\ g[u] = k.value[u]
  BY KernelFields DEF TaskSet, NotifyStates, NotifyValues
<1> HIDE DEF f, g
<1>3. /\ w \in Kernel /\ Apart(w) /\ Timed(w) /\ SameState(k, w) /\ SameClock(k, w)
      /\ SameCpu(k, w) /\ SameEvents(k, w) /\ w.top = k.top /\ w.next = k.next
      /\ ReadyTasks(w) = ReadyTasks(k) /\ Blocked(w) = Blocked(k)
      /\ w.live = k.live /\ w.gone = k.gone /\ w.prio = k.prio
      /\ w.asleep = k.asleep /\ w.yield = k.yield /\ w.notify = f /\ w.value = g
  BY <1>2, SetMarks
<1> HIDE DEF w
<1>4. Others(k, w, {t})
  BY <1>2, <1>3 DEF Others, Same, SameState, SameEvents
<1>5. Marked(k, w, t)
  BY <1>3, <1>4 DEF Marked
<1>6. w.yield = k.yield /\ w.notify[t] = s /\ w.value[t] = v
  BY <1>2, <1>3
<1> HIDE DEF m
<1>7. Marked(k, m, t) /\ m.yield = k.yield /\ m.notify[t] = s /\ m.value[t] = v
  BY <1>1, <1>5, <1>6
<1> QED
  BY <1>7 DEF m

\* What a notification leaves in a task.
LEMMA NotifyTask ==
    ASSUME NEW k \in Kernel, Apart(k), Timed(k), NEW t \in Task, NEW a \in eNotifyAction
    PROVE  LET m == Notified(k, t, a) IN
           Marked(k, m, t) /\ m.yield = k.yield /\ m.notify[t] = "RECEIVED"
<1> DEFINE v == NewValue(k.value[t], a, k.notify[t] = "RECEIVED")
           m == Notified(k, t, a)
<1>1. v \in Nat
  <2>1. k.value[t] \in Nat
    BY KernelFields
  <2> QED
    BY <2>1 DEF NewValue, eNotifyAction
<1>2. m = WithNotify(k, t, "RECEIVED", v)
  BY DEF Notified, WithNotify, Kernel
<1> HIDE DEF v, m
<1>3. Marked(k, m, t) /\ m.yield = k.yield /\ m.notify[t] = "RECEIVED"
  <2> DEFINE n == WithNotify(k, t, "RECEIVED", v)
  <2>1. Marked(k, n, t) /\ n.yield = k.yield /\ n.notify[t] = "RECEIVED"
    BY <1>1, SetNotify
  <2> HIDE DEF n
  <2>2. m = n
    BY <1>2 DEF n
  <2> QED
    BY <2>1, <2>2
<1> QED
  BY <1>3 DEF m

\* xTaskGenericNotify.
LEMMA GenericNotify ==
    ASSUME NEW k \in Kernel, Apart(k), Timed(k), NEW t \in Task, NEW a \in eNotifyAction, k.cur \in Task
    PROVE  LET r == xTaskGenericNotify(k, t, a)
               m == r.k
           IN  /\ m.notify[t] = "RECEIVED" /\ m.asleep = k.asleep /\ m.yield = k.yield
               /\ \/ k.notify[t] # "WAITING" /\ Marked(k, m, t) /\ r.yield = FALSE
                  \/ /\ k.notify[t] = "WAITING" /\ Risen(k, m, t)
                     /\ r.yield \in BOOLEAN /\ (~r.yield => k.prio[t] <= k.prio[k.cur])
<1> DEFINE c == Notified(k, t, a)
           n == MoveToReady(c, t)
           y == k.prio[t] > k.prio[k.cur]
           r == xTaskGenericNotify(k, t, a)
<1>1. Marked(k, c, t) /\ c.yield = k.yield /\ c.notify[t] = "RECEIVED"
  BY NotifyTask
<1>2. r = IF k.notify[t] = "WAITING" THEN [k |-> n, yield |-> y] ELSE [k |-> c, yield |-> FALSE]
  BY DEF xTaskGenericNotify
<1> HIDE DEF c
<1>3. Risen(c, n, t) /\ n.yield = c.yield /\ SameTasks(c, n)
  BY <1>1, MoveTimed DEF Marked
<1> HIDE DEF n, r
<1>4. Risen(k, n, t)
  BY <1>1, <1>3, MarkedRisen
<1>5. y \in BOOLEAN /\ (~y => k.prio[t] <= k.prio[k.cur])
  BY KernelFields DEF Priority
<1> HIDE DEF y
<1>6. CASE k.notify[t] = "WAITING"
  <2>1. r.k = n /\ r.yield = y
    BY <1>2, <1>6
  <2>2. n.notify[t] = "RECEIVED" /\ n.asleep = k.asleep /\ n.yield = k.yield
    BY <1>1, <1>3 DEF Marked, SameTasks
  <2> QED
    BY <1>4, <1>5, <1>6, <2>1, <2>2 DEF r
<1>7. CASE k.notify[t] # "WAITING"
  <2>1. r.k = c /\ r.yield = FALSE
    BY <1>2, <1>7
  <2>2. c.asleep = k.asleep
    BY <1>1 DEF Marked
  <2> QED
    BY <1>1, <1>7, <2>1, <2>2 DEF r
<1> QED
  BY <1>6, <1>7

\* xTaskGenericNotifyFromISR and vTaskGenericNotifyGiveFromISR.
LEMMA GenericNotifyFromISR ==
    ASSUME NEW k \in Kernel, Apart(k), Timed(k), NEW t \in Task, NEW a \in eNotifyAction, k.cur \in Task,
           k.notify[t] = "WAITING" => t \notin ToSet(k.pending)
    PROVE  LET m == xTaskGenericNotifyFromISR(k, t, a)
           IN  /\ m.notify[t] = "RECEIVED" /\ m.asleep = k.asleep
               /\ \/ k.notify[t] # "WAITING" /\ Marked(k, m, t) /\ m.yield = k.yield
                  \/ /\ k.notify[t] = "WAITING"
                     /\ \/ k.locks = 0 /\ Risen(k, m, t)
                        \/ k.locks # 0 /\ Pends(k, m, t)
                     /\ ~m.yield => ~k.yield /\ k.prio[t] <= k.prio[k.cur]
<1> DEFINE c == Notified(k, t, a)
           n == IF k.locks = 0 THEN MoveToReady(c, t) ELSE [c EXCEPT !.pending = Append(@, t)]
           y == n.yield \/ k.prio[t] > k.prio[k.cur]
           w == [n EXCEPT !.yield = y]
           m == xTaskGenericNotifyFromISR(k, t, a)
<1>1. Marked(k, c, t) /\ c.yield = k.yield /\ c.notify[t] = "RECEIVED"
  BY NotifyTask
<1>2. m = IF k.notify[t] = "WAITING" THEN w ELSE c
  BY DEF xTaskGenericNotifyFromISR
<1> HIDE DEF c, m
<1>3. c.asleep = k.asleep /\ c \in Kernel /\ Apart(c) /\ Timed(c) /\ c.pending = k.pending
  BY <1>1 DEF Marked, SameEvents
<1>4. CASE k.notify[t] # "WAITING"
  BY <1>1, <1>2, <1>3, <1>4 DEF m
<1>5. ASSUME k.notify[t] = "WAITING", n.yield = k.yield
      PROVE  y \in BOOLEAN /\ (~y => ~k.yield /\ k.prio[t] <= k.prio[k.cur])
  BY <1>5, KernelFields DEF Priority
<1>6. CASE k.notify[t] = "WAITING" /\ k.locks = 0
  <2> DEFINE x == MoveToReady(c, t)
  <2>1. n = x
    BY <1>6
  <2>2. Risen(c, x, t) /\ x.yield = c.yield /\ SameTasks(c, x)
    BY <1>3, MoveTimed
  <2> HIDE DEF n, x
  <2>3. Risen(k, n, t) /\ n.yield = k.yield /\ SameTasks(c, n)
    BY <1>1, <2>1, <2>2, MarkedRisen
  <2>4. y \in BOOLEAN /\ (~y => ~k.yield /\ k.prio[t] <= k.prio[k.cur])
    BY <1>5, <1>6, <2>3
  <2> HIDE DEF y
  <2>5. Risen(k, w, t) /\ SameTasks(n, w) /\ w.yield = y
    BY <2>3, <2>4, RisenYield
  <2> HIDE DEF w
  <2>6. w.notify[t] = "RECEIVED" /\ w.asleep = k.asleep
    BY <1>1, <1>3, <2>3, <2>5 DEF SameTasks
  <2> QED
    BY <1>2, <1>6, <2>4, <2>5, <2>6 DEF m
<1>7. CASE k.notify[t] = "WAITING" /\ k.locks # 0
  <2> DEFINE x == [c EXCEPT !.pending = Append(@, t)]
  <2>1. n = x
    BY <1>7
  <2>2. Pends(c, x, t) /\ x.yield = c.yield /\ SameTasks(c, x)
    BY <1>3, <1>7, PendTask
  <2> HIDE DEF n, x
  <2>3. Pends(k, n, t) /\ n.yield = k.yield /\ SameTasks(c, n)
    BY <1>1, <2>1, <2>2, MarkedPends
  <2>4. y \in BOOLEAN /\ (~y => ~k.yield /\ k.prio[t] <= k.prio[k.cur])
    BY <1>5, <1>7, <2>3
  <2> HIDE DEF y
  <2>5. Pends(k, w, t) /\ SameTasks(n, w) /\ w.yield = y
    BY <2>3, <2>4, PendsYield
  <2> HIDE DEF w
  <2>6. w.notify[t] = "RECEIVED" /\ w.asleep = k.asleep
    BY <1>1, <1>3, <2>3, <2>5 DEF SameTasks
  <2> QED
    BY <1>2, <1>7, <2>4, <2>5, <2>6 DEF m
<1> QED
  BY <1>4, <1>6, <1>7

\* prvResetNextTaskUnblockTime keeps xNextTaskUnblockTime right.
LEMMA ResetTimed ==
    ASSUME NEW k \in Kernel, Apart(k), Timed(k)
    PROVE  LET m == prvResetNextTaskUnblockTime(k) IN
           /\ m \in Kernel /\ Apart(m) /\ Timed(m) /\ Others(k, m, {}) /\ Steady(k, m)
           /\ m.top = k.top /\ SameTasks(k, m) /\ SameState(k, m) /\ SameEvents(k, m)
           /\ ReadyTasks(m) = ReadyTasks(k) /\ Hung(m) = Hung(k)
<1> DEFINE m == prvResetNextTaskUnblockTime(k)
<1>1. /\ m \in Kernel /\ (k.delayed # <<>> => m.next = k.wake[Head(k.delayed)])
      /\ m.ready = k.ready /\ m.delayed = k.delayed /\ m.overflow = k.overflow
      /\ m.suspended = k.suspended /\ m.dead = k.dead /\ m.wake = k.wake
      /\ m.top = k.top /\ m.yield = k.yield /\ SameTasks(k, m) /\ SameClock(k, m)
      /\ SameCpu(k, m) /\ SameEvents(k, m)
  BY ResetNext
<1> HIDE DEF m
<1>2. Apart(m) /\ ReadyTasks(m) = ReadyTasks(k) /\ Blocked(m) = Blocked(k) /\ Hung(m) = Hung(k)
  BY <1>1, ApartSame DEF SameTasks
<1>3. Timed(m)
  <2>1. ASSUME NEW t \in ToSet(k.delayed) PROVE m.next <= k.wake[t]
    <3>1. k.delayed \in TaskList /\ k.wake \in [Task -> Tick] /\ Sorted(k.delayed, k.wake)
      BY KernelFields DEF Apart
    <3>2. k.delayed # <<>> /\ k.wake[Head(k.delayed)] <= k.wake[t]
      BY <3>1, SortedHead
    <3> QED
      BY <1>1, <3>2
  <2> QED
    BY <1>1, <2>1 DEF Timed, SameClock
<1>4. Others(k, m, {})
  BY <1>1, <1>2 DEF Others, Same, SameTasks, SameEvents
<1>5. Steady(k, m) /\ SameState(k, m)
  BY <1>1 DEF Steady, SameState
<1> QED
  BY <1>1, <1>2, <1>3, <1>4, <1>5 DEF m

\* vTaskDelete(NULL): the task's state item goes to xTasksWaitingTermination.
LEMMA DeleteSelf ==
    ASSUME NEW k \in Kernel, Apart(k), Timed(k), NEW t \in Task, t = k.cur
    PROVE  LET m == DeleteTask(k, t) IN
           /\ m \in Kernel /\ Apart(m) /\ Timed(m) /\ Others(k, m, {t}) /\ Steady(k, m)
           /\ m.top = k.top /\ SameTasks(k, m)
           /\ t \in ToSet(m.dead) /\ t \notin ToSet(m.pending)
<1> DEFINE a == RemoveEventItem(RemoveStateItem(k, t), t)
           d == Append(a.dead, t)
           m == DeleteTask(k, t)
<1>1. /\ a \in Kernel /\ Apart(a) /\ Timed(a) /\ t \notin Hung(a) /\ Others(k, a, {t})
      /\ t \notin ToSet(a.pending) /\ a.top = k.top /\ SameTasks(k, a) /\ Steady(k, a)
  BY RemoveTimed
<1>2. m = [a EXCEPT !.dead = d]
  BY <1>1 DEF DeleteTask, Kernel
<1> HIDE DEF a
<1>3. d \in TaskList /\ ToSet(d) = ToSet(a.dead) \cup {t}
  <2>1. a.dead \in TaskList
    BY <1>1, KernelFields
  <2>2. a.dead \in Seq(Task) /\ IsInjective(a.dead) /\ t \notin ToSet(a.dead)
    BY <1>1, <2>1, TaskLists DEF Hung
  <2> QED
    BY <2>2, AppendItems DEF TaskList
<1> HIDE DEF d, m
<1>4. m \in Kernel
  BY <1>1, <1>2, <1>3 DEF Kernel
<1>5. /\ m.dead = d /\ m.ready = a.ready /\ m.delayed = a.delayed /\ m.overflow = a.overflow
      /\ m.suspended = a.suspended /\ m.wake = a.wake /\ m.top = a.top /\ m.next = a.next
      /\ SameEvents(a, m) /\ Steady(a, m) /\ SameTasks(a, m)
  BY <1>1, <1>2 DEF Kernel, SameEvents, Steady, SameClock, SameCpu, SameTasks
<1>6. ReadyTasks(m) = ReadyTasks(a) /\ Blocked(m) = Blocked(a)
  BY <1>5 DEF ReadyTasks, Blocked
<1>7. Apart(m)
  BY <1>1, <1>3, <1>5, <1>6 DEF Apart, Hung, Blocked, SameTasks
<1>8. Timed(m)
  BY <1>1, <1>5 DEF Timed, Steady, SameClock
<1>9. Others(a, m, {t})
  BY <1>3, <1>5, <1>6 DEF Others, Same, SameEvents, SameTasks
<1>10. Others(k, m, {t})
  BY <1>1, <1>9, OthersThen
<1>11. Steady(k, m) /\ SameTasks(k, m)
  BY <1>1, <1>5 DEF Steady, SameClock, SameCpu, SameTasks
<1>12. t \in ToSet(m.dead) /\ t \notin ToSet(m.pending)
  BY <1>1, <1>3, <1>5 DEF SameEvents
<1>13. m.top = k.top
  BY <1>1, <1>5
<1> QED
  BY <1>4, <1>7, <1>8, <1>10, <1>11, <1>12, <1>13 DEF m

\* vTaskDelete of another task: it is in no list any more.
LEMMA DeleteOther ==
    ASSUME NEW k \in Kernel, Apart(k), Timed(k), NEW t \in Task, t # k.cur
    PROVE  LET m == DeleteTask(k, t) IN
           /\ m \in Kernel /\ Apart(m) /\ Timed(m) /\ Others(k, m, {t}) /\ Steady(k, m)
           /\ m.top = k.top /\ m.live = k.live /\ m.prio = k.prio
           /\ m.notify = k.notify /\ m.value = k.value
           /\ m.asleep = k.asleep \ {t} /\ m.gone = k.gone \cup {t}
           /\ t \notin Hung(m) /\ t \notin ToSet(m.pending)
<1> DEFINE a == RemoveEventItem(RemoveStateItem(k, t), t)
           z == a.asleep \ {t}
           g == a.gone \cup {t}
           b == [a EXCEPT !.asleep = z, !.gone = g]
           w == prvResetNextTaskUnblockTime(b)
           m == DeleteTask(k, t)
<1>1. /\ a \in Kernel /\ Apart(a) /\ Timed(a) /\ t \notin Hung(a) /\ Others(k, a, {t})
      /\ t \notin ToSet(a.pending) /\ a.top = k.top /\ SameTasks(k, a) /\ Steady(k, a)
  BY RemoveTimed
<1>2. m = w
  BY <1>1 DEF DeleteTask, Kernel
<1>3. z \in TaskSet /\ g \in TaskSet /\ z = k.asleep \ {t} /\ g = k.gone \cup {t}
  BY <1>1, KernelFields DEF TaskSet, SameTasks
<1> HIDE DEF a
<1>4. b \in Kernel
  <2> HIDE DEF z, g
  <2> QED
    BY <1>1, <1>3 DEF Kernel
<1>5. /\ b.asleep = z /\ b.gone = g /\ SameState(a, b) /\ b.top = a.top /\ b.next = a.next
      /\ SameEvents(a, b) /\ Steady(a, b) /\ b.live = a.live /\ b.prio = a.prio
      /\ b.notify = a.notify /\ b.value = a.value
  BY <1>1 DEF Kernel, SameEvents, Steady, SameClock, SameCpu, SameState
<1> HIDE DEF b, m
<1>6. Apart(b) /\ ReadyTasks(b) = ReadyTasks(a) /\ Blocked(b) = Blocked(a) /\ Hung(b) = Hung(a)
  BY <1>1, <1>5, ApartSame DEF SameState
<1>7. Timed(b)
  BY <1>1, <1>5 DEF Timed, Steady, SameClock, SameState
<1>8. Others(a, b, {t})
  BY <1>5, <1>6 DEF Others, Same, SameEvents, SameState
<1>9. /\ w \in Kernel /\ Apart(w) /\ Timed(w) /\ Others(b, w, {}) /\ Steady(b, w)
      /\ w.top = b.top /\ SameTasks(b, w) /\ SameState(b, w) /\ SameEvents(b, w)
      /\ ReadyTasks(w) = ReadyTasks(b) /\ Hung(w) = Hung(b)
  BY <1>4, <1>6, <1>7, ResetTimed
<1> HIDE DEF w, z, g
<1>10. Others(k, w, {t})
  BY <1>1, <1>8, <1>9 DEF Others, Same
<1>11. Steady(k, w)
  BY <1>1, <1>5, <1>9 DEF Steady, SameClock, SameCpu
<1>12. /\ w.top = k.top /\ w.live = k.live /\ w.prio = k.prio /\ w.notify = k.notify
       /\ w.value = k.value /\ w.asleep = z /\ w.gone = g
       /\ t \notin Hung(w) /\ t \notin ToSet(w.pending)
  BY <1>1, <1>5, <1>6, <1>9 DEF SameTasks, SameEvents
<1>13. /\ m \in Kernel /\ Apart(m) /\ Timed(m) /\ Others(k, m, {t}) /\ Steady(k, m)
       /\ m.top = k.top /\ m.live = k.live /\ m.prio = k.prio
       /\ m.notify = k.notify /\ m.value = k.value
       /\ m.asleep = k.asleep \ {t} /\ m.gone = k.gone \cup {t}
       /\ t \notin Hung(m) /\ t \notin ToSet(m.pending)
  BY <1>2, <1>3, <1>9, <1>10, <1>11, <1>12
<1> QED
  BY <1>13 DEF m

\* prvDeleteTCB of a task that is in no list.
LEMMA FreeTCB ==
    ASSUME NEW k \in Kernel, Apart(k), Timed(k), NEW t \in Task, t \notin Hung(k)
    PROVE  LET m == prvDeleteTCB(k, t) IN
           /\ m \in Kernel /\ Apart(m) /\ Timed(m) /\ Others(k, m, {t}) /\ Steady(k, m)
           /\ m.top = k.top /\ SameState(k, m) /\ SameEvents(k, m) /\ m.asleep = k.asleep
           /\ m.live = k.live \ {t} /\ m.gone = k.gone \ {t} /\ t \notin Hung(m)
           /\ m.notify[t] = "NOT_WAITING"
<1> DEFINE l == k.live \ {t}
           g == k.gone \ {t}
           p == [k.prio EXCEPT ![t] = tskIDLE_PRIORITY]
           f == [k.notify EXCEPT ![t] = "NOT_WAITING"]
           v == [k.value EXCEPT ![t] = 0]
           m == prvDeleteTCB(k, t)
<1>1. /\ l \in TaskSet /\ g \in TaskSet /\ p \in Priorities /\ f \in NotifyStates /\ v \in NotifyValues
      /\ f[t] = "NOT_WAITING"
      /\ \A u \in Task \ {t} : /\ f[u] = k.notify[u] /\ v[u] = k.value[u] /\ p[u] = k.prio[u]
                               /\ (u \in l <=> u \in k.live) /\ (u \in g <=> u \in k.gone)
  <2>1. tskIDLE_PRIORITY \in Priority
    BY TasksAssumption DEF tskIDLE_PRIORITY, Priority
  <2> QED
    BY <2>1, KernelFields DEF TaskSet, NotifyStates, NotifyValues, Priorities
<1>2. m = [k EXCEPT !.live = l, !.gone = g, !.prio = p, !.notify = f, !.value = v]
  BY DEF prvDeleteTCB, Kernel
<1> HIDE DEF p, f, v, m
<1>3. m \in Kernel
  <2> HIDE DEF l, g
  <2> QED
    BY <1>1, <1>2 DEF Kernel
<1>4. /\ m.live = l /\ m.gone = g /\ m.prio = p /\ m.notify = f /\ m.value = v
      /\ m.asleep = k.asleep /\ SameState(k, m) /\ SameEvents(k, m) /\ Steady(k, m)
      /\ m.top = k.top /\ m.next = k.next
  BY <1>2 DEF Kernel, SameEvents, Steady, SameClock, SameCpu, SameState
<1>5. ReadyTasks(m) = ReadyTasks(k) /\ Blocked(m) = Blocked(k)
  BY <1>4 DEF ReadyTasks, Blocked, SameState
<1>6. Hung(m) = Hung(k)
  BY <1>4, <1>5 DEF Hung, SameState
<1>7. Apart(m)
  <2>1. \A q \in Priority : \A u \in Items(m.ready[q]) : m.prio[u] = q
    <3> SUFFICES ASSUME NEW q \in Priority, NEW u \in Items(k.ready[q]) PROVE p[u] = q
      BY <1>4 DEF SameState
    <3>1. u \in ReadyTasks(k) /\ u \in Task
      BY ReadyRings DEF ReadyTasks
    <3>2. u # t /\ k.prio[u] = q
      BY <3>1 DEF Hung, Apart
    <3> QED
      BY <1>1, <3>1, <3>2
  <2> QED
    BY <1>4, <1>5, <2>1 DEF Apart, SameState
<1>8. Timed(m)
  BY <1>4 DEF Timed, Steady, SameClock, SameState
<1>9. Others(k, m, {t})
  BY <1>1, <1>4, <1>5 DEF Others, Same, SameEvents, SameState
<1> QED
  BY <1>1, <1>3, <1>4, <1>6, <1>7, <1>8, <1>9 DEF m

\* The idle task frees the first of xTasksWaitingTermination.
LEMMA Reap ==
    ASSUME NEW k \in Kernel, Apart(k), Timed(k), k.dead # <<>>
    PROVE  LET m == prvCheckTasksWaitingTermination(k)
               t == Head(k.dead)
           IN  /\ t \in ToSet(k.dead) /\ t \in Task
               /\ m \in Kernel /\ Apart(m) /\ Timed(m) /\ Others(k, m, {t}) /\ Steady(k, m)
               /\ m.top = k.top /\ SameEvents(k, m) /\ m.asleep = k.asleep
               /\ m.live = k.live \ {t} /\ m.gone = k.gone \ {t} /\ t \notin Hung(m)
               /\ m.notify[t] = "NOT_WAITING"
<1> DEFINE t == Head(k.dead)
           a == RemoveStateItem(k, t)
           w == prvDeleteTCB(a, t)
           m == prvCheckTasksWaitingTermination(k)
<1>1. t \in ToSet(k.dead) /\ t \in Task
  <2>1. k.dead \in TaskList
    BY KernelFields
  <2> QED
    BY <2>1, TaskLists
<1>2. m = w
  BY DEF prvCheckTasksWaitingTermination
<1> HIDE DEF t
<1>3. /\ a \in Kernel /\ Apart(a) /\ t \notin Hung(a)
      /\ ReadyTasks(a) = ReadyTasks(k) \ {t} /\ ToSet(a.delayed) = ToSet(k.delayed) \ {t}
      /\ ToSet(a.overflow) = ToSet(k.overflow) \ {t} /\ ToSet(a.dead) = ToSet(k.dead) \ {t}
      /\ a.suspended = k.suspended \ {t}
      /\ \A u \in Task \ {t} : a.wake[u] = k.wake[u]
      /\ a.top = k.top /\ a.next = k.next /\ a.yield = k.yield
      /\ SameTasks(k, a) /\ SameClock(k, a) /\ SameCpu(k, a) /\ SameEvents(k, a)
  BY <1>1, RemoveStateSets
<1> HIDE DEF a, m
<1>4. Timed(a)
  <2>1. ToSet(k.delayed) \subseteq Task /\ ToSet(k.overflow) \subseteq Task
    BY KernelFields, TaskLists
  <2> QED
    BY <1>3, <2>1 DEF Timed, SameClock
<1>5. Others(k, a, {t}) /\ Steady(k, a)
  BY <1>3 DEF Others, Same, Steady, SameTasks, SameEvents, Blocked
<1>6. /\ w \in Kernel /\ Apart(w) /\ Timed(w) /\ Others(a, w, {t}) /\ Steady(a, w)
      /\ w.top = a.top /\ SameState(a, w) /\ SameEvents(a, w) /\ w.asleep = a.asleep
      /\ w.live = a.live \ {t} /\ w.gone = a.gone \ {t} /\ t \notin Hung(w)
      /\ w.notify[t] = "NOT_WAITING"
  BY <1>1, <1>3, <1>4, FreeTCB
<1> HIDE DEF w
<1>7. Others(k, w, {t})
  BY <1>5, <1>6 DEF Others, Same
<1>8. Steady(k, w) /\ SameEvents(k, w)
  BY <1>3, <1>5, <1>6 DEF Steady, SameClock, SameCpu, SameEvents
<1>9. w.top = k.top /\ w.asleep = k.asleep /\ w.live = k.live \ {t} /\ w.gone = k.gone \ {t}
  BY <1>3, <1>6 DEF SameTasks
<1>10. /\ t \in ToSet(k.dead) /\ t \in Task
       /\ m \in Kernel /\ Apart(m) /\ Timed(m) /\ Others(k, m, {t}) /\ Steady(k, m)
       /\ m.top = k.top /\ SameEvents(k, m) /\ m.asleep = k.asleep
       /\ m.live = k.live \ {t} /\ m.gone = k.gone \ {t} /\ t \notin Hung(m)
       /\ m.notify[t] = "NOT_WAITING"
  BY <1>1, <1>2, <1>6, <1>7, <1>8, <1>9
<1> QED
  BY <1>10 DEF m, t

\* A TCB is filled in: who exists, which priorities, who is current.
WithTask(k, l, p, c) == [k EXCEPT !.live = l, !.prio = p, !.cur = c]

\* Only the TCBs and pxCurrentTCB are written (prvAddNewTaskToReadyList).
LEMMA SetTask ==
    ASSUME NEW k \in Kernel, Apart(k), Timed(k), NEW l \in TaskSet, NEW p \in Priorities, NEW c \in TaskOrNull,
           \A u \in ReadyTasks(k) : p[u] = k.prio[u]
    PROVE  LET m == WithTask(k, l, p, c) IN
           /\ m \in Kernel /\ Apart(m) /\ Timed(m) /\ SameState(k, m) /\ SameEvents(k, m) /\ SameClock(k, m)
           /\ ReadyTasks(m) = ReadyTasks(k) /\ Blocked(m) = Blocked(k) /\ Hung(m) = Hung(k)
           /\ m.live = l /\ m.prio = p /\ m.cur = c /\ m.top = k.top /\ m.next = k.next
           /\ m.notify = k.notify /\ m.value = k.value /\ m.asleep = k.asleep /\ m.gone = k.gone
           /\ m.locks = k.locks /\ m.running = k.running /\ m.yield = k.yield
<1> DEFINE m == WithTask(k, l, p, c)
<1>1. m \in Kernel
  BY DEF WithTask, Kernel
<1>2. /\ SameState(k, m) /\ SameEvents(k, m) /\ SameClock(k, m)
      /\ m.live = l /\ m.prio = p /\ m.cur = c /\ m.top = k.top /\ m.next = k.next
      /\ m.notify = k.notify /\ m.value = k.value /\ m.asleep = k.asleep /\ m.gone = k.gone
      /\ m.locks = k.locks /\ m.running = k.running /\ m.yield = k.yield
  BY DEF WithTask, Kernel, SameState, SameEvents, SameClock
<1> HIDE DEF m
<1>3. ReadyTasks(m) = ReadyTasks(k) /\ Blocked(m) = Blocked(k)
  BY <1>2 DEF ReadyTasks, Blocked, SameState
<1>4. Hung(m) = Hung(k)
  BY <1>2, <1>3 DEF Hung, SameState
<1>5. Apart(m)
  <2>1. \A q \in Priority : \A u \in Items(m.ready[q]) : m.prio[u] = q
    <3> SUFFICES ASSUME NEW q \in Priority, NEW u \in Items(k.ready[q]) PROVE p[u] = q
      BY <1>2 DEF SameState
    <3>1. u \in ReadyTasks(k)
      BY DEF ReadyTasks
    <3>2. k.prio[u] = q
      BY DEF Apart
    <3> QED
      BY <3>1, <3>2
  <2> QED
    BY <1>2, <1>3, <2>1 DEF Apart, SameState
<1>6. Timed(m)
  BY <1>2 DEF Timed, SameClock, SameState
<1> QED
  BY <1>1, <1>2, <1>3, <1>4, <1>5, <1>6 DEF m

\* prvAddNewTaskToReadyList.
LEMMA AddNew ==
    ASSUME NEW k \in Kernel, Apart(k), Timed(k), NEW t \in Task, t \notin Hung(k), NEW p \in Priority,
           k.cur = NULL \/ k.cur \in Task
    PROVE  LET m == prvAddNewTaskToReadyList(k, t, p)
               first == k.cur = NULL
               takesOver == ~first /\ ~k.running /\ k.prio[k.cur] <= p
           IN  /\ m \in Kernel /\ Apart(m) /\ Timed(m) /\ Others(k, m, {t}) /\ SameClock(k, m)
               /\ m.cur = (IF first \/ takesOver THEN t ELSE k.cur)
               /\ m.locks = k.locks /\ m.running = k.running /\ m.yield = k.yield
               /\ m.live = k.live \cup {t} /\ m.gone = k.gone /\ m.prio[t] = p
               /\ m.asleep = k.asleep /\ m.notify = k.notify /\ SameEvents(k, m)
               /\ ReadyTasks(m) = ReadyTasks(k) \cup {t} /\ Hung(m) = Hung(k) \cup {t}
               /\ m.delayed = k.delayed /\ m.overflow = k.overflow
               /\ (TopOK(k) => TopOK(m))
<1> DEFINE l == k.live \cup {t}
           f == [k.prio EXCEPT ![t] = p]
           c == IF k.cur = NULL \/ (~(k.cur = NULL) /\ ~k.running /\ k.prio[k.cur] <= p) THEN t ELSE k.cur
           a == WithTask(k, l, f, c)
           w == prvAddTaskToReadyList(a, t)
           m == prvAddNewTaskToReadyList(k, t, p)
<1>1. m = w
  BY DEF prvAddNewTaskToReadyList, WithTask, Kernel
<1>2. /\ l \in TaskSet /\ f \in Priorities /\ c \in TaskOrNull /\ f[t] = p
      /\ \A u \in Task \ {t} : f[u] = k.prio[u]
  BY KernelFields DEF TaskSet, Priorities, TaskOrNull
<1>3. \A u \in ReadyTasks(k) : u \in Task /\ u # t
  BY ReadyHere DEF Hung
<1> HIDE DEF f, c
<1>4. /\ a \in Kernel /\ Apart(a) /\ Timed(a) /\ SameState(k, a) /\ SameEvents(k, a) /\ SameClock(k, a)
      /\ ReadyTasks(a) = ReadyTasks(k) /\ Blocked(a) = Blocked(k) /\ Hung(a) = Hung(k)
      /\ a.live = l /\ a.prio = f /\ a.cur = c /\ a.top = k.top /\ a.next = k.next
      /\ a.notify = k.notify /\ a.value = k.value /\ a.asleep = k.asleep /\ a.gone = k.gone
      /\ a.locks = k.locks /\ a.running = k.running /\ a.yield = k.yield
  <2> HIDE DEF l
  <2> QED
    BY <1>2, <1>3, SetTask
<1> HIDE DEF a, m
<1>5. /\ w \in Kernel /\ Apart(w)
      /\ ReadyTasks(w) = ReadyTasks(a) \cup {t}
      /\ w.delayed = a.delayed /\ w.overflow = a.overflow /\ w.dead = a.dead
      /\ w.suspended = a.suspended /\ w.wake = a.wake
      /\ w.top >= a.top /\ w.top >= a.prio[t]
      /\ w.next = a.next /\ w.yield = a.yield
      /\ SameTasks(a, w) /\ SameClock(a, w) /\ SameCpu(a, w) /\ SameEvents(a, w)
  BY <1>4, AddReady
<1> HIDE DEF w
<1>6. Timed(w)
  BY <1>4, <1>5 DEF Timed, SameClock
<1>7. Others(k, w, {t})
  BY <1>2, <1>4, <1>5 DEF Others, Same, SameTasks, SameEvents, SameState, Blocked
<1>8. /\ SameClock(k, w) /\ w.cur = c /\ w.locks = k.locks /\ w.running = k.running /\ w.yield = k.yield
      /\ w.live = l /\ w.gone = k.gone /\ w.prio = f /\ w.asleep = k.asleep /\ w.notify = k.notify
      /\ SameEvents(k, w) /\ ReadyTasks(w) = ReadyTasks(k) \cup {t}
      /\ w.delayed = k.delayed /\ w.overflow = k.overflow
  BY <1>4, <1>5 DEF SameTasks, SameClock, SameCpu, SameEvents, SameState
<1>9. Hung(w) = Hung(k) \cup {t}
  BY <1>4, <1>5 DEF Hung, Blocked, SameState
<1>10. TopOK(k) => TopOK(w)
  <2> SUFFICES ASSUME TopOK(k), NEW u \in ReadyTasks(w) PROVE w.prio[u] <= w.top
    BY DEF TopOK
  <2>1. w.top \in Int /\ k.top \in Int /\ w.top >= k.top /\ w.top >= p /\ p \in Int
    BY <1>2, <1>4, <1>5, KernelFields DEF Priority
  <2>2. CASE u = t
    BY <1>2, <1>8, <2>1, <2>2
  <2>3. CASE u # t
    <3>1. u \in ReadyTasks(k) /\ u \in Task
      BY <1>3, <1>8, <2>3
    <3>2. w.prio[u] = k.prio[u] /\ k.prio[u] \in Int
      BY <1>2, <1>8, <2>3, <3>1, KernelFields DEF Priority
    <3> QED
      BY <2>1, <3>1, <3>2 DEF TopOK
  <2> QED
    BY <2>2, <2>3
<1>11. /\ m \in Kernel /\ Apart(m) /\ Timed(m) /\ Others(k, m, {t}) /\ SameClock(k, m)
       /\ m.cur = c
       /\ m.locks = k.locks /\ m.running = k.running /\ m.yield = k.yield
       /\ m.live = l /\ m.gone = k.gone /\ m.prio[t] = p
       /\ m.asleep = k.asleep /\ m.notify = k.notify /\ SameEvents(k, m)
       /\ ReadyTasks(m) = ReadyTasks(k) \cup {t} /\ Hung(m) = Hung(k) \cup {t}
       /\ m.delayed = k.delayed /\ m.overflow = k.overflow
       /\ (TopOK(k) => TopOK(m))
  BY <1>1, <1>2, <1>5, <1>6, <1>7, <1>8, <1>9, <1>10
<1> QED
  BY <1>11 DEF m, c

\* A ready task leaves its list.
WithReady(k, p, ring) == [k EXCEPT !.ready[p] = ring]

\* A ready task leaves its ready list (vTaskPrioritySet, vTaskSuspend).
LEMMA Unready ==
    ASSUME NEW k \in Kernel, Apart(k), Timed(k), NEW t \in ReadyTasks(k)
    PROVE  LET m == WithReady(k, k.prio[t], uxListRemove(k.ready[k.prio[t]], t)) IN
           /\ m \in Kernel /\ Apart(m) /\ Timed(m) /\ t \notin Hung(m)
           /\ ReadyTasks(m) = ReadyTasks(k) \ {t}
           /\ m.delayed = k.delayed /\ m.overflow = k.overflow /\ m.dead = k.dead
           /\ m.suspended = k.suspended /\ m.wake = k.wake
           /\ m.top = k.top /\ m.next = k.next /\ m.yield = k.yield
           /\ SameTasks(k, m) /\ SameClock(k, m) /\ SameCpu(k, m) /\ SameEvents(k, m)
<1> DEFINE p == k.prio[t]
           ring == uxListRemove(k.ready[p], t)
           r == [k.ready EXCEPT ![p] = ring]
           m == WithReady(k, p, ring)
<1>1. t \in Task /\ t \in Items(k.ready[p]) /\ p \in Priority
  BY ReadyHere, KernelFields
<1>2. k.ready[p] \in Ring(Task) /\ xListEnd \notin Task
  BY <1>1, KernelFields, TasksAssumption
<1>3. ring \in Ring(Task) /\ Items(ring) = Items(k.ready[p]) \ {t}
  BY <1>1, <1>2, RingRemove
<1> HIDE DEF ring
<1>4. r \in ReadyLists /\ r[p] = ring /\ \A q \in Priority \ {p} : r[q] = k.ready[q]
  BY <1>1, <1>3, KernelFields DEF ReadyLists
<1>5. m = [k EXCEPT !.ready = r]
  BY DEF WithReady, Kernel
<1> HIDE DEF p, r, m
<1>6. m \in Kernel
  BY <1>4, <1>5 DEF Kernel
<1>7. /\ m.ready = r /\ m.delayed = k.delayed /\ m.overflow = k.overflow /\ m.dead = k.dead
      /\ m.suspended = k.suspended /\ m.wake = k.wake
      /\ m.top = k.top /\ m.next = k.next /\ m.yield = k.yield
      /\ SameTasks(k, m) /\ SameClock(k, m) /\ SameCpu(k, m) /\ SameEvents(k, m)
  BY <1>5 DEF Kernel, SameTasks, SameClock, SameCpu, SameEvents
<1>8. \A q \in Priority : Items(m.ready[q]) = Items(k.ready[q]) \ {t}
  <2> SUFFICES ASSUME NEW q \in Priority PROVE Items(r[q]) = Items(k.ready[q]) \ {t}
    BY <1>7
  <2>1. CASE q = p
    BY <1>3, <1>4, <2>1
  <2>2. CASE q # p
    <3>1. t \notin Items(k.ready[q])
      BY <2>2, ReadyHere DEF p
    <3> QED
      BY <1>4, <2>2, <3>1
  <2> QED
    BY <2>1, <2>2
<1>9. ReadyTasks(m) = ReadyTasks(k) \ {t}
  BY <1>8 DEF ReadyTasks
<1>10. Apart(m)
  <2>1. \A q \in Priority : \A u \in Items(m.ready[q]) : m.prio[u] = q
    BY <1>7, <1>8 DEF Apart, SameTasks
  <2> QED
    BY <1>7, <1>9, <2>1 DEF Apart
<1>11. t \notin Hung(m)
  BY <1>7, <1>9 DEF Hung, Blocked, Apart
<1>12. Timed(m)
  BY <1>7 DEF Timed, SameClock
<1> QED
  BY <1>6, <1>7, <1>9, <1>10, <1>11, <1>12 DEF m, ring, p

\* The priority of a task has changed, and its list if it was ready.
Reprioritised(k, m, t, new) ==
    /\ m \in Kernel /\ Apart(m) /\ Timed(m) /\ Steady(k, m) /\ SameEvents(k, m)
    /\ ReadyTasks(m) = ReadyTasks(k) /\ m.delayed = k.delayed /\ m.overflow = k.overflow
    /\ m.suspended = k.suspended /\ m.dead = k.dead /\ m.wake = k.wake
    /\ m.live = k.live /\ m.gone = k.gone /\ m.asleep = k.asleep
    /\ m.notify = k.notify /\ m.value = k.value
    /\ m.prio = [k.prio EXCEPT ![t] = new] /\ (TopOK(k) => TopOK(m))

\* vTaskPrioritySet when the task is not ready ...
LEMMA SetPriorityAway ==
    ASSUME NEW k \in Kernel, Apart(k), Timed(k), NEW t \in Task, t \notin ReadyTasks(k), NEW new \in Priority
    PROVE  LET m == [k EXCEPT !.prio[t] = new] IN Reprioritised(k, m, t, new)
<1> DEFINE f == [k.prio EXCEPT ![t] = new]
           a == WithTask(k, k.live, f, k.cur)
           m == [k EXCEPT !.prio[t] = new]
<1>1. m = a
  BY DEF WithTask, Kernel
<1>2. f \in Priorities /\ k.live \in TaskSet /\ k.cur \in TaskOrNull
  BY KernelFields DEF Priorities, TaskSet, TaskOrNull
<1>3. \A u \in ReadyTasks(k) : f[u] = k.prio[u]
  <2>1. \A u \in ReadyTasks(k) : u \in Task /\ u # t
    BY ReadyHere
  <2> QED
    BY <2>1, KernelFields
<1> HIDE DEF f, m
<1>4. /\ a \in Kernel /\ Apart(a) /\ Timed(a) /\ SameState(k, a) /\ SameEvents(k, a) /\ SameClock(k, a)
      /\ ReadyTasks(a) = ReadyTasks(k) /\ Blocked(a) = Blocked(k) /\ Hung(a) = Hung(k)
      /\ a.live = k.live /\ a.prio = f /\ a.cur = k.cur /\ a.top = k.top /\ a.next = k.next
      /\ a.notify = k.notify /\ a.value = k.value /\ a.asleep = k.asleep /\ a.gone = k.gone
      /\ a.locks = k.locks /\ a.running = k.running /\ a.yield = k.yield
  BY <1>2, <1>3, SetTask
<1> HIDE DEF a
<1>5. TopOK(k) => TopOK(a)
  BY <1>3, <1>4 DEF TopOK
<1>6. Reprioritised(k, a, t, new)
  BY <1>4, <1>5 DEF Reprioritised, SameState, Steady, SameCpu, f
<1>7. Reprioritised(k, m, t, new)
  BY <1>1, <1>6
<1> QED
  BY <1>7 DEF m

\* ... and when it is.
LEMMA SetPriorityReady ==
    ASSUME NEW k \in Kernel, Apart(k), Timed(k), NEW t \in ReadyTasks(k), NEW new \in Priority
    PROVE  LET set == [k EXCEPT !.prio[t] = new]
               m == prvAddTaskToReadyList([set EXCEPT !.ready[k.prio[t]] = uxListRemove(@, t)], t)
           IN  Reprioritised(k, m, t, new)
<1> DEFINE f == [k.prio EXCEPT ![t] = new]
           a == WithReady(k, k.prio[t], uxListRemove(k.ready[k.prio[t]], t))
           b == WithTask(a, k.live, f, k.cur)
           w == prvAddTaskToReadyList(b, t)
           set == [k EXCEPT !.prio[t] = new]
           x == [set EXCEPT !.ready[k.prio[t]] = uxListRemove(@, t)]
           m == prvAddTaskToReadyList(x, t)
<1>1. t \in Task /\ k.prio[t] \in Priority
  BY ReadyHere, KernelFields
<1>2. x = b
  BY <1>1 DEF WithReady, WithTask, Kernel
<1>3. /\ a \in Kernel /\ Apart(a) /\ Timed(a) /\ t \notin Hung(a)
      /\ ReadyTasks(a) = ReadyTasks(k) \ {t}
      /\ a.delayed = k.delayed /\ a.overflow = k.overflow /\ a.dead = k.dead
      /\ a.suspended = k.suspended /\ a.wake = k.wake
      /\ a.top = k.top /\ a.next = k.next /\ a.yield = k.yield
      /\ SameTasks(k, a) /\ SameClock(k, a) /\ SameCpu(k, a) /\ SameEvents(k, a)
  BY Unready
<1>4. /\ f \in Priorities /\ k.live \in TaskSet /\ k.cur \in TaskOrNull /\ f[t] = new
      /\ \A u \in Task \ {t} : f[u] = k.prio[u]
  BY <1>1, KernelFields DEF Priorities, TaskSet, TaskOrNull
<1>5. \A u \in ReadyTasks(a) : f[u] = a.prio[u] /\ f[u] = k.prio[u]
  <2>1. \A u \in ReadyTasks(k) : u \in Task
    BY ReadyHere
  <2> QED
    BY <1>3, <1>4, <2>1 DEF SameTasks
<1> HIDE DEF f, a, x
<1>6. /\ b \in Kernel /\ Apart(b) /\ Timed(b) /\ SameState(a, b) /\ SameEvents(a, b) /\ SameClock(a, b)
      /\ ReadyTasks(b) = ReadyTasks(a) /\ Blocked(b) = Blocked(a) /\ Hung(b) = Hung(a)
      /\ b.live = k.live /\ b.prio = f /\ b.cur = k.cur /\ b.top = a.top /\ b.next = a.next
      /\ b.notify = a.notify /\ b.value = a.value /\ b.asleep = a.asleep /\ b.gone = a.gone
      /\ b.locks = a.locks /\ b.running = a.running /\ b.yield = a.yield
  BY <1>3, <1>4, <1>5, SetTask
<1> HIDE DEF b
<1>7. /\ w \in Kernel /\ Apart(w)
      /\ ReadyTasks(w) = ReadyTasks(b) \cup {t}
      /\ w.delayed = b.delayed /\ w.overflow = b.overflow /\ w.dead = b.dead
      /\ w.suspended = b.suspended /\ w.wake = b.wake
      /\ w.top >= b.top /\ w.top >= b.prio[t]
      /\ w.next = b.next /\ w.yield = b.yield
      /\ SameTasks(b, w) /\ SameClock(b, w) /\ SameCpu(b, w) /\ SameEvents(b, w)
  BY <1>1, <1>3, <1>6, AddReady
<1>8. m = w
  BY <1>2
<1> HIDE DEF w, m
<1>9. ReadyTasks(w) = ReadyTasks(k)
  BY <1>3, <1>6, <1>7
<1>10. Timed(w)
  BY <1>6, <1>7 DEF Timed, SameClock
<1>11. TopOK(k) => TopOK(w)
  <2> SUFFICES ASSUME TopOK(k), NEW u \in ReadyTasks(w) PROVE w.prio[u] <= w.top
    BY DEF TopOK
  <2>1. w.top \in Int /\ k.top \in Int /\ w.top >= k.top /\ w.top >= new /\ new \in Int
    BY <1>3, <1>4, <1>6, <1>7, KernelFields DEF Priority
  <2>2. CASE u = t
    BY <1>4, <1>6, <1>7, <2>1, <2>2 DEF SameTasks
  <2>3. CASE u # t
    <3>1. u \in ReadyTasks(k) /\ u \in Task
      BY <1>9, ReadyHere
    <3>2. w.prio[u] = k.prio[u] /\ k.prio[u] \in Int
      BY <1>4, <1>6, <1>7, <2>3, <3>1, KernelFields DEF Priority, SameTasks
    <3> QED
      BY <2>1, <3>1, <3>2 DEF TopOK
  <2> QED
    BY <2>2, <2>3
<1>12. Steady(k, w) /\ SameEvents(k, w)
  BY <1>3, <1>6, <1>7 DEF Steady, SameClock, SameCpu, SameEvents
<1>13. /\ w.delayed = k.delayed /\ w.overflow = k.overflow /\ w.suspended = k.suspended
       /\ w.dead = k.dead /\ w.wake = k.wake /\ w.live = k.live /\ w.gone = k.gone
       /\ w.asleep = k.asleep /\ w.notify = k.notify /\ w.value = k.value /\ w.prio = f
  BY <1>3, <1>6, <1>7 DEF SameTasks, SameState
<1>14. Reprioritised(k, w, t, new)
  BY <1>7, <1>9, <1>10, <1>11, <1>12, <1>13 DEF Reprioritised, f
<1>15. Reprioritised(k, m, t, new)
  BY <1>8, <1>14
<1> QED
  BY <1>15 DEF m, x

\* vTaskPrioritySet: if the caller does not yield it needs not.
LEMMA SetPriority ==
    ASSUME NEW k \in Kernel, Apart(k), Timed(k), NEW t \in Task, NEW new \in Priority, k.cur \in Task
    PROVE  LET r == vTaskPrioritySet(k, t, new)
               m == r.k
           IN  /\ r.yield \in BOOLEAN /\ Reprioritised(k, m, t, new)
               /\ Highest(k) /\ ~r.yield => Highest(m)
<1> DEFINE set == [k EXCEPT !.prio[t] = new]
           x == [set EXCEPT !.ready[k.prio[t]] = uxListRemove(@, t)]
           n == prvAddTaskToReadyList(x, t)
           y == IF new > k.prio[t] THEN t # k.cur /\ new >= k.prio[k.cur] ELSE t = k.cur
           a == IF Contains(k.ready[k.prio[t]], t) THEN n ELSE set
           r == vTaskPrioritySet(k, t, new)
<1>1. r = IF k.prio[t] = new THEN [k |-> k, yield |-> FALSE] ELSE [k |-> a, yield |-> y]
  BY DEF vTaskPrioritySet
<1>2. /\ k.prio[t] \in Priority /\ k.prio[t] \in Int /\ k.prio[k.cur] \in Int /\ new \in Int
      /\ \A u \in Task : k.prio[u] \in Int
  BY KernelFields DEF Priority
<1>3. Contains(k.ready[k.prio[t]], t) <=> t \in ReadyTasks(k)
  BY <1>2, ReadyRings, ReadyHere
<1>4. Reprioritised(k, a, t, new)
  <2>1. CASE t \in ReadyTasks(k)
    <3>1. Reprioritised(k, n, t, new)
      BY <2>1, SetPriorityReady
    <3> HIDE DEF n
    <3> QED
      BY <1>3, <2>1, <3>1
  <2>2. CASE t \notin ReadyTasks(k)
    <3>1. Reprioritised(k, set, t, new)
      BY <2>2, SetPriorityAway
    <3> HIDE DEF set
    <3> QED
      BY <1>3, <2>2, <3>1
  <2> QED
    BY <2>1, <2>2
<1> HIDE DEF a, r
<1>5. CASE k.prio[t] = new
  <2>1. r.k = k /\ r.yield = FALSE
    BY <1>1, <1>5
  <2>2. k.prio = [k.prio EXCEPT ![t] = new]
    BY <1>5, KernelFields
  <2>3. Reprioritised(k, k, t, new)
    BY <2>2 DEF Reprioritised, Steady, SameClock, SameCpu, SameEvents
  <2> QED
    BY <2>1, <2>3 DEF r
<1>6. CASE k.prio[t] # new
  <2>1. r.k = a /\ r.yield = y
    BY <1>1, <1>6
  <2>2. Highest(k) /\ ~y => Highest(a)
    <3> SUFFICES ASSUME Highest(k), ~y, NEW u \in ReadyTasks(k) PROVE a.prio[u] <= a.prio[a.cur]
      BY <1>4 DEF Highest, Reprioritised, Steady, SameCpu
    <3>1. u \in Task /\ k.prio[u] <= k.prio[k.cur]
      BY ReadyHere DEF Highest
    <3>2. a.cur = k.cur /\ a.prio = [k.prio EXCEPT ![t] = new]
      BY <1>4 DEF Reprioritised, Steady, SameCpu
    <3>3. a.prio[u] = (IF u = t THEN new ELSE k.prio[u]) /\ a.prio[a.cur] = IF k.cur = t THEN new ELSE k.prio[k.cur]
      BY <3>1, <3>2, KernelFields
    <3> QED
      BY <1>2, <1>6, <3>1, <3>3
  <2>3. y \in BOOLEAN
    OBVIOUS
  <2> HIDE DEF y
  <2> QED
    BY <1>4, <2>1, <2>2, <2>3 DEF r
<1> QED
  BY <1>5, <1>6

\* The running task begins to wait for a notification.
LEMMA MarkWaiting ==
    ASSUME NEW k \in Kernel, Apart(k), Timed(k), k.cur \in Task
    PROVE  LET m == [k EXCEPT !.notify[k.cur] = "WAITING"] IN
           Marked(k, m, k.cur) /\ m.yield = k.yield /\ m.notify[k.cur] = "WAITING" /\ m.value[k.cur] = k.value[k.cur]
<1> DEFINE w == WithNotify(k, k.cur, "WAITING", k.value[k.cur])
           m == [k EXCEPT !.notify[k.cur] = "WAITING"]
<1>1. m = w
  BY KernelFields DEF WithNotify, Kernel
<1>2. k.value[k.cur] \in Nat
  BY KernelFields
<1>3. Marked(k, w, k.cur) /\ w.yield = k.yield /\ w.notify[k.cur] = "WAITING" /\ w.value[k.cur] = k.value[k.cur]
  BY <1>2, SetNotify
<1> HIDE DEF w, m
<1>4. Marked(k, m, k.cur) /\ m.yield = k.yield /\ m.notify[k.cur] = "WAITING" /\ m.value[k.cur] = k.value[k.cur]
  BY <1>1, <1>3
<1> QED
  BY <1>4 DEF m

\* AwaitNotification: with a time to wait the running task blocks and another
\* one is chosen.
LEMMA Await ==
    ASSUME NEW k \in Kernel, Apart(k), Timed(k), k.cur \in Task \ {Idle}, IdleReady(k), k.locks = 0, NEW n \in Tick
    PROVE  LET m == AwaitNotification(k, n)
               t == k.cur
           IN  /\ m.notify[t] = "WAITING" /\ m.value[t] = k.value[t] /\ m.asleep = k.asleep /\ m.pending = k.pending
               /\ m.prio = k.prio /\ m.live = k.live /\ m.gone = k.gone
               /\ \/ Marked(k, m, t) /\ m.yield = k.yield
                  \/ /\ m \in Kernel /\ Apart(m) /\ Timed(m) /\ Others(k, m, {t}) /\ SameClock(k, m)
                     /\ m.locks = 0 /\ m.running = k.running /\ ~m.yield
                     /\ t \in Blocked(m) \cup m.suspended
                     /\ m.cur \in ReadyTasks(m) /\ (TopOK(k) => TopOK(m) /\ Highest(m))
<1> DEFINE t == k.cur
           a == [k EXCEPT !.notify[t] = "WAITING"]
           b == prvAddCurrentTaskToDelayedList(a, n, TRUE)
           c == vTaskSwitchContext(b)
           m == AwaitNotification(k, n)
<1>1. Marked(k, a, t) /\ a.yield = k.yield /\ a.notify[t] = "WAITING" /\ a.value[t] = k.value[t]
  BY MarkWaiting
<1>2. m = IF n > 0 THEN c ELSE a
  BY DEF AwaitNotification
<1>3. n \in Int /\ n >= 0 /\ (n > 0 => n \in Tick \ {0})
  BY TicksAssumption DEF Tick
<1> HIDE DEF a, m
<1>4. CASE n > 0
  <2>1. /\ a \in Kernel /\ Apart(a) /\ Timed(a) /\ a.cur = t /\ t \in Task /\ a.locks = 0
        /\ ReadyTasks(a) = ReadyTasks(k) /\ a.prio = k.prio
    BY <1>1 DEF Marked, SameCpu
  <2>2. b \in Kernel /\ Apart(b) /\ Timed(b) /\ Blocks(a, b, t)
    <3>1. b \in Kernel /\ Apart(b) /\ Timed(b) /\ Blocks(a, b, a.cur)
      BY <1>3, <1>4, <2>1, AddDelayed
    <3> QED
      BY <2>1, <3>1
  <2> HIDE DEF b
  <2>3. IdleReady(b) /\ b.locks = 0
    BY <2>1, <2>2 DEF Blocks, IdleReady, SameTasks, SameCpu
  <2>4. /\ c \in Kernel /\ Apart(c) /\ Switched(b, c)
        /\ c.yield = FALSE /\ c.cur \in ReadyTasks(b) /\ c.top = b.prio[c.cur]
        /\ (\A u \in ReadyTasks(b) : b.prio[u] <= b.top) =>
              \A u \in ReadyTasks(b) : b.prio[u] <= b.prio[c.cur]
    BY <2>2, <2>3, SwitchContext
  <2> HIDE DEF c
  <2>5. Others(k, c, {t})
    <3>1. Others(k, a, {t})
      BY <1>1 DEF Marked
    <3>2. Others(a, b, {t})
      BY <2>2, BlocksOthers
    <3>3. Others(b, c, {})
      BY <2>4, SwitchedOthers
    <3> QED
      BY <3>1, <3>2, <3>3 DEF Others, Same
  <2>6. Timed(c)
    BY <2>2, <2>4 DEF Timed, Switched, SameClock
  <2>7. t \in Blocked(c) \cup c.suspended
    BY <2>2, <2>4 DEF Blocks, Switched, Blocked
  <2>8. c.prio = k.prio /\ c.live = k.live /\ c.gone = k.gone /\ c.asleep = k.asleep /\ c.pending = k.pending
    BY <1>1, <2>2, <2>4 DEF Marked, Blocks, Switched, SameTasks, SameEvents
  <2>9. c.notify[t] = "WAITING" /\ c.value[t] = k.value[t]
    BY <1>1, <2>2, <2>4 DEF Blocks, Switched, SameTasks
  <2>10. SameClock(k, c) /\ c.locks = 0 /\ c.running = k.running
    BY <1>1, <2>1, <2>2, <2>4 DEF Marked, Blocks, Switched, SameClock, SameCpu
  <2>11. TopOK(k) => TopOK(c) /\ Highest(c)
    <3> SUFFICES ASSUME TopOK(k) PROVE TopOK(c) /\ Highest(c)
      OBVIOUS
    <3>1. \A u \in ReadyTasks(b) : b.prio[u] <= b.top
      BY <1>1, <2>2 DEF TopOK, Marked, Blocks, SameTasks
    <3> QED
      BY <2>4, <3>1 DEF TopOK, Highest, Switched, SameTasks
  <2>12. c.cur \in ReadyTasks(c)
    BY <2>4 DEF Switched
  <2>13. m = c
    BY <1>2, <1>4
  <2> QED
    BY <2>4, <2>5, <2>6, <2>7, <2>8, <2>9, <2>10, <2>11, <2>12, <2>13 DEF m
<1>5. CASE ~(n > 0)
  <2>1. m = a
    BY <1>2, <1>5
  <2>2. a.asleep = k.asleep /\ a.pending = k.pending /\ a.prio = k.prio /\ a.live = k.live /\ a.gone = k.gone
    BY <1>1 DEF Marked, SameEvents
  <2> QED
    BY <1>1, <2>1, <2>2 DEF m
<1> QED
  BY <1>4, <1>5

\* Only xPendedTicks and uxSchedulerSuspended change.
LEMMA SetCountsTimed ==
    ASSUME NEW k \in Kernel, Apart(k), Timed(k), NEW p \in Nat, NEW l \in Nat
    PROVE  LET m == WithCounts(k, p, l) IN
           /\ m \in Kernel /\ Apart(m) /\ Timed(m) /\ Others(k, m, {}) /\ m.pended = p /\ m.locks = l
           /\ ReadyTasks(m) = ReadyTasks(k) /\ Hung(m) = Hung(k) /\ SameTasks(k, m) /\ SameEvents(k, m)
           /\ SameState(k, m)
           /\ m.cur = k.cur /\ m.running = k.running /\ m.yield = k.yield /\ m.top = k.top /\ m.tick = k.tick
<1> DEFINE m == WithCounts(k, p, l)
<1>1. /\ m \in Kernel /\ Apart(m) /\ m.pended = p /\ m.locks = l /\ SameState(k, m)
      /\ ReadyTasks(m) = ReadyTasks(k) /\ Blocked(m) = Blocked(k)
      /\ SameTasks(k, m) /\ SameEvents(k, m)
      /\ m.cur = k.cur /\ m.running = k.running /\ m.yield = k.yield /\ m.top = k.top
      /\ m.next = k.next /\ m.tick = k.tick /\ m.overflows = k.overflows
  BY SetCounts
<1> HIDE DEF m
<1>2. Timed(m)
  BY <1>1 DEF Timed, SameState
<1>3. Others(k, m, {})
  BY <1>1 DEF Others, Same, SameState, SameTasks, SameEvents
<1>4. Hung(m) = Hung(k)
  BY <1>1 DEF Hung, SameState
<1> QED
  BY <1>1, <1>2, <1>3, <1>4 DEF m

\* The kernel before any task exists.
LEMMA Initial ==
    LET m == prvInitialiseTaskLists IN
    /\ m \in Kernel /\ Apart(m) /\ Timed(m) /\ Hung(m) = {} /\ ReadyTasks(m) = {} /\ m.pending = <<>>
    /\ \A l \in EventList : m.event[l] = <<>>
<1> DEFINE m == prvInitialiseTaskLists
           f == [t \in Task |-> tskIDLE_PRIORITY]
           w == [t \in Task |-> 0]
           r == [p \in Priority |-> vListInitialise]
           e == [l \in EventList |-> <<>>]
           n == [t \in Task |-> "NOT_WAITING"]
<1>1. /\ tskIDLE_PRIORITY \in Priority /\ 0 \in Tick /\ 0 \in OverflowCount
      /\ f \in Priorities /\ w \in WakeTimes /\ w \in NotifyValues /\ n \in NotifyStates
  BY TasksAssumption, TicksAssumption
     DEF tskIDLE_PRIORITY, Priority, Tick, OverflowCount, Priorities, WakeTimes, NotifyValues, NotifyStates
<1>2. r \in ReadyLists
  BY RingInitialise DEF ReadyLists
<1>3. <<>> \in TaskList /\ ToSet(<<>>) = {}
  BY DEF TaskList, ToSet, IsInjective
<1>4. e \in EventLists
  BY <1>3 DEF EventLists
<1>5. NULL \in TaskOrNull /\ {} \in TaskSet
  BY DEF TaskOrNull, TaskSet
<1>6. m = [cur |-> NULL, live |-> {}, prio |-> f, wake |-> w, ready |-> r, top |-> tskIDLE_PRIORITY,
           delayed |-> <<>>, overflow |-> <<>>, pending |-> <<>>, suspended |-> {}, dead |-> <<>>, event |-> e,
           tick |-> 0, next |-> 0, pended |-> 0, yield |-> FALSE, locks |-> 0,
           running |-> FALSE, overflows |-> 0, notify |-> n, value |-> w, asleep |-> {}, gone |-> {}]
  BY DEF prvInitialiseTaskLists
<1>7. \A p \in Priority : Items(r[p]) = {}
  BY RingInitialise
<1>8. \A l \in EventList : e[l] = <<>>
  OBVIOUS
<1> HIDE DEF f, w, r, e, n, m
<1>9. m \in Kernel
  BY <1>1, <1>2, <1>3, <1>4, <1>5, <1>6 DEF Kernel
<1>10. /\ m.ready = r /\ m.delayed = <<>> /\ m.overflow = <<>> /\ m.suspended = {} /\ m.dead = <<>>
       /\ m.pending = <<>> /\ m.event = e
  BY <1>6
<1>11. ReadyTasks(m) = {} /\ Blocked(m) = {}
  BY <1>3, <1>7, <1>10 DEF ReadyTasks, Blocked
<1>12. Hung(m) = {}
  BY <1>3, <1>10, <1>11 DEF Hung
<1>13. Apart(m)
  BY <1>3, <1>7, <1>10, <1>11 DEF Apart, Sorted
<1>14. Timed(m)
  BY <1>3, <1>10 DEF Timed
<1> QED
  BY <1>8, <1>9, <1>10, <1>11, <1>12, <1>13, <1>14 DEF m

\* vTaskStartScheduler, after the idle task has been created.
LEMMA Start ==
    ASSUME NEW k \in Kernel, Apart(k), k.delayed = <<>>, k.overflow = <<>>
    PROVE  LET m == [k EXCEPT !.next = portMAX_DELAY, !.running = TRUE, !.tick = 0] IN
           /\ m \in Kernel /\ Apart(m) /\ Timed(m) /\ Others(k, m, {})
           /\ ReadyTasks(m) = ReadyTasks(k) /\ Hung(m) = Hung(k) /\ SameTasks(k, m) /\ SameEvents(k, m)
           /\ m.running = TRUE /\ m.cur = k.cur /\ m.locks = k.locks /\ m.pended = k.pended
           /\ m.yield = k.yield /\ m.top = k.top
<1> DEFINE m == [k EXCEPT !.next = portMAX_DELAY, !.running = TRUE, !.tick = 0]
<1>1. portMAX_DELAY \in Tick /\ 0 \in Tick
  BY TicksAssumption DEF Tick, portMAX_DELAY
<1>2. m \in Kernel
  <2> HIDE DEF portMAX_DELAY
  <2> QED
    BY <1>1 DEF Kernel
<1>3. /\ SameState(k, m) /\ SameTasks(k, m) /\ SameEvents(k, m)
      /\ m.running = TRUE /\ m.cur = k.cur /\ m.locks = k.locks /\ m.pended = k.pended
      /\ m.yield = k.yield /\ m.top = k.top
  BY DEF Kernel, SameState, SameTasks, SameEvents
<1> HIDE DEF m
<1>4. Apart(m) /\ ReadyTasks(m) = ReadyTasks(k) /\ Blocked(m) = Blocked(k) /\ Hung(m) = Hung(k)
  BY <1>3, ApartSame DEF SameState, SameTasks
<1>5. Timed(m)
  BY <1>3 DEF Timed, SameState, ToSet
<1>6. Others(k, m, {})
  BY <1>3, <1>4 DEF Others, Same, SameState, SameTasks, SameEvents
<1> QED
  BY <1>2, <1>3, <1>4, <1>5, <1>6 DEF m
=============================================================================
