---------------------------- MODULE StackProofs -----------------------------
(***************************************************************************)
(* The properties of module Stack for any number of buffers, neighbours,   *)
(* table entries and datagrams, and any load of frames and calls.          *)
(*                                                                         *)
(* The argument is about ownership.  The buffers in use are those ARP      *)
(* keeps, each alone and for one entry, and the loose ones, which lie in   *)
(* chains apart from one another, each with one holder: the list of        *)
(* datagrams, the application, or (the set X of IpOK) the call in          *)
(* progress.  Every operator of Pbuf is shown to keep chains apart (Own),  *)
(* every operator of Etharp to leave the loose buffers alone (Framed),     *)
(* every operator of Ip to hand a chain from one holder to another (IpOK). *)
(* The timeouts are a list of handlers, none of them twice, whose times    *)
(* add up (Until); the loops are done with the rule of LoopProofs.         *)
(***************************************************************************)
EXTENDS Stack, FiniteSetTheorems, SequenceTheorems, NaturalsInduction,
        WellFoundedInduction, TLAPS

-----------------------------------------------------------------------------
(* Packet buffers.                                                         *)

\* Membership, in all the ways it is written.
LEMMA Elements ==
    ASSUME NEW S, NEW s \in Seq(S)
    PROVE  /\ \A e : e \in ToSet(s) <=> \E i \in 1..Len(s) : s[i] = e
           /\ \A e : Contains(s, e) <=> e \in ToSet(s)
           /\ ToSet(s) \subseteq S
           /\ DOMAIN s = 1..Len(s)
           /\ s # <<>> => Head(s) \in ToSet(s) /\ Head(s) = s[1] /\ Len(s) >= 1
BY DEF ToSet, Contains

\* A set of naturals has a least element, which is its Min.
LEMMA LeastIsMin ==
    ASSUME NEW T \in SUBSET Nat, T # {}
    PROVE  /\ Min(T) \in T
           /\ \A i \in T : Min(T) <= i
<1>1. IsWellFoundedOn(OpToRel(<, Nat), Nat)
  BY NatLessThanWellFounded
<1>2. PICK m \in T : \A i \in T : ~(<<i, m>> \in OpToRel(<, Nat))
  BY <1>1, WFMin
<1>3. \A i \in T : ~(i < m)
  BY <1>2 DEF OpToRel
<1>4. \A i \in T : m <= i
  BY <1>3
<1> QED
  BY <1>4 DEF Min

\* A bounded set of naturals has a greatest element, which is its Max.
LEMMA GreatestIsMax ==
    ASSUME NEW T \in SUBSET Nat, T # {}, NEW b \in Nat, \A i \in T : i <= b
    PROVE  /\ Max(T) \in T
           /\ \A i \in T : i <= Max(T)
<1> DEFINE U == {b - i : i \in T}
<1>1. U \in SUBSET Nat /\ U # {}
  OBVIOUS
<1>2. Min(U) \in U /\ \A u \in U : Min(U) <= u
  BY <1>1, LeastIsMin
<1>3. PICK m \in T : b - m = Min(U)
  BY <1>2
<1>4. ASSUME NEW i \in T PROVE i <= m
  <2>1. Min(U) <= b - i
    BY <1>2
  <2> HIDE DEF U
  <2> QED
    BY <1>3, <2>1
<1> QED
  BY <1>4 DEF Max

-----------------------------------------------------------------------------
(* The arena.                                                              *)

Buf == PBUF_POOL \cup PBUF_RAM

\* Every buffer has its three fields.
Arena(pb) ==
    /\ DOMAIN pb = Buf
    /\ \A i \in Buf : /\ DOMAIN pb[i] = {"ref", "next", "data"}
                      /\ pb[i].ref \in Nat /\ pb[i].next \in Buf \cup {NULL}

\* The buffers are numbered from 1 on, and there is no buffer NULL.
LEMMA BufFacts ==
    /\ Buf = 1..(PBUF_POOL_SIZE + RamSize)
    /\ NULL \notin Buf /\ NULL = 0
    /\ PBUF_POOL \subseteq Buf /\ PBUF_RAM \subseteq Buf
    /\ PBUF_POOL_SIZE + RamSize \in Nat
    /\ IsFiniteSet(Buf) /\ Cardinality(Buf) = PBUF_POOL_SIZE + RamSize
<1>1. Buf = 1..(PBUF_POOL_SIZE + RamSize)
  BY PbufAssumption DEF Buf, PBUF_POOL, PBUF_RAM
<1>2. IsFiniteSet(1..(PBUF_POOL_SIZE + RamSize))
      /\ Cardinality(1..(PBUF_POOL_SIZE + RamSize)) = PBUF_POOL_SIZE + RamSize
  <2>1. PBUF_POOL_SIZE + RamSize \in Nat
    BY PbufAssumption
  <2> QED
    BY <2>1, FS_Interval
<1>3. PBUF_POOL_SIZE + RamSize \in Nat
  BY PbufAssumption
<1>4. NULL \notin Buf /\ NULL = 0
  BY <1>1, <1>3 DEF NULL
<1>5. PBUF_POOL \subseteq Buf /\ PBUF_RAM \subseteq Buf
  BY DEF Buf
<1> QED
  BY <1>1, <1>2, <1>3, <1>4, <1>5

\* A new chain: c are the buffers it is made of.
Allocated(pb, a, c, d) ==
    /\ c \in SUBSET Buf /\ a.p \in c /\ Arena(a.pb)
    /\ \A i \in Buf \ c : a.pb[i] = pb[i]
    /\ \A i \in c : /\ pb[i].ref = 0 /\ a.pb[i].ref = 1
                    /\ a.pb[i].next \in (c \cup {NULL}) \ {a.p}
    /\ \A i, j \in c : a.pb[i].next = a.pb[j].next /\ a.pb[i].next # NULL => i = j
    /\ \A i \in c \ {a.p} : \E j \in c : a.pb[j].next = i
    /\ a.pb[a.p].data = d

\* pbuf_alloc takes free buffers, or none.
LEMMA AllocFacts ==
    ASSUME NEW pb, Arena(pb), NEW type \in {PBUF_POOL, PBUF_RAM}, NEW k \in Nat \ {0}, NEW d
    PROVE  LET a == pbuf_alloc(pb, type, k, d)
           IN  IF Cardinality(FreeIn(pb, type)) < k THEN a.p = NULL /\ a.pb = pb
               ELSE /\ a.p \in type
                    /\ \E c : Allocated(pb, a, c, d) /\ (k = 1 => c = {a.p})
<1> DEFINE a == pbuf_alloc(pb, type, k, d)
           F == FreeIn(pb, type)
           c == Lowest(F, k)
<1>1. CASE Cardinality(F) < k
  BY <1>1 DEF pbuf_alloc
<1>2. CASE ~(Cardinality(F) < k)
  <2>1. a = Alloced(pb, c, d)
    BY <1>2 DEF pbuf_alloc
  <2>2. F \in SUBSET Buf /\ F \in SUBSET type
    BY BufFacts DEF FreeIn
  <2>3. F # {} /\ IsFiniteSet(F)
    <3>1. F = {} => Cardinality(F) = 0
      BY FS_EmptySet
    <3> QED
      BY <1>2, <2>2, <3>1, BufFacts, FS_Subset
  <2> HIDE DEF F
  <2>4. Min(F) \in F /\ \A i \in F : Min(F) <= i /\ i \in Nat
    <3>1. F \in SUBSET Nat /\ \A i \in F : i \in Nat
      BY <2>2, BufFacts
    <3> QED
      BY <2>3, <3>1, LeastIsMin
  <2>5. Min(F) \in c
    <3>1. {j \in F : j < Min(F)} = {}
      BY <2>4
    <3>2. Cardinality({}) = 0
      BY FS_EmptySet
    <3> QED
      BY <2>4, <3>1, <3>2 DEF Lowest
  <2>6. c \in SUBSET F
    BY DEF Lowest
  <2>7. ASSUME k = 1 PROVE c = {Min(F)}
    <3> SUFFICES ASSUME NEW i \in c, i # Min(F) PROVE FALSE
      BY <2>5
    <3> DEFINE G == {j \in F : j < i}
    <3>1. Min(F) \in G
      BY <2>4, <2>6
    <3>2. Cardinality(G) < 1
      BY <2>7 DEF Lowest
    <3>3. IsFiniteSet(G) /\ Cardinality(G) \in Nat
      <4>1. G \in SUBSET F
        OBVIOUS
      <4> QED
        BY <2>3, <4>1, FS_Subset, FS_CardinalityType
    <3> HIDE DEF G
    <3>4. Cardinality(G) # 0
      BY <3>1, <3>3, FS_EmptySet
    <3> QED
      BY <3>2, <3>3, <3>4
  <2> HIDE DEF c
  <2> DEFINE l == Min(c)
             u == Max(c)
             up(i) == Min({j \in c : j > i})
             down(i) == Max({j \in c : j < i})
             nx(i) == IF i = u THEN NULL ELSE up(i)
             dt(i) == IF i = l THEN d ELSE Rest
  <2>8. /\ c \in SUBSET Buf /\ c \in SUBSET Nat /\ c # {}
        /\ \A i \in c : i \in Nat /\ i <= PBUF_POOL_SIZE + RamSize
    BY <2>2, <2>5, <2>6, BufFacts
  <2>9. /\ l \in c /\ \A i \in c : l <= i
        /\ u \in c /\ \A i \in c : i <= u
    BY <2>8, LeastIsMin, GreatestIsMax, BufFacts
  <2> HIDE DEF l, u
  <2>10. \A i \in c : i # u => up(i) \in c /\ up(i) > i /\ \A j \in c : j > i => up(i) <= j
    <3> SUFFICES ASSUME NEW i \in c, i # u
                 PROVE  up(i) \in c /\ up(i) > i /\ \A j \in c : j > i => up(i) <= j
      OBVIOUS
    <3>1. u > i
      BY <2>8, <2>9
    <3>2. {j \in c : j > i} \in SUBSET Nat /\ {j \in c : j > i} # {}
      BY <2>8, <2>9, <3>1
    <3> QED
      BY <3>2, LeastIsMin
  <2>11. \A i \in c : i # l => down(i) \in c /\ down(i) < i /\ \A j \in c : j < i => j <= down(i)
    <3> SUFFICES ASSUME NEW i \in c, i # l
                 PROVE  down(i) \in c /\ down(i) < i /\ \A j \in c : j < i => j <= down(i)
      OBVIOUS
    <3>3. l < i
      BY <2>8, <2>9
    <3>1. {j \in c : j < i} \in SUBSET Nat /\ {j \in c : j < i} # {}
      BY <2>8, <2>9, <3>3
    <3>2. \A j \in {j \in c : j < i} : j <= PBUF_POOL_SIZE + RamSize
      BY <2>8
    <3> QED
      BY <3>1, <3>2, GreatestIsMax, BufFacts
  <2>12. /\ a.p = l
         /\ a.pb = [i \in DOMAIN pb |->
               IF i \notin c THEN pb[i]
               ELSE [ref |-> 1, next |-> nx(i), data |-> dt(i)]]
    BY <2>1 DEF Alloced, l, u
  <2> DEFINE b == a.pb
  <2>13. DOMAIN pb = Buf
    BY DEF Arena
  <2> HIDE DEF up, down, nx, dt
  <2>14. ASSUME NEW i \in c
         PROVE  /\ b[i].ref = 1 /\ b[i].next = nx(i) /\ b[i].data = dt(i) /\ pb[i].ref = 0
                /\ DOMAIN b[i] = {"ref", "next", "data"}
    <3>1. b[i] = [ref |-> 1, next |-> nx(i), data |-> dt(i)]
      BY <2>6, <2>8, <2>12, <2>13
    <3> HIDE DEF b
    <3>2. pb[i].ref = 0
      BY <2>6 DEF F, FreeIn
    <3> QED
      BY <3>1, <3>2
  <2>15. \A i \in Buf \ c : b[i] = pb[i]
    BY <2>12, <2>13
  <2>24. DOMAIN b = Buf
    BY <2>12, <2>13
  <2> HIDE DEF a, b
  <2>16. Arena(b)
    <3>2. ASSUME NEW i \in Buf
          PROVE  /\ DOMAIN b[i] = {"ref", "next", "data"}
                 /\ b[i].ref \in Nat /\ b[i].next \in Buf \cup {NULL}
      <4>1. CASE i \in c
        <5>1. nx(i) \in Buf \cup {NULL}
          BY <4>1, <2>8, <2>10 DEF nx
        <5> QED
          BY <4>1, <5>1, <2>14
      <4>2. CASE i \notin c
        BY <4>2, <2>15 DEF Arena
      <4> QED
        BY <4>1, <4>2
    <3> QED
      BY <2>24, <3>2 DEF Arena
  <2>17. \A i \in c : b[i].ref = 1 /\ b[i].next = IF i = u THEN NULL ELSE up(i)
    BY <2>14 DEF nx
  <2>18. \A i \in c : b[i].next \in (c \cup {NULL}) \ {l}
    <3> SUFFICES ASSUME NEW i \in c PROVE b[i].next \in (c \cup {NULL}) \ {l}
      OBVIOUS
    <3>1. l # NULL
      BY <2>8, <2>9, BufFacts
    <3>2. i # u => up(i) \in c /\ up(i) # l
      BY <2>8, <2>9, <2>10
    <3> QED
      BY <2>17, <3>1, <3>2
  <2>19. ASSUME NEW i \in c, NEW j \in c, b[i].next = b[j].next, b[i].next # NULL
         PROVE  i = j
    <3>1. i # u /\ j # u /\ up(i) = up(j)
      BY <2>17, <2>19
    <3>2. ~(i < j) /\ ~(j < i)
      <4>1. /\ up(i) \in c /\ up(i) > i /\ (j > i => up(i) <= j)
            /\ up(j) > j /\ (i > j => up(j) <= i)
        BY <2>10, <3>1
      <4>2. i \in Nat /\ j \in Nat /\ up(i) \in Nat
        BY <2>8, <4>1
      <4> QED
        BY <3>1, <4>1, <4>2
    <3> QED
      BY <2>8, <3>2
  <2>20. ASSUME NEW i \in c, i # l PROVE \E j \in c : b[j].next = i
    <3>1. down(i) \in c /\ down(i) < i
      BY <2>11, <2>20
    <3>2. down(i) # u
      BY <2>8, <2>9, <3>1
    <3>3. up(down(i)) = i
      <4>1. up(down(i)) \in c /\ up(down(i)) > down(i) /\ up(down(i)) <= i
        BY <2>10, <3>1, <3>2
      <4>2. up(down(i)) < i => up(down(i)) <= down(i)
        BY <2>11, <2>20, <4>1
      <4>3. i \in Nat /\ down(i) \in Nat /\ up(down(i)) \in Nat
        BY <2>8, <3>1, <4>1
      <4> QED
        BY <4>1, <4>2, <4>3
    <3> QED
      BY <2>17, <3>1, <3>2, <3>3
  <2>21. b[l].data = d
    BY <2>9, <2>14 DEF dt
  <2>22. Allocated(pb, a, c, d)
    BY <2>8, <2>9, <2>12, <2>14, <2>15, <2>16, <2>17, <2>18, <2>19, <2>20, <2>21 DEF Allocated, b
  <2>23. a.p \in type /\ (k = 1 => c = {a.p})
    BY <2>2, <2>5, <2>6, <2>7, <2>9, <2>12
  <2> QED
    BY <1>2, <2>22, <2>23 DEF a, F
<1> QED
  BY <1>1, <1>2
-----------------------------------------------------------------------------
(* Chains.                                                                 *)

\* c leads from p along next.
Path(pb, p, c) ==
    /\ c \in Seq(Buf) /\ Len(c) >= 1 /\ c[1] = p
    /\ \A k \in 1..(Len(c) - 1) : pb[c[k]].next = c[k + 1]

\* The loop of Chain: what it has found is a path, which has grown with
\* every round or has come to its end; it stays in the set c.S if that is
\* closed under next; and no buffer is in it twice if nothing leads back.
LinksApart(pb, p, S) ==
    /\ \A i, j \in S : pb[i].next = pb[j].next /\ pb[i].next # NULL => i = j
    /\ \A i \in S : pb[i].next # p
Closed(pb, S) == \A i \in S : pb[i].next \in S \cup {NULL}
ChainInv(x, i, r) ==
    /\ DOMAIN r = {"pb", "c"} /\ r.pb = x.pb
    /\ Path(x.pb, x.p, r.c)
    /\ Len(r.c) = i + 1 \/ (Len(r.c) <= i + 1 /\ x.pb[r.c[Len(r.c)]].next = NULL)
    /\ x.p \in x.S /\ Closed(x.pb, x.S) => ToSet(r.c) \subseteq x.S
    /\ (x.p \in x.S /\ Closed(x.pb, x.S) /\ LinksApart(x.pb, x.p, x.S)) =>
          \A k, l \in 1..Len(r.c) : r.c[k] = r.c[l] => k = l

Chaining == INSTANCE LoopProofs WITH Op <- Longer, Inv <- ChainInv

\* One round of the loop of Chain.
LEMMA ChainRound ==
    ASSUME NEW x, Arena(x.pb), x.p \in Buf, NEW i \in Nat, NEW r, ChainInv(x, i, r)
    PROVE  ChainInv(x, i + 1, Longer(r))
<1> DEFINE pb == x.pb
           c == r.c
           t == c[Len(c)]
           S == x.S
<1>1. DOMAIN r = {"pb", "c"} /\ r.pb = pb
  BY DEF ChainInv
<1>2. c \in Seq(Buf) /\ Len(c) \in Nat /\ Len(c) >= 1 /\ c[1] = x.p /\ t \in Buf /\ Last(c) = t
  BY DEF ChainInv, Path, Last
<1>3. \A k \in 1..(Len(c) - 1) : pb[c[k]].next = c[k + 1]
  BY DEF ChainInv, Path
<1>4. Len(c) = i + 1 \/ (Len(c) <= i + 1 /\ pb[t].next = NULL)
  BY DEF ChainInv
<1>5. x.p \in S /\ Closed(pb, S) => ToSet(c) \subseteq S
  BY DEF ChainInv
<1>6. (x.p \in S /\ Closed(pb, S) /\ LinksApart(pb, x.p, S)) =>
          \A k, l \in 1..Len(c) : c[k] = c[l] => k = l
  BY DEF ChainInv
<1>7. CASE pb[t].next = NULL
  <2>1. Longer(r) = r
    BY <1>1, <1>2, <1>7 DEF Longer
  <2>2. Len(c) <= (i + 1) + 1
    BY <1>2, <1>4
  <2> QED
    BY <1>7, <2>1, <2>2 DEF ChainInv
<1>8. CASE pb[t].next # NULL
  <2> DEFINE q == pb[t].next
             s == Longer(r)
             e == Append(c, q)
  <2>1. s = [r EXCEPT !.c = e]
    BY <1>1, <1>2, <1>8 DEF Longer
  <2>2. DOMAIN s = {"pb", "c"} /\ s.pb = pb /\ s.c = e
    BY <1>1, <2>1
  <2> HIDE DEF s, c
  <2>3. q \in Buf
    BY <1>2, <1>8 DEF Arena
  <2>4. /\ e \in Seq(Buf) /\ Len(e) = Len(c) + 1 /\ e[Len(c) + 1] = q
        /\ \A k \in 1..Len(c) : e[k] = c[k]
    BY <1>2, <2>3
  <2> HIDE DEF e
  <2>5. Path(pb, x.p, e)
    <3>1. ASSUME NEW k \in 1..(Len(e) - 1) PROVE pb[e[k]].next = e[k + 1]
      <4>1. CASE k = Len(c)
        BY <4>1, <1>2, <2>4
      <4>2. CASE k # Len(c)
        <5>1. k \in 1..(Len(c) - 1) /\ k \in 1..Len(c) /\ k + 1 \in 1..Len(c)
          BY <4>2, <1>2, <2>4
        <5> QED
          BY <1>3, <2>4, <5>1
      <4> QED
        BY <4>1, <4>2
    <3> QED
      BY <1>2, <2>4, <3>1 DEF Path
  <2>6. Len(e) = (i + 1) + 1
    BY <1>2, <1>4, <1>8, <2>4
  <2>7. ASSUME x.p \in S, Closed(pb, S) PROVE t \in S /\ q \in S /\ ToSet(e) \subseteq S
    <3>1. ToSet(c) \subseteq S /\ t \in ToSet(c)
      BY <1>2, <1>5, <2>7, Elements
    <3>2. q \in S
      BY <1>8, <2>7, <3>1 DEF Closed
    <3>3. \A k \in 1..Len(e) : e[k] \in S
      BY <1>2, <2>4, <3>1, <3>2, Elements
    <3> QED
      BY <2>4, <3>1, <3>2, <3>3, Elements
  <2>8. ASSUME x.p \in S, Closed(pb, S), LinksApart(pb, x.p, S), NEW k \in 1..Len(c)
        PROVE  c[k] # q
    <3>1. \A l \in 1..Len(c) : c[l] \in S
      BY <1>2, <1>5, <2>8, Elements
    <3>2. t \in S /\ q # x.p
      BY <1>2, <2>7, <2>8 DEF LinksApart
    <3>3. CASE k = 1
      BY <1>2, <3>2, <3>3
    <3>4. CASE k # 1
      <4>1. k - 1 \in 1..(Len(c) - 1) /\ k - 1 \in 1..Len(c) /\ Len(c) \in 1..Len(c)
        BY <1>2, <3>4
      <4>2. pb[c[k - 1]].next = c[(k - 1) + 1]
        BY <1>3, <4>1
      <4>3. (k - 1) + 1 = k /\ k - 1 # Len(c)
        BY <1>2
      <4>4. c[k - 1] # c[Len(c)]
        BY <1>6, <2>8, <4>1, <4>3
      <4> QED
        BY <1>8, <2>8, <3>1, <3>2, <4>1, <4>2, <4>3, <4>4 DEF LinksApart
    <3> QED
      BY <3>3, <3>4
  <2>9. ASSUME x.p \in S, Closed(pb, S), LinksApart(pb, x.p, S),
               NEW k \in 1..Len(e), NEW l \in 1..Len(e), e[k] = e[l]
        PROVE  k = l
    <3>1. (k \in 1..Len(c) \/ k = Len(c) + 1) /\ (l \in 1..Len(c) \/ l = Len(c) + 1)
      BY <1>2, <2>4
    <3> QED
      <4>1. CASE k \in 1..Len(c) /\ l \in 1..Len(c)
        BY <4>1, <1>6, <2>4, <2>9
      <4>2. CASE k \in 1..Len(c) /\ l = Len(c) + 1
        BY <4>2, <2>4, <2>8, <2>9
      <4>3. CASE l \in 1..Len(c) /\ k = Len(c) + 1
        BY <4>3, <2>4, <2>8, <2>9
      <4> QED
        BY <3>1, <4>1, <4>2, <4>3
  <2>10. ChainInv(x, i + 1, s)
    BY <2>2, <2>5, <2>6, <2>7, <2>9 DEF ChainInv
  <2> QED
    BY <2>10 DEF s
<1> QED
  BY <1>7, <1>8

\* The buffers of an injective sequence, counted.
LEMMA InjectiveCount ==
    ASSUME NEW S, NEW c \in Seq(S), \A k, l \in 1..Len(c) : c[k] = c[l] => k = l
    PROVE  IsFiniteSet(ToSet(c)) /\ Cardinality(ToSet(c)) = Len(c)
<1>1. Len(c) \in Nat /\ DOMAIN c = 1..Len(c)
  OBVIOUS
<1>2. c \in [1..Len(c) -> ToSet(c)]
  BY <1>1, Elements
<1>3. c \in Bijection(1..Len(c), ToSet(c))
  BY <1>1, <1>2, Elements DEF Bijection, Injection, Surjection, IsInjective
<1>4. ExistsBijection(1..Len(c), ToSet(c))
  BY <1>3 DEF ExistsBijection
<1> QED
  BY <1>1, <1>4, FS_CountingElements, FS_NatBijection

\* What the chain from p is.
LEMMA ChainFacts ==
    ASSUME NEW pb, Arena(pb), NEW p \in Buf
    PROVE  LET c == Chain(pb, p)
           IN  /\ Path(pb, p, c)
               /\ Len(c) = PBUF_POOL_SIZE + RamSize + 1 \/ pb[c[Len(c)]].next = NULL
               /\ \A S : p \in S /\ Closed(pb, S) => ToSet(c) \subseteq S
               /\ (\E S : p \in S /\ Closed(pb, S) /\ LinksApart(pb, p, S)) =>
                     /\ \A k, l \in 1..Len(c) : c[k] = c[l] => k = l
                     /\ pb[c[Len(c)]].next = NULL
<1> DEFINE c == Chain(pb, p)
           a == [pb |-> pb, c |-> <<p>>]
           N == PBUF_POOL_SIZE + RamSize
<1>1. N \in Nat
  BY BufFacts
<1>2. ASSUME NEW S
      PROVE  /\ Path(pb, p, c)
             /\ Len(c) = N + 1 \/ pb[c[Len(c)]].next = NULL
             /\ p \in S /\ Closed(pb, S) => ToSet(c) \subseteq S
             /\ (p \in S /\ Closed(pb, S) /\ LinksApart(pb, p, S)) =>
                     \A k, l \in 1..Len(c) : c[k] = c[l] => k = l
  <2> DEFINE x == [pb |-> pb, p |-> p, S |-> S]
  <2>1. x.pb = pb /\ x.p = p /\ x.S = S
    OBVIOUS
  <2> HIDE DEF x
  <2>2. ChainInv(x, 0, a)
    <3>1. DOMAIN a = {"pb", "c"} /\ a.pb = pb /\ a.c = <<p>>
      OBVIOUS
    <3>2. <<p>> \in Seq(Buf) /\ Len(<<p>>) = 1 /\ <<p>>[1] = p /\ ToSet(<<p>>) = {p}
      BY DEF ToSet
    <3> HIDE DEF a
    <3>3. Path(pb, p, <<p>>)
      BY <3>2 DEF Path
    <3>4. \A k, l \in 1..Len(<<p>>) : k = l
      BY <3>2
    <3> QED
      BY <2>1, <3>1, <3>2, <3>3, <3>4 DEF ChainInv
  <2>3. \A i \in 0..(N - 1) : \A r : ChainInv(x, i, r) => ChainInv(x, i + 1, Longer(r))
    BY <2>1, ChainRound
  <2> HIDE DEF N, a
  <2>4. ChainInv(x, N, Iterate(Longer, N, a))
    BY <1>1, <2>2, <2>3, Chaining!LoopInvariant DEF Iterate, Chaining!Iterate
  <2>5. c = Iterate(Longer, N, a).c
    BY DEF Chain, N, a
  <2> HIDE DEF c
  <2> QED
    BY <2>1, <2>4, <2>5 DEF ChainInv
<1>3. ASSUME NEW S, p \in S, Closed(pb, S), LinksApart(pb, p, S)
      PROVE  /\ \A k, l \in 1..Len(c) : c[k] = c[l] => k = l
             /\ pb[c[Len(c)]].next = NULL
  <2> HIDE DEF c
  <2>1. \A k, l \in 1..Len(c) : c[k] = c[l] => k = l
    BY <1>2, <1>3
  <2>2. c \in Seq(Buf)
    BY <1>2 DEF Path
  <2>3. Cardinality(ToSet(c)) = Len(c) /\ IsFiniteSet(ToSet(c)) /\ ToSet(c) \subseteq Buf
    BY <2>1, <2>2, InjectiveCount, Elements
  <2>4. Cardinality(ToSet(c)) <= N
    BY <2>3, BufFacts, FS_Subset
  <2>5. Len(c) # N + 1
    BY <1>1, <2>3, <2>4
  <2> QED
    BY <1>2, <2>1, <2>5
<1> HIDE DEF c
<1>4. Path(pb, p, c) /\ (Len(c) = N + 1 \/ pb[c[Len(c)]].next = NULL)
  BY <1>2
<1>5. \A S : p \in S /\ Closed(pb, S) => ToSet(c) \subseteq S
  BY <1>2
<1> QED
  BY <1>3, <1>4, <1>5 DEF c

\* The buffers of the chain from p.
Members(pb, p) == ToSet(Chain(pb, p))

\* A chain from which nothing leads back ends, and has each buffer once.
LEMMA WholeChain ==
    ASSUME NEW pb, Arena(pb), NEW p \in Buf, NEW S, p \in S, Closed(pb, S), LinksApart(pb, p, S)
    PROVE  LET c == Chain(pb, p)
               M == Members(pb, p)
           IN  /\ c \in Seq(Buf) /\ Len(c) \in Nat /\ Len(c) >= 1 /\ c[1] = p
               /\ \A k, l \in 1..Len(c) : c[k] = c[l] => k = l
               /\ \A k \in 1..(Len(c) - 1) : pb[c[k]].next = c[k + 1]
               /\ p \in M /\ M \subseteq S /\ M \subseteq Buf /\ Closed(pb, M)
               /\ Last(c) = c[Len(c)] /\ Last(c) \in M /\ pb[Last(c)].next = NULL
               /\ \A i \in M : pb[i].next = NULL => i = Last(c)
               /\ \A i \in M : i # p => \E j \in M : pb[j].next = i
               /\ IsFiniteSet(M) /\ Cardinality(M) = Len(c) /\ pbuf_clen(pb, p) = Cardinality(M)
<1> DEFINE c == Chain(pb, p)
           M == Members(pb, p)
<1>1. /\ Path(pb, p, c)
      /\ \A k, l \in 1..Len(c) : c[k] = c[l] => k = l
      /\ pb[c[Len(c)]].next = NULL
      /\ M \subseteq S
  BY ChainFacts DEF Members
<1>2. M = ToSet(c) /\ pbuf_clen(pb, p) = Len(c)
  BY DEF Members, pbuf_clen
<1> HIDE DEF c, M
<1>3. /\ c \in Seq(Buf) /\ Len(c) \in Nat /\ Len(c) >= 1 /\ c[1] = p
      /\ \A k \in 1..(Len(c) - 1) : pb[c[k]].next = c[k + 1]
  BY <1>1 DEF Path
<1>4. /\ \A i : i \in M <=> \E k \in 1..Len(c) : c[k] = i
      /\ M \subseteq Buf
  BY <1>2, <1>3, Elements
<1>5. Last(c) = c[Len(c)] /\ Last(c) \in M /\ p \in M
  <2>1. 1 \in 1..Len(c) /\ Len(c) \in 1..Len(c)
    BY <1>3
  <2> QED
    BY <1>3, <1>4, <2>1 DEF Last
<1>6. ASSUME NEW i \in M
      PROVE  /\ pb[i].next \in M \cup {NULL}
             /\ pb[i].next = NULL => i = Last(c)
  <2>1. PICK k \in 1..Len(c) : c[k] = i
    BY <1>4
  <2>2. CASE k = Len(c)
    BY <1>1, <1>5, <2>1, <2>2
  <2>3. CASE k # Len(c)
    <3>1. k \in 1..(Len(c) - 1) /\ k + 1 \in 1..Len(c)
      BY <1>3, <2>3
    <3>2. pb[i].next = c[k + 1] /\ c[k + 1] \in M
      BY <1>3, <1>4, <2>1, <3>1
    <3> QED
      BY <1>4, <3>2, BufFacts
  <2> QED
    BY <2>2, <2>3
<1>7. ASSUME NEW i \in M, i # p PROVE \E j \in M : pb[j].next = i
  <2>1. PICK k \in 1..Len(c) : c[k] = i
    BY <1>4
  <2>2. k - 1 \in 1..(Len(c) - 1) /\ k - 1 \in 1..Len(c) /\ (k - 1) + 1 = k
    BY <1>3, <1>7, <2>1
  <2>3. pb[c[k - 1]].next = i /\ c[k - 1] \in M
    <3>1. pb[c[k - 1]].next = c[(k - 1) + 1]
      BY <1>3, <2>2
    <3> QED
      BY <1>4, <2>1, <2>2, <3>1
  <2> QED
    BY <2>3
<1>8. IsFiniteSet(M) /\ Cardinality(M) = Len(c)
  BY <1>1, <1>2, <1>3, InjectiveCount
<1>9. Closed(pb, M)
  BY <1>6 DEF Closed
<1> QED
  BY <1>1, <1>2, <1>3, <1>4, <1>5, <1>6, <1>7, <1>8, <1>9 DEF c, M

\* A chain stays the same while its links do.
LEMMA MembersSame ==
    ASSUME NEW pb, Arena(pb), NEW qb, Arena(qb), NEW p \in Buf,
           NEW S, p \in S, Closed(pb, S), LinksApart(pb, p, S),
           \A i \in Members(pb, p) : qb[i].next = pb[i].next
    PROVE  Members(qb, p) = Members(pb, p)
<1> DEFINE M == Members(pb, p)
           Q == Members(qb, p)
<1>1. p \in M /\ M \subseteq S /\ Closed(pb, M)
  BY WholeChain
<1> HIDE DEF M
<1>2. Closed(qb, M) /\ LinksApart(qb, p, M)
  <2>1. \A i \in M : qb[i].next = pb[i].next /\ i \in S
    BY <1>1 DEF M
  <2> QED
    BY <1>1, <2>1 DEF Closed, LinksApart
<1>3. p \in Q /\ Q \subseteq M /\ Closed(qb, Q)
  BY <1>1, <1>2, WholeChain
<1> HIDE DEF Q
<1>4. Closed(pb, Q)
  <2>1. \A i \in Q : qb[i].next = pb[i].next
    BY <1>3 DEF M
  <2> QED
    BY <1>3, <2>1 DEF Closed
<1>5. M \subseteq Q
  <2>1. \A T : p \in T /\ Closed(pb, T) => ToSet(Chain(pb, p)) \subseteq T
    BY ChainFacts
  <2> QED
    BY <1>3, <1>4, <2>1 DEF M, Members
<1> QED
  BY <1>3, <1>5 DEF M, Q

-----------------------------------------------------------------------------
(* Who holds the buffers.  L are the buffers in chains, H the first ones.  *)

Own(pb, L, H) ==
    /\ L \subseteq Buf /\ H \subseteq L
    /\ \A i \in L : pb[i].ref = 1 /\ pb[i].next \in L \cup {NULL}
    /\ \A i, j \in L : pb[i].next = pb[j].next /\ pb[i].next # NULL => i = j
    /\ \A i \in L : pb[i].next \notin H
    /\ \A i \in L \ H : \E j \in L : pb[j].next = i

\* The chain of a holder.
LEMMA HeadFacts ==
    ASSUME NEW pb, Arena(pb), NEW L, NEW H, Own(pb, L, H), NEW h \in H
    PROVE  LET c == Chain(pb, h)
               M == Members(pb, h)
           IN  /\ h \in Buf /\ h \in L /\ Closed(pb, L) /\ LinksApart(pb, h, L)
               /\ c \in Seq(Buf) /\ Len(c) \in Nat /\ Len(c) >= 1 /\ c[1] = h
               /\ h \in M /\ M \subseteq L /\ Closed(pb, M)
               /\ \A i \in L : pb[i].next \in M => i \in M
               /\ \A g \in H : g \in M => g = h
               /\ IsFiniteSet(M) /\ Cardinality(M) \in Nat /\ pbuf_clen(pb, h) = Cardinality(M)
<1> DEFINE c == Chain(pb, h)
           M == Members(pb, h)
<1>1. h \in Buf /\ h \in L /\ Closed(pb, L) /\ LinksApart(pb, h, L)
  BY DEF Own, Closed, LinksApart
<1>2. /\ c \in Seq(Buf) /\ Len(c) \in Nat /\ Len(c) >= 1 /\ c[1] = h
      /\ h \in M /\ M \subseteq L /\ M \subseteq Buf /\ Closed(pb, M)
      /\ \A i \in M : i # h => \E j \in M : pb[j].next = i
      /\ IsFiniteSet(M) /\ Cardinality(M) = Len(c) /\ pbuf_clen(pb, h) = Cardinality(M)
  BY <1>1, WholeChain
<1> HIDE DEF c, M
<1>3. ASSUME NEW i \in L, pb[i].next \in M PROVE i \in M
  <2>1. pb[i].next # h /\ pb[i].next # NULL
    BY <1>2, <1>3, BufFacts DEF Own
  <2>2. PICK j \in M : pb[j].next = pb[i].next
    BY <1>2, <1>3, <2>1
  <2> QED
    BY <1>2, <2>1, <2>2 DEF Own
<1>4. ASSUME NEW g \in H, g \in M PROVE g = h
  BY <1>2, <1>4 DEF Own
<1> QED
  BY <1>1, <1>2, <1>3, <1>4 DEF c, M

\* Two holders share no buffer.
LEMMA HeadsApart ==
    ASSUME NEW pb, Arena(pb), NEW L, NEW H, Own(pb, L, H), NEW g \in H, NEW h \in H, g # h
    PROVE  Members(pb, g) \cap Members(pb, h) = {}
<1> DEFINE G == Members(pb, g)
           M == Members(pb, h)
           T == G \ M
<1>1. /\ g \in Buf /\ g \in G /\ Closed(pb, G) /\ G \subseteq L
      /\ \A i \in L : pb[i].next \in M => i \in M
      /\ g \notin M
  BY HeadFacts
<1>2. \A X : g \in X /\ Closed(pb, X) => G \subseteq X
  BY <1>1, ChainFacts DEF Members
<1> HIDE DEF G, M
<1>3. g \in T /\ Closed(pb, T)
  BY <1>1 DEF Closed
<1>4. G \subseteq T
  BY <1>2, <1>3
<1> QED
  BY <1>4 DEF G, M

\* All that is said of the buffers in chains stays true while they do not
\* change.
LEMMA OwnSame ==
    ASSUME NEW pb, Arena(pb), NEW qb, Arena(qb), NEW L, NEW H, Own(pb, L, H),
           \A i \in L : qb[i].ref = pb[i].ref /\ qb[i].next = pb[i].next
    PROVE  Own(qb, L, H) /\ \A h \in H : Members(qb, h) = Members(pb, h)
<1>1. Own(qb, L, H)
  BY DEF Own
<1>2. ASSUME NEW h \in H PROVE Members(qb, h) = Members(pb, h)
  <2>1. h \in Buf /\ h \in L /\ Closed(pb, L) /\ LinksApart(pb, h, L) /\ Members(pb, h) \subseteq L
    BY HeadFacts
  <2>2. \A i \in Members(pb, h) : qb[i].next = pb[i].next
    BY <2>1
  <2> QED
    BY <2>1, <2>2, MembersSame
<1> QED
  BY <1>1, <1>2

\* pbuf_free, for a chain c in which the reference of the k-th buffer is the
\* first that is shared.
LEMMA ReleasedFacts ==
    ASSUME NEW pb, Arena(pb), NEW c \in Seq(Buf), NEW k \in 1..(Len(c) + 1),
           \A l \in 1..(k - 1) : pb[c[l]].ref = 1,
           k <= Len(c) => pb[c[k]].ref # 1 /\ pb[c[k]].ref # 0,
           \A l \in 1..(k - 1) : k <= Len(c) => c[l] # c[k]
    PROVE  LET qb == FreeChain(pb, c)
               D == {c[l] : l \in 1..(k - 1)}
           IN  /\ Arena(qb)
               /\ \A i \in D : qb[i] = Unused /\ qb[i].ref = 0
               /\ \A i \in Buf \ D : k <= Len(c) /\ i = c[k] =>
                     /\ qb[i].ref = pb[i].ref - 1 /\ qb[i].next = pb[i].next
                     /\ qb[i].data = pb[i].data
               /\ \A i \in Buf \ D : ~(k <= Len(c) /\ i = c[k]) => qb[i] = pb[i]
<1> DEFINE qb == FreeChain(pb, c)
           D == {c[l] : l \in 1..(k - 1)}
           K == {l \in DOMAIN c : pb[c[l]].ref # 1} \cup {Len(c) + 1}
<1>1. Len(c) \in Nat /\ DOMAIN c = 1..Len(c)
  OBVIOUS
<1>2. FirstShared(pb, c) = k
  <2>1. K \in SUBSET Nat /\ K # {} /\ k \in K
    BY <1>1
  <2>2. Min(K) \in K /\ Min(K) <= k
    BY <2>1, LeastIsMin
  <2>3. \A l \in K : ~(l < k)
    BY <1>1
  <2>4. Min(K) = k
    <3>1. Min(K) \in Nat
      BY <2>1, <2>2
    <3> QED
      BY <2>2, <2>3, <3>1
  <2> QED
    BY <2>4 DEF FirstShared
<1>3. \A i : Contains(SubSeq(c, 1, k - 1), i) <=> i \in D
  <2> DEFINE s == SubSeq(c, 1, k - 1)
  <2>1. s \in Seq(Buf) /\ Len(s) = k - 1 /\ \A l \in 1..(k - 1) : s[l] = c[l]
    BY <1>1
  <2> HIDE DEF s
  <2>2. \A i : Contains(s, i) <=> \E l \in 1..Len(s) : s[l] = i
    BY <2>1, Elements
  <2>3. \A i : Contains(s, i) <=> i \in D
    BY <2>1, <2>2
  <2> QED
    BY <2>3 DEF s
<1>4. qb = [i \in Buf |->
              IF k <= Len(c) /\ i = c[k] THEN [pb[i] EXCEPT !.ref = @ - 1]
              ELSE IF i \in D THEN Unused ELSE pb[i]]
  <2>1. qb = Released(pb, c, k) /\ DOMAIN pb = Buf
    BY <1>2 DEF FreeChain, Arena
  <2> HIDE DEF qb, D
  <2> QED
    BY <1>3, <2>1 DEF Released
<1>5. D \subseteq Buf /\ (k <= Len(c) => c[k] \notin D)
  BY <1>1
<1> HIDE DEF qb, D, K
<1>6. \A i \in D : qb[i] = Unused
  BY <1>4, <1>5
<1>7. Unused.ref = 0 /\ Unused.next = NULL /\ DOMAIN Unused = {"ref", "next", "data"}
  BY DEF Unused
<1>8. ASSUME NEW i \in Buf \ D, k <= Len(c), i = c[k]
      PROVE  /\ qb[i].ref = pb[i].ref - 1 /\ qb[i].next = pb[i].next
             /\ qb[i].data = pb[i].data /\ DOMAIN qb[i] = {"ref", "next", "data"}
             /\ qb[i].ref \in Nat
  <2>1. qb[i] = [pb[i] EXCEPT !.ref = @ - 1]
    BY <1>4, <1>8
  <2>2. DOMAIN pb[i] = {"ref", "next", "data"} /\ pb[i].ref \in Nat /\ pb[i].ref # 0
    BY <1>8 DEF Arena
  <2> QED
    BY <2>1, <2>2
<1>9. \A i \in Buf \ D : ~(k <= Len(c) /\ i = c[k]) => qb[i] = pb[i]
  BY <1>4
<1>10. Arena(qb)
  <2>1. DOMAIN qb = Buf
    BY <1>4
  <2>2. ASSUME NEW i \in Buf
        PROVE  /\ DOMAIN qb[i] = {"ref", "next", "data"}
               /\ qb[i].ref \in Nat /\ qb[i].next \in Buf \cup {NULL}
    <3>1. CASE i \in D
      BY <1>6, <1>7, <3>1
    <3>2. CASE i \notin D /\ k <= Len(c) /\ i = c[k]
      BY <1>8, <3>2 DEF Arena
    <3>3. CASE i \notin D /\ ~(k <= Len(c) /\ i = c[k])
      BY <1>9, <3>3 DEF Arena
    <3> QED
      BY <3>1, <3>2, <3>3
  <2> QED
    BY <2>1, <2>2 DEF Arena
<1> QED
  BY <1>6, <1>7, <1>8, <1>9, <1>10 DEF qb, D

\* The chain M of the holder h is free in qb.
Freed(pb, L, H, h, M, qb) ==
    /\ Arena(qb)
    /\ \A i \in M : qb[i].ref = 0
    /\ \A i \in Buf \ M : qb[i] = pb[i]
    /\ Own(qb, L \ M, H \ {h})
    /\ \A g \in H \ {h} : Members(qb, g) = Members(pb, g)

\* A holder gives up its chain.
LEMMA FreeHead ==
    ASSUME NEW pb, Arena(pb), NEW L, NEW H, Own(pb, L, H), NEW h \in H
    PROVE  Freed(pb, L, H, h, Members(pb, h), pbuf_free(pb, h))
<1> DEFINE qb == pbuf_free(pb, h)
           M == Members(pb, h)
           c == Chain(pb, h)
<1>1. /\ c \in Seq(Buf) /\ Len(c) \in Nat
      /\ h \in M /\ M \subseteq L /\ Closed(pb, M)
      /\ \A i \in L : pb[i].next \in M => i \in M
      /\ \A g \in H : g \in M => g = h
  BY HeadFacts
<1>2. qb = FreeChain(pb, c) /\ M = ToSet(c)
  BY DEF pbuf_free, Members
<1> HIDE DEF qb, M, c
<1>3. \A i : i \in M <=> \E k \in 1..Len(c) : c[k] = i
  BY <1>1, <1>2, Elements
<1>4. /\ Arena(qb)
      /\ \A i \in M : qb[i].ref = 0
      /\ \A i \in Buf \ M : qb[i] = pb[i]
  <2> DEFINE k == Len(c) + 1
             D == {c[l] : l \in 1..(k - 1)}
  <2>1. k \in 1..(Len(c) + 1) /\ ~(k <= Len(c)) /\ k - 1 = Len(c)
    BY <1>1
  <2>2. \A l \in 1..(k - 1) : pb[c[l]].ref = 1
    BY <1>1, <1>3, <2>1 DEF Own
  <2>3. D = M
    BY <1>3, <2>1
  <2> HIDE DEF k
  <2>4. /\ Arena(qb)
        /\ \A i \in D : qb[i] = Unused /\ qb[i].ref = 0
        /\ \A i \in Buf \ D : ~(k <= Len(c) /\ i = c[k]) => qb[i] = pb[i]
    BY <1>1, <1>2, <2>1, <2>2, ReleasedFacts
  <2> HIDE DEF D
  <2> QED
    BY <2>1, <2>3, <2>4
<1>5. Own(qb, L \ M, H \ {h})
  <2>1. L \ M \subseteq Buf /\ H \ {h} \subseteq L \ M
    BY <1>1 DEF Own
  <2>2. \A i \in L \ M : qb[i] = pb[i] /\ i \in L
    BY <1>4, <2>1
  <2>3. \A i \in L \ M : qb[i].ref = 1 /\ qb[i].next \in (L \ M) \cup {NULL}
    BY <1>1, <2>2 DEF Own
  <2>4. \A i, j \in L \ M : qb[i].next = qb[j].next /\ qb[i].next # NULL => i = j
    BY <2>2 DEF Own
  <2>5. \A i \in L \ M : qb[i].next \notin H \ {h}
    BY <2>2 DEF Own
  <2>6. ASSUME NEW i \in (L \ M) \ (H \ {h}) PROVE \E j \in L \ M : qb[j].next = i
    <3>1. i \notin H /\ i \in L
      BY <1>1
    <3>2. PICK j \in L : pb[j].next = i
      BY <3>1 DEF Own
    <3>3. i # NULL
      BY <2>1, BufFacts
    <3>4. j \notin M
      BY <1>1, <3>2, <3>3 DEF Closed
    <3> QED
      BY <2>2, <3>2, <3>4
  <2> QED
    BY <2>1, <2>3, <2>4, <2>5, <2>6 DEF Own
<1>6. ASSUME NEW g \in H \ {h} PROVE Members(qb, g) = Members(pb, g)
  <2>1. /\ g \in Buf /\ g \in L /\ Closed(pb, L) /\ LinksApart(pb, g, L)
        /\ Members(pb, g) \subseteq L
    BY HeadFacts
  <2>2. Members(pb, g) \cap M = {}
    BY HeadsApart DEF M
  <2>3. \A i \in Members(pb, g) : qb[i].next = pb[i].next
    BY <1>4, <2>1, <2>2 DEF Own
  <2> QED
    BY <1>4, <2>1, <2>3, MembersSame
<1> QED
  BY <1>4, <1>5, <1>6 DEF Freed, qb, M

\* The one buffer h in front of p, which somebody else holds, too, goes.
LEMMA FreeFront ==
    ASSUME NEW pb, Arena(pb), NEW h \in Buf, NEW p \in Buf, h # p,
           pb[h].ref = 1, pb[h].next = p, pb[p].ref = 2
    PROVE  LET qb == pbuf_free(pb, h)
           IN  /\ Arena(qb) /\ qb[h].ref = 0
               /\ qb[p].ref = 1 /\ qb[p].next = pb[p].next /\ qb[p].data = pb[p].data
               /\ \A i \in Buf \ {h, p} : qb[i] = pb[i]
<1> DEFINE qb == pbuf_free(pb, h)
           c == Chain(pb, h)
<1>1. Path(pb, h, c) /\ (Len(c) = PBUF_POOL_SIZE + RamSize + 1 \/ pb[c[Len(c)]].next = NULL)
  BY ChainFacts
<1>2. qb = FreeChain(pb, c)
  BY DEF pbuf_free
<1> HIDE DEF qb, c
<1>3. /\ c \in Seq(Buf) /\ Len(c) \in Nat /\ Len(c) >= 1 /\ c[1] = h
      /\ \A k \in 1..(Len(c) - 1) : pb[c[k]].next = c[k + 1]
  BY <1>1 DEF Path
<1>4. Len(c) >= 2
  <2> SUFFICES ASSUME ~(Len(c) >= 2) PROVE FALSE
    OBVIOUS
  <2>1. FALSE
    <3>1. PBUF_POOL_SIZE + RamSize >= 1 /\ PBUF_POOL_SIZE + RamSize \in Nat /\ p # NULL
      BY BufFacts
    <3>2. PBUF_POOL_SIZE + RamSize + 1 # 1
      BY <3>1
    <3>3. Len(c) = 1
      <4>1. \A m \in Nat : m >= 1 => m = 1 \/ m >= 2
        OBVIOUS
      <4> QED
        BY <1>3, <4>1
    <3> QED
      BY <1>1, <1>3, <3>1, <3>2, <3>3
  <2> QED
    BY <2>1
<1>5. c[2] = p
  <2>1. 1 \in 1..(Len(c) - 1)
    BY <1>3, <1>4
  <2>2. \A k \in 1..(Len(c) - 1) : k = 1 => k + 1 = 2 /\ pb[c[k]].next = c[k + 1]
    BY <1>3
  <2> QED
    BY <1>3, <2>1, <2>2
<1> DEFINE D == {c[l] : l \in 1..(2 - 1)}
<1>6. D = {h} /\ \A l \in 1..(2 - 1) : c[l] = h
  BY <1>3
<1>7. 2 \in 1..(Len(c) + 1) /\ 2 <= Len(c)
  BY <1>3, <1>4
<1>8. /\ Arena(qb)
      /\ \A i \in D : qb[i] = Unused /\ qb[i].ref = 0
      /\ \A i \in Buf \ D : 2 <= Len(c) /\ i = c[2] =>
            /\ qb[i].ref = pb[i].ref - 1 /\ qb[i].next = pb[i].next
            /\ qb[i].data = pb[i].data
      /\ \A i \in Buf \ D : ~(2 <= Len(c) /\ i = c[2]) => qb[i] = pb[i]
  <2>1. \A l \in 1..(2 - 1) : pb[c[l]].ref = 1
    BY <1>6
  <2>2. pb[c[2]].ref # 1 /\ pb[c[2]].ref # 0 /\ \A l \in 1..(2 - 1) : c[l] # c[2]
    BY <1>5, <1>6
  <2> QED
    BY <1>2, <1>3, <1>7, <2>1, <2>2, ReleasedFacts
<1> HIDE DEF D
<1> QED
  BY <1>5, <1>6, <1>7, <1>8 DEF qb

\* The chain of t hangs at the end of the one of h in qb.
Catted(pb, L, H, h, t, qb) ==
    /\ Arena(qb)
    /\ \A i \in Buf : qb[i].ref = pb[i].ref /\ qb[i].data = pb[i].data
    /\ \A i \in Buf \ L : qb[i] = pb[i]
    /\ Own(qb, L, H \ {t})
    /\ Members(qb, h) = Members(pb, h) \cup Members(pb, t)
    /\ \A g \in H \ {h, t} : Members(qb, g) = Members(pb, g)

\* A chain is appended to another one.
LEMMA CatHeads ==
    ASSUME NEW pb, Arena(pb), NEW L, NEW H, Own(pb, L, H), NEW h \in H, NEW t \in H, h # t
    PROVE  Catted(pb, L, H, h, t, pbuf_cat(pb, h, t))
<1> DEFINE qb == pbuf_cat(pb, h, t)
           M == Members(pb, h)
           T == Members(pb, t)
           e == Last(Chain(pb, h))
           Q == Members(qb, h)
<1>1. /\ h \in Buf /\ h \in L /\ Closed(pb, L) /\ LinksApart(pb, h, L)
      /\ h \in M /\ M \subseteq L /\ Closed(pb, M)
  BY HeadFacts
<1>2. t \in Buf /\ t \in L /\ t \in T /\ T \subseteq L /\ Closed(pb, T)
  BY HeadFacts
<1>3. e \in M /\ pb[e].next = NULL
  BY <1>1, WholeChain
<1>4. qb = [pb EXCEPT ![e].next = t]
  BY DEF pbuf_cat
<1>5. /\ \A X : h \in X /\ Closed(pb, X) => M \subseteq X
      /\ \A X : t \in X /\ Closed(pb, X) => T \subseteq X
  BY <1>1, <1>2, ChainFacts DEF Members
<1> HIDE DEF qb, M, T, e
<1>6. /\ DOMAIN qb = Buf /\ e \in Buf
      /\ \A i \in Buf : i # e => qb[i] = pb[i]
      /\ qb[e] = [pb[e] EXCEPT !.next = t] /\ DOMAIN pb[e] = {"ref", "next", "data"}
  BY <1>1, <1>3, <1>4 DEF Arena, Own
<1>7. qb[e].ref = pb[e].ref /\ qb[e].next = t /\ qb[e].data = pb[e].data
      /\ DOMAIN qb[e] = {"ref", "next", "data"}
  BY <1>6
<1>8. Arena(qb) /\ \A i \in Buf : qb[i].ref = pb[i].ref /\ qb[i].data = pb[i].data
  <2>1. ASSUME NEW i \in Buf
        PROVE  /\ DOMAIN qb[i] = {"ref", "next", "data"}
               /\ qb[i].ref \in Nat /\ qb[i].next \in Buf \cup {NULL}
               /\ qb[i].ref = pb[i].ref /\ qb[i].data = pb[i].data
    <3>1. CASE i = e
      BY <1>2, <1>6, <1>7, <3>1 DEF Arena
    <3>2. CASE i # e
      BY <1>6, <3>2 DEF Arena
    <3> QED
      BY <3>1, <3>2
  <2> QED
    BY <1>6, <2>1 DEF Arena
<1>9. \A i \in Buf \ L : qb[i] = pb[i]
  BY <1>1, <1>3, <1>6
<1>10. e \in L /\ L \subseteq Buf /\ t # NULL
  BY <1>1, <1>2, <1>3, BufFacts DEF Own
<1>11. \A i \in L : qb[i].next = IF i = e THEN t ELSE pb[i].next
  BY <1>6, <1>7, <1>10
<1>12. Own(qb, L, H \ {t})
  <2>1. H \ {t} \subseteq L
    BY DEF Own
  <2>2. \A i \in L : qb[i].ref = 1 /\ qb[i].next \in L \cup {NULL}
    BY <1>2, <1>8, <1>10, <1>11 DEF Own
  <2>3. \A i, j \in L : qb[i].next = qb[j].next /\ qb[i].next # NULL => i = j
    BY <1>11 DEF Own
  <2>4. \A i \in L : qb[i].next \notin H \ {t}
    BY <1>11 DEF Own
  <2>5. ASSUME NEW i \in L \ (H \ {t}) PROVE \E j \in L : qb[j].next = i
    <3>1. CASE i = t
      BY <1>10, <1>11, <3>1
    <3>2. CASE i # t
      <4>1. PICK j \in L : pb[j].next = i
        BY <3>2 DEF Own
      <4>2. i # NULL
        BY <1>10, BufFacts
      <4> QED
        BY <1>3, <1>11, <4>1, <4>2
    <3> QED
      BY <3>1, <3>2
  <2> QED
    BY <1>10, <2>1, <2>2, <2>3, <2>4, <2>5 DEF Own
<1>13. h \in Q /\ Q \subseteq L /\ Closed(qb, Q)
  BY <1>8, <1>12, HeadFacts
<1>14. \A X : h \in X /\ Closed(qb, X) => Q \subseteq X
  BY <1>1, <1>8, ChainFacts DEF Members
<1> HIDE DEF Q
<1>15. Q \subseteq M \cup T
  <2>1. Closed(qb, M \cup T)
    BY <1>1, <1>2, <1>11 DEF Closed
  <2> QED
    BY <1>1, <1>14, <2>1
<1>16. Closed(pb, Q)
  <2>1. ASSUME NEW i \in Q PROVE pb[i].next \in Q \cup {NULL}
    <3>1. i \in L /\ qb[i].next \in Q \cup {NULL}
      BY <1>13 DEF Closed
    <3> QED
      BY <1>3, <1>11, <3>1
  <2> QED
    BY <2>1 DEF Closed
<1>17. M \subseteq Q
  BY <1>5, <1>13, <1>16
<1>18. t \in Q
  <2>1. qb[e].next \in Q \cup {NULL}
    BY <1>3, <1>13, <1>17 DEF Closed
  <2> QED
    BY <1>7, <1>10, <2>1
<1>19. Q = M \cup T
  BY <1>5, <1>15, <1>16, <1>17, <1>18
<1>20. ASSUME NEW g \in H \ {h, t} PROVE Members(qb, g) = Members(pb, g)
  <2>1. /\ g \in Buf /\ g \in L /\ Closed(pb, L) /\ LinksApart(pb, g, L)
        /\ Members(pb, g) \subseteq L
    BY HeadFacts
  <2>2. e \notin Members(pb, g)
    BY <1>3, HeadsApart DEF M
  <2>3. \A i \in Members(pb, g) : qb[i].next = pb[i].next
    BY <1>11, <2>1, <2>2
  <2> QED
    BY <1>8, <2>1, <2>3, MembersSame
<1> QED
  BY <1>8, <1>9, <1>12, <1>19, <1>20 DEF Catted, qb, M, T, Q

\* A new chain and its holder.
Joining(pb, L, H, a, c) ==
    /\ c \cap L = {} /\ a.p \notin H
    /\ Own(a.pb, L \cup c, H \cup {a.p})
    /\ \A g \in H : Members(a.pb, g) = Members(pb, g)

\* A chain from pbuf_alloc is one more chain with one holder.
LEMMA AllocHead ==
    ASSUME NEW pb, Arena(pb), NEW L, NEW H, Own(pb, L, H), NEW a, NEW c, NEW d,
           Allocated(pb, a, c, d)
    PROVE  Joining(pb, L, H, a, c)
<1> DEFINE b == a.pb
           h == a.p
<1>1. /\ c \in SUBSET Buf /\ h \in c /\ Arena(b)
      /\ \A i \in Buf \ c : b[i] = pb[i]
      /\ \A i \in c : /\ pb[i].ref = 0 /\ b[i].ref = 1
                      /\ b[i].next \in (c \cup {NULL}) \ {h}
      /\ \A i, j \in c : b[i].next = b[j].next /\ b[i].next # NULL => i = j
      /\ \A i \in c \ {h} : \E j \in c : b[j].next = i
  BY DEF Allocated
<1> HIDE DEF b, h
<1>2. c \cap L = {} /\ h \notin H /\ L \subseteq Buf /\ H \subseteq L
  BY <1>1 DEF Own
<1>3. \A i \in L : b[i] = pb[i]
  BY <1>1, <1>2
<1>4. Own(b, L, H) /\ \A g \in H : Members(b, g) = Members(pb, g)
  BY <1>1, <1>3, OwnSame
<1>5. Own(b, L \cup c, H \cup {h})
  <2>1. L \cup c \subseteq Buf /\ H \cup {h} \subseteq L \cup c
    BY <1>1, <1>2
  <2>2. \A i \in L \cup c : b[i].ref = 1 /\ b[i].next \in (L \cup c) \cup {NULL}
    BY <1>1, <1>4 DEF Own
  <2>3. \A i, j \in L \cup c : b[i].next = b[j].next /\ b[i].next # NULL => i = j
    BY <1>1, <1>2, <1>4 DEF Own
  <2>4. \A i \in L \cup c : b[i].next \notin H \cup {h}
    <3>1. NULL \notin H \cup {h}
      BY <1>1, <1>2, BufFacts
    <3> QED
      BY <1>1, <1>2, <1>4, <3>1 DEF Own
  <2>5. \A i \in (L \cup c) \ (H \cup {h}) : \E j \in L \cup c : b[j].next = i
    BY <1>1, <1>4 DEF Own
  <2> QED
    BY <2>1, <2>2, <2>3, <2>4, <2>5 DEF Own
<1> QED
  BY <1>2, <1>4, <1>5 DEF b, h, Joining

-----------------------------------------------------------------------------
(* ARP.                                                                    *)

Fields ==
    {"pb", "arp", "hint", "wire", "reass", "count", "up", "hung", "ts", "since", "pcbs", "tcp"}
EntryFields == {"state", "ipaddr", "ethaddr", "ctime", "q"}

\* Entry e is sound: the address it gives is the one its neighbour gave last
\* (T), and the packet it keeps is held by nobody else and for this neighbour.
SoundEntry(e, pb, T) ==
    /\ DOMAIN e = EntryFields /\ e.ctime \in Nat
    /\ e.state \in {"EMPTY", "PENDING", "STABLE", "REREQUESTING"}
    /\ e.state = "EMPTY" => e.q = NULL
    /\ e.state # "EMPTY" => e.ipaddr \in Unicast
    /\ IsStable(e) => e.ethaddr = T[e.ipaddr] /\ e.ethaddr # Zero
    /\ e.q # NULL => /\ e.q \in Buf /\ pb[e.q].ref = 1 /\ pb[e.q].next = NULL
                     /\ NextHop(pb[e.q].data.dst) = e.ipaddr

\* Frames on the wire go where they should.
SoundWire(w, T) ==
    \A f \in w : \/ f.to = Broadcast /\ f.hop = Broadcast
                 \/ f.hop \in Unicast /\ f.to = T[f.hop] /\ f.to # Zero

ArpOK(s, T) ==
    /\ DOMAIN s = Fields /\ Arena(s.pb) /\ DOMAIN s.arp = ArpIndex /\ s.hint \in ArpIndex
    /\ \A j \in ArpIndex : SoundEntry(s.arp[j], s.pb, T)
    /\ \A i, j \in ArpIndex :
          s.arp[i].state # "EMPTY" /\ s.arp[j].state # "EMPTY" /\ s.arp[i].ipaddr = s.arp[j].ipaddr
          => i = j
    /\ \A i, j \in ArpIndex : s.arp[i].q = s.arp[j].q /\ s.arp[i].q # NULL => i = j
    /\ SoundWire(s.wire, T)

\* The packets ARP keeps, and the buffers in use that are not among them.
Kept(s) == {s.arp[j].q : j \in ArpIndex} \ {NULL}
Loose(s) == {i \in Buf : s.pb[i].ref # 0} \ Kept(s)

\* From s to m only what belongs to ARP changes.
SameRest(s, m) ==
    /\ m.reass = s.reass /\ m.count = s.count /\ m.up = s.up /\ m.hung = s.hung
    /\ m.ts = s.ts /\ m.since = s.since /\ m.pcbs = s.pcbs /\ m.tcp = s.tcp
Framed(s, m) ==
    /\ Loose(m) = Loose(s) /\ \A i \in Loose(s) : m.pb[i] = s.pb[i]
    /\ SameRest(s, m)

\* Two steps that leave the rest alone, one after the other.
LEMMA FramedThen ==
    ASSUME NEW s, NEW m, NEW t, Framed(s, m), Framed(m, t)
    PROVE  Framed(s, t)
BY DEF Framed, SameRest

\* No change at all leaves the rest alone.
LEMMA FramedSelf ==
    ASSUME NEW s PROVE Framed(s, s)
BY DEF Framed, SameRest

\* The table has an entry 0, and ERR_MEM is no index.
LEMMA IndexFacts ==
    /\ ArpIndex \in SUBSET Nat /\ ArpIndex # {} /\ 0 \in ArpIndex /\ ERR_MEM \notin ArpIndex
    /\ \A i \in ArpIndex : i \in Nat /\ i <= ARP_TABLE_SIZE
    /\ ARP_TABLE_SIZE \in Nat
<1>1. ARP_TABLE_SIZE \in Nat /\ ARP_TABLE_SIZE >= 1
  BY EtharpAssumption
<1>2. \A i \in ArpIndex : i \in Nat /\ i <= ARP_TABLE_SIZE
  BY <1>1 DEF ArpIndex
<1>3. 0 \in ArpIndex
  BY <1>1 DEF ArpIndex
<1>4. ERR_MEM \notin ArpIndex
  BY DEF ArpIndex, ERR_MEM
<1> QED
  BY <1>1, <1>2, <1>3, <1>4

\* A single buffer is freed.
Single(pb, q) == pb[q].ref = 1 /\ pb[q].next = NULL

\* A packet of one buffer with one holder goes back to its pool.
LEMMA FreeOne ==
    ASSUME NEW pb, Arena(pb), NEW q \in Buf, Single(pb, q)
    PROVE  LET qb == pbuf_free(pb, q)
           IN  Arena(qb) /\ qb[q].ref = 0 /\ \A i \in Buf \ {q} : qb[i] = pb[i]
<1>1. Own(pb, {q}, {q})
  BY BufFacts DEF Own, Single
<1>2. Members(pb, q) \subseteq {q} /\ q \in Members(pb, q)
  BY <1>1, HeadFacts
<1>3. Members(pb, q) = {q}
  BY <1>2
<1> DEFINE qb == pbuf_free(pb, q)
<1>4. Freed(pb, {q}, {q}, q, {q}, qb)
  BY <1>1, <1>3, FreeHead
<1> HIDE DEF qb
<1>5. Arena(qb) /\ qb[q].ref = 0 /\ \A i \in Buf \ {q} : qb[i] = pb[i]
  BY <1>4 DEF Freed
<1> QED
  BY <1>5 DEF qb

\* A single buffer is allocated.
LEMMA AllocOne ==
    ASSUME NEW pb, Arena(pb), NEW d
    PROVE  LET a == pbuf_alloc(pb, PBUF_RAM, 1, d)
           IN  \/ a.p = NULL /\ a.pb = pb
               \/ /\ a.p \in Buf /\ pb[a.p].ref = 0 /\ Arena(a.pb)
                  /\ a.pb[a.p].ref = 1 /\ a.pb[a.p].next = NULL /\ a.pb[a.p].data = d
                  /\ \A i \in Buf \ {a.p} : a.pb[i] = pb[i]
<1> DEFINE a == pbuf_alloc(pb, PBUF_RAM, 1, d)
<1>1. CASE a.p = NULL /\ a.pb = pb
  BY <1>1
<1>2. CASE \E c : Allocated(pb, a, c, d) /\ c = {a.p}
  <2> HIDE DEF a
  <2>1. Allocated(pb, a, {a.p}, d)
    BY <1>2
  <2>2. a.p \in Buf /\ pb[a.p].ref = 0 /\ Arena(a.pb)
        /\ a.pb[a.p].ref = 1 /\ a.pb[a.p].next = NULL /\ a.pb[a.p].data = d
        /\ \A i \in Buf \ {a.p} : a.pb[i] = pb[i]
    BY <2>1 DEF Allocated
  <2> QED
    BY <2>2 DEF a
<1>3. (a.p = NULL /\ a.pb = pb) \/ \E c : Allocated(pb, a, c, d) /\ c = {a.p}
  <2>1. 1 \in Nat \ {0}
    OBVIOUS
  <2> HIDE DEF a
  <2>2. IF Cardinality(FreeIn(pb, PBUF_RAM)) < 1 THEN a.p = NULL /\ a.pb = pb
        ELSE /\ a.p \in PBUF_RAM
             /\ \E c : Allocated(pb, a, c, d) /\ (1 = 1 => c = {a.p})
    BY <2>1, AllocFacts DEF a
  <2> QED
    BY <2>2
<1> QED
  BY <1>1, <1>2, <1>3

\* What is loose is in use and is not kept.
LEMMA LooseFacts ==
    ASSUME NEW s, NEW T, ArpOK(s, T)
    PROVE  /\ \A i : i \in Kept(s) <=> i # NULL /\ \E j \in ArpIndex : s.arp[j].q = i
           /\ \A i \in Kept(s) : i \in Buf /\ s.pb[i].ref = 1 /\ s.pb[i].next = NULL
           /\ \A i : i \in Loose(s) <=> i \in Buf /\ s.pb[i].ref # 0 /\ i \notin Kept(s)
           /\ NULL \notin Buf
BY BufFacts DEF Kept, Loose, ArpOK, SoundEntry

\* One entry changes, and with it perhaps its packet.
LEMMA EntryChange ==
    ASSUME NEW s, NEW T, ArpOK(s, T), NEW i \in ArpIndex, NEW m,
           DOMAIN m = Fields, Arena(m.pb), DOMAIN m.arp = ArpIndex, m.hint \in ArpIndex,
           \A j \in ArpIndex \ {i} : m.arp[j] = s.arp[j],
           \A j \in ArpIndex \ {i} : s.arp[j].q # NULL => m.pb[s.arp[j].q] = s.pb[s.arp[j].q],
           SoundEntry(m.arp[i], m.pb, T),
           m.arp[i].state # "EMPTY" =>
               \A j \in ArpIndex \ {i} : s.arp[j].state # "EMPTY" => s.arp[j].ipaddr # m.arp[i].ipaddr,
           m.arp[i].q # NULL => \A j \in ArpIndex \ {i} : s.arp[j].q # m.arp[i].q,
           SoundWire(m.wire, T)
    PROVE  ArpOK(m, T)
<1>1. ASSUME NEW j \in ArpIndex PROVE SoundEntry(m.arp[j], m.pb, T)
  <2>1. CASE j = i
    BY <2>1
  <2>2. CASE j # i
    <3>1. m.arp[j] = s.arp[j] /\ SoundEntry(s.arp[j], s.pb, T)
      BY <2>2 DEF ArpOK
    <3>2. s.arp[j].q # NULL => m.pb[s.arp[j].q] = s.pb[s.arp[j].q]
      BY <2>2
    <3> QED
      BY <3>1, <3>2 DEF SoundEntry
  <2> QED
    BY <2>1, <2>2
<1>2. \A l, j \in ArpIndex :
          m.arp[l].state # "EMPTY" /\ m.arp[j].state # "EMPTY" /\ m.arp[l].ipaddr = m.arp[j].ipaddr
          => l = j
  BY DEF ArpOK
<1>3. \A l, j \in ArpIndex : m.arp[l].q = m.arp[j].q /\ m.arp[l].q # NULL => l = j
  BY DEF ArpOK
<1> QED
  BY <1>1, <1>2, <1>3 DEF ArpOK

\* The packet of entry i goes, comes or is replaced.
PacketChange(s, i, m) ==
    /\ \A j \in ArpIndex \ {i} : m.arp[j].q = s.arp[j].q
    /\ \A b \in Buf : b # s.arp[i].q /\ b # m.arp[i].q => m.pb[b] = s.pb[b]
    /\ s.arp[i].q # m.arp[i].q /\ s.arp[i].q # NULL => m.pb[s.arp[i].q].ref = 0
    /\ s.arp[i].q # m.arp[i].q /\ m.arp[i].q # NULL => s.pb[m.arp[i].q].ref = 0

\* A change of one entry and of its packet touches no other buffer.
LEMMA KeptChange ==
    ASSUME NEW s, NEW T, ArpOK(s, T), NEW i \in ArpIndex, NEW m, NEW U, ArpOK(m, U),
           PacketChange(s, i, m), SameRest(s, m)
    PROVE  Framed(s, m)
<1> USE DEF PacketChange
<1>1. \A b \in Kept(s) : b = s.arp[i].q \/ b \in Kept(m)
  BY DEF Kept
<1>2. \A b \in Kept(m) : b = m.arp[i].q \/ b \in Kept(s)
  BY DEF Kept
<1>3. ASSUME NEW b \in Loose(s) PROVE b \in Loose(m) /\ m.pb[b] = s.pb[b]
  <2>1. b \in Buf /\ s.pb[b].ref # 0 /\ b \notin Kept(s) /\ b # NULL
    BY LooseFacts
  <2>2. b # s.arp[i].q /\ b # m.arp[i].q
    BY <2>1, LooseFacts
  <2> QED
    BY <1>2, <2>1, <2>2, LooseFacts
<1>4. ASSUME NEW b \in Loose(m) PROVE b \in Loose(s)
  <2>1. b \in Buf /\ m.pb[b].ref # 0 /\ b \notin Kept(m) /\ b # NULL
    BY LooseFacts
  <2>2. b # s.arp[i].q /\ b # m.arp[i].q
    BY <2>1, LooseFacts
  <2> QED
    BY <1>1, <2>1, <2>2, LooseFacts
<1>5. Loose(m) = Loose(s)
  BY <1>3, <1>4
<1> QED
  BY <1>3, <1>5 DEF Framed

\* etharp_free_entry.
EntryFreed(s, T, i, m) ==
    /\ ArpOK(m, T) /\ Framed(s, m)
    /\ m.arp[i] = EmptyEntry /\ \A j \in ArpIndex \ {i} : m.arp[j] = s.arp[j]
    /\ m.wire = s.wire

\* etharp_free_entry.
LEMMA FreeEntry ==
    ASSUME NEW s, NEW T, ArpOK(s, T), NEW i \in ArpIndex
    PROVE  EntryFreed(s, T, i, etharp_free_entry(s, i))
<1> DEFINE q == s.arp[i].q
           P == IF q = NULL THEN s.pb ELSE pbuf_free(s.pb, q)
           m == etharp_free_entry(s, i)
<1>1. DOMAIN s = Fields /\ Arena(s.pb) /\ DOMAIN s.arp = ArpIndex /\ s.hint \in ArpIndex
      /\ SoundEntry(s.arp[i], s.pb, T) /\ SoundWire(s.wire, T)
  BY DEF ArpOK
<1>2. Arena(P) /\ (q # NULL => P[q].ref = 0) /\ \A b \in Buf : b # q => P[b] = s.pb[b]
  <2>1. q # NULL => q \in Buf /\ Single(s.pb, q)
    BY <1>1 DEF SoundEntry, Single
  <2>2. CASE q = NULL
    BY <1>1, <2>2
  <2>3. CASE q # NULL
    <3>1. P = pbuf_free(s.pb, q)
      BY <2>3
    <3> QED
      BY <1>1, <2>1, <2>3, <3>1, FreeOne
  <2> QED
    BY <2>2, <2>3
<1>3. m = [s EXCEPT !.pb = P, !.arp[i] = EmptyEntry]
  BY DEF etharp_free_entry
<1> HIDE DEF P, m
<1>4. /\ DOMAIN m = Fields /\ m.pb = P /\ m.arp = [s.arp EXCEPT ![i] = EmptyEntry]
      /\ m.hint = s.hint /\ m.wire = s.wire /\ SameRest(s, m)
  BY <1>1, <1>3 DEF Fields, SameRest
<1>5. /\ DOMAIN m.arp = ArpIndex /\ m.arp[i] = EmptyEntry
      /\ \A j \in ArpIndex \ {i} : m.arp[j] = s.arp[j]
  BY <1>1, <1>4
<1>6. /\ DOMAIN EmptyEntry = EntryFields /\ EmptyEntry.ctime = 0 /\ EmptyEntry.state = "EMPTY"
      /\ EmptyEntry.q = NULL
  BY DEF EmptyEntry, EntryFields
<1>7. SoundEntry(m.arp[i], m.pb, T)
  BY <1>5, <1>6 DEF SoundEntry, IsStable
<1>8. ASSUME NEW j \in ArpIndex \ {i}, s.arp[j].q # NULL
      PROVE  m.pb[s.arp[j].q] = s.pb[s.arp[j].q]
  <2>1. s.arp[j].q \in Buf /\ s.arp[j].q # q
    BY <1>8 DEF ArpOK, SoundEntry
  <2> QED
    BY <1>2, <1>4, <2>1
<1>9. ArpOK(m, T)
  BY <1>1, <1>2, <1>4, <1>5, <1>6, <1>7, <1>8, EntryChange
<1>10. Framed(s, m)
  <2>1. \A b \in Buf : b # s.arp[i].q /\ b # m.arp[i].q => m.pb[b] = s.pb[b]
    BY <1>2, <1>4
  <2>2. s.arp[i].q # NULL => m.pb[s.arp[i].q].ref = 0
    BY <1>2, <1>4
  <2>3. \A j \in ArpIndex \ {i} : m.arp[j].q = s.arp[j].q
    BY <1>5
  <2>4. m.arp[i].q = NULL
    BY <1>5, <1>6
  <2>5. PacketChange(s, i, m)
    BY <2>1, <2>2, <2>3, <2>4 DEF PacketChange
  <2> QED
    BY <1>4, <1>9, <2>5, KeptChange
<1> QED
  BY <1>4, <1>5, <1>9, <1>10 DEF EntryFreed, m

\* A function to the naturals has a greatest value on a bounded set of
\* naturals.
LEMMA GreatestValue ==
    ASSUME NEW S \in SUBSET Nat, S # {}, NEW N \in Nat, \A i \in S : i <= N, NEW f \in [S -> Nat]
    PROVE  \E i \in S : \A j \in S : f[j] <= f[i]
<1> DEFINE A == {b \in Nat : \E u \in Nat : \A i \in S : i < b => f[i] <= u}
<1>1. 0 \in A
  OBVIOUS
<1>2. ASSUME NEW b \in A PROVE b + 1 \in A
  <2>1. PICK u \in Nat : \A i \in S : i < b => f[i] <= u
    OBVIOUS
  <2>2. CASE b \notin S
    <3>1. \A i \in S : i < b + 1 => f[i] <= u
      BY <2>1, <2>2
    <3> QED
      BY <3>1
  <2>3. CASE b \in S
    <3>1. f[b] \in Nat /\ u + f[b] \in Nat
      BY <2>3
    <3>2. \A i \in S : i < b + 1 => f[i] <= u + f[b]
      <4> SUFFICES ASSUME NEW i \in S, i < b + 1 PROVE f[i] <= u + f[b]
        OBVIOUS
      <4>1. f[i] \in Nat
        OBVIOUS
      <4>2. CASE i = b
        BY <3>1, <4>2
      <4>3. CASE i < b
        BY <2>1, <3>1, <4>1, <4>3
      <4> QED
        BY <4>2, <4>3
    <3> QED
      BY <3>1, <3>2
  <2> QED
    BY <2>2, <2>3
<1>3. A = Nat
  <2>1. A \in SUBSET Nat
    OBVIOUS
  <2> HIDE DEF A
  <2> QED
    BY <1>1, <1>2, <2>1, Chaining!SetInduction
<1>4. PICK u \in Nat : \A i \in S : i < N + 1 => f[i] <= u
  <2>1. N + 1 \in A
    BY <1>3
  <2> QED
    BY <2>1
<1> DEFINE V == {f[i] : i \in S}
<1>5. V \in SUBSET Nat /\ V # {} /\ \A v \in V : v <= u
  <2>1. \A i \in S : f[i] \in Nat /\ f[i] <= u
    BY <1>4
  <2> QED
    BY <2>1
<1>6. Max(V) \in V /\ \A v \in V : v <= Max(V)
  BY <1>5, GreatestIsMax
<1>7. PICK i \in S : f[i] = Max(V)
  BY <1>6
<1>8. \A j \in S : f[j] <= f[i]
  BY <1>6, <1>7
<1> QED
  BY <1>8

\* The entry that is recycled is one.
LEMMA RecycledIndex ==
    ASSUME NEW s, NEW T, ArpOK(s, T)
    PROVE  Recycled(s) \in ArpIndex
<1>1. ASSUME NEW S \in SUBSET ArpIndex, S # {} PROVE Oldest(s, S) \in ArpIndex
  <2> DEFINE f == [j \in S |-> s.arp[j].ctime]
             R == {i \in S : \A j \in S : s.arp[j].ctime <= s.arp[i].ctime}
  <2>1. f \in [S -> Nat]
    BY DEF ArpOK, SoundEntry
  <2>2. S \in SUBSET Nat /\ \A i \in S : i <= ARP_TABLE_SIZE
    BY IndexFacts
  <2>3. PICK i \in S : \A j \in S : f[j] <= f[i]
    BY <1>1, <2>1, <2>2, IndexFacts, GreatestValue
  <2>4. i \in R
    BY <2>3
  <2>5. R \in SUBSET Nat /\ R # {} /\ R \subseteq S /\ \A j \in R : j <= ARP_TABLE_SIZE
    BY <2>2, <2>4
  <2>6. Max(R) \in R
    BY <2>5, IndexFacts, GreatestIsMax
  <2> QED
    BY <2>5, <2>6 DEF Oldest
<1> DEFINE A == {i \in ArpIndex : IsStable(s.arp[i])}
           B == {i \in ArpIndex : s.arp[i].state = "PENDING" /\ s.arp[i].q = NULL}
           C == IF A # {} THEN A ELSE IF B # {} THEN B ELSE ArpIndex
<1>2. C \in SUBSET ArpIndex /\ C # {}
  BY IndexFacts
<1>3. Recycled(s) = Oldest(s, C)
  BY DEF Recycled
<1> HIDE DEF C
<1> QED
  BY <1>1, <1>2, <1>3

\* Entry f.i of f.n is the one for ip, and there is no other.
Found(s, T, ip, f) ==
    /\ f.i \in ArpIndex /\ ArpOK(f.n, T) /\ Framed(s, f.n) /\ f.n.wire = s.wire
    /\ f.n.arp[f.i].ipaddr = ip
    /\ \A j \in ArpIndex \ {f.i} : f.n.arp[j].state # "EMPTY" => f.n.arp[j].ipaddr # ip

\* An empty entry is prepared.
LEMMA ClaimEntry ==
    ASSUME NEW s, NEW T, ArpOK(s, T), NEW i \in ArpIndex, s.arp[i].state = "EMPTY",
           NEW ip, Matching(s, ip) = {}
    PROVE  Found(s, T, ip, Claim(s, i, ip))
<1> DEFINE f == Claim(s, i, ip)
           m == [s EXCEPT !.arp[i].ipaddr = ip, !.arp[i].ctime = 0]
           e == [s.arp[i] EXCEPT !.ipaddr = ip, !.ctime = 0]
<1>1. f.i = i /\ f.n = m
  BY DEF Claim
<1>2. DOMAIN s = Fields /\ Arena(s.pb) /\ DOMAIN s.arp = ArpIndex /\ s.hint \in ArpIndex
      /\ SoundEntry(s.arp[i], s.pb, T) /\ SoundWire(s.wire, T)
  BY DEF ArpOK
<1>3. /\ DOMAIN m = Fields /\ m.pb = s.pb /\ m.arp = [s.arp EXCEPT ![i] = e]
      /\ m.hint = s.hint /\ m.wire = s.wire /\ SameRest(s, m)
  BY <1>2 DEF Fields, SameRest
<1> HIDE DEF m, e
<1>4. /\ DOMAIN m.arp = ArpIndex /\ m.arp[i] = e
      /\ \A j \in ArpIndex \ {i} : m.arp[j] = s.arp[j]
  BY <1>2, <1>3
<1>5. /\ DOMAIN e = EntryFields /\ e.state = "EMPTY" /\ e.q = NULL /\ e.ipaddr = ip /\ e.ctime = 0
      /\ s.arp[i].q = NULL
  BY <1>2 DEF SoundEntry, EntryFields, e
<1>6. SoundEntry(e, m.pb, T)
  BY <1>5 DEF SoundEntry, IsStable
<1>7. ArpOK(m, T)
  BY <1>2, <1>3, <1>4, <1>5, <1>6, EntryChange
<1>8. PacketChange(s, i, m)
  BY <1>3, <1>4, <1>5 DEF PacketChange
<1>9. Framed(s, m)
  BY <1>3, <1>7, <1>8, KeptChange
<1>10. \A j \in ArpIndex \ {i} : m.arp[j].state # "EMPTY" => m.arp[j].ipaddr # ip
  BY <1>4 DEF Matching
<1> HIDE DEF f
<1>11. Found(s, T, ip, f)
  BY <1>1, <1>3, <1>4, <1>5, <1>7, <1>9, <1>10 DEF Found
<1> QED
  BY <1>11 DEF f

\* etharp_find_entry.
LEMMA FindEntry ==
    ASSUME NEW s, NEW T, ArpOK(s, T), NEW ip, NEW flag
    PROVE  LET f == etharp_find_entry(s, ip, flag)
           IN  \/ f.i = ERR_MEM /\ f.n = s /\ Matching(s, ip) = {} /\ flag = "FIND_ONLY"
               \/ Found(s, T, ip, f)
<1> DEFINE f == etharp_find_entry(s, ip, flag)
<1>1. CASE Matching(s, ip) # {}
  <2> DEFINE i == Min(Matching(s, ip))
  <2>1. Matching(s, ip) \in SUBSET Nat
    BY IndexFacts DEF Matching
  <2>2. i \in Matching(s, ip)
    BY <1>1, <2>1, LeastIsMin
  <2> HIDE DEF i
  <2>3. f = [i |-> i, n |-> s]
    BY <1>1 DEF etharp_find_entry, i
  <2>4. f.i = i /\ f.n = s
    BY <2>3
  <2> HIDE DEF f
  <2>5. i \in ArpIndex /\ s.arp[i].state # "EMPTY" /\ s.arp[i].ipaddr = ip
    BY <2>2 DEF Matching
  <2>6. \A j \in ArpIndex \ {i} : s.arp[j].state # "EMPTY" => s.arp[j].ipaddr # ip
    BY <2>5 DEF ArpOK
  <2>7. Found(s, T, ip, f)
    BY <2>4, <2>5, <2>6, FramedSelf DEF Found
  <2> QED
    BY <2>7 DEF f
<1>2. CASE Matching(s, ip) = {} /\ flag = "FIND_ONLY"
  BY <1>2 DEF etharp_find_entry
<1>3. CASE Matching(s, ip) = {} /\ flag # "FIND_ONLY" /\ Empty(s) # {}
  <2> DEFINE i == Min(Empty(s))
  <2>1. Empty(s) \in SUBSET Nat
    BY IndexFacts DEF Empty
  <2>2. i \in Empty(s)
    BY <1>3, <2>1, LeastIsMin
  <2>3. f = Claim(s, i, ip)
    BY <1>3 DEF etharp_find_entry
  <2>4. i \in ArpIndex /\ s.arp[i].state = "EMPTY"
    BY <2>2 DEF Empty
  <2> QED
    BY <1>3, <2>3, <2>4, ClaimEntry
<1>4. CASE Matching(s, ip) = {} /\ flag # "FIND_ONLY" /\ Empty(s) = {}
  <2> DEFINE i == Recycled(s)
             m == etharp_free_entry(s, i)
  <2>1. i \in ArpIndex
    BY RecycledIndex
  <2> HIDE DEF i
  <2>2. EntryFreed(s, T, i, m)
    BY <2>1, FreeEntry
  <2>3. f = Claim(m, i, ip)
    BY <1>4 DEF etharp_find_entry, i
  <2> HIDE DEF m, f
  <2>4. ArpOK(m, T) /\ Framed(s, m) /\ m.wire = s.wire /\ m.arp[i].state = "EMPTY"
    BY <2>2 DEF EntryFreed, EmptyEntry
  <2>5. Matching(m, ip) = {}
    BY <1>4, <2>2, <2>4 DEF Matching, EntryFreed
  <2>6. Found(m, T, ip, f)
    BY <2>1, <2>3, <2>4, <2>5, ClaimEntry
  <2>7. Found(s, T, ip, f)
    BY <2>4, <2>6, FramedThen DEF Found
  <2> QED
    BY <2>7 DEF f
<1> QED
  BY <1>1, <1>2, <1>3, <1>4

-----------------------------------------------------------------------------
(* Output.                                                                 *)

\* What every operation of ARP does.
ArpStep(s, T, m) == ArpOK(m, T) /\ Framed(s, m)

\* A frame goes out.
LEMMA SendIp ==
    ASSUME NEW s, NEW T, ArpOK(s, T), NEW q, NEW eth,
           \/ eth = Broadcast /\ NextHop(s.pb[q].data.dst) = Broadcast
           \/ /\ eth # Zero /\ NextHop(s.pb[q].data.dst) \in Unicast
              /\ eth = T[NextHop(s.pb[q].data.dst)]
    PROVE  LET m == etharp_send_ip(s, q, eth)
           IN  ArpStep(s, T, m) /\ m.arp = s.arp /\ m.pb = s.pb
<1> DEFINE g == [to |-> eth, hop |-> NextHop(s.pb[q].data.dst)]
           w == s.wire \cup {g}
           m == etharp_send_ip(s, q, eth)
<1>1. m = [s EXCEPT !.wire = w] /\ DOMAIN s = Fields
  BY DEF etharp_send_ip, ArpOK
<1>2. g.to = eth /\ g.hop = NextHop(s.pb[q].data.dst)
  OBVIOUS
<1> HIDE DEF g
<1>3. SoundWire(w, T)
  BY <1>2 DEF SoundWire, ArpOK
<1> HIDE DEF m, w
<1>4. /\ DOMAIN m = Fields /\ m.pb = s.pb /\ m.arp = s.arp /\ m.hint = s.hint /\ m.wire = w
      /\ SameRest(s, m)
  BY <1>1 DEF Fields, SameRest
<1>5. ArpOK(m, T)
  BY <1>3, <1>4 DEF ArpOK
<1>6. Framed(s, m)
  BY <1>4 DEF Framed, Loose, Kept
<1> QED
  BY <1>4, <1>5, <1>6 DEF ArpStep, m

\* Entry i changes its state or its age only.
LEMMA StateChange ==
    ASSUME NEW s, NEW T, ArpOK(s, T), NEW i \in ArpIndex, NEW m,
           DOMAIN m = Fields, m.pb = s.pb, m.hint \in ArpIndex, m.wire = s.wire, SameRest(s, m),
           DOMAIN m.arp = ArpIndex, \A j \in ArpIndex \ {i} : m.arp[j] = s.arp[j],
           SoundEntry(m.arp[i], s.pb, T),
           m.arp[i].ipaddr = s.arp[i].ipaddr, m.arp[i].q = s.arp[i].q,
           m.arp[i].state # "EMPTY" =>
              \A j \in ArpIndex \ {i} : s.arp[j].state # "EMPTY" => s.arp[j].ipaddr # s.arp[i].ipaddr
    PROVE  ArpStep(s, T, m)
<1>1. \A j \in ArpIndex \ {i} : s.arp[j].q # NULL => m.pb[s.arp[j].q] = s.pb[s.arp[j].q]
  OBVIOUS
<1>2. m.arp[i].q # NULL => \A j \in ArpIndex \ {i} : s.arp[j].q # m.arp[i].q
  BY DEF ArpOK
<1>3. SoundWire(m.wire, T) /\ Arena(m.pb)
  BY DEF ArpOK
<1>4. ArpOK(m, T)
  BY <1>1, <1>2, <1>3, EntryChange
<1>5. PacketChange(s, i, m)
  BY DEF PacketChange
<1>6. Framed(s, m)
  BY <1>4, <1>5, KeptChange
<1> QED
  BY <1>4, <1>6 DEF ArpStep

\* The hint changes.
LEMMA HintChange ==
    ASSUME NEW s, NEW T, ArpOK(s, T), NEW i \in ArpIndex
    PROVE  LET m == [s EXCEPT !.hint = i]
           IN  ArpStep(s, T, m) /\ m.arp = s.arp /\ m.pb = s.pb
<1> DEFINE m == [s EXCEPT !.hint = i]
<1>1. /\ DOMAIN m = Fields /\ m.pb = s.pb /\ m.arp = s.arp /\ m.hint = i /\ m.wire = s.wire
      /\ SameRest(s, m)
  BY DEF Fields, SameRest, ArpOK
<1> HIDE DEF m
<1>2. ArpOK(m, T)
  BY <1>1 DEF ArpOK
<1>3. Framed(s, m)
  BY <1>1 DEF Framed, Loose, Kept
<1> QED
  BY <1>1, <1>2, <1>3 DEF ArpStep, m

\* Two steps of ARP, one after the other.
LEMMA ArpStepThen ==
    ASSUME NEW s, NEW T, NEW m, NEW t, ArpStep(s, T, m), ArpStep(m, T, t)
    PROVE  ArpStep(s, T, t)
BY FramedThen DEF ArpStep

\* etharp_output_to_arp_index, for an entry of the packet's next hop.
LEMMA OutputToIndex ==
    ASSUME NEW s, NEW T, ArpOK(s, T), NEW q, NEW i \in ArpIndex, IsStable(s.arp[i]),
           s.arp[i].ipaddr = NextHop(s.pb[q].data.dst)
    PROVE  ArpStep(s, T, etharp_output_to_arp_index(s, q, i))
<1> DEFINE v == IF /\ s.arp[i].state = "STABLE" /\ s.arp[i].ctime >= ARP_AGE_REREQUEST_USED
                   /\ etharp_request(s)
                THEN "REREQUESTING" ELSE s.arp[i].state
           m == [s EXCEPT !.arp[i].state = v]
           e == [s.arp[i] EXCEPT !.state = v]
<1>1. etharp_output_to_arp_index(s, q, i) = etharp_send_ip(m, q, s.arp[i].ethaddr)
  BY DEF etharp_output_to_arp_index
<1>2. v \in {"STABLE", "REREQUESTING"}
  BY DEF IsStable
<1> HIDE DEF v
<1>3. DOMAIN s = Fields /\ DOMAIN s.arp = ArpIndex /\ s.hint \in ArpIndex
      /\ SoundEntry(s.arp[i], s.pb, T)
  BY DEF ArpOK
<1>4. /\ DOMAIN m = Fields /\ m.pb = s.pb /\ m.arp = [s.arp EXCEPT ![i] = e]
      /\ m.hint = s.hint /\ m.wire = s.wire /\ SameRest(s, m)
  BY <1>3 DEF Fields, SameRest
<1> HIDE DEF m, e
<1>5. /\ DOMAIN m.arp = ArpIndex /\ m.arp[i] = e
      /\ \A j \in ArpIndex \ {i} : m.arp[j] = s.arp[j]
  BY <1>3, <1>4
<1>6. /\ DOMAIN e = EntryFields /\ e.state = v /\ e.q = s.arp[i].q /\ e.ipaddr = s.arp[i].ipaddr
      /\ e.ctime = s.arp[i].ctime /\ e.ethaddr = s.arp[i].ethaddr
  BY <1>3 DEF SoundEntry, EntryFields, e
<1>7. s.arp[i].state # "EMPTY" /\ s.arp[i].ipaddr \in Unicast /\ s.arp[i].ethaddr # Zero
      /\ s.arp[i].ethaddr = T[s.arp[i].ipaddr]
  BY <1>3 DEF SoundEntry, IsStable
<1>8. SoundEntry(e, s.pb, T)
  BY <1>2, <1>3, <1>6, <1>7 DEF SoundEntry
<1>9. \A j \in ArpIndex \ {i} : s.arp[j].state # "EMPTY" => s.arp[j].ipaddr # s.arp[i].ipaddr
  BY <1>7 DEF ArpOK
<1>10. ArpStep(s, T, m)
  BY <1>3, <1>4, <1>5, <1>6, <1>8, <1>9, StateChange
<1>11. ArpStep(m, T, etharp_send_ip(m, q, s.arp[i].ethaddr))
  <2>1. NextHop(m.pb[q].data.dst) = s.arp[i].ipaddr
    BY <1>4
  <2>2. ArpOK(m, T)
    BY <1>10 DEF ArpStep
  <2> QED
    BY <1>7, <2>1, <2>2, SendIp
<1> QED
  BY <1>1, <1>10, <1>11, ArpStepThen

\* An entry that waits for its address keeps a copy of the packet.
LEMMA KeepOne ==
    ASSUME NEW s, NEW T, ArpOK(s, T), NEW i \in ArpIndex, s.arp[i].state = "PENDING",
           NEW d, NextHop(d.dst) = s.arp[i].ipaddr
    PROVE  ArpStep(s, T, KeepPacket(s, i, pbuf_alloc(s.pb, PBUF_RAM, 1, d)))
<1> DEFINE a == pbuf_alloc(s.pb, PBUF_RAM, 1, d)
           q == s.arp[i].q
           P == IF q = NULL THEN a.pb ELSE pbuf_free(a.pb, q)
           m == [s EXCEPT !.pb = P, !.arp[i].q = a.p]
           e == [s.arp[i] EXCEPT !.q = a.p]
<1>1. DOMAIN s = Fields /\ Arena(s.pb) /\ DOMAIN s.arp = ArpIndex /\ s.hint \in ArpIndex
      /\ SoundEntry(s.arp[i], s.pb, T) /\ SoundWire(s.wire, T)
  BY DEF ArpOK
<1>2. \/ a.p = NULL /\ a.pb = s.pb
      \/ /\ a.p \in Buf /\ s.pb[a.p].ref = 0 /\ Arena(a.pb)
         /\ a.pb[a.p].ref = 1 /\ a.pb[a.p].next = NULL /\ a.pb[a.p].data = d
         /\ \A b \in Buf \ {a.p} : a.pb[b] = s.pb[b]
  BY <1>1, AllocOne
<1>3. CASE a.p = NULL
  <2>1. KeepPacket(s, i, a) = s
    BY <1>3 DEF KeepPacket
  <2> QED
    BY <2>1, FramedSelf DEF ArpStep
<1>4. CASE a.p # NULL
  <2>1. KeepPacket(s, i, a) = m
    BY <1>4 DEF KeepPacket
  <2> HIDE DEF a
  <2>2. /\ a.p \in Buf /\ s.pb[a.p].ref = 0 /\ Arena(a.pb)
        /\ a.pb[a.p].ref = 1 /\ a.pb[a.p].next = NULL /\ a.pb[a.p].data = d
        /\ \A b \in Buf \ {a.p} : a.pb[b] = s.pb[b]
    BY <1>2, <1>4
  <2>3. q # NULL => q \in Buf /\ q # a.p /\ Single(a.pb, q)
    BY <1>1, <2>2 DEF SoundEntry, Single
  <2>4. /\ Arena(P) /\ P[a.p] = a.pb[a.p] /\ (q # NULL => P[q].ref = 0)
        /\ \A b \in Buf : b # q /\ b # a.p => P[b] = s.pb[b]
    <3>1. CASE q = NULL
      BY <2>2, <3>1
    <3>2. CASE q # NULL
      <4>1. P = pbuf_free(a.pb, q)
        BY <3>2
      <4>2. Arena(P) /\ P[q].ref = 0 /\ \A b \in Buf \ {q} : P[b] = a.pb[b]
        BY <2>2, <2>3, <3>2, <4>1, FreeOne
      <4> QED
        BY <2>2, <2>3, <3>2, <4>2
    <3> QED
      BY <3>1, <3>2
  <2> HIDE DEF P
  <2>5. /\ DOMAIN m = Fields /\ m.pb = P /\ m.arp = [s.arp EXCEPT ![i] = e]
        /\ m.hint = s.hint /\ m.wire = s.wire /\ SameRest(s, m)
    BY <1>1 DEF Fields, SameRest
  <2> HIDE DEF m, e
  <2>6. /\ DOMAIN m.arp = ArpIndex /\ m.arp[i] = e
        /\ \A j \in ArpIndex \ {i} : m.arp[j] = s.arp[j]
    BY <1>1, <2>5
  <2>7. /\ DOMAIN e = EntryFields /\ e.state = "PENDING" /\ e.q = a.p /\ e.ipaddr = s.arp[i].ipaddr
        /\ e.ctime = s.arp[i].ctime
    BY <1>1 DEF SoundEntry, EntryFields, e
  <2>8. SoundEntry(e, P, T)
    BY <1>1, <2>2, <2>4, <2>7 DEF SoundEntry, IsStable
  <2>9. ASSUME NEW j \in ArpIndex \ {i}, s.arp[j].q # NULL
        PROVE  m.pb[s.arp[j].q] = s.pb[s.arp[j].q] /\ s.arp[j].q # a.p
    <3>1. s.arp[j].q \in Buf /\ s.arp[j].q # q /\ s.pb[s.arp[j].q].ref = 1
      BY <2>9 DEF ArpOK, SoundEntry
    <3>2. s.arp[j].q # a.p
      BY <2>2, <3>1
    <3> QED
      BY <2>4, <2>5, <3>1, <3>2
  <2>10. \A j \in ArpIndex \ {i} : s.arp[j].state # "EMPTY" => s.arp[j].ipaddr # e.ipaddr
    BY <2>7 DEF ArpOK
  <2>11. \A j \in ArpIndex \ {i} : s.arp[j].q # a.p
    BY <1>4, <2>9
  <2>12. ArpOK(m, T)
    BY <1>1, <2>4, <2>5, <2>6, <2>7, <2>8, <2>9, <2>10, <2>11, EntryChange
  <2>13. PacketChange(s, i, m)
    BY <2>2, <2>4, <2>5, <2>6, <2>7 DEF PacketChange
  <2>14. Framed(s, m)
    BY <2>5, <2>12, <2>13, KeptChange
  <2>15. ArpStep(s, T, m)
    BY <2>12, <2>14 DEF ArpStep
  <2> QED
    BY <2>1, <2>15 DEF a
<1> QED
  BY <1>3, <1>4

\* etharp_query for the next hop of a packet in use.
LEMMA Query ==
    ASSUME NEW s, NEW T, ArpOK(s, T), NEW ip \in Unicast, NEW q \in Loose(s),
           NextHop(s.pb[q].data.dst) = ip
    PROVE  ArpStep(s, T, etharp_query(s, ip, q))
<1> DEFINE f == etharp_find_entry(s, ip, "TRY_HARD")
           u == f.n
           i == f.i
           m == [u EXCEPT !.arp[i].state = "PENDING"]
           e == [u.arp[i] EXCEPT !.state = "PENDING"]
<1>1. Found(s, T, ip, f)
  BY FindEntry
<1>2. etharp_query(s, ip, q) = Queried(f, q)
  BY DEF etharp_query
<1> HIDE DEF f
<1>3. i \in ArpIndex /\ ArpOK(u, T) /\ Framed(s, u) /\ u.arp[i].ipaddr = ip
      /\ \A j \in ArpIndex \ {i} : u.arp[j].state # "EMPTY" => u.arp[j].ipaddr # ip
  BY <1>1 DEF Found
<1>4. Queried(f, q) = QueryEntry(u, i, q)
  BY <1>3, IndexFacts DEF Queried
<1> HIDE DEF u, i
<1>5. u.pb[q] = s.pb[q]
  BY <1>3 DEF Framed
<1>6. DOMAIN u = Fields /\ DOMAIN u.arp = ArpIndex /\ u.hint \in ArpIndex
      /\ SoundEntry(u.arp[i], u.pb, T)
  BY <1>3 DEF ArpOK
<1>7. ArpStep(s, T, u)
  BY <1>3 DEF ArpStep
<1>8. CASE IsStable(u.arp[i])
  <2> DEFINE w == [u EXCEPT !.hint = i]
  <2>1. QueryEntry(u, i, q) = etharp_send_ip(w, q, u.arp[i].ethaddr)
    BY <1>8 DEF QueryEntry
  <2>2. ArpStep(u, T, w) /\ w.arp = u.arp /\ w.pb = u.pb
    BY <1>3, HintChange
  <2> HIDE DEF w
  <2>3. ArpOK(w, T)
    BY <2>2 DEF ArpStep
  <2>4. u.arp[i].ethaddr = T[ip] /\ u.arp[i].ethaddr # Zero
    BY <1>3, <1>6, <1>8 DEF SoundEntry
  <2>5. NextHop(w.pb[q].data.dst) = ip
    BY <1>5, <2>2
  <2>6. ArpStep(w, T, etharp_send_ip(w, q, u.arp[i].ethaddr))
    BY <2>3, <2>4, <2>5, SendIp
  <2> QED
    BY <1>2, <1>4, <1>7, <2>1, <2>2, <2>6, ArpStepThen
<1>9. CASE ~IsStable(u.arp[i])
  <2>1. QueryEntry(u, i, q) = KeepPacket(m, i, pbuf_alloc(u.pb, PBUF_RAM, 1, u.pb[q].data))
    BY <1>9 DEF QueryEntry
  <2>2. /\ DOMAIN m = Fields /\ m.pb = u.pb /\ m.arp = [u.arp EXCEPT ![i] = e]
        /\ m.hint = u.hint /\ m.wire = u.wire /\ SameRest(u, m)
    BY <1>6 DEF Fields, SameRest
  <2> HIDE DEF m, e
  <2>3. /\ DOMAIN m.arp = ArpIndex /\ m.arp[i] = e
        /\ \A j \in ArpIndex \ {i} : m.arp[j] = u.arp[j]
    BY <1>3, <1>6, <2>2
  <2>4. /\ DOMAIN e = EntryFields /\ e.state = "PENDING" /\ e.q = u.arp[i].q
        /\ e.ipaddr = u.arp[i].ipaddr /\ e.ctime = u.arp[i].ctime
    BY <1>6 DEF SoundEntry, EntryFields, e
  <2>5. SoundEntry(e, u.pb, T)
    BY <1>3, <1>6, <2>4 DEF SoundEntry, IsStable
  <2>6. ArpStep(u, T, m)
    BY <1>3, <1>6, <2>2, <2>3, <2>4, <2>5, StateChange
  <2>7. ArpStep(m, T, KeepPacket(m, i, pbuf_alloc(m.pb, PBUF_RAM, 1, u.pb[q].data)))
    <3>1. ArpOK(m, T) /\ m.arp[i].state = "PENDING" /\ m.arp[i].ipaddr = ip
      BY <1>3, <2>3, <2>4, <2>6 DEF ArpStep
    <3>2. NextHop(u.pb[q].data.dst) = m.arp[i].ipaddr
      BY <1>5, <3>1
    <3> QED
      BY <1>3, <3>1, <3>2, KeepOne
  <2> QED
    BY <1>2, <1>4, <1>7, <2>1, <2>2, <2>6, <2>7, ArpStepThen
<1> QED
  BY <1>8, <1>9

\* etharp_output of a packet in use.
LEMMA Output ==
    ASSUME NEW s, NEW T, ArpOK(s, T), NEW q \in Loose(s), NEW dst, s.pb[q].data.dst = dst
    PROVE  ArpStep(s, T, etharp_output(s, q, dst))
<1> DEFINE hop == NextHop(dst)
<1>1. CASE dst = Broadcast
  <2>1. etharp_output(s, q, dst) = etharp_send_ip(s, q, Broadcast)
    BY <1>1 DEF etharp_output
  <2>2. NextHop(s.pb[q].data.dst) = Broadcast
    BY <1>1 DEF NextHop
  <2> QED
    BY <2>1, <2>2, SendIp
<1>2. CASE dst # Broadcast /\ hop = "none"
  <2>1. etharp_output(s, q, dst) = s
    BY <1>2 DEF etharp_output
  <2> QED
    BY <2>1, FramedSelf DEF ArpStep
<1>3. CASE dst # Broadcast /\ hop # "none"
  <2>1. etharp_output(s, q, dst) = OutputTo(s, q, hop)
    BY <1>3 DEF etharp_output
  <2>2. hop \in Unicast /\ NextHop(s.pb[q].data.dst) = hop
    BY <1>3, EtharpAssumption DEF NextHop, Unicast
  <2> HIDE DEF hop
  <2>3. CASE CachedFits(s, hop)
    <3>1. OutputTo(s, q, hop) = etharp_output_to_arp_index(s, q, s.hint)
      BY <2>3 DEF OutputTo
    <3>2. s.hint \in ArpIndex /\ IsStable(s.arp[s.hint]) /\ s.arp[s.hint].ipaddr = hop
      BY <2>3 DEF CachedFits, ArpOK
    <3> QED
      BY <2>1, <2>2, <3>1, <3>2, OutputToIndex
  <2>4. CASE ~CachedFits(s, hop) /\ StableFor(s, hop) # {}
    <3> DEFINE i == Min(StableFor(s, hop))
               w == [s EXCEPT !.hint = i]
    <3>1. OutputTo(s, q, hop) = etharp_output_to_arp_index(w, q, i)
      BY <2>4 DEF OutputTo
    <3>2. StableFor(s, hop) \in SUBSET Nat
      BY IndexFacts DEF StableFor
    <3>3. i \in StableFor(s, hop)
      BY <2>4, <3>2, LeastIsMin
    <3> HIDE DEF i
    <3>4. i \in ArpIndex /\ IsStable(s.arp[i]) /\ s.arp[i].ipaddr = hop
      BY <3>3 DEF StableFor
    <3>5. ArpStep(s, T, w) /\ w.arp = s.arp /\ w.pb = s.pb
      BY <3>4, HintChange
    <3> HIDE DEF w
    <3>6. ArpOK(w, T) /\ IsStable(w.arp[i]) /\ w.arp[i].ipaddr = NextHop(w.pb[q].data.dst)
      BY <2>2, <3>4, <3>5 DEF ArpStep
    <3>7. ArpStep(w, T, etharp_output_to_arp_index(w, q, i))
      BY <3>4, <3>6, OutputToIndex
    <3> QED
      BY <2>1, <3>1, <3>5, <3>7, ArpStepThen
  <2>5. CASE ~CachedFits(s, hop) /\ StableFor(s, hop) = {}
    <3>1. OutputTo(s, q, hop) = etharp_query(s, hop, q)
      BY <2>5 DEF OutputTo
    <3> QED
      BY <2>1, <2>2, <3>1, Query
  <2> QED
    BY <2>3, <2>4, <2>5
<1> QED
  BY <1>1, <1>2, <1>3

-----------------------------------------------------------------------------
(* Input and the timer.                                                    *)

\* The packet of a stable entry is sent and forgotten.
LEMMA SendOneKept ==
    ASSUME NEW s, NEW T, ArpOK(s, T), NEW i \in ArpIndex, IsStable(s.arp[i])
    PROVE  ArpStep(s, T, SendKept(s, i))
<1> DEFINE q == s.arp[i].q
           eth == s.arp[i].ethaddr
           w == etharp_send_ip(s, q, eth)
           P == pbuf_free(w.pb, q)
           m == [w EXCEPT !.pb = P, !.arp[i].q = NULL]
           e == [w.arp[i] EXCEPT !.q = NULL]
<1>1. SoundEntry(s.arp[i], s.pb, T)
  BY DEF ArpOK
<1>2. CASE q = NULL
  <2>1. SendKept(s, i) = s
    BY <1>2 DEF SendKept
  <2> QED
    BY <2>1, FramedSelf DEF ArpStep
<1>3. CASE q # NULL
  <2>1. SendKept(s, i) = m
    BY <1>3 DEF SendKept
  <2>2. /\ q \in Buf /\ Single(s.pb, q) /\ s.arp[i].ethaddr # Zero
        /\ NextHop(s.pb[q].data.dst) \in Unicast
        /\ eth = T[NextHop(s.pb[q].data.dst)] /\ eth # Zero
    BY <1>1, <1>3 DEF SoundEntry, IsStable, Single
  <2>3. ArpStep(s, T, w) /\ w.arp = s.arp /\ w.pb = s.pb
    <3> HIDE DEF eth, q
    <3> QED
      BY <2>2, SendIp
  <2> HIDE DEF w
  <2>4. DOMAIN w = Fields /\ Arena(w.pb) /\ DOMAIN w.arp = ArpIndex /\ w.hint \in ArpIndex
        /\ SoundEntry(w.arp[i], w.pb, T) /\ SoundWire(w.wire, T) /\ ArpOK(w, T)
    <3>1. ArpOK(w, T)
      BY <2>3, Zenon DEF ArpStep
    <3> QED
      BY <3>1 DEF ArpOK
  <2>5. Arena(P) /\ P[q].ref = 0 /\ \A b \in Buf \ {q} : P[b] = w.pb[b]
    BY <2>2, <2>3, <2>4, FreeOne
  <2> HIDE DEF P
  <2>6. /\ DOMAIN m = Fields /\ m.pb = P /\ m.arp = [w.arp EXCEPT ![i] = e]
        /\ m.hint = w.hint /\ m.wire = w.wire /\ SameRest(w, m)
    BY <2>4 DEF Fields, SameRest
  <2> HIDE DEF m, e
  <2>7. /\ DOMAIN m.arp = ArpIndex /\ m.arp[i] = e
        /\ \A j \in ArpIndex \ {i} : m.arp[j] = w.arp[j]
    BY <2>4, <2>6
  <2>8. /\ DOMAIN e = EntryFields /\ e.state = w.arp[i].state /\ e.q = NULL
        /\ e.ipaddr = w.arp[i].ipaddr /\ e.ctime = w.arp[i].ctime /\ e.ethaddr = w.arp[i].ethaddr
    BY <2>4 DEF SoundEntry, EntryFields, e
  <2>9. SoundEntry(e, P, T)
    BY <2>4, <2>8 DEF SoundEntry, IsStable
  <2>10. ASSUME NEW j \in ArpIndex \ {i}, w.arp[j].q # NULL
         PROVE  m.pb[w.arp[j].q] = w.pb[w.arp[j].q]
    <3>1. SoundEntry(w.arp[j], w.pb, T) /\ w.arp[i].q = q
      BY <2>3, <2>4 DEF ArpOK
    <3>2. w.arp[j].q \in Buf
      BY <2>10, <3>1 DEF SoundEntry
    <3>3. w.arp[j].q # q
      BY <2>4, <2>10, <3>1 DEF ArpOK
    <3> QED
      BY <2>5, <2>6, <3>2, <3>3
  <2>11. e.state # "EMPTY" =>
            \A j \in ArpIndex \ {i} : w.arp[j].state # "EMPTY" => w.arp[j].ipaddr # e.ipaddr
    BY <2>4, <2>8 DEF ArpOK
  <2>12. ArpOK(m, T)
    <3>1. Arena(m.pb) /\ m.hint \in ArpIndex /\ SoundWire(m.wire, T) /\ SoundEntry(m.arp[i], m.pb, T)
      BY <2>4, <2>5, <2>6, <2>7, <2>9
    <3>2. m.arp[i].q = NULL
      BY <2>7, <2>8
    <3>3. m.arp[i].state # "EMPTY" =>
            \A j \in ArpIndex \ {i} : w.arp[j].state # "EMPTY" => w.arp[j].ipaddr # m.arp[i].ipaddr
      BY <2>7, <2>11
    <3> QED
      BY <2>4, <2>6, <2>7, <2>10, <3>1, <3>2, <3>3, EntryChange
  <2>13. PacketChange(w, i, m)
    BY <2>3, <2>5, <2>6, <2>7, <2>8 DEF PacketChange
  <2>14. Framed(w, m)
    BY <2>4, <2>6, <2>12, <2>13, KeptChange
  <2>15. ArpStep(w, T, m)
    BY <2>12, <2>14 DEF ArpStep
  <2> QED
    BY <2>1, <2>3, <2>15, ArpStepThen
<1> QED
  BY <1>2, <1>3

\* The table when neighbour ip gives its address eth.
Told(T, ip, eth) == [h \in Unicast |-> IF h = ip THEN eth ELSE T[h]]

\* etharp_update_arp_entry, when no frame has gone out before in this step.
LEMMA UpdateEntry ==
    ASSUME NEW s, NEW T, ArpOK(s, T), s.wire = {}, NEW ip, NEW eth, eth # Zero, NEW flag
    PROVE  ArpStep(s, Told(T, ip, eth), etharp_update_arp_entry(s, ip, eth, flag))
<1> DEFINE U == Told(T, ip, eth)
           f == etharp_find_entry(s, ip, flag)
           u == f.n
           i == f.i
           v == [u EXCEPT !.arp[i].state = "STABLE", !.arp[i].ethaddr = eth, !.arp[i].ctime = 0]
           e == [u.arp[i] EXCEPT !.state = "STABLE", !.ethaddr = eth, !.ctime = 0]
<1>1. \A h \in Unicast : U[h] = IF h = ip THEN eth ELSE T[h]
  BY DEF Told
<1> HIDE DEF U
<1>2. ASSUME ip \notin Unicast \/ Matching(s, ip) = {} PROVE ArpStep(s, U, s)
  <2>1. ASSUME NEW j \in ArpIndex PROVE SoundEntry(s.arp[j], s.pb, U)
    <3>1. SoundEntry(s.arp[j], s.pb, T)
      BY DEF ArpOK
    <3>2. s.arp[j].state # "EMPTY" => s.arp[j].ipaddr \in Unicast /\ s.arp[j].ipaddr # ip
      BY <1>2, <3>1 DEF SoundEntry, Matching
    <3>3. IsStable(s.arp[j]) => s.arp[j].state # "EMPTY"
      BY DEF IsStable
    <3> QED
      BY <1>1, <3>1, <3>2, <3>3 DEF SoundEntry
  <2>2. SoundWire(s.wire, U)
    BY DEF SoundWire
  <2>3. ArpOK(s, U)
    BY <2>1, <2>2 DEF ArpOK
  <2> QED
    BY <2>3, FramedSelf DEF ArpStep
<1>3. CASE ip \notin Unicast
  <2>1. etharp_update_arp_entry(s, ip, eth, flag) = s
    BY <1>3 DEF etharp_update_arp_entry
  <2> QED
    BY <1>2, <1>3, <2>1 DEF U
<1>4. CASE ip \in Unicast
  <2>1. etharp_update_arp_entry(s, ip, eth, flag) = Updated(f, eth)
    BY <1>4 DEF etharp_update_arp_entry
  <2>2. \/ f.i = ERR_MEM /\ f.n = s /\ Matching(s, ip) = {} /\ flag = "FIND_ONLY"
        \/ Found(s, T, ip, f)
    BY FindEntry
  <2> HIDE DEF f
  <2>3. CASE f.i = ERR_MEM /\ f.n = s /\ Matching(s, ip) = {}
    <3>1. Updated(f, eth) = s
      BY <2>3 DEF Updated
    <3> QED
      BY <1>2, <2>1, <2>3, <3>1 DEF U
  <2>4. CASE Found(s, T, ip, f)
    <3>1. i \in ArpIndex /\ ArpOK(u, T) /\ Framed(s, u) /\ u.arp[i].ipaddr = ip /\ u.wire = s.wire
          /\ \A j \in ArpIndex \ {i} : u.arp[j].state # "EMPTY" => u.arp[j].ipaddr # ip
      BY <2>4 DEF Found
    <3>2. Updated(f, eth) = SendKept(v, i)
      BY <3>1, IndexFacts DEF Updated
    <3> HIDE DEF u, i
    <3>3. DOMAIN u = Fields /\ Arena(u.pb) /\ DOMAIN u.arp = ArpIndex /\ u.hint \in ArpIndex
          /\ SoundEntry(u.arp[i], u.pb, T)
      BY <3>1 DEF ArpOK
    <3>4. /\ DOMAIN v = Fields /\ v.pb = u.pb /\ v.arp = [u.arp EXCEPT ![i] = e]
          /\ v.hint = u.hint /\ v.wire = u.wire /\ SameRest(u, v)
      BY <3>3 DEF Fields, SameRest
    <3> HIDE DEF v, e
    <3>5. /\ DOMAIN v.arp = ArpIndex /\ v.arp[i] = e
          /\ \A j \in ArpIndex \ {i} : v.arp[j] = u.arp[j]
      BY <3>1, <3>3, <3>4
    <3>6. /\ DOMAIN e = EntryFields /\ e.state = "STABLE" /\ e.q = u.arp[i].q
          /\ e.ipaddr = ip /\ e.ctime = 0 /\ e.ethaddr = eth
      BY <3>1, <3>3 DEF SoundEntry, EntryFields, e
    <3>7. ASSUME NEW j \in ArpIndex PROVE SoundEntry(v.arp[j], v.pb, U)
      <4>1. CASE j = i
        BY <1>1, <1>4, <3>1, <3>3, <3>4, <3>5, <3>6, <4>1 DEF SoundEntry
      <4>2. CASE j # i
        <5>1. SoundEntry(u.arp[j], u.pb, T) /\ v.arp[j] = u.arp[j]
          BY <3>1, <3>5, <4>2 DEF ArpOK
        <5>2. u.arp[j].state # "EMPTY" => u.arp[j].ipaddr \in Unicast /\ u.arp[j].ipaddr # ip
          BY <3>1, <4>2, <5>1 DEF SoundEntry
        <5>3. IsStable(u.arp[j]) => u.arp[j].state # "EMPTY"
          BY DEF IsStable
        <5> QED
          BY <1>1, <3>4, <5>1, <5>2, <5>3 DEF SoundEntry
      <4> QED
        BY <4>1, <4>2
    <3>8. \A k, j \in ArpIndex :
              v.arp[k].state # "EMPTY" /\ v.arp[j].state # "EMPTY" /\ v.arp[k].ipaddr = v.arp[j].ipaddr
              => k = j
      BY <3>1, <3>5, <3>6 DEF ArpOK
    <3>9. \A k, j \in ArpIndex : v.arp[k].q = v.arp[j].q /\ v.arp[k].q # NULL => k = j
      BY <3>1, <3>5, <3>6 DEF ArpOK
    <3>10. SoundWire(v.wire, U)
      BY <3>1, <3>4 DEF SoundWire
    <3>11. ArpOK(v, U)
      BY <3>3, <3>4, <3>5, <3>7, <3>8, <3>9, <3>10 DEF ArpOK
    <3>12. PacketChange(u, i, v)
      BY <3>4, <3>5, <3>6 DEF PacketChange
    <3>13. Framed(u, v)
      BY <3>1, <3>4, <3>11, <3>12, KeptChange
    <3>14. Framed(s, v)
      BY <3>1, <3>13, FramedThen
    <3>15. IsStable(v.arp[i])
      BY <3>5, <3>6 DEF IsStable
    <3>16. ArpStep(v, U, SendKept(v, i))
      BY <3>1, <3>11, <3>15, SendOneKept
    <3>17. ArpStep(s, U, v)
      BY <3>11, <3>14 DEF ArpStep
    <3>18. ArpStep(s, U, SendKept(v, i))
      BY <3>16, <3>17, ArpStepThen
    <3> QED
      BY <2>1, <3>2, <3>18 DEF U
  <2> QED
    BY <2>2, <2>3, <2>4
<1> QED
  BY <1>3, <1>4

\* One entry grows older.
LEMMA AgeOne ==
    ASSUME NEW s, NEW T, ArpOK(s, T), NEW i \in ArpIndex
    PROVE  ArpStep(s, T, Age(s, i))
<1> DEFINE c == Aged(s.arp[i])
           e == Older(s.arp[i])
           m == [s EXCEPT !.arp[i] = e]
<1>1. DOMAIN s = Fields /\ DOMAIN s.arp = ArpIndex /\ s.hint \in ArpIndex
      /\ SoundEntry(s.arp[i], s.pb, T)
  BY DEF ArpOK
<1>2. CASE s.arp[i].state = "EMPTY"
  <2>1. Age(s, i) = s
    BY <1>2 DEF Age
  <2> QED
    BY <2>1, FramedSelf DEF ArpStep
<1>3. CASE s.arp[i].state # "EMPTY" /\ TooOld(Aged(s.arp[i]))
  <2>1. Age(s, i) = etharp_free_entry(s, i)
    BY <1>3 DEF Age
  <2> QED
    BY <2>1, FreeEntry DEF EntryFreed, ArpStep
<1>4. CASE s.arp[i].state # "EMPTY" /\ ~TooOld(Aged(s.arp[i]))
  <2>1. Age(s, i) = m
    BY <1>4 DEF Age
  <2>2. /\ DOMAIN c = EntryFields /\ c.state = s.arp[i].state /\ c.q = s.arp[i].q
        /\ c.ipaddr = s.arp[i].ipaddr /\ c.ethaddr = s.arp[i].ethaddr
        /\ c.ctime = s.arp[i].ctime + 1
    BY <1>1 DEF SoundEntry, EntryFields, Aged
  <2>3. /\ DOMAIN e = EntryFields /\ e.q = s.arp[i].q
        /\ e.ipaddr = s.arp[i].ipaddr /\ e.ethaddr = s.arp[i].ethaddr
        /\ e.ctime = s.arp[i].ctime + 1
        /\ e.state = IF s.arp[i].state = "REREQUESTING" THEN "STABLE" ELSE s.arp[i].state
    <3>1. e = [c EXCEPT !.state = IF s.arp[i].state = "REREQUESTING" THEN "STABLE" ELSE @]
      BY DEF Older
    <3> HIDE DEF c, e
    <3> QED
      BY <2>2, <3>1 DEF EntryFields
  <2> HIDE DEF e
  <2>4. /\ DOMAIN m = Fields /\ m.pb = s.pb /\ m.arp = [s.arp EXCEPT ![i] = e]
        /\ m.hint = s.hint /\ m.wire = s.wire /\ SameRest(s, m)
    BY <1>1 DEF Fields, SameRest
  <2> HIDE DEF m
  <2>5. /\ DOMAIN m.arp = ArpIndex /\ m.arp[i] = e
        /\ \A j \in ArpIndex \ {i} : m.arp[j] = s.arp[j]
    BY <1>1, <2>4
  <2>6. SoundEntry(e, s.pb, T)
    BY <1>1, <1>4, <2>3 DEF SoundEntry, IsStable
  <2>7. \A j \in ArpIndex \ {i} : s.arp[j].state # "EMPTY" => s.arp[j].ipaddr # s.arp[i].ipaddr
    BY <1>4 DEF ArpOK
  <2>8. ArpStep(s, T, m)
    BY <1>1, <2>3, <2>4, <2>5, <2>6, <2>7, StateChange
  <2> QED
    BY <2>1, <2>8
<1> QED
  BY <1>2, <1>3, <1>4

\* etharp_tmr.
AgeInv(c, i, r) == r.i = i /\ ArpStep(c.s, c.T, r.n)
Ageing == INSTANCE LoopProofs WITH Op <- AgeNext, Inv <- AgeInv

\* etharp_tmr: entries age, and those that are too old go with their packets.
LEMMA ArpTimer ==
    ASSUME NEW s, NEW T, ArpOK(s, T)
    PROVE  ArpStep(s, T, etharp_tmr(s))
<1> DEFINE c == [s |-> s, T |-> T]
           r0 == [n |-> s, i |-> 0]
<1>1. c.s = s /\ c.T = T /\ r0.n = s /\ r0.i = 0
  OBVIOUS
<1> HIDE DEF c, r0
<1>2. AgeInv(c, 0, r0)
  BY <1>1, FramedSelf DEF AgeInv, ArpStep
<1>3. ASSUME NEW i \in 0..(ARP_TABLE_SIZE - 1), NEW r, AgeInv(c, i, r)
      PROVE  AgeInv(c, i + 1, AgeNext(r))
  <2>1. i \in ArpIndex /\ r.i = i /\ ArpStep(s, T, r.n)
    BY <1>1, <1>3 DEF AgeInv, ArpIndex
  <2>2. ArpStep(r.n, T, Age(r.n, i))
    BY <2>1, AgeOne DEF ArpStep
  <2>3. ArpStep(s, T, Age(r.n, i))
    BY <2>1, <2>2, ArpStepThen
  <2>4. AgeNext(r).i = i + 1 /\ AgeNext(r).n = Age(r.n, i)
    BY <2>1 DEF AgeNext
  <2> QED
    BY <1>1, <2>3, <2>4 DEF AgeInv
<1>4. AgeInv(c, ARP_TABLE_SIZE, Iterate(AgeNext, ARP_TABLE_SIZE, r0))
  BY <1>2, <1>3, IndexFacts, Ageing!LoopInvariant DEF Iterate, Ageing!Iterate
<1> QED
  BY <1>1, <1>4 DEF AgeInv, etharp_tmr, r0

-----------------------------------------------------------------------------
(* IP output changes nothing but what belongs to ARP.                      *)

\* Only buffers that ARP does not keep change.
Rebuffered(s, T, qb, m) ==
    /\ ArpOK(m, T) /\ SameRest(s, m) /\ m.pb = qb /\ m.arp = s.arp /\ m.wire = s.wire
    /\ Kept(m) = Kept(s)
    /\ \A i : i \in Loose(m) <=> i \in Buf /\ qb[i].ref # 0 /\ i \notin Kept(s)

\* Buffers that ARP does not keep may change as they like.
LEMMA LooseChange ==
    ASSUME NEW s, NEW T, ArpOK(s, T), NEW qb, Arena(qb), \A i \in Kept(s) : qb[i] = s.pb[i]
    PROVE  Rebuffered(s, T, qb, [s EXCEPT !.pb = qb])
<1> DEFINE m == [s EXCEPT !.pb = qb]
<1>1. /\ DOMAIN m = Fields /\ m.pb = qb /\ m.arp = s.arp /\ m.hint = s.hint /\ m.wire = s.wire
      /\ SameRest(s, m)
  BY DEF Fields, SameRest, ArpOK
<1> HIDE DEF m
<1>2. Kept(m) = Kept(s)
  BY <1>1 DEF Kept
<1>3. ASSUME NEW j \in ArpIndex PROVE SoundEntry(m.arp[j], m.pb, T)
  <2>1. SoundEntry(s.arp[j], s.pb, T)
    BY DEF ArpOK
  <2>2. s.arp[j].q # NULL => qb[s.arp[j].q] = s.pb[s.arp[j].q]
    BY LooseFacts
  <2> QED
    BY <1>1, <2>1, <2>2 DEF SoundEntry
<1>4. ArpOK(m, T)
  BY <1>1, <1>3 DEF ArpOK
<1>5. \A i : i \in Loose(m) <=> i \in Buf /\ qb[i].ref # 0 /\ i \notin Kept(s)
  BY <1>1, <1>2 DEF Loose
<1>6. Rebuffered(s, T, qb, m)
  BY <1>1, <1>2, <1>4, <1>5 DEF Rebuffered
<1> QED
  BY <1>6 DEF m

\* A buffer for d, taken for a while.
Lent(s, T, b, d, m) ==
    /\ ArpOK(m, T) /\ SameRest(s, m) /\ b \in Loose(m) /\ b \in Buf /\ b \notin Loose(s)
    /\ Single(m.pb, b) /\ m.pb[b].data = d
    /\ Loose(m) = Loose(s) \cup {b} /\ \A i \in Loose(s) : m.pb[i] = s.pb[i]

\* A buffer from pbuf_alloc for the time of a call.
LEMMA LendOne ==
    ASSUME NEW s, NEW T, ArpOK(s, T), NEW d, pbuf_alloc(s.pb, PBUF_RAM, 1, d).p # NULL
    PROVE  LET a == pbuf_alloc(s.pb, PBUF_RAM, 1, d)
           IN  Lent(s, T, a.p, d, [s EXCEPT !.pb = a.pb])
<1> DEFINE a == pbuf_alloc(s.pb, PBUF_RAM, 1, d)
           m == [s EXCEPT !.pb = a.pb]
<1>1. Arena(s.pb)
  BY DEF ArpOK
<1>2. /\ a.p \in Buf /\ s.pb[a.p].ref = 0 /\ Arena(a.pb)
      /\ a.pb[a.p].ref = 1 /\ a.pb[a.p].next = NULL /\ a.pb[a.p].data = d
      /\ \A i \in Buf \ {a.p} : a.pb[i] = s.pb[i]
  BY <1>1, AllocOne
<1> HIDE DEF a
<1>3. \A i \in Kept(s) : a.pb[i] = s.pb[i]
  BY <1>2, LooseFacts
<1>4. Rebuffered(s, T, a.pb, m)
  BY <1>2, <1>3, LooseChange
<1> HIDE DEF m
<1>5. \A i \in Loose(s) : i \in Buf /\ i # a.p
  BY <1>2, LooseFacts
<1>6. Loose(m) = Loose(s) \cup {a.p}
  <2>1. \A i : i \in Loose(m) <=> i \in Buf /\ a.pb[i].ref # 0 /\ i \notin Kept(s)
    BY <1>4 DEF Rebuffered
  <2>2. \A i : i \in Loose(s) <=> i \in Buf /\ s.pb[i].ref # 0 /\ i \notin Kept(s)
    BY LooseFacts
  <2>3. a.p \notin Kept(s)
    BY <1>2, LooseFacts
  <2> QED
    BY <1>2, <2>1, <2>2, <2>3
<1>7. Lent(s, T, a.p, d, m)
  BY <1>2, <1>4, <1>5, <1>6 DEF Rebuffered, Lent, Single
<1> QED
  BY <1>7 DEF a, m

\* It is returned.
LEMMA ReturnOne ==
    ASSUME NEW s, NEW T, ArpOK(s, T), NEW b, NEW d, NEW u, Lent(s, T, b, d, u),
           NEW m, ArpStep(u, T, m)
    PROVE  ArpStep(s, T, [m EXCEPT !.pb = pbuf_free(@, b)])
<1> DEFINE qb == pbuf_free(m.pb, b)
           w == [m EXCEPT !.pb = qb]
<1>1. ArpOK(m, T) /\ Loose(m) = Loose(u) /\ (\A i \in Loose(u) : m.pb[i] = u.pb[i]) /\ SameRest(u, m)
  BY DEF ArpStep, Framed
<1>2. /\ SameRest(s, u) /\ b \in Loose(u) /\ b \in Buf /\ b \notin Loose(s) /\ Single(u.pb, b)
      /\ Loose(u) = Loose(s) \cup {b} /\ \A i \in Loose(s) : u.pb[i] = s.pb[i]
  BY DEF Lent
<1>3. Arena(m.pb) /\ Single(m.pb, b)
  BY <1>1, <1>2 DEF ArpOK, Single
<1>4. Arena(qb) /\ qb[b].ref = 0 /\ \A i \in Buf \ {b} : qb[i] = m.pb[i]
  BY <1>2, <1>3, FreeOne
<1> HIDE DEF qb
<1>5. b \notin Kept(m)
  BY <1>1, <1>2, LooseFacts
<1>6. Rebuffered(m, T, qb, w)
  <2>1. \A i \in Kept(m) : qb[i] = m.pb[i]
    BY <1>1, <1>4, <1>5, LooseFacts
  <2> QED
    BY <1>1, <1>4, <2>1, LooseChange
<1> HIDE DEF w
<1>7. Loose(w) = Loose(s)
  <2>1. \A i : i \in Loose(w) <=> i \in Buf /\ qb[i].ref # 0 /\ i \notin Kept(m)
    BY <1>6 DEF Rebuffered
  <2>2. \A i : i \in Loose(m) <=> i \in Buf /\ m.pb[i].ref # 0 /\ i \notin Kept(m)
    BY <1>1, LooseFacts
  <2>3. \A i : i \in Loose(w) <=> i \in Loose(m) /\ i # b
    BY <1>2, <1>4, <2>1, <2>2
  <2> QED
    BY <1>1, <1>2, <2>3
<1>8. ASSUME NEW i \in Loose(s) PROVE w.pb[i] = s.pb[i]
  <2>1. i \in Buf /\ i # b /\ i \in Loose(u)
    BY <1>2, LooseFacts
  <2> QED
    BY <1>1, <1>2, <1>4, <1>6, <2>1 DEF Rebuffered
<1>9. SameRest(s, w)
  BY <1>1, <1>2, <1>6 DEF SameRest, Rebuffered
<1>10. ArpStep(s, T, w)
  BY <1>6, <1>7, <1>8, <1>9 DEF ArpStep, Framed, Rebuffered
<1> QED
  BY <1>10 DEF w, qb

\* A fragment is sent.
LEMMA FragmentSent ==
    ASSUME NEW s, NEW T, ArpOK(s, T), NEW p \in Loose(s), NEW dst, s.pb[p].data.dst = dst
    PROVE  LET a == pbuf_alloc(s.pb, PBUF_RAM, 1, s.pb[p].data)
           IN  ArpStep(s, T, SendFragment(s, a, p, dst).n)
<1> DEFINE d == s.pb[p].data
           a == pbuf_alloc(s.pb, PBUF_RAM, 1, d)
           u == [s EXCEPT !.pb = a.pb]
           m == etharp_output(u, a.p, dst)
<1>1. CASE a.p = NULL
  <2>1. SendFragment(s, a, p, dst).n = s
    BY <1>1 DEF SendFragment
  <2> QED
    BY <2>1, FramedSelf DEF ArpStep
<1>2. CASE a.p # NULL
  <2>1. SendFragment(s, a, p, dst).n = [m EXCEPT !.pb = pbuf_free(@, a.p)]
    BY <1>2 DEF SendFragment
  <2>2. Lent(s, T, a.p, d, u)
    BY <1>2, LendOne
  <2> HIDE DEF a, u
  <2>3. ArpOK(u, T) /\ a.p \in Loose(u) /\ u.pb[a.p].data.dst = dst
    BY <2>2 DEF Lent
  <2>4. ArpStep(u, T, m)
    BY <2>3, Output
  <2> HIDE DEF m, d
  <2>5. ArpStep(s, T, [m EXCEPT !.pb = pbuf_free(@, a.p)])
    BY <2>2, <2>4, ReturnOne
  <2> QED
    BY <2>1, <2>5 DEF a, d
<1> QED
  BY <1>1, <1>2

\* ip_frag.
FragInv(c, i, r) == r.p = c.p /\ r.dst = c.dst /\ ArpStep(c.s, c.T, r.n)
Fragmenting == INSTANCE LoopProofs WITH Op <- FragmentNext, Inv <- FragInv

\* ip_frag sends what it can, and leaves no buffer behind.
LEMMA FragmentsSent ==
    ASSUME NEW s, NEW T, ArpOK(s, T), NEW p \in Loose(s), NEW dst, s.pb[p].data.dst = dst,
           NEW parts \in Nat
    PROVE  ArpStep(s, T, ip_frag(s, p, dst, parts))
<1> DEFINE c == [s |-> s, T |-> T, p |-> p, dst |-> dst]
           r0 == [n |-> s, p |-> p, dst |-> dst, ok |-> TRUE]
<1>1. c.s = s /\ c.T = T /\ c.p = p /\ c.dst = dst /\ r0.n = s /\ r0.p = p /\ r0.dst = dst
  OBVIOUS
<1> HIDE DEF c, r0
<1>2. FragInv(c, 0, r0)
  BY <1>1, FramedSelf DEF FragInv, ArpStep
<1>3. ASSUME NEW i \in 0..(parts - 1), NEW r, FragInv(c, i, r)
      PROVE  FragInv(c, i + 1, FragmentNext(r))
  <2>1. r.p = p /\ r.dst = dst /\ ArpStep(s, T, r.n)
    BY <1>1, <1>3 DEF FragInv
  <2>2. CASE ~r.ok
    BY <1>3, <2>2 DEF FragmentNext, FragInv
  <2>3. CASE r.ok
    <3> DEFINE u == r.n
               a == pbuf_alloc(u.pb, PBUF_RAM, 1, u.pb[p].data)
               g == SendFragment(u, a, p, dst)
    <3>1. FragmentNext(r) = g
      BY <2>1, <2>3 DEF FragmentNext
    <3>2. g.p = p /\ g.dst = dst
      BY DEF SendFragment
    <3> HIDE DEF u, a
    <3>3. ArpOK(u, T) /\ p \in Loose(u) /\ u.pb[p].data.dst = dst
      BY <2>1 DEF ArpStep, Framed, u
    <3>4. ArpStep(u, T, g.n)
      BY <3>3, FragmentSent DEF a
    <3> HIDE DEF g
    <3>5. ArpStep(s, T, g.n)
      BY <2>1, <3>4, ArpStepThen DEF u
    <3> QED
      BY <1>1, <3>1, <3>2, <3>5 DEF FragInv
  <2> QED
    BY <2>2, <2>3
<1>4. FragInv(c, parts, Iterate(FragmentNext, parts, r0))
  BY <1>2, <1>3, Fragmenting!LoopInvariant DEF Iterate, Fragmenting!Iterate
<1> QED
  BY <1>1, <1>4 DEF FragInv, ip_frag, r0

\* ip_output_if, for a packet only its sender refers to.
LEMMA IpOutput ==
    ASSUME NEW s, NEW T, ArpOK(s, T), NEW p \in Loose(s), NEW dst, s.pb[p].data.dst = dst,
           s.pb[p].ref = 1, NEW parts \in Nat
    PROVE  ArpStep(s, T, ip_output_if(s, p, dst, parts))
<1>1. CASE parts > 1
  <2>1. ip_output_if(s, p, dst, parts) = ip_frag(s, p, dst, parts)
    BY <1>1 DEF ip_output_if
  <2> QED
    BY <2>1, FragmentsSent
<1>2. CASE ~(parts > 1)
  <2>1. ip_output_if(s, p, dst, parts) = etharp_output(s, p, dst)
    BY <1>2 DEF ip_output_if
  <2> QED
    BY <2>1, Output
<1> QED
  BY <1>1, <1>2

\* icmp_send_response.
LEMMA ErrorSent ==
    ASSUME NEW s, NEW T, ArpOK(s, T), NEW src
    PROVE  ArpStep(s, T, icmp_send_response(s, src))
<1> DEFINE d == Made(src)
           a == pbuf_alloc(s.pb, PBUF_RAM, 1, d)
           u == [s EXCEPT !.pb = a.pb]
           m == ip_output_if(u, a.p, src, 1)
<1>1. icmp_send_response(s, src) = Respond(s, a, src)
  BY DEF icmp_send_response
<1>2. CASE a.p = NULL
  <2>1. Respond(s, a, src) = s
    BY <1>2 DEF Respond
  <2> QED
    BY <1>1, <2>1, FramedSelf DEF ArpStep
<1>3. CASE a.p # NULL
  <2>1. Respond(s, a, src) = [m EXCEPT !.pb = pbuf_free(@, a.p)]
    BY <1>3 DEF Respond
  <2>2. Lent(s, T, a.p, d, u)
    BY <1>3, LendOne
  <2>3. d.dst = src
    BY DEF Made
  <2> HIDE DEF a, u, d
  <2>4. ArpOK(u, T) /\ a.p \in Loose(u) /\ u.pb[a.p].data.dst = src /\ u.pb[a.p].ref = 1
    BY <2>2, <2>3 DEF Lent, Single
  <2>5. 1 \in Nat
    OBVIOUS
  <2>6. ArpStep(u, T, m)
    BY <2>4, <2>5, IpOutput
  <2> HIDE DEF m
  <2>7. ArpStep(s, T, [m EXCEPT !.pb = pbuf_free(@, a.p)])
    BY <2>2, <2>6, ReturnOne
  <2> QED
    BY <1>1, <2>1, <2>7
<1> QED
  BY <1>2, <1>3

\* What a call that sends something does: the buffers of everybody but ARP
\* are as they were.
SentOnly(s, T, m) ==
    /\ ArpOK(m, T) /\ SameRest(s, m) /\ Loose(m) = Loose(s)
    /\ \A i \in Loose(s) : /\ m.pb[i].ref = s.pb[i].ref /\ m.pb[i].next = s.pb[i].next
                           /\ m.pb[i].data = s.pb[i].data

\* A step of ARP only sends.
LEMMA StepSends ==
    ASSUME NEW s, NEW T, NEW m, ArpStep(s, T, m) PROVE SentOnly(s, T, m)
BY DEF ArpStep, Framed, SentOnly

\* The headers go in front of p in a buffer of their own, which refers to p
\* while the packet is sent.
LEMMA BehindSent ==
    ASSUME NEW s, NEW T, ArpOK(s, T), NEW p \in Loose(s), s.pb[p].ref = 1, NEW dst,
           NEW parts \in Nat
    PROVE  SentOnly(s, T, SendBehind(s, pbuf_alloc(s.pb, PBUF_RAM, 1, Made(dst)), p, dst, parts))
<1> DEFINE d == Made(dst)
           a == pbuf_alloc(s.pb, PBUF_RAM, 1, d)
           b == a.p
           cb == pbuf_chain(a.pb, b, p)
           u == [s EXCEPT !.pb = cb]
           m == ip_output_if(u, b, dst, parts)
           qb == pbuf_free(m.pb, b)
           w == [m EXCEPT !.pb = qb]
<1>1. CASE b = NULL
  <2>1. SendBehind(s, a, p, dst, parts) = s
    BY <1>1 DEF SendBehind
  <2> QED
    BY <2>1 DEF SentOnly, SameRest
<1>2. CASE b # NULL
  <2>1. SendBehind(s, a, p, dst, parts) = w
    BY <1>2 DEF SendBehind
  <2>2. Arena(s.pb) /\ p \in Buf /\ p \notin Kept(s) /\ d.dst = dst
    BY LooseFacts DEF ArpOK, Made
  <2>3. /\ b \in Buf /\ s.pb[b].ref = 0 /\ Arena(a.pb) /\ Single(a.pb, b) /\ a.pb[b].data = d
        /\ \A i \in Buf \ {b} : a.pb[i] = s.pb[i]
    BY <1>2, <2>2, AllocOne DEF Single
  <2> HIDE DEF a, d
  <2> HIDE DEF b
  <2>4. b # p /\ b \notin Kept(s)
    BY <2>2, <2>3, LooseFacts
  <2>5. Last(Chain(a.pb, b)) = b
    <3>1. Closed(a.pb, {b}) /\ LinksApart(a.pb, b, {b})
      BY <2>3, BufFacts DEF Closed, LinksApart, Single
    <3>2. Last(Chain(a.pb, b)) \in Members(a.pb, b) /\ Members(a.pb, b) \subseteq {b}
      BY <2>3, <3>1, WholeChain
    <3> QED
      BY <3>2
  <2>6. /\ Arena(cb) /\ cb[b].ref = 1 /\ cb[b].next = p /\ cb[b].data = d
        /\ cb[p].ref = 2 /\ cb[p].next = s.pb[p].next /\ cb[p].data = s.pb[p].data
        /\ \A i \in Buf \ {b, p} : cb[i] = s.pb[i]
    <3> DEFINE xb == [a.pb EXCEPT ![b].next = p]
    <3>1. cb = [xb EXCEPT ![p].ref = @ + 1]
      BY <2>5 DEF pbuf_chain, pbuf_cat, pbuf_ref
    <3>2. /\ DOMAIN xb = Buf /\ xb[b].ref = 1 /\ xb[b].next = p /\ xb[b].data = d
          /\ DOMAIN xb[b] = {"ref", "next", "data"}
          /\ \A i \in Buf \ {b} : xb[i] = s.pb[i]
      BY <2>3 DEF Arena, Single
    <3> HIDE DEF xb
    <3>3. /\ xb[p].ref = 1 /\ xb[p].next = s.pb[p].next /\ xb[p].data = s.pb[p].data
          /\ DOMAIN xb[p] = {"ref", "next", "data"}
      BY <2>2, <2>4, <3>2 DEF Arena
    <3>4. /\ DOMAIN cb = Buf /\ cb[b] = xb[b] /\ cb[p].ref = 2 /\ cb[p].next = s.pb[p].next
          /\ cb[p].data = s.pb[p].data /\ DOMAIN cb[p] = {"ref", "next", "data"}
          /\ \A i \in Buf \ {b, p} : cb[i] = s.pb[i]
      BY <2>2, <2>3, <2>4, <3>1, <3>2, <3>3
    <3>5. Arena(cb)
      <4> SUFFICES ASSUME NEW i \in Buf
                   PROVE  /\ DOMAIN cb[i] = {"ref", "next", "data"}
                          /\ cb[i].ref \in Nat /\ cb[i].next \in Buf \cup {NULL}
        BY <3>4 DEF Arena
      <4> QED
        BY <2>2, <3>2, <3>4 DEF Arena
    <3> QED
      BY <3>2, <3>4, <3>5
  <2> HIDE DEF cb
  <2>7. Rebuffered(s, T, cb, u)
    <3>1. \A i \in Kept(s) : cb[i] = s.pb[i]
      BY <2>2, <2>4, <2>6, LooseFacts
    <3> QED
      BY <2>6, <3>1, LooseChange
  <2> HIDE DEF u
  <2>8. /\ ArpOK(u, T) /\ u.pb = cb /\ Kept(u) = Kept(s) /\ SameRest(s, u)
        /\ \A i : i \in Loose(u) <=> i \in Buf /\ cb[i].ref # 0 /\ i \notin Kept(s)
    BY <2>7 DEF Rebuffered
  <2>9. /\ b \in Loose(u) /\ p \in Loose(u)
        /\ \A i : i \in Loose(u) <=> i \in Loose(s) \/ i = b
    BY <2>2, <2>3, <2>4, <2>6, <2>8, LooseFacts
  <2>10. ArpStep(u, T, m)
    BY <2>2, <2>6, <2>8, <2>9, IpOutput
  <2> HIDE DEF m
  <2>11. ArpOK(m, T) /\ Loose(m) = Loose(u) /\ (\A i \in Loose(u) : m.pb[i] = cb[i]) /\ SameRest(u, m)
         /\ Arena(m.pb)
    BY <2>8, <2>10 DEF ArpStep, Framed, ArpOK
  <2>12. m.pb[b].ref = 1 /\ m.pb[b].next = p /\ m.pb[p].ref = 2
    BY <2>6, <2>9, <2>11
  <2>13. /\ Arena(qb) /\ qb[b].ref = 0
         /\ qb[p].ref = 1 /\ qb[p].next = m.pb[p].next /\ qb[p].data = m.pb[p].data
         /\ \A i \in Buf \ {b, p} : qb[i] = m.pb[i]
    BY <2>2, <2>3, <2>4, <2>11, <2>12, FreeFront
  <2> HIDE DEF qb
  <2>14. b \notin Kept(m) /\ p \notin Kept(m)
    BY <2>9, <2>11, LooseFacts
  <2>15. Rebuffered(m, T, qb, w)
    <3>1. \A i \in Kept(m) : qb[i] = m.pb[i]
      BY <2>11, <2>13, <2>14, LooseFacts
    <3> QED
      BY <2>11, <2>13, <3>1, LooseChange
  <2> HIDE DEF w
  <2>16. Loose(w) = Loose(s)
    <3>1. \A i : i \in Loose(w) <=> i \in Buf /\ qb[i].ref # 0 /\ i \notin Kept(m)
      BY <2>15 DEF Rebuffered
    <3>2. \A i : i \in Loose(m) <=> i \in Buf /\ m.pb[i].ref # 0 /\ i \notin Kept(m)
      BY <2>11, LooseFacts
    <3>3. \A i : i \in Loose(w) <=> i \in Loose(m) /\ i # b
      BY <2>3, <2>12, <2>13, <3>1, <3>2
    <3>4. b \notin Loose(s)
      BY <2>3, LooseFacts
    <3> QED
      BY <2>9, <2>11, <3>3, <3>4
  <2>17. ASSUME NEW i \in Loose(s)
         PROVE  qb[i].ref = s.pb[i].ref /\ qb[i].next = s.pb[i].next /\ qb[i].data = s.pb[i].data
    <3>1. i \in Buf /\ i # b /\ i \in Loose(u) /\ s.pb[i].ref # 0
      BY <2>3, <2>9, LooseFacts
    <3>2. CASE i = p
      BY <2>6, <2>9, <2>11, <2>13, <3>2
    <3>3. CASE i # p
      BY <2>6, <2>11, <2>13, <3>1, <3>3
    <3> QED
      BY <3>2, <3>3
  <2>18. SameRest(s, w)
    BY <2>8, <2>11, <2>15 DEF SameRest, Rebuffered
  <2>19. SentOnly(s, T, w)
    BY <2>15, <2>16, <2>17, <2>18 DEF SentOnly, Rebuffered
  <2> QED
    BY <2>1, <2>19 DEF a, d
<1> QED
  BY <1>1, <1>2

-----------------------------------------------------------------------------
(* The list of datagrams.                                                  *)

IsSeq(q) == \E S : q \in Seq(S)
RecFields == {"src", "id", "p", "timer", "last", "len"}
SoundRec(r) == DOMAIN r = RecFields /\ r.p \in Seq(Buf) /\ r.timer \in Nat

\* No fragment is in two places.
Apart(q) ==
    \A k, l \in 1..Len(q) : \A i \in 1..Len(q[k].p), j \in 1..Len(q[l].p) :
        q[k].p[i] = q[l].p[j] => k = l /\ i = j
ReassOK(q) == IsSeq(q) /\ (\A k \in 1..Len(q) : SoundRec(q[k])) /\ Apart(q)

\* The fragments in the list.
InList(q, h) == \E k \in 1..Len(q) : \E i \in 1..Len(q[k].p) : q[k].p[i] = h
Heads(q) == {h \in Buf : InList(q, h)}

\* A part of a sequence.
LEMMA PartOf ==
    ASSUME NEW S, NEW q \in Seq(S), NEW a \in 1..(Len(q) + 1), NEW b \in (a - 1)..Len(q)
    PROVE  LET x == SubSeq(q, a, b)
           IN  /\ x \in Seq(S) /\ Len(x) = b - a + 1
               /\ \A i \in 1..(b - a + 1) : x[i] = q[a + i - 1]
<1>1. Len(q) \in Nat /\ \A j \in 1..Len(q) : q[j] \in S
  OBVIOUS
<1>2. a \in Int /\ b \in Int /\ \A i \in a..b : q[i] \in S
  BY <1>1
<1> DEFINE x == SubSeq(q, a, b)
<1>3. x \in Seq(S) /\ Len(x) = (IF a <= b THEN b - a + 1 ELSE 0)
      /\ \A i \in 1..(b - a + 1) : x[i] = q[a + i - 1]
  BY <1>2, SubSeqProperties
<1> QED
  BY <1>1, <1>3

\* A sequence without its k-th element.
LEMMA RemovedAt ==
    ASSUME NEW S, NEW q \in Seq(S), NEW k \in 1..Len(q)
    PROVE  LET r == RemoveAt(q, k)
           IN  /\ r \in Seq(S) /\ Len(r) = Len(q) - 1
               /\ \A j \in 1..Len(r) : r[j] = q[IF j < k THEN j ELSE j + 1]
<1> DEFINE x == SubSeq(q, 1, k - 1)
           y == SubSeq(q, k + 1, Len(q))
<1>0. Len(q) \in Nat /\ \A j \in 1..Len(q) : q[j] \in S
  BY LenProperties, ElementOfSeq
<1>1. x \in Seq(S) /\ Len(x) = k - 1 /\ \A j \in 1..(k - 1) : x[j] = q[j]
  <2>1. x \in Seq(S) /\ Len(x) = (k - 1) - 1 + 1
        /\ \A j \in 1..((k - 1) - 1 + 1) : x[j] = q[1 + j - 1]
    <3>1. 1 \in 1..(Len(q) + 1) /\ k - 1 \in (1 - 1)..Len(q)
      BY <1>0
    <3> QED
      BY <3>1, PartOf
  <2> HIDE DEF x
  <2> QED
    BY <1>0, <2>1
<1>2. y \in Seq(S) /\ Len(y) = Len(q) - k /\ \A j \in 1..(Len(q) - k) : y[j] = q[k + j]
  <2>1. y \in Seq(S) /\ Len(y) = Len(q) - (k + 1) + 1
        /\ \A j \in 1..(Len(q) - (k + 1) + 1) : y[j] = q[(k + 1) + j - 1]
    <3>1. k + 1 \in 1..(Len(q) + 1) /\ Len(q) \in ((k + 1) - 1)..Len(q)
      BY <1>0
    <3> QED
      BY <3>1, PartOf
  <2> HIDE DEF y
  <2> QED
    BY <1>0, <2>1
<1>3. RemoveAt(q, k) = x \o y
  BY DEF RemoveAt
<1> HIDE DEF x, y
<1>4. /\ x \o y \in Seq(S) /\ Len(x \o y) = Len(x) + Len(y)
      /\ \A i \in 1..(Len(x) + Len(y)) : (x \o y)[i] = IF i <= Len(x) THEN x[i] ELSE y[i - Len(x)]
  BY <1>1, <1>2, ConcatProperties
<1> DEFINE r == x \o y
<1> HIDE DEF r
<1>5. r \in Seq(S) /\ Len(r) = Len(q) - 1
  BY <1>0, <1>1, <1>2, <1>4 DEF r
<1>6. ASSUME NEW j \in 1..Len(r) PROVE r[j] = q[IF j < k THEN j ELSE j + 1]
  <2>1. j \in 1..(Len(q) - 1) /\ r[j] = IF j <= Len(x) THEN x[j] ELSE y[j - Len(x)]
    BY <1>0, <1>1, <1>2, <1>4, <1>5 DEF r
  <2>2. CASE j < k
    <3>1. j \in 1..(k - 1) /\ j <= Len(x)
      BY <1>0, <1>1, <2>1, <2>2
    <3> QED
      BY <1>1, <2>1, <2>2, <3>1
  <2>3. CASE ~(j < k)
    <3>1. j - (k - 1) \in 1..(Len(q) - k) /\ ~(j <= Len(x)) /\ k + (j - (k - 1)) = j + 1
      BY <1>0, <1>1, <2>1, <2>3
    <3>2. y[j - (k - 1)] = q[k + (j - (k - 1))]
      BY <1>2, <3>1
    <3> QED
      BY <1>1, <2>1, <2>3, <3>1, <3>2
  <2> QED
    BY <2>2, <2>3
<1> QED
  BY <1>3, <1>5, <1>6 DEF r

\* A datagram leaves.
LEMMA ListRemove ==
    ASSUME NEW q, ReassOK(q), NEW k \in 1..Len(q)
    PROVE  LET r == RemoveAt(q, k)
           IN  /\ ReassOK(r) /\ Len(r) = Len(q) - 1 /\ Len(r) \in Nat
               /\ Heads(r) = Heads(q) \ ToSet(q[k].p) /\ ToSet(q[k].p) \subseteq Heads(q)
<1> DEFINE r == RemoveAt(q, k)
           P(j) == IF j < k THEN j ELSE j + 1
<1>1. PICK S : q \in Seq(S)
  BY DEF ReassOK, IsSeq
<1>2. /\ r \in Seq(S) /\ Len(r) = Len(q) - 1 /\ \A j \in 1..Len(r) : r[j] = q[P(j)]
  BY <1>1, RemovedAt
<1>3. Len(q) \in Nat
  BY <1>1
<1> HIDE DEF r
<1>4. \A j \in 1..Len(r) : P(j) \in 1..Len(q) /\ P(j) # k
  BY <1>2, <1>3
<1>5. \A i, j \in 1..Len(r) : P(i) = P(j) => i = j
  BY <1>2, <1>3
<1>6. ASSUME NEW j \in 1..Len(q), j # k PROVE \E i \in 1..Len(r) : P(i) = j
  <2>1. CASE j < k
    BY <1>2, <1>3, <2>1
  <2>2. CASE j > k
    <3>1. j - 1 \in 1..Len(r) /\ P(j - 1) = j
      BY <1>2, <1>3, <2>2
    <3> QED
      BY <3>1
  <2> QED
    BY <1>3, <1>6, <2>1, <2>2
<1> HIDE DEF P
<1>7. \A j \in 1..Len(r) : SoundRec(r[j])
  BY <1>2, <1>4 DEF ReassOK
<1>8. Apart(r)
  <2> SUFFICES ASSUME NEW k1 \in 1..Len(r), NEW l1 \in 1..Len(r),
                      NEW i \in 1..Len(r[k1].p), NEW j \in 1..Len(r[l1].p), r[k1].p[i] = r[l1].p[j]
               PROVE  k1 = l1 /\ i = j
    BY DEF Apart
  <2>1. r[k1] = q[P(k1)] /\ r[l1] = q[P(l1)] /\ P(k1) \in 1..Len(q) /\ P(l1) \in 1..Len(q)
    BY <1>2, <1>4
  <2>2. P(k1) = P(l1) /\ i = j
    <3> DEFINE a == P(k1)
               b == P(l1)
    <3>1. /\ a \in 1..Len(q) /\ b \in 1..Len(q) /\ i \in 1..Len(q[a].p) /\ j \in 1..Len(q[b].p)
          /\ q[a].p[i] = q[b].p[j]
      BY <2>1
    <3>2. Apart(q)
      BY DEF ReassOK
    <3> HIDE DEF a, b
    <3>3. a = b /\ i = j
      BY <3>1, <3>2 DEF Apart
    <3> QED
      BY <3>3 DEF a, b
  <2> QED
    BY <1>5, <2>2
<1>9. ReassOK(r)
  BY <1>2, <1>7, <1>8 DEF ReassOK, IsSeq
<1>10. SoundRec(q[k]) /\ q[k].p \in Seq(Buf)
  BY DEF ReassOK, SoundRec
<1>11. \A e : e \in ToSet(q[k].p) <=> \E i \in 1..Len(q[k].p) : q[k].p[i] = e
  BY <1>10, Elements
<1>12. ToSet(q[k].p) \subseteq Heads(q)
  <2>1. ToSet(q[k].p) \subseteq Buf
    BY <1>10, Elements
  <2> QED
    BY <1>11, <2>1 DEF Heads, InList
<1>13. ASSUME NEW h \in Buf PROVE h \in Heads(r) <=> h \in Heads(q) /\ h \notin ToSet(q[k].p)
  <2>1. ASSUME h \in Heads(r) PROVE h \in Heads(q) /\ h \notin ToSet(q[k].p)
    <3>1. PICK k1 \in 1..Len(r) : \E i \in 1..Len(r[k1].p) : r[k1].p[i] = h
      BY <2>1 DEF Heads, InList
    <3>2. PICK i \in 1..Len(r[k1].p) : r[k1].p[i] = h
      BY <3>1
    <3>3. r[k1] = q[P(k1)] /\ P(k1) \in 1..Len(q) /\ P(k1) # k
      BY <1>2, <1>4
    <3>4. h \in Heads(q)
      BY <3>2, <3>3 DEF Heads, InList
    <3>5. ASSUME NEW j \in 1..Len(q[k].p), q[k].p[j] = h PROVE FALSE
      BY <3>2, <3>3, <3>5 DEF ReassOK, Apart
    <3> QED
      BY <1>11, <3>4, <3>5
  <2>2. ASSUME h \in Heads(q), h \notin ToSet(q[k].p) PROVE h \in Heads(r)
    <3>1. PICK k1 \in 1..Len(q) : \E i \in 1..Len(q[k1].p) : q[k1].p[i] = h
      BY <2>2 DEF Heads, InList
    <3>2. k1 # k
      BY <1>11, <2>2, <3>1
    <3>3. PICK j \in 1..Len(r) : P(j) = k1
      BY <1>6, <3>2
    <3>4. r[j] = q[k1]
      BY <1>2, <3>3
    <3> QED
      BY <3>1, <3>4 DEF Heads, InList
  <2> QED
    BY <2>1, <2>2
<1>14. Heads(r) = Heads(q) \ ToSet(q[k].p)
  BY <1>13 DEF Heads
<1> QED
  BY <1>2, <1>3, <1>9, <1>12, <1>14 DEF r

\* Nothing but the ages and lengths of datagrams changes.
LEMMA ListSame ==
    ASSUME NEW q, ReassOK(q), NEW r, IsSeq(r), Len(r) = Len(q),
           \A k \in 1..Len(q) : SoundRec(r[k]) /\ r[k].p = q[k].p
    PROVE  ReassOK(r) /\ Heads(r) = Heads(q)
<1>1. Apart(r)
  <2> SUFFICES ASSUME NEW k \in 1..Len(q), NEW l \in 1..Len(q),
                      NEW i \in 1..Len(r[k].p), NEW j \in 1..Len(r[l].p), r[k].p[i] = r[l].p[j]
               PROVE  k = l /\ i = j
    BY DEF Apart
  <2>1. r[k].p = q[k].p /\ r[l].p = q[l].p
    OBVIOUS
  <2>2. q[k].p[i] = q[l].p[j] /\ i \in 1..Len(q[k].p) /\ j \in 1..Len(q[l].p)
    BY <2>1
  <2>3. Apart(q)
    BY DEF ReassOK
  <2> QED
    BY <2>2, <2>3 DEF Apart
<1>2. ReassOK(r)
  BY <1>1 DEF ReassOK
<1>3. \A h : InList(r, h) <=> InList(q, h)
  BY DEF InList
<1> QED
  BY <1>2, <1>3 DEF Heads

\* A datagram is entered in front, without a fragment.
LEMMA ListEnter ==
    ASSUME NEW q, ReassOK(q), NEW e, SoundRec(e), e.p = <<>>
    PROVE  LET r == <<e>> \o q
           IN  ReassOK(r) /\ Heads(r) = Heads(q) /\ Len(r) = Len(q) + 1 /\ Len(q) \in Nat /\ r[1] = e
<1> DEFINE r == <<e>> \o q
<1>1. PICK S : q \in Seq(S)
  BY DEF ReassOK, IsSeq
<1>2. Len(q) \in Nat /\ q \in Seq(S \cup {e}) /\ <<e>> \in Seq(S \cup {e}) /\ Len(<<e>>) = 1
      /\ <<e>>[1] = e
  BY <1>1, SeqMonotonic
<1>3. /\ r \in Seq(S \cup {e}) /\ Len(r) = 1 + Len(q)
      /\ \A i \in 1..(1 + Len(q)) : r[i] = IF i <= 1 THEN <<e>>[i] ELSE q[i - 1]
  BY <1>2, ConcatProperties
<1> HIDE DEF r
<1>4. Len(r) = Len(q) + 1 /\ r[1] = e /\ \A i \in 2..Len(r) : r[i] = q[i - 1] /\ i - 1 \in 1..Len(q)
  BY <1>2, <1>3
<1>5. 1..Len(r) = {1} \cup 2..Len(r) /\ \A i \in 1..Len(q) : i + 1 \in 2..Len(r) /\ (i + 1) - 1 = i
  BY <1>2, <1>4
<1>6. Len(e.p) = 0 /\ 1..Len(e.p) = {}
  BY EmptySeq
<1>7. \A i \in 1..Len(r) : SoundRec(r[i])
  BY <1>4, <1>5 DEF ReassOK
<1>8. Apart(r)
  <2> SUFFICES ASSUME NEW k1 \in 1..Len(r), NEW l1 \in 1..Len(r),
                      NEW i \in 1..Len(r[k1].p), NEW j \in 1..Len(r[l1].p), r[k1].p[i] = r[l1].p[j]
               PROVE  k1 = l1 /\ i = j
    BY DEF Apart
  <2>1. k1 # 1 /\ l1 # 1
    BY <1>4, <1>6
  <2>2. k1 \in 2..Len(r) /\ l1 \in 2..Len(r)
    BY <1>5, <2>1
  <2>3. r[k1] = q[k1 - 1] /\ r[l1] = q[l1 - 1] /\ k1 - 1 \in 1..Len(q) /\ l1 - 1 \in 1..Len(q)
    BY <1>4, <2>2
  <2>4. k1 - 1 = l1 - 1 /\ i = j
    <3> DEFINE a == k1 - 1
               b == l1 - 1
    <3>1. /\ a \in 1..Len(q) /\ b \in 1..Len(q) /\ i \in 1..Len(q[a].p) /\ j \in 1..Len(q[b].p)
          /\ q[a].p[i] = q[b].p[j]
      BY <2>3
    <3>2. Apart(q)
      BY DEF ReassOK
    <3> HIDE DEF a, b
    <3>3. a = b /\ i = j
      BY <3>1, <3>2 DEF Apart
    <3> QED
      BY <3>3 DEF a, b
  <2> QED
    BY <1>2, <1>4, <2>4
<1>9. ReassOK(r)
  BY <1>3, <1>7, <1>8 DEF ReassOK, IsSeq
<1>10. ASSUME NEW h PROVE InList(r, h) <=> InList(q, h)
  <2>1. ASSUME InList(r, h) PROVE InList(q, h)
    <3>1. PICK k1 \in 1..Len(r) : \E i \in 1..Len(r[k1].p) : r[k1].p[i] = h
      BY <2>1 DEF InList
    <3>2. k1 # 1
      BY <1>4, <1>6, <3>1
    <3>3. r[k1] = q[k1 - 1] /\ k1 - 1 \in 1..Len(q)
      BY <1>4, <1>5, <3>2
    <3> QED
      BY <3>1, <3>3 DEF InList
  <2>2. ASSUME InList(q, h) PROVE InList(r, h)
    <3>1. PICK k1 \in 1..Len(q) : \E i \in 1..Len(q[k1].p) : q[k1].p[i] = h
      BY <2>2 DEF InList
    <3>2. r[k1 + 1] = q[k1] /\ k1 + 1 \in 1..Len(r)
      BY <1>4, <1>5
    <3> QED
      BY <3>1, <3>2 DEF InList
  <2> QED
    BY <2>1, <2>2
<1> QED
  BY <1>2, <1>4, <1>9, <1>10 DEF Heads, r

\* A fragment is put between others of its datagram.
ChainedAt(q, k, i, p, r) ==
    /\ IsSeq(r) /\ Len(r) = Len(q)
    /\ \A l \in 1..Len(q) : SoundRec(r[l]) /\ (l # k => r[l].p = q[l].p)
    /\ r[k].p = SubSeq(q[k].p, 1, i - 1) \o <<p>> \o SubSeq(q[k].p, i, Len(q[k].p))

\* A fragment joins the k-th datagram.
LEMMA ListChain ==
    ASSUME NEW q, ReassOK(q), NEW k \in 1..Len(q), NEW p \in Buf, p \notin Heads(q),
           NEW i \in 1..(Len(q[k].p) + 1), NEW r, ChainedAt(q, k, i, p, r)
    PROVE  ReassOK(r) /\ Heads(r) = Heads(q) \cup {p} /\ r[k].p # <<>>
<1> DEFINE ps == q[k].p
           x == SubSeq(ps, 1, i - 1)
           y == SubSeq(ps, i, Len(ps))
           z == x \o <<p>> \o y
           F(j) == IF j < i THEN j ELSE j - 1
<1> USE DEF ChainedAt
<1>1. ps \in Seq(Buf) /\ Len(ps) \in Nat /\ \A j \in 1..Len(ps) : ps[j] \in Buf
  BY ElementOfSeq, LenProperties DEF ReassOK, SoundRec
<1>2. x \in Seq(Buf) /\ Len(x) = i - 1 /\ \A j \in 1..(i - 1) : x[j] = ps[j]
  <2>1. x \in Seq(Buf) /\ Len(x) = (i - 1) - 1 + 1
        /\ \A j \in 1..((i - 1) - 1 + 1) : x[j] = ps[1 + j - 1]
    <3>1. 1 \in 1..(Len(ps) + 1) /\ i - 1 \in (1 - 1)..Len(ps)
      BY <1>1
    <3> HIDE DEF ps
    <3> QED
      BY <1>1, <3>1, PartOf, Zenon
  <2> HIDE DEF x
  <2> QED
    BY <1>1, <2>1
<1>3. y \in Seq(Buf) /\ Len(y) = Len(ps) - i + 1 /\ \A j \in 1..(Len(ps) - i + 1) : y[j] = ps[i + j - 1]
  <2>1. Len(ps) \in (i - 1)..Len(ps)
    BY <1>1
  <2> QED
    BY <1>1, <2>1, PartOf
<1> HIDE DEF x, y
<1>4. /\ z \in Seq(Buf) /\ Len(z) = Len(ps) + 1 /\ z[i] = p
      /\ \A j \in 1..Len(z) : j # i => z[j] = ps[F(j)] /\ F(j) \in 1..Len(ps)
  <2> DEFINE w == x \o <<p>>
  <2>1. <<p>> \in Seq(Buf) /\ Len(<<p>>) = 1 /\ <<p>>[1] = p
    OBVIOUS
  <2>2. /\ w \in Seq(Buf) /\ Len(w) = Len(x) + 1
        /\ \A j \in 1..(Len(x) + 1) : w[j] = IF j <= Len(x) THEN x[j] ELSE <<p>>[j - Len(x)]
    BY <1>2, <2>1, ConcatProperties
  <2> HIDE DEF w
  <2>3. Len(w) = i /\ w[i] = p /\ \A j \in 1..(i - 1) : w[j] = ps[j]
    BY <1>1, <1>2, <2>1, <2>2
  <2>4. z = w \o y
    BY DEF w
  <2>5. /\ z \in Seq(Buf) /\ Len(z) = Len(w) + Len(y)
        /\ \A j \in 1..(Len(w) + Len(y)) : z[j] = IF j <= Len(w) THEN w[j] ELSE y[j - Len(w)]
    <3>1. w \in Seq(Buf) /\ y \in Seq(Buf)
      BY <1>3, <2>2
    <3> HIDE DEF z
    <3> QED
      BY <2>4, <3>1, ConcatProperties, Zenon
  <2> HIDE DEF z
  <2>6. Len(z) = Len(ps) + 1 /\ z[i] = p
    BY <1>1, <1>3, <2>3, <2>5
  <2>7. ASSUME NEW j \in 1..Len(z), j # i PROVE z[j] = ps[F(j)] /\ F(j) \in 1..Len(ps)
    <3>1. CASE j < i
      <4>1. j \in 1..(i - 1) /\ j <= Len(w) /\ F(j) = j /\ j \in 1..Len(ps)
        BY <1>1, <2>3, <2>6, <3>1
      <4>2. j \in 1..(Len(w) + Len(y))
        BY <1>1, <1>3, <2>3, <2>6
      <4>3. z[j] = w[j] /\ w[j] = ps[j]
        BY <2>3, <2>5, <4>1, <4>2
      <4> QED
        BY <4>1, <4>3
    <3>2. CASE j > i
      <4>1. j - i \in 1..(Len(ps) - i + 1) /\ i + (j - i) - 1 = j - 1 /\ j - 1 \in 1..Len(ps)
        <5> DEFINE M == Len(ps)
        <5>1. M \in Nat /\ i \in 1..(M + 1) /\ j \in 1..(M + 1)
          BY <1>1, <2>6
        <5> HIDE DEF M
        <5>2. j - i \in 1..(M - i + 1) /\ i + (j - i) - 1 = j - 1 /\ j - 1 \in 1..M
          BY <3>2, <5>1
        <5> QED
          BY <5>2 DEF M
      <4>2. z[j] = y[j - i]
        BY <1>1, <1>3, <2>3, <2>5, <2>6, <3>2
      <4>3. y[j - i] = ps[i + (j - i) - 1]
        BY <1>3, <4>1
      <4> QED
        BY <3>2, <4>1, <4>2, <4>3
    <3> QED
      BY <1>1, <2>6, <2>7, <3>1, <3>2
  <2> QED
    BY <2>5, <2>6, <2>7
<1>5. \A a, b \in 1..Len(z) : a # i /\ b # i /\ F(a) = F(b) => a = b
  BY <1>1, <1>4
<1>6. ASSUME NEW j \in 1..Len(ps) PROVE \E a \in 1..Len(z) : a # i /\ F(a) = j
  <2>1. CASE j < i
    BY <1>1, <1>4, <2>1
  <2>2. CASE ~(j < i)
    <3>1. j + 1 \in 1..Len(z) /\ j + 1 # i /\ F(j + 1) = j
      BY <1>1, <1>4, <2>2
    <3> QED
      BY <3>1
  <2> QED
    BY <2>1, <2>2
<1>7. i \in 1..Len(z)
  BY <1>1, <1>4
<1>8. r[k].p = z
  BY DEF x, y
<1> HIDE DEF z, F
<1>9. \A l \in 1..Len(q) : \A j \in 1..Len(q[l].p) : q[l].p[j] # p
  BY DEF Heads, InList
<1>10. Apart(r)
  <2> SUFFICES ASSUME NEW k1 \in 1..Len(q), NEW l1 \in 1..Len(q),
                      NEW a \in 1..Len(r[k1].p), NEW b \in 1..Len(r[l1].p), r[k1].p[a] = r[l1].p[b]
               PROVE  k1 = l1 /\ a = b
    BY DEF Apart
  <2>1. CASE k1 = k /\ l1 = k
    <3>1. CASE a = i \/ b = i
      <4>1. \A j \in 1..Len(z) : j # i => z[j] # z[i]
        BY <1>4, <1>9
      <4> QED
        BY <1>8, <2>1, <3>1, <4>1
    <3>2. CASE a # i /\ b # i
      <4>1. F(a) \in 1..Len(ps) /\ F(b) \in 1..Len(ps) /\ ps[F(a)] = ps[F(b)]
        BY <1>4, <1>8, <2>1, <3>2
      <4>2. F(a) = F(b)
        <5> DEFINE c == F(a)
                   d == F(b)
        <5>1. c \in 1..Len(q[k].p) /\ d \in 1..Len(q[k].p) /\ q[k].p[c] = q[k].p[d]
          BY <4>1
        <5>2. Apart(q)
          BY DEF ReassOK
        <5> HIDE DEF c, d
        <5>3. c = d
          BY <5>1, <5>2 DEF Apart
        <5> QED
          BY <5>3 DEF c, d
      <4> QED
        BY <1>5, <1>8, <2>1, <3>2, <4>2
    <3> QED
      BY <3>1, <3>2
  <2>2. CASE k1 = k /\ l1 # k
    <3>1. r[l1].p = q[l1].p /\ b \in 1..Len(q[l1].p)
      BY <2>2
    <3>2. a # i
      BY <1>4, <1>8, <1>9, <2>2, <3>1
    <3>3. F(a) \in 1..Len(ps) /\ ps[F(a)] = q[l1].p[b]
      BY <1>4, <1>8, <2>2, <3>1, <3>2
    <3> QED
      BY <2>2, <3>1, <3>3 DEF ReassOK, Apart
  <2>3. CASE k1 # k /\ l1 = k
    <3>1. r[k1].p = q[k1].p /\ a \in 1..Len(q[k1].p)
      BY <2>3
    <3>2. b # i
      BY <1>4, <1>8, <1>9, <2>3, <3>1
    <3>3. F(b) \in 1..Len(ps) /\ ps[F(b)] = q[k1].p[a]
      BY <1>4, <1>8, <2>3, <3>1, <3>2
    <3> QED
      BY <2>3, <3>1, <3>3 DEF ReassOK, Apart
  <2>4. CASE k1 # k /\ l1 # k
    <3>1. r[k1].p = q[k1].p /\ r[l1].p = q[l1].p
      BY <2>4
    <3> QED
      BY <3>1 DEF ReassOK, Apart
  <2> QED
    BY <2>1, <2>2, <2>3, <2>4
<1>11. ASSUME NEW h \in Buf PROVE InList(r, h) <=> InList(q, h) \/ h = p
  <2>1. ASSUME InList(r, h) PROVE InList(q, h) \/ h = p
    <3>1. PICK k1 \in 1..Len(q) : \E a \in 1..Len(r[k1].p) : r[k1].p[a] = h
      BY <2>1 DEF InList
    <3>2. PICK a \in 1..Len(r[k1].p) : r[k1].p[a] = h
      BY <3>1
    <3>3. CASE k1 = k
      BY <1>4, <1>8, <3>2, <3>3 DEF InList
    <3>4. CASE k1 # k
      BY <3>2, <3>4 DEF InList
    <3> QED
      BY <3>3, <3>4
  <2>2. ASSUME InList(q, h) PROVE InList(r, h)
    <3>1. PICK k1 \in 1..Len(q) : \E a \in 1..Len(q[k1].p) : q[k1].p[a] = h
      BY <2>2 DEF InList
    <3>2. PICK a \in 1..Len(q[k1].p) : q[k1].p[a] = h
      BY <3>1
    <3>3. CASE k1 = k
      <4>1. PICK b \in 1..Len(z) : b # i /\ F(b) = a
        BY <1>6, <3>2, <3>3
      <4>2. z[b] = h
        BY <1>4, <3>2, <3>3, <4>1
      <4> QED
        BY <1>8, <4>1, <4>2 DEF InList
    <3>4. CASE k1 # k
      BY <3>2, <3>4 DEF InList
    <3> QED
      BY <3>3, <3>4
  <2>3. InList(r, p)
    BY <1>4, <1>7, <1>8 DEF InList
  <2> QED
    BY <2>1, <2>2, <2>3
<1>12. Heads(r) = Heads(q) \cup {p}
  BY <1>11 DEF Heads
<1>13. ReassOK(r)
  BY <1>10 DEF ReassOK
<1>14. r[k].p # <<>>
  BY <1>1, <1>4, <1>8, EmptySeq
<1> QED
  BY <1>12, <1>13, <1>14

-----------------------------------------------------------------------------
(* The buffers of several holders.                                         *)

Hold(pb, G) == {i \in Buf : \E h \in G : i \in Members(pb, h)}

\* The buffers of some holders are finite, in use, and nobody else's.
LEMMA HoldFacts ==
    ASSUME NEW pb, Arena(pb), NEW L, NEW H, Own(pb, L, H), NEW G \in SUBSET H
    PROVE  /\ Hold(pb, G) \subseteq L /\ G \subseteq Hold(pb, G)
           /\ IsFiniteSet(Hold(pb, G)) /\ Cardinality(Hold(pb, G)) \in Nat
           /\ \A h \in H \ G : h \notin Hold(pb, G) /\ Members(pb, h) \cap Hold(pb, G) = {}
<1>1. \A h \in H : h \in Buf /\ h \in Members(pb, h) /\ Members(pb, h) \subseteq L
  BY HeadFacts
<1>2. Hold(pb, G) \subseteq L /\ G \subseteq Hold(pb, G) /\ Hold(pb, G) \in SUBSET Buf
  BY <1>1 DEF Hold
<1>3. IsFiniteSet(Hold(pb, G)) /\ Cardinality(Hold(pb, G)) \in Nat
  BY <1>2, BufFacts, FS_Subset, FS_CardinalityType
<1>4. ASSUME NEW h \in H \ G PROVE h \notin Hold(pb, G) /\ Members(pb, h) \cap Hold(pb, G) = {}
  <2>1. \A g \in G : Members(pb, g) \cap Members(pb, h) = {}
    BY HeadsApart
  <2> QED
    BY <1>1, <2>1 DEF Hold
<1> QED
  BY <1>2, <1>3, <1>4

\* One holder more.
LEMMA HoldAdd ==
    ASSUME NEW pb, Arena(pb), NEW L, NEW H, Own(pb, L, H), NEW G \in SUBSET H, NEW h \in H \ G
    PROVE  /\ Hold(pb, G \cup {h}) = Hold(pb, G) \cup Members(pb, h)
           /\ Cardinality(Hold(pb, G \cup {h})) = Cardinality(Hold(pb, G)) + Cardinality(Members(pb, h))
<1>1. h \in Buf /\ Members(pb, h) \subseteq Buf /\ IsFiniteSet(Members(pb, h))
      /\ Cardinality(Members(pb, h)) \in Nat
  <2>1. h \in H
    OBVIOUS
  <2>2. /\ h \in Buf /\ Members(pb, h) \subseteq L /\ IsFiniteSet(Members(pb, h))
        /\ Cardinality(Members(pb, h)) \in Nat
    BY <2>1, HeadFacts
  <2>3. L \subseteq Buf
    BY DEF Own
  <2> QED
    BY <2>2, <2>3
<1>2. Hold(pb, G \cup {h}) = Hold(pb, G) \cup Members(pb, h)
  BY <1>1 DEF Hold
<1>3. /\ IsFiniteSet(Hold(pb, G)) /\ Cardinality(Hold(pb, G)) \in Nat
      /\ Hold(pb, G) \cap Members(pb, h) = {}
  BY HoldFacts
<1>4. Cardinality(Hold(pb, G) \cup Members(pb, h))
      = Cardinality(Hold(pb, G)) + Cardinality(Members(pb, h))
        - Cardinality(Hold(pb, G) \cap Members(pb, h))
  BY <1>1, <1>3, FS_Union
<1>5. Cardinality(Hold(pb, G) \cap Members(pb, h)) = 0
  BY <1>3, FS_EmptySet
<1>6. \A u, v \in Nat : u + v - 0 = u + v
  OBVIOUS
<1> QED
  BY <1>1, <1>2, <1>3, <1>4, <1>5, <1>6, Zenon

\* Some holders less.
LEMMA HoldMinus ==
    ASSUME NEW pb, Arena(pb), NEW L, NEW H, Own(pb, L, H), NEW G \in SUBSET H, NEW F \in SUBSET G
    PROVE  /\ Hold(pb, G \ F) = Hold(pb, G) \ Hold(pb, F)
           /\ Cardinality(Hold(pb, G \ F)) = Cardinality(Hold(pb, G)) - Cardinality(Hold(pb, F))
<1>1. \A h \in G \ F : Members(pb, h) \cap Hold(pb, F) = {}
  BY HoldFacts
<1>2. Hold(pb, G \ F) = Hold(pb, G) \ Hold(pb, F)
  BY <1>1 DEF Hold
<1>3. IsFiniteSet(Hold(pb, G))
  BY HoldFacts
<1>4. Hold(pb, G) \cap Hold(pb, F) = Hold(pb, F)
  BY DEF Hold
<1>5. Cardinality(Hold(pb, G) \ Hold(pb, F))
      = Cardinality(Hold(pb, G)) - Cardinality(Hold(pb, G) \cap Hold(pb, F))
  BY <1>3, FS_Difference
<1> QED
  BY <1>2, <1>4, <1>5

\* The same chains, the same buffers.
LEMMA HoldSame ==
    ASSUME NEW pb, NEW qb, NEW G, \A h \in G : Members(qb, h) = Members(pb, h)
    PROVE  Hold(qb, G) = Hold(pb, G)
BY DEF Hold

\* The holders D have given up their chains.
FreedAll(pb, L, H, D, qb) ==
    /\ D \subseteq H /\ Arena(qb) /\ Own(qb, L \ Hold(pb, D), H \ D)
    /\ \A b \in Buf : b \notin Hold(pb, D) => qb[b] = pb[b]
    /\ \A b \in Hold(pb, D) : qb[b].ref = 0
    /\ \A g \in H \ D : Members(qb, g) = Members(pb, g)

Distinct(ps) == \A i, j \in 1..Len(ps) : ps[i] = ps[j] => i = j
Firsts(ps, i) == {ps[j] : j \in 1..i}
FreeInv(c, i, r) ==
    /\ r.ps = SubSeq(c.ps, i + 1, Len(c.ps))
    /\ FreedAll(c.pb, c.L, c.H, Firsts(c.ps, i), r.pb)
    /\ r.freed = Cardinality(Hold(c.pb, Firsts(c.ps, i)))
Freeing == INSTANCE LoopProofs WITH Op <- FreeFirst, Inv <- FreeInv

\* The fragments of a datagram are freed.
LEMMA FragmentsFreed ==
    ASSUME NEW pb, Arena(pb), NEW L, NEW H, Own(pb, L, H), NEW ps \in Seq(Buf),
           ToSet(ps) \subseteq H, Distinct(ps)
    PROVE  LET r == FreeFragments(pb, ps)
           IN  /\ FreedAll(pb, L, H, ToSet(ps), r.pb)
               /\ r.freed = Cardinality(Hold(pb, ToSet(ps)))
<1> DEFINE c == [pb |-> pb, L |-> L, H |-> H, ps |-> ps]
           r0 == [pb |-> pb, ps |-> ps, freed |-> 0]
<1>1. c.pb = pb /\ c.L = L /\ c.H = H /\ c.ps = ps /\ r0.pb = pb /\ r0.ps = ps /\ r0.freed = 0
  OBVIOUS
<1>2. FreeFragments(pb, ps) = Iterate(FreeFirst, Len(ps), r0)
  BY DEF FreeFragments
<1> HIDE DEF c, r0
<1>3. Len(ps) \in Nat /\ ToSet(ps) = Firsts(ps, Len(ps)) /\ \A i \in 1..Len(ps) : ps[i] \in H
  BY Elements DEF Firsts, ToSet
<1>4. FreeInv(c, 0, r0)
  <2>1. Firsts(ps, 0) = {} /\ Hold(pb, {}) = {}
    BY DEF Firsts, Hold
  <2>2. SubSeq(ps, 0 + 1, Len(ps)) = ps
    BY SubSeqFull
  <2>3. Cardinality({}) = 0 /\ L \ {} = L /\ H \ {} = H
    BY FS_EmptySet
  <2>4. FreedAll(pb, L, H, {}, pb)
    BY <2>1, <2>3 DEF FreedAll
  <2> QED
    BY <1>1, <2>1, <2>2, <2>3, <2>4 DEF FreeInv
<1>5. ASSUME NEW i \in 0..(Len(ps) - 1), NEW r, FreeInv(c, i, r)
      PROVE  FreeInv(c, i + 1, FreeFirst(r))
  <2> DEFINE D == Firsts(ps, i)
             h == ps[i + 1]
             M == Members(pb, h)
             W == Hold(pb, D)
             qb == pbuf_free(r.pb, h)
             g == FreeFirst(r)
  <2>1. r.ps = SubSeq(ps, i + 1, Len(ps)) /\ FreedAll(pb, L, H, D, r.pb) /\ r.freed = Cardinality(W)
    BY <1>1, <1>5 DEF FreeInv
  <2>2. i + 1 \in 1..Len(ps) /\ Len(ps) \in (i + 1)..Len(ps)
    BY <1>3
  <2>3. Head(r.ps) = h /\ Tail(r.ps) = SubSeq(ps, (i + 1) + 1, Len(ps))
    BY <2>1, <2>2, HeadTailOfSubSeq
  <2>4. D \in SUBSET H /\ h \in H \ D
    BY <1>3, <2>2 DEF Firsts, Distinct
  <2>5. Firsts(ps, i + 1) = D \cup {h}
    <3>1. 1..(i + 1) = 1..i \cup {i + 1}
      OBVIOUS
    <3> QED
      BY <3>1 DEF Firsts
  <2>6. g.pb = qb /\ g.ps = SubSeq(ps, (i + 1) + 1, Len(ps)) /\ g.freed = r.freed + pbuf_clen(r.pb, h)
    BY <2>3 DEF FreeFirst
  <2> HIDE DEF g, D
  <2>7. /\ Arena(r.pb) /\ Own(r.pb, L \ W, H \ D) /\ Members(r.pb, h) = M
        /\ \A b \in Buf : b \notin W => r.pb[b] = pb[b]
        /\ \A b \in W : r.pb[b].ref = 0
        /\ \A f \in H \ D : Members(r.pb, f) = Members(pb, f)
    BY <2>1, <2>4 DEF FreedAll
  <2>8. pbuf_clen(r.pb, h) = Cardinality(M)
    BY <2>4, <2>7, HeadFacts
  <2>9. /\ Hold(pb, D \cup {h}) = W \cup M
        /\ Cardinality(Hold(pb, D \cup {h})) = Cardinality(W) + Cardinality(M)
    BY <2>4, HoldAdd
  <2>10. Freed(r.pb, L \ W, H \ D, h, M, qb)
    BY <2>4, <2>7, FreeHead
  <2> HIDE DEF h, M, W, qb
  <2>11. /\ Arena(qb) /\ (\A b \in M : qb[b].ref = 0) /\ (\A b \in Buf \ M : qb[b] = r.pb[b])
         /\ Own(qb, (L \ W) \ M, (H \ D) \ {h})
         /\ \A f \in (H \ D) \ {h} : Members(qb, f) = Members(r.pb, f)
    BY <2>10 DEF Freed
  <2>12. (L \ W) \ M = L \ (W \cup M) /\ (H \ D) \ {h} = H \ (D \cup {h})
    OBVIOUS
  <2>13. FreedAll(pb, L, H, D \cup {h}, qb)
    <3>1. \A b \in Buf : b \notin W \cup M => qb[b] = pb[b]
      BY <2>7, <2>11
    <3>2. \A b \in W \cup M : qb[b].ref = 0
      <4>1. W \subseteq Buf
        BY DEF Hold, W
      <4> QED
        BY <2>7, <2>11, <4>1
    <3>3. \A f \in H \ (D \cup {h}) : Members(qb, f) = Members(pb, f)
      BY <2>7, <2>11
    <3>4. D \cup {h} \subseteq H
      BY <2>4
    <3>5. Own(qb, L \ (W \cup M), H \ (D \cup {h}))
      BY <2>11, <2>12
    <3> QED
      BY <2>9, <2>11, <3>1, <3>2, <3>3, <3>4, <3>5 DEF FreedAll
  <2> QED
    BY <1>1, <2>1, <2>5, <2>6, <2>8, <2>9, <2>13 DEF FreeInv, g
<1>6. FreeInv(c, Len(ps), Iterate(FreeFirst, Len(ps), r0))
  <2> DEFINE k == Len(ps)
  <2>1. k \in Nat
    BY <1>3
  <2>2. \A i \in 0..(k - 1) : \A r : FreeInv(c, i, r) => FreeInv(c, i + 1, FreeFirst(r))
    BY <1>5
  <2> HIDE DEF k
  <2>3. FreeInv(c, k, Iterate(FreeFirst, k, r0))
    BY <1>4, <2>1, <2>2, Freeing!LoopInvariant DEF Iterate, Freeing!Iterate
  <2> QED
    BY <2>3 DEF k
<1> QED
  BY <1>1, <1>2, <1>3, <1>6 DEF FreeInv

-----------------------------------------------------------------------------
(* The state of IP.  X are the packets a call in progress holds.           *)

PacketFields == {"type", "src", "dst", "id", "off", "end", "of", "proto", "port", "sum"}
IsPacket(d) == DOMAIN d = PacketFields /\ d.of \in Nat

Holding(s, X) == Heads(s.reass) \cup s.up \cup X
CountOK(s) ==
    /\ s.count = Cardinality(Hold(s.pb, Heads(s.reass)))
    /\ s.count \in Nat /\ s.count <= IP_REASS_MAX_PBUFS
    /\ Len(s.reass) \in Nat /\ Len(s.reass) <= MEMP_NUM_REASSDATA
HeldOK(s, X) ==
    /\ Own(s.pb, Loose(s), Holding(s, X))
    /\ Heads(s.reass) \cap s.up = {} /\ X \cap (Heads(s.reass) \cup s.up) = {}
    /\ \A h \in Heads(s.reass) \cup s.up : IsPacket(s.pb[h].data)
IpOK(s, T, X) == ArpOK(s, T) /\ ReassOK(s.reass) /\ HeldOK(s, X) /\ CountOK(s)

\* What no operation of IP changes: the timeouts.
SameTimers(s, m) == m.ts = s.ts /\ m.since = s.since /\ m.pcbs = s.pcbs /\ m.tcp = s.tcp

\* The state differs in nothing that IpOK is about.
LEMMA IpSame ==
    ASSUME NEW s, NEW T, NEW X, IpOK(s, T, X), NEW m,
           DOMAIN m = Fields, m.pb = s.pb, m.arp = s.arp, m.hint = s.hint, SoundWire(m.wire, T),
           m.reass = s.reass, m.count = s.count, m.up = s.up
    PROVE  IpOK(m, T, X)
<1>1. ArpOK(m, T)
  BY DEF ArpOK, IpOK
<1>2. Loose(m) = Loose(s)
  BY DEF Loose, Kept
<1>3. HeldOK(m, X)
  BY <1>2 DEF HeldOK, Holding, IpOK
<1>4. CountOK(m)
  BY DEF CountOK, IpOK
<1> QED
  BY <1>1, <1>3, <1>4 DEF IpOK

\* Something is sent.
LEMMA IpSends ==
    ASSUME NEW s, NEW T, NEW X, IpOK(s, T, X), NEW U, NEW m, SentOnly(s, U, m)
    PROVE  /\ IpOK(m, U, X) /\ SameTimers(s, m) /\ m.hung = s.hung /\ m.up = s.up
           /\ \A h \in Holding(s, X) : m.pb[h].data = s.pb[h].data
           /\ \A h \in Holding(s, X) : Members(m.pb, h) = Members(s.pb, h)
<1>1. /\ ArpOK(m, U) /\ SameRest(s, m) /\ Loose(m) = Loose(s)
      /\ \A i \in Loose(s) : /\ m.pb[i].ref = s.pb[i].ref /\ m.pb[i].next = s.pb[i].next
                             /\ m.pb[i].data = s.pb[i].data
  BY DEF SentOnly
<1>2. Arena(s.pb) /\ Arena(m.pb) /\ Own(s.pb, Loose(s), Holding(s, X))
  BY <1>1 DEF IpOK, ArpOK, HeldOK
<1>3. m.reass = s.reass /\ m.up = s.up /\ m.count = s.count
  BY <1>1 DEF SameRest
<1>4. Own(m.pb, Loose(m), Holding(s, X)) /\ \A h \in Holding(s, X) : Members(m.pb, h) = Members(s.pb, h)
  BY <1>1, <1>2, OwnSame
<1>5. Holding(m, X) = Holding(s, X)
  BY <1>3 DEF Holding
<1>6. \A h \in Holding(s, X) : m.pb[h].data = s.pb[h].data
  BY <1>1, <1>2 DEF Own
<1>7. HeldOK(m, X)
  BY <1>3, <1>4, <1>5, <1>6 DEF HeldOK, IpOK, Holding
<1>8. Hold(m.pb, Heads(s.reass)) = Hold(s.pb, Heads(s.reass))
  BY <1>4, HoldSame DEF Holding
<1>9. CountOK(m)
  BY <1>3, <1>8 DEF CountOK, IpOK
<1>10. ReassOK(m.reass)
  BY <1>3 DEF IpOK
<1> QED
  BY <1>1, <1>3, <1>4, <1>6, <1>7, <1>9, <1>10 DEF IpOK, SameRest, SameTimers

\* New contents of buffers that ARP does not keep.
LEMMA IpBuffers ==
    ASSUME NEW s, NEW T, NEW X, IpOK(s, T, X), NEW m,
           DOMAIN m = Fields, Arena(m.pb), m.arp = s.arp, m.hint = s.hint, m.wire = s.wire,
           \A i \in Kept(s) : m.pb[i] = s.pb[i]
    PROVE  /\ ArpOK(m, T)
           /\ \A i : i \in Loose(m) <=> i \in Buf /\ m.pb[i].ref # 0 /\ i \notin Kept(s)
<1> DEFINE u == [s EXCEPT !.pb = m.pb]
<1>1. ArpOK(s, T)
  BY DEF IpOK
<1>2. Rebuffered(s, T, m.pb, u)
  BY <1>1, LooseChange
<1> HIDE DEF u
<1>3. ArpOK(u, T) /\ u.pb = m.pb /\ u.arp = m.arp /\ u.wire = m.wire
  BY <1>2 DEF Rebuffered
<1>4. ArpOK(m, T)
  BY <1>1, <1>3 DEF ArpOK
<1> QED
  BY <1>4 DEF Loose, Kept

\* A packet of the call is freed.
LEMMA IpFree ==
    ASSUME NEW s, NEW T, NEW X, IpOK(s, T, X), NEW p \in X
    PROVE  LET m == FreeIt(s, p)
           IN  IpOK(m, T, X \ {p}) /\ SameTimers(s, m) /\ m.hung = s.hung
<1> DEFINE m == FreeIt(s, p)
           qb == pbuf_free(s.pb, p)
           M == Members(s.pb, p)
           L == Loose(s)
           H == Holding(s, X)
           R == Heads(s.reass)
<1>1. ArpOK(s, T) /\ Arena(s.pb) /\ DOMAIN s = Fields /\ ReassOK(s.reass)
  BY DEF IpOK, ArpOK
<1>2. /\ Own(s.pb, L, H) /\ R \cap s.up = {} /\ X \cap (R \cup s.up) = {}
      /\ \A h \in R \cup s.up : IsPacket(s.pb[h].data)
  BY DEF IpOK, HeldOK
<1>3. p \in H /\ p \notin R \cup s.up
  BY <1>2 DEF Holding
<1>4. Freed(s.pb, L, H, p, M, qb) /\ M \subseteq L
  BY <1>1, <1>2, <1>3, FreeHead, HeadFacts
<1>5. m = [s EXCEPT !.pb = qb]
  BY DEF FreeIt
<1> HIDE DEF qb, m, M
<1>6. /\ DOMAIN m = Fields /\ m.pb = qb /\ m.arp = s.arp /\ m.hint = s.hint /\ m.wire = s.wire
      /\ m.reass = s.reass /\ m.count = s.count /\ m.up = s.up /\ SameTimers(s, m) /\ m.hung = s.hung
  BY <1>1, <1>5 DEF Fields, SameTimers
<1>7. /\ Arena(qb) /\ (\A i \in M : qb[i].ref = 0) /\ (\A i \in Buf \ M : qb[i] = s.pb[i])
      /\ Own(qb, L \ M, H \ {p}) /\ \A g \in H \ {p} : Members(qb, g) = Members(s.pb, g)
  BY <1>4 DEF Freed
<1>8. ArpOK(m, T) /\ \A i : i \in Loose(m) <=> i \in Buf /\ qb[i].ref # 0 /\ i \notin Kept(s)
  <2>1. \A i \in Kept(s) : qb[i] = s.pb[i]
    BY <1>1, <1>4, <1>7, LooseFacts
  <2> QED
    BY <1>6, <1>7, <2>1, IpBuffers
<1>9. Loose(m) = L \ M
  <2>1. \A i : i \in L <=> i \in Buf /\ s.pb[i].ref # 0 /\ i \notin Kept(s)
    BY <1>1, LooseFacts
  <2> QED
    BY <1>7, <1>8, <2>1
<1>10. Holding(m, X \ {p}) = H \ {p} /\ R \cup s.up \subseteq H \ {p}
  BY <1>3, <1>6 DEF Holding
<1>11. \A h \in R \cup s.up : qb[h] = s.pb[h]
  <2>1. \A h \in H \ {p} : h \in L \ M
    BY <1>7 DEF Own
  <2> QED
    BY <1>2, <1>7, <1>10, <2>1 DEF Own
<1>12. HeldOK(m, X \ {p})
  BY <1>2, <1>6, <1>7, <1>9, <1>10, <1>11 DEF HeldOK
<1>13. Hold(qb, R) = Hold(s.pb, R)
  BY <1>7, <1>10, HoldSame
<1>14. CountOK(m)
  BY <1>6, <1>13 DEF CountOK, IpOK
<1> QED
  BY <1>1, <1>6, <1>8, <1>12, <1>14 DEF IpOK, m

\* A call takes buffers for a packet.
LEMMA IpAlloc ==
    ASSUME NEW s, NEW T, IpOK(s, T, {}), NEW type \in {PBUF_POOL, PBUF_RAM}, NEW k \in Nat \ {0},
           NEW d, Cardinality(FreeIn(s.pb, type)) >= k
    PROVE  LET a == pbuf_alloc(s.pb, type, k, d)
               m == [s EXCEPT !.pb = a.pb]
           IN  /\ a.p # NULL /\ IpOK(m, T, {a.p}) /\ m.pb[a.p].data = d
               /\ SameTimers(s, m) /\ m.hung = s.hung /\ m.wire = s.wire
<1> DEFINE a == pbuf_alloc(s.pb, type, k, d)
           m == [s EXCEPT !.pb = a.pb]
           L == Loose(s)
           H == Holding(s, {})
           R == Heads(s.reass)
<1>1. ArpOK(s, T) /\ Arena(s.pb) /\ DOMAIN s = Fields /\ ReassOK(s.reass)
  BY DEF IpOK, ArpOK
<1>2. /\ Own(s.pb, L, H) /\ R \cap s.up = {}
      /\ \A h \in R \cup s.up : IsPacket(s.pb[h].data)
  BY DEF IpOK, HeldOK
<1>3. ~(Cardinality(FreeIn(s.pb, type)) < k)
  <2>1. type \in SUBSET Buf /\ FreeIn(s.pb, type) \in SUBSET Buf
    BY BufFacts DEF FreeIn
  <2>2. Cardinality(FreeIn(s.pb, type)) \in Nat
    BY <2>1, BufFacts, FS_Subset, FS_CardinalityType
  <2> QED
    BY <2>2
<1>4. \E c : Allocated(s.pb, a, c, d)
  BY <1>1, <1>3, AllocFacts
<1> HIDE DEF a
<1>5. PICK c : Allocated(s.pb, a, c, d)
  BY <1>4
<1>6. /\ c \in SUBSET Buf /\ a.p \in c /\ Arena(a.pb) /\ (\A i \in Buf \ c : a.pb[i] = s.pb[i])
      /\ (\A i \in c : s.pb[i].ref = 0 /\ a.pb[i].ref = 1) /\ a.pb[a.p].data = d
  BY <1>5 DEF Allocated
<1>7. /\ c \cap L = {} /\ a.p \notin H /\ Own(a.pb, L \cup c, H \cup {a.p})
      /\ \A g \in H : Members(a.pb, g) = Members(s.pb, g)
  <2>1. Arena(s.pb) /\ Own(s.pb, L, H)
    BY <1>1, <1>2
  <2> HIDE DEF L, H
  <2>2. Joining(s.pb, L, H, a, c)
    BY <1>5, <2>1, AllocHead
  <2> QED
    BY <2>2 DEF Joining
<1>8. /\ DOMAIN m = Fields /\ m.pb = a.pb /\ m.arp = s.arp /\ m.hint = s.hint /\ m.wire = s.wire
      /\ m.reass = s.reass /\ m.count = s.count /\ m.up = s.up /\ SameTimers(s, m) /\ m.hung = s.hung
  BY <1>1 DEF Fields, SameTimers
<1> HIDE DEF m
<1>9. ArpOK(m, T) /\ \A i : i \in Loose(m) <=> i \in Buf /\ a.pb[i].ref # 0 /\ i \notin Kept(s)
  <2>1. \A i \in Kept(s) : a.pb[i] = s.pb[i]
    BY <1>1, <1>6, LooseFacts
  <2> QED
    BY <1>6, <1>8, <2>1, IpBuffers
<1>10. Loose(m) = L \cup c
  <2>1. \A i : i \in L <=> i \in Buf /\ s.pb[i].ref # 0 /\ i \notin Kept(s)
    BY <1>1, LooseFacts
  <2>2. \A i \in c : i \notin Kept(s)
    BY <1>1, <1>6, LooseFacts
  <2> QED
    BY <1>6, <1>9, <2>1, <2>2
<1>11. Holding(m, {a.p}) = H \cup {a.p} /\ H = R \cup s.up
  BY <1>8 DEF Holding
<1>12. \A h \in R \cup s.up : a.pb[h] = s.pb[h]
  BY <1>2, <1>6, <1>7, <1>11 DEF Own
<1>13. HeldOK(m, {a.p})
  <2>1. Own(m.pb, Loose(m), Holding(m, {a.p}))
    BY <1>7, <1>8, <1>10, <1>11
  <2>2. R \cap s.up = {} /\ {a.p} \cap (R \cup s.up) = {}
    BY <1>2, <1>7, <1>11 DEF HeldOK
  <2>3. \A h \in R \cup s.up : IsPacket(m.pb[h].data)
    BY <1>2, <1>8, <1>12 DEF HeldOK
  <2> HIDE DEF L, H
  <2> QED
    BY <1>8, <2>1, <2>2, <2>3 DEF HeldOK
<1>14. Hold(a.pb, R) = Hold(s.pb, R)
  BY <1>7, <1>11, HoldSame
<1>15. CountOK(m)
  BY <1>8, <1>14 DEF CountOK, IpOK
<1>16. a.p # NULL
  BY <1>6, BufFacts
<1> QED
  BY <1>1, <1>6, <1>8, <1>9, <1>13, <1>15, <1>16 DEF IpOK, m, a

\* The contents of a packet of the call change.
LEMMA IpData ==
    ASSUME NEW s, NEW T, NEW X, IpOK(s, T, X), NEW p \in X, NEW d
    PROVE  LET m == [s EXCEPT !.pb[p].data = d]
           IN  /\ IpOK(m, T, X) /\ SameTimers(s, m) /\ m.hung = s.hung /\ m.up = s.up
               /\ m.pb[p].data = d /\ m.pb[p].ref = 1 /\ p \in Loose(m)
<1> DEFINE m == [s EXCEPT !.pb[p].data = d]
           qb == [s.pb EXCEPT ![p].data = d]
           L == Loose(s)
           H == Holding(s, X)
           R == Heads(s.reass)
<1>1. ArpOK(s, T) /\ Arena(s.pb) /\ DOMAIN s = Fields /\ ReassOK(s.reass)
  BY DEF IpOK, ArpOK
<1>2. /\ Own(s.pb, L, H) /\ R \cap s.up = {} /\ X \cap (R \cup s.up) = {}
      /\ \A h \in R \cup s.up : IsPacket(s.pb[h].data)
  BY DEF IpOK, HeldOK
<1>3. p \in H /\ p \notin R \cup s.up /\ p \in L /\ p \in Buf /\ p \notin Kept(s)
  BY <1>2 DEF Holding, Own, Loose
<1>4. /\ DOMAIN qb = Buf /\ (\A i \in Buf \ {p} : qb[i] = s.pb[i])
      /\ qb[p].ref = s.pb[p].ref /\ qb[p].next = s.pb[p].next /\ qb[p].data = d
      /\ DOMAIN qb[p] = {"ref", "next", "data"}
  BY <1>1, <1>3 DEF Arena
<1>5. /\ DOMAIN m = Fields /\ m.pb = qb /\ m.arp = s.arp /\ m.hint = s.hint /\ m.wire = s.wire
      /\ m.reass = s.reass /\ m.count = s.count /\ m.up = s.up /\ SameTimers(s, m) /\ m.hung = s.hung
  BY <1>1 DEF Fields, SameTimers
<1> HIDE DEF qb, m
<1>6. Arena(qb)
  <2> SUFFICES ASSUME NEW i \in Buf
               PROVE  /\ DOMAIN qb[i] = {"ref", "next", "data"}
                      /\ qb[i].ref \in Nat /\ qb[i].next \in Buf \cup {NULL}
    BY <1>4 DEF Arena
  <2> QED
    BY <1>1, <1>4 DEF Arena
<1>7. ArpOK(m, T) /\ \A i : i \in Loose(m) <=> i \in Buf /\ qb[i].ref # 0 /\ i \notin Kept(s)
  <2>1. \A i \in Kept(s) : qb[i] = s.pb[i]
    BY <1>1, <1>3, <1>4, LooseFacts
  <2> QED
    BY <1>5, <1>6, <2>1, IpBuffers
<1>8. \A i \in Buf : qb[i].ref = s.pb[i].ref /\ qb[i].next = s.pb[i].next
  BY <1>4
<1>9. Loose(m) = L
  <2>1. \A i : i \in L <=> i \in Buf /\ s.pb[i].ref # 0 /\ i \notin Kept(s)
    BY <1>1, LooseFacts
  <2> QED
    BY <1>7, <1>8, <2>1
<1>10. Own(qb, L, H) /\ \A h \in H : Members(qb, h) = Members(s.pb, h)
  <2>1. \A i \in L : qb[i].ref = s.pb[i].ref /\ qb[i].next = s.pb[i].next
    BY <1>2, <1>8 DEF Own
  <2> QED
    BY <1>1, <1>2, <1>6, <2>1, OwnSame
<1>11. Holding(m, X) = H
  BY <1>5 DEF Holding
<1>12. \A h \in R \cup s.up : h \in Buf /\ qb[h] = s.pb[h]
  BY <1>2, <1>3, <1>4 DEF Own, Holding
<1>13. HeldOK(m, X)
  BY <1>2, <1>5, <1>9, <1>10, <1>11, <1>12 DEF HeldOK
<1>14. Hold(qb, R) = Hold(s.pb, R)
  BY <1>10, HoldSame DEF Holding
<1>15. CountOK(m)
  BY <1>5, <1>14 DEF CountOK, IpOK
<1>16. qb[p].ref = 1
  BY <1>2, <1>3, <1>4 DEF Own
<1> QED
  BY <1>1, <1>3, <1>4, <1>5, <1>7, <1>9, <1>13, <1>15, <1>16 DEF IpOK, m

\* The application is handed a packet of the call, or hands one over.
LEMMA IpUp ==
    ASSUME NEW s, NEW T, NEW p, IpOK(s, T, {p}), IsPacket(s.pb[p].data)
    PROVE  LET m == [s EXCEPT !.up = @ \cup {p}]
           IN  IpOK(m, T, {}) /\ SameTimers(s, m) /\ m.hung = s.hung
<1> DEFINE m == [s EXCEPT !.up = @ \cup {p}]
           R == Heads(s.reass)
<1>1. ArpOK(s, T) /\ DOMAIN s = Fields /\ ReassOK(s.reass)
  BY DEF IpOK, ArpOK
<1>2. /\ Own(s.pb, Loose(s), Holding(s, {p})) /\ R \cap s.up = {} /\ {p} \cap (R \cup s.up) = {}
      /\ \A h \in R \cup s.up : IsPacket(s.pb[h].data)
  BY DEF IpOK, HeldOK
<1>3. /\ DOMAIN m = Fields /\ m.pb = s.pb /\ m.arp = s.arp /\ m.hint = s.hint /\ m.wire = s.wire
      /\ m.reass = s.reass /\ m.count = s.count /\ m.up = s.up \cup {p}
      /\ SameTimers(s, m) /\ m.hung = s.hung
  BY <1>1 DEF Fields, SameTimers
<1> HIDE DEF m
<1>4. ArpOK(m, T)
  BY <1>1, <1>3 DEF ArpOK
<1>5. Loose(m) = Loose(s)
  BY <1>3 DEF Loose, Kept
<1>6. Holding(m, {}) = Holding(s, {p})
  BY <1>3 DEF Holding
<1>7. HeldOK(m, {})
  BY <1>2, <1>3, <1>5, <1>6 DEF HeldOK
<1>8. CountOK(m)
  BY <1>3 DEF CountOK, IpOK
<1> QED
  BY <1>1, <1>3, <1>4, <1>7, <1>8 DEF IpOK, m

\* The application is through with a datagram: the call goes on with it.
LEMMA IpDown ==
    ASSUME NEW s, NEW T, IpOK(s, T, {}), NEW p \in s.up
    PROVE  LET m == [s EXCEPT !.up = @ \ {p}]
           IN  IpOK(m, T, {p}) /\ SameTimers(s, m) /\ m.hung = s.hung
<1> DEFINE m == [s EXCEPT !.up = @ \ {p}]
           R == Heads(s.reass)
<1>1. ArpOK(s, T) /\ DOMAIN s = Fields /\ ReassOK(s.reass)
  BY DEF IpOK, ArpOK
<1>2. /\ Own(s.pb, Loose(s), Holding(s, {})) /\ R \cap s.up = {}
      /\ \A h \in R \cup s.up : IsPacket(s.pb[h].data)
  BY DEF IpOK, HeldOK
<1>3. /\ DOMAIN m = Fields /\ m.pb = s.pb /\ m.arp = s.arp /\ m.hint = s.hint /\ m.wire = s.wire
      /\ m.reass = s.reass /\ m.count = s.count /\ m.up = s.up \ {p}
      /\ SameTimers(s, m) /\ m.hung = s.hung
  BY <1>1 DEF Fields, SameTimers
<1> HIDE DEF m
<1>4. ArpOK(m, T)
  BY <1>1, <1>3 DEF ArpOK
<1>5. Loose(m) = Loose(s)
  BY <1>3 DEF Loose, Kept
<1>6. Holding(m, {p}) = Holding(s, {})
  BY <1>3 DEF Holding
<1>7. HeldOK(m, {p})
  BY <1>2, <1>3, <1>5, <1>6 DEF HeldOK
<1>8. CountOK(m)
  BY <1>3 DEF CountOK, IpOK
<1> QED
  BY <1>1, <1>3, <1>4, <1>7, <1>8 DEF IpOK, m

-----------------------------------------------------------------------------
(* Datagrams are given up.                                                 *)

\* Some datagrams went; the packets X of the call are as they were.
LetGo(s, T, X, m) ==
    /\ IpOK(m, T, X) /\ SameTimers(s, m) /\ m.up = s.up /\ (s.hung => m.hung)
    /\ m.count <= s.count
    /\ \A h \in X : m.pb[h].data = s.pb[h].data /\ Members(m.pb, h) = Members(s.pb, h)

\* Nothing is let go.
LEMMA LetGoSelf ==
    ASSUME NEW s, NEW T, NEW X, IpOK(s, T, X) PROVE LetGo(s, T, X, s)
<1>1. s.count \in Nat /\ Len(s.reass) \in Nat
  BY DEF IpOK, CountOK
<1> QED
  BY <1>1 DEF LetGo, SameTimers

\* Datagrams are let go twice.
LEMMA LetGoThen ==
    ASSUME NEW s, NEW T, NEW X, IpOK(s, T, X), NEW m, NEW u, LetGo(s, T, X, m), LetGo(m, T, X, u)
    PROVE  LetGo(s, T, X, u)
<1>1. s.count \in Nat /\ m.count \in Nat /\ u.count \in Nat
  BY DEF LetGo, IpOK, CountOK
<1>2. m.count <= s.count /\ u.count <= m.count
  BY DEF LetGo
<1>3. u.count <= s.count
  BY <1>1, <1>2
<1>4. SameTimers(s, u)
  BY DEF LetGo, SameTimers
<1> QED
  BY <1>3, <1>4 DEF LetGo

\* Something was sent.
LEMMA LetGoSends ==
    ASSUME NEW s, NEW T, NEW X, IpOK(s, T, X), NEW m, SentOnly(s, T, m)
    PROVE  LetGo(s, T, X, m) /\ m.reass = s.reass
<1>1. /\ IpOK(m, T, X) /\ SameTimers(s, m) /\ m.hung = s.hung /\ m.up = s.up
      /\ \A h \in Holding(s, X) : m.pb[h].data = s.pb[h].data
      /\ \A h \in Holding(s, X) : Members(m.pb, h) = Members(s.pb, h)
  BY IpSends
<1>2. m.count = s.count /\ m.reass = s.reass /\ s.count \in Nat /\ Len(s.reass) \in Nat
  BY DEF SentOnly, SameRest, IpOK, CountOK
<1>3. X \subseteq Holding(s, X)
  BY DEF Holding
<1> QED
  BY <1>1, <1>2, <1>3 DEF LetGo

\* The buffers of datagram k go.
LEMMA Discarded ==
    ASSUME NEW s, NEW T, NEW X, IpOK(s, T, X), NEW k \in 1..Len(s.reass)
    PROVE  LET d == Discard(s, k, FreeFragments(s.pb, s.reass[k].p))
           IN  /\ LetGo(s, T, X, d.n) /\ d.freed \in Nat /\ d.n.hung = s.hung
               /\ Len(d.n.reass) = Len(s.reass) - 1
<1> DEFINE ps == s.reass[k].p
           f == FreeFragments(s.pb, ps)
           d == Discard(s, k, f)
           q == RemoveAt(s.reass, k)
           m == [s EXCEPT !.reass = q, !.pb = f.pb, !.count = @ - f.freed]
           L == Loose(s)
           H == Holding(s, X)
           R == Heads(s.reass)
           D == ToSet(ps)
           W == Hold(s.pb, D)
<1>1. ArpOK(s, T) /\ Arena(s.pb) /\ DOMAIN s = Fields /\ ReassOK(s.reass)
  BY DEF IpOK, ArpOK
<1>2. /\ Own(s.pb, L, H) /\ R \cap s.up = {} /\ X \cap (R \cup s.up) = {}
      /\ \A h \in R \cup s.up : IsPacket(s.pb[h].data)
  BY DEF IpOK, HeldOK
<1>3. /\ ReassOK(q) /\ Len(q) = Len(s.reass) - 1 /\ Len(q) \in Nat
      /\ Heads(q) = R \ D /\ D \subseteq R
  BY <1>1, ListRemove
<1>4. ps \in Seq(Buf) /\ Distinct(ps)
  BY <1>1 DEF ReassOK, SoundRec, Apart, Distinct
<1>5. R \subseteq H /\ s.up \subseteq H /\ X \subseteq H /\ D \subseteq H
  BY <1>3 DEF Holding
<1>6. FreedAll(s.pb, L, H, D, f.pb) /\ f.freed = Cardinality(W)
  BY <1>1, <1>2, <1>4, <1>5, FragmentsFreed
<1>7. d.n = m /\ d.freed = f.freed
  BY DEF Discard, ip_reass_dequeue_datagram
<1> HIDE DEF f, q
<1>8. /\ DOMAIN m = Fields /\ m.pb = f.pb /\ m.arp = s.arp /\ m.hint = s.hint /\ m.wire = s.wire
      /\ m.reass = q /\ m.count = s.count - f.freed /\ m.up = s.up /\ SameTimers(s, m)
      /\ m.hung = s.hung
  BY <1>1 DEF Fields, SameTimers
<1> HIDE DEF m, d, D
<1>9. /\ Arena(f.pb) /\ Own(f.pb, L \ W, H \ D)
      /\ (\A b \in Buf : b \notin W => f.pb[b] = s.pb[b]) /\ (\A b \in W : f.pb[b].ref = 0)
      /\ \A g \in H \ D : Members(f.pb, g) = Members(s.pb, g)
  BY <1>6 DEF FreedAll
<1>10. W \subseteq L /\ W \subseteq Buf /\ Cardinality(W) \in Nat
  <2>1. D \in SUBSET H
    BY <1>5
  <2>2. Hold(s.pb, D) \subseteq L /\ Cardinality(Hold(s.pb, D)) \in Nat
    BY <1>1, <1>2, <2>1, HoldFacts
  <2>3. L \subseteq Buf
    BY <1>2 DEF Own
  <2> QED
    BY <2>2, <2>3
<1> HIDE DEF W
<1>11. ArpOK(m, T) /\ \A i : i \in Loose(m) <=> i \in Buf /\ f.pb[i].ref # 0 /\ i \notin Kept(s)
  <2>1. \A i \in Kept(s) : f.pb[i] = s.pb[i]
    BY <1>1, <1>9, <1>10, LooseFacts
  <2> QED
    BY <1>8, <1>9, <2>1, IpBuffers
<1>12. Loose(m) = L \ W
  <2>1. \A i : i \in L <=> i \in Buf /\ s.pb[i].ref # 0 /\ i \notin Kept(s)
    BY <1>1, LooseFacts
  <2> QED
    BY <1>9, <1>10, <1>11, <2>1
<1>13. Holding(m, X) = H \ D
  BY <1>2, <1>3, <1>8 DEF Holding
<1>14. \A h \in H \ D : f.pb[h] = s.pb[h]
  BY <1>2, <1>9 DEF Own
<1>15. HeldOK(m, X)
  <2>1. \A h \in (R \ D) \cup s.up : h \in H \ D
    BY <1>2, <1>3, <1>5
  <2>2. \A h \in (R \ D) \cup s.up : IsPacket(f.pb[h].data)
    BY <1>2, <1>14, <2>1
  <2> QED
    BY <1>2, <1>3, <1>8, <1>9, <1>12, <1>13, <2>2 DEF HeldOK
<1>16. s.count = Cardinality(Hold(s.pb, R)) /\ s.count \in Nat /\ s.count <= IP_REASS_MAX_PBUFS
       /\ Len(s.reass) \in Nat /\ Len(s.reass) <= MEMP_NUM_REASSDATA
  BY DEF IpOK, CountOK
<1>17. Cardinality(Hold(f.pb, R \ D)) = s.count - f.freed /\ Cardinality(Hold(f.pb, R \ D)) \in Nat
  <2>1. Hold(f.pb, R \ D) = Hold(s.pb, R \ D)
    BY <1>5, <1>9, HoldSame
  <2>2. Cardinality(Hold(s.pb, R \ D)) = Cardinality(Hold(s.pb, R)) - Cardinality(Hold(s.pb, D))
    BY <1>1, <1>2, <1>3, <1>5, HoldMinus
  <2>3. R \ D \subseteq H
    BY <1>5
  <2>4. Cardinality(Hold(s.pb, R \ D)) \in Nat
    BY <1>1, <1>2, <2>3, HoldFacts
  <2> QED
    BY <1>6, <1>16, <2>1, <2>2, <2>4 DEF W
<1>18. m.count \in Nat /\ m.count <= s.count /\ m.count <= IP_REASS_MAX_PBUFS
       /\ m.count = Cardinality(Hold(m.pb, Heads(m.reass)))
  <2>1. f.freed \in Nat /\ m.count = s.count - f.freed /\ s.count - f.freed \in Nat
    BY <1>6, <1>8, <1>10, <1>17
  <2>2. m.count \in Nat /\ m.count <= s.count /\ m.count <= IP_REASS_MAX_PBUFS
    BY <1>16, <2>1, IpAssumption
  <2>3. m.pb = f.pb /\ Heads(m.reass) = R \ D
    BY <1>3, <1>8
  <2> QED
    BY <1>17, <2>1, <2>2, <2>3
<1>19. Len(m.reass) \in Nat /\ Len(m.reass) <= Len(s.reass) /\ Len(m.reass) <= MEMP_NUM_REASSDATA
       /\ Len(m.reass) = Len(s.reass) - 1
  BY <1>3, <1>8, <1>16, IpAssumption
<1>20. IpOK(m, T, X)
  BY <1>3, <1>8, <1>11, <1>15, <1>18, <1>19 DEF IpOK, CountOK
<1>21. \A h \in X : m.pb[h].data = s.pb[h].data /\ Members(m.pb, h) = Members(s.pb, h)
  BY <1>2, <1>3, <1>5, <1>8, <1>9, <1>14
<1>22. LetGo(s, T, X, m)
  BY <1>8, <1>18, <1>19, <1>20, <1>21 DEF LetGo
<1> QED
  BY <1>6, <1>7, <1>8, <1>10, <1>19, <1>22 DEF d, f

\* Datagram k is given up.
LEMMA GivenUp ==
    ASSUME NEW s, NEW T, NEW X, IpOK(s, T, X), NEW k \in 1..Len(s.reass)
    PROVE  LET d == GiveUp(s, k)
           IN  /\ LetGo(s, T, X, d.n) /\ d.freed \in Nat /\ d.n.hung = s.hung
               /\ Len(d.n.reass) = Len(s.reass) - 1
<1> DEFINE u == TimeExceeded(s, k)
           d == GiveUp(s, k)
<1>1. SentOnly(s, T, u)
  <2>1. ArpOK(s, T)
    BY DEF IpOK
  <2>2. u = s \/ u = icmp_send_response(s, s.reass[k].src)
    BY DEF TimeExceeded
  <2>3. ArpStep(s, T, s)
    BY <2>1, FramedSelf DEF ArpStep
  <2>4. ArpStep(s, T, icmp_send_response(s, s.reass[k].src))
    BY <2>1, ErrorSent
  <2> QED
    BY <2>2, <2>3, <2>4, StepSends
<1>2. d = Discard(u, k, FreeFragments(u.pb, s.reass[k].p))
  BY DEF GiveUp
<1> HIDE DEF u, d
<1>3. LetGo(s, T, X, u) /\ u.reass = s.reass /\ u.hung = s.hung
  BY <1>1, LetGoSends DEF SentOnly, SameRest
<1>4. IpOK(u, T, X)
  BY <1>3 DEF LetGo
<1>5. /\ LetGo(u, T, X, d.n) /\ d.freed \in Nat /\ d.n.hung = u.hung
      /\ Len(d.n.reass) = Len(u.reass) - 1
  <2>1. k \in 1..Len(u.reass) /\ d = Discard(u, k, FreeFragments(u.pb, u.reass[k].p))
    BY <1>2, <1>3
  <2> QED
    BY <1>4, <2>1, Discarded
<1>6. LetGo(s, T, X, d.n)
  BY <1>3, <1>5, LetGoThen
<1> QED
  BY <1>3, <1>5, <1>6 DEF d

-----------------------------------------------------------------------------
(* Reassembly.                                                             *)

\* One element of the list is another.
Replaced(q, k, e, r) ==
    IsSeq(r) /\ Len(r) = Len(q) /\ r[k] = e /\ \A j \in 1..Len(q) : j # k => r[j] = q[j]
\* An element is replaced.
LEMMA ListExcept ==
    ASSUME NEW q, IsSeq(q), NEW k \in 1..Len(q), NEW e
    PROVE  Replaced(q, k, e, [q EXCEPT ![k] = e])
<1>1. PICK S : q \in Seq(S)
  BY DEF IsSeq
<1>2. [q EXCEPT ![k] = e] \in Seq(S \cup {e})
  BY <1>1
<1> QED
  BY <1>1, <1>2 DEF IsSeq, Replaced

\* The datagrams of the list keep their fragments.
LEMMA LetGoList ==
    ASSUME NEW s, NEW T, NEW X, IpOK(s, T, X), NEW m,
           DOMAIN m = Fields, m.pb = s.pb, m.arp = s.arp, m.hint = s.hint, m.wire = s.wire,
           IsSeq(m.reass), Len(m.reass) = Len(s.reass),
           \A j \in 1..Len(s.reass) : SoundRec(m.reass[j]) /\ m.reass[j].p = s.reass[j].p,
           m.count = s.count, m.up = s.up, SameTimers(s, m), s.hung => m.hung
    PROVE  LetGo(s, T, X, m)
<1>1. ReassOK(s.reass)
  BY DEF IpOK
<1>2. ReassOK(m.reass) /\ Heads(m.reass) = Heads(s.reass)
  BY <1>1, ListSame
<1>3. ArpOK(m, T)
  BY DEF IpOK, ArpOK
<1>4. Loose(m) = Loose(s) /\ Holding(m, X) = Holding(s, X)
  BY <1>2 DEF Loose, Kept, Holding
<1>5. HeldOK(m, X)
  BY <1>2, <1>4 DEF HeldOK, IpOK
<1>6. CountOK(m) /\ s.count \in Nat /\ Len(s.reass) \in Nat
  BY <1>2 DEF CountOK, IpOK
<1>7. IpOK(m, T, X)
  BY <1>2, <1>3, <1>5, <1>6 DEF IpOK
<1> QED
  BY <1>6, <1>7 DEF LetGo

\* The timer of datagram k goes down.
LEMMA TimerDown ==
    ASSUME NEW s, NEW T, NEW X, IpOK(s, T, X), NEW k \in 1..Len(s.reass), s.reass[k].timer > 0
    PROVE  LET m == [s EXCEPT !.reass[k].timer = @ - 1]
           IN  LetGo(s, T, X, m) /\ Len(m.reass) = Len(s.reass)
<1> DEFINE e == [s.reass[k] EXCEPT !.timer = s.reass[k].timer - 1]
           q == [s.reass EXCEPT ![k] = e]
           m == [s EXCEPT !.reass[k].timer = @ - 1]
<1>1. ReassOK(s.reass) /\ DOMAIN s = Fields
  BY DEF IpOK, ArpOK
<1>2. IsSeq(s.reass) /\ SoundRec(s.reass[k]) /\ \A j \in 1..Len(s.reass) : SoundRec(s.reass[j])
  BY <1>1 DEF ReassOK
<1>3. SoundRec(e) /\ e.p = s.reass[k].p
  BY <1>2 DEF SoundRec, RecFields
<1>4. /\ DOMAIN m = Fields /\ m.pb = s.pb /\ m.arp = s.arp /\ m.hint = s.hint /\ m.wire = s.wire
      /\ m.reass = q /\ m.count = s.count /\ m.up = s.up /\ SameTimers(s, m) /\ m.hung = s.hung
  BY <1>1 DEF Fields, SameTimers
<1> HIDE DEF e, m
<1>5. Replaced(s.reass, k, e, q)
  BY <1>2, ListExcept
<1> HIDE DEF q
<1> USE DEF Replaced
<1>6. \A j \in 1..Len(s.reass) : SoundRec(q[j]) /\ q[j].p = s.reass[j].p
  BY <1>2, <1>3, <1>5
<1>7. LetGo(s, T, X, m)
  BY <1>4, <1>5, <1>6, LetGoList
<1> QED
  BY <1>4, <1>5, <1>7 DEF m

TimerInv(c, i, r) ==
    /\ LetGo(c.s, c.T, c.X, r.n) /\ r.k \in Nat /\ r.k >= 1
    /\ Len(r.n.reass) - r.k = Len(c.s.reass) - 1 - i
Timing == INSTANCE LoopProofs WITH Op <- AgeDatagram, Inv <- TimerInv

\* The timer of reassembly lets datagrams go.
LEMMA ReassTimer ==
    ASSUME NEW s, NEW T, NEW X, IpOK(s, T, X)
    PROVE  LetGo(s, T, X, ip_reass_tmr(s))
<1> DEFINE c == [s |-> s, T |-> T, X |-> X]
           r0 == [n |-> s, k |-> 1]
           N == Len(s.reass)
<1>1. c.s = s /\ c.T = T /\ c.X = X /\ r0.n = s /\ r0.k = 1
  OBVIOUS
<1>2. ip_reass_tmr(s) = Iterate(AgeDatagram, N, r0).n
  BY DEF ip_reass_tmr
<1> HIDE DEF c, r0
<1>3. N \in Nat
  BY DEF IpOK, CountOK
<1>4. TimerInv(c, 0, r0)
  <2>1. LetGo(s, T, X, s)
    BY LetGoSelf
  <2> QED
    BY <1>1, <1>3, <2>1 DEF TimerInv
<1>5. ASSUME NEW i \in 0..(N - 1), NEW r, TimerInv(c, i, r)
      PROVE  TimerInv(c, i + 1, AgeDatagram(r))
  <2> DEFINE g == AgeDatagram(r)
             l == Len(r.n.reass)
  <2>1. LetGo(s, T, X, r.n) /\ r.k \in Nat /\ r.k >= 1 /\ l - r.k = N - 1 - i
    BY <1>1, <1>5 DEF TimerInv
  <2>2. IpOK(r.n, T, X)
    BY <2>1 DEF LetGo
  <2>3. l \in Nat
    BY <2>2 DEF IpOK, CountOK
  <2>4. r.k \in 1..Len(r.n.reass)
    <3> HIDE DEF l
    <3>1. r.k \in 1..l
      BY <1>3, <2>1, <2>3
    <3> QED
      BY <3>1 DEF l
  <2>5. CASE r.n.reass[r.k].timer > 0
    <3> DEFINE u == [r.n EXCEPT !.reass[r.k].timer = @ - 1]
    <3>1. g.n = u /\ g.k = r.k + 1
      BY <2>5 DEF AgeDatagram
    <3>2. LetGo(r.n, T, X, u) /\ Len(u.reass) = l
      BY <2>2, <2>4, <2>5, TimerDown
    <3> HIDE DEF u, g, l
    <3>3. LetGo(s, T, X, u)
      BY <2>1, <3>2, LetGoThen
    <3>4. l - (r.k + 1) = N - 1 - (i + 1)
      BY <1>3, <2>1, <2>3
    <3> QED
      BY <1>1, <2>1, <3>1, <3>2, <3>3, <3>4 DEF TimerInv, g
  <2>6. CASE ~(r.n.reass[r.k].timer > 0)
    <3> DEFINE d == GiveUp(r.n, r.k)
    <3>1. g.n = ip_reass_free_complete_datagram(r.n, r.k, r.k - 1).n /\ g.k = r.k
      BY <2>6 DEF AgeDatagram
    <3>2. ~(r.k - 1 = r.k \/ (r.k - 1 # 0 /\ (r.k - 1) + 1 # r.k))
      BY <2>1
    <3>3. ip_reass_free_complete_datagram(r.n, r.k, r.k - 1) = d
      BY <3>2 DEF ip_reass_free_complete_datagram
    <3>4. LetGo(r.n, T, X, d.n) /\ Len(d.n.reass) = l - 1
      BY <2>2, <2>4, GivenUp
    <3> HIDE DEF d, g, l
    <3>5. LetGo(s, T, X, d.n)
      BY <2>1, <3>4, LetGoThen
    <3>6. (l - 1) - r.k = N - 1 - (i + 1)
      BY <1>3, <2>1, <2>3
    <3> QED
      BY <1>1, <2>1, <3>1, <3>3, <3>4, <3>5, <3>6 DEF TimerInv, g
  <2> QED
    BY <2>5, <2>6
<1> HIDE DEF N
<1>6. \A i \in 0..(N - 1) : \A r : TimerInv(c, i, r) => TimerInv(c, i + 1, AgeDatagram(r))
  BY <1>5
<1>7. TimerInv(c, N, Iterate(AgeDatagram, N, r0))
  BY <1>3, <1>4, <1>6, Timing!LoopInvariant DEF Iterate, Timing!Iterate
<1> QED
  BY <1>1, <1>2, <1>7 DEF TimerInv

-----------------------------------------------------------------------------
(* Room is made.                                                           *)

\* A failed assertion changes nothing else.
LEMMA Hangs ==
    ASSUME NEW s, NEW T, NEW X, IpOK(s, T, X)
    PROVE  LetGo(s, T, X, [s EXCEPT !.hung = TRUE])
<1> DEFINE m == [s EXCEPT !.hung = TRUE]
<1>1. DOMAIN s = Fields /\ s.count \in Nat /\ SoundWire(s.wire, T)
  BY DEF IpOK, ArpOK, CountOK
<1>2. /\ DOMAIN m = Fields /\ m.pb = s.pb /\ m.arp = s.arp /\ m.hint = s.hint /\ m.wire = s.wire
      /\ m.reass = s.reass /\ m.count = s.count /\ m.up = s.up /\ SameTimers(s, m) /\ m.hung
  BY <1>1 DEF Fields, SameTimers
<1> HIDE DEF m
<1>3. IpOK(m, T, X)
  BY <1>1, <1>2, IpSame
<1>4. LetGo(s, T, X, m)
  BY <1>1, <1>2, <1>3 DEF LetGo
<1> QED
  BY <1>4 DEF m

\* ip_reass_free_complete_datagram, whichever predecessor it is told.
LEMMA FreedComplete ==
    ASSUME NEW s, NEW T, NEW X, IpOK(s, T, X), NEW k \in 1..Len(s.reass), NEW prev
    PROVE  LET d == ip_reass_free_complete_datagram(s, k, prev)
           IN  LetGo(s, T, X, d.n) /\ d.freed \in Nat
<1>1. CASE prev = k \/ (prev # 0 /\ prev + 1 # k)
  <2>1. LetGo(s, T, X, [s EXCEPT !.hung = TRUE])
    BY Hangs
  <2> QED
    BY <1>1, <2>1 DEF ip_reass_free_complete_datagram
<1>2. CASE ~(prev = k \/ (prev # 0 /\ prev + 1 # k))
  <2>1. LetGo(s, T, X, GiveUp(s, k).n) /\ GiveUp(s, k).freed \in Nat
    BY GivenUp
  <2> QED
    BY <1>2, <2>1 DEF ip_reass_free_complete_datagram
<1> QED
  BY <1>1, <1>2

\* There is an oldest datagram if there is another one.
LEMMA OldestIndex ==
    ASSUME NEW s, NEW T, NEW X, IpOK(s, T, X), NEW f, Others(s, f) # {}
    PROVE  OldestOther(s, f) \in 1..Len(s.reass)
<1> DEFINE S == Others(s, f)
           V == {s.reass[k].timer : k \in S}
           O == {k \in S : \A j \in S : s.reass[k].timer <= s.reass[j].timer}
<1>1. Len(s.reass) \in Nat /\ DOMAIN s.reass = 1..Len(s.reass)
      /\ \A k \in 1..Len(s.reass) : s.reass[k].timer \in Nat
  BY DEF IpOK, ReassOK, IsSeq, SoundRec
<1>2. S \subseteq 1..Len(s.reass) /\ S # {}
  BY <1>1 DEF Others
<1> HIDE DEF S
<1>3. V \in SUBSET Nat /\ V # {}
  BY <1>1, <1>2
<1>4. PICK t \in V : \A v \in V : t <= v
  BY <1>3, LeastIsMin
<1>5. PICK k \in S : s.reass[k].timer = t
  OBVIOUS
<1>6. k \in O
  BY <1>4, <1>5
<1>7. O \in SUBSET Nat /\ O # {} /\ \A i \in O : i <= Len(s.reass)
  <2>1. O \subseteq S
    OBVIOUS
  <2> HIDE DEF O
  <2>2. \A i \in S : i \in Nat /\ i <= Len(s.reass)
    BY <1>1, <1>2
  <2> QED
    BY <1>6, <2>1, <2>2
<1> HIDE DEF O, V
<1>8. Max(O) \in O
  BY <1>1, <1>7, GreatestIsMax
<1>9. Max(O) \in 1..Len(s.reass)
  BY <1>2, <1>8 DEF O
<1> QED
  BY <1>9 DEF OldestOther, O, S

RemoveInv(c, i, r) ==
    /\ LetGo(c.s, c.T, c.X, r.n) /\ r.freed \in Nat
    /\ DOMAIN r = {"n", "f", "need", "freed", "done"}
Removing == INSTANCE LoopProofs WITH Op <- RemoveOne, Inv <- RemoveInv

\* ip_reass_remove_oldest_datagram.
LEMMA OldestRemoved ==
    ASSUME NEW s, NEW T, NEW X, IpOK(s, T, X), NEW f, NEW need \in Nat
    PROVE  LetGo(s, T, X, ip_reass_remove_oldest_datagram(s, f, need).n)
<1> DEFINE c == [s |-> s, T |-> T, X |-> X]
           r0 == [n |-> s, f |-> f, need |-> need, freed |-> 0, done |-> FALSE]
<1>1. /\ c.s = s /\ c.T = T /\ c.X = X /\ r0.n = s /\ r0.freed = 0
      /\ DOMAIN r0 = {"n", "f", "need", "freed", "done"}
  OBVIOUS
<1>2. ip_reass_remove_oldest_datagram(s, f, need) = Iterate(RemoveOne, need, r0)
  BY DEF ip_reass_remove_oldest_datagram
<1> HIDE DEF c, r0
<1>3. RemoveInv(c, 0, r0)
  <2>1. LetGo(s, T, X, s)
    BY LetGoSelf
  <2> QED
    BY <1>1, <2>1 DEF RemoveInv
<1>4. ASSUME NEW i \in 0..(need - 1), NEW r, RemoveInv(c, i, r)
      PROVE  RemoveInv(c, i + 1, RemoveOne(r))
  <2>1. /\ LetGo(s, T, X, r.n) /\ r.freed \in Nat
        /\ DOMAIN r = {"n", "f", "need", "freed", "done"}
    BY <1>1, <1>4 DEF RemoveInv
  <2>2. IpOK(r.n, T, X)
    BY <2>1 DEF LetGo
  <2>3. CASE r.done \/ r.n.hung \/ Others(r.n, r.f) = {}
    <3> DEFINE g == [r EXCEPT !.done = TRUE]
    <3>1. RemoveOne(r) = g
      BY <2>3 DEF RemoveOne
    <3>2. g.n = r.n /\ g.freed = r.freed /\ DOMAIN g = {"n", "f", "need", "freed", "done"}
      BY <2>1
    <3> QED
      BY <1>1, <2>1, <3>1, <3>2 DEF RemoveInv
  <2>4. CASE ~(r.done \/ r.n.hung \/ Others(r.n, r.f) = {})
    <3> DEFINE k == OldestOther(r.n, r.f)
               d == ip_reass_free_complete_datagram(r.n, k, Len(r.n.reass) - 1)
               g == Removed(r, d)
    <3>1. RemoveOne(r) = g
      BY <2>4 DEF RemoveOne
    <3>2. k \in 1..Len(r.n.reass)
      BY <2>2, <2>4, OldestIndex
    <3> HIDE DEF k
    <3>3. LetGo(r.n, T, X, d.n) /\ d.freed \in Nat
      BY <2>2, <3>2, FreedComplete
    <3> HIDE DEF d
    <3>4. g.n = d.n /\ g.freed = r.freed + d.freed /\ DOMAIN g = {"n", "f", "need", "freed", "done"}
      BY <2>1 DEF Removed
    <3>5. LetGo(s, T, X, d.n)
      BY <2>1, <3>3, LetGoThen
    <3> QED
      BY <1>1, <2>1, <3>1, <3>3, <3>4, <3>5 DEF RemoveInv
  <2> QED
    BY <2>3, <2>4
<1>5. \A i \in 0..(need - 1) : \A r : RemoveInv(c, i, r) => RemoveInv(c, i + 1, RemoveOne(r))
  BY <1>4
<1>6. RemoveInv(c, need, Iterate(RemoveOne, need, r0))
  BY <1>3, <1>5, Removing!LoopInvariant DEF Iterate, Removing!Iterate
<1> QED
  BY <1>1, <1>2, <1>6 DEF RemoveInv

\* After MakeRoom the new buffers fit, or it says so.
LEMMA RoomMade ==
    ASSUME NEW s, NEW T, NEW X, IpOK(s, T, X), NEW f, NEW clen \in Nat
    PROVE  LET r == MakeRoom(s, f, clen)
           IN  LetGo(s, T, X, r.n) /\ (r.ok => r.n.count + clen <= IP_REASS_MAX_PBUFS)
<1>1. LetGo(s, T, X, s)
  BY LetGoSelf
<1>2. LetGo(s, T, X, ip_reass_remove_oldest_datagram(s, f, clen).n)
  BY OldestRemoved
<1> QED
  BY <1>1, <1>2 DEF MakeRoom, RoomAfter

\* The datagram of the fragment is in the list.
FoundIn(s, T, X, f, r) == LetGo(s, T, X, r.n) /\ (r.ok => Known(r.n, f))

\* A new datagram is entered.
LEMMA EnterOne ==
    ASSUME NEW s, NEW T, NEW X, IpOK(s, T, X), NEW f, Len(s.reass) < MEMP_NUM_REASSDATA
    PROVE  FoundIn(s, T, X, f, Entered(s, f))
<1> DEFINE e == Fresh(f)
           q == <<e>> \o s.reass
           m == [s EXCEPT !.reass = q]
<1>1. ReassOK(s.reass) /\ DOMAIN s = Fields /\ ArpOK(s, T) /\ HeldOK(s, X)
  BY DEF IpOK, ArpOK
<1>2. SoundRec(e) /\ e.p = <<>> /\ SameDatagram(e, f)
  BY IpAssumption DEF Fresh, SoundRec, RecFields, SameDatagram
<1>3. Entered(s, f).n = m
  BY DEF Entered
<1> HIDE DEF e
<1>4. ReassOK(q) /\ Heads(q) = Heads(s.reass) /\ Len(q) = Len(s.reass) + 1 /\ q[1] = e
  BY <1>1, <1>2, ListEnter
<1> HIDE DEF q
<1>5. /\ DOMAIN m = Fields /\ m.pb = s.pb /\ m.arp = s.arp /\ m.hint = s.hint /\ m.wire = s.wire
      /\ m.reass = q /\ m.count = s.count /\ m.up = s.up /\ SameTimers(s, m) /\ m.hung = s.hung
  BY <1>1 DEF Fields, SameTimers
<1> HIDE DEF m
<1>6. ArpOK(m, T)
  BY <1>1, <1>5 DEF ArpOK
<1>7. Loose(m) = Loose(s) /\ Holding(m, X) = Holding(s, X)
  BY <1>4, <1>5 DEF Loose, Kept, Holding
<1>8. HeldOK(m, X)
  BY <1>1, <1>4, <1>5, <1>7 DEF HeldOK
<1>9. CountOK(s)
  BY DEF IpOK
<1>10. Len(q) \in Nat /\ Len(q) <= MEMP_NUM_REASSDATA
  BY <1>4, <1>9, IpAssumption DEF CountOK
<1>11. CountOK(m) /\ s.count \in Nat
  BY <1>4, <1>5, <1>9, <1>10 DEF CountOK
<1>12. LetGo(s, T, X, m)
  BY <1>4, <1>5, <1>6, <1>8, <1>11 DEF LetGo, IpOK
<1>13. 1 \in DOMAIN q
  <2>1. DOMAIN q = 1..Len(q)
    BY <1>4 DEF ReassOK, IsSeq
  <2>2. 1 \in 1..Len(q)
    BY <1>4, <1>9 DEF CountOK
  <2> QED
    BY <2>1, <2>2
<1>14. Known(m, f)
  BY <1>2, <1>4, <1>5, <1>13 DEF Known
<1> QED
  BY <1>3, <1>12, <1>14 DEF FoundIn

\* The datagram of a fragment is found or entered, or it says so.
LEMMA FindOne ==
    ASSUME NEW s, NEW T, NEW X, IpOK(s, T, X), NEW f, NEW clen \in Nat
    PROVE  FoundIn(s, T, X, f, Find(s, f, clen))
<1> DEFINE r == ip_reass_remove_oldest_datagram(s, f, clen)
<1>1. CASE Known(s, f)
  BY <1>1, LetGoSelf DEF Find, FoundIn
<1>2. CASE ~Known(s, f) /\ Len(s.reass) < MEMP_NUM_REASSDATA
  <2>1. Find(s, f, clen) = Entered(s, f)
    BY <1>2 DEF Find, ip_reass_enqueue_new_datagram
  <2> QED
    BY <1>2, <2>1, EnterOne
<1>3. CASE ~Known(s, f) /\ ~(Len(s.reass) < MEMP_NUM_REASSDATA)
  <2>1. Find(s, f, clen) = EnteredAfter(r, f, clen)
    BY <1>3 DEF Find, ip_reass_enqueue_new_datagram
  <2>2. LetGo(s, T, X, r.n)
    BY OldestRemoved
  <2> HIDE DEF r
  <2>3. IpOK(r.n, T, X)
    BY <2>2 DEF LetGo
  <2>4. CASE r.freed >= clen /\ Len(r.n.reass) < MEMP_NUM_REASSDATA
    <3>1. FoundIn(r.n, T, X, f, Entered(r.n, f))
      BY <2>3, <2>4, EnterOne
    <3>2. LetGo(s, T, X, Entered(r.n, f).n)
      BY <2>2, <3>1, LetGoThen DEF FoundIn
    <3> QED
      BY <2>1, <2>4, <3>1, <3>2 DEF EnteredAfter, FoundIn
  <2>5. CASE ~(r.freed >= clen /\ Len(r.n.reass) < MEMP_NUM_REASSDATA)
    BY <2>1, <2>2, <2>5 DEF EnteredAfter, FoundIn
  <2> QED
    BY <2>4, <2>5
<1> QED
  BY <1>1, <1>2, <1>3

\* A known datagram has its place in the list.
LEMMA PlaceFound ==
    ASSUME NEW s, NEW T, NEW X, IpOK(s, T, X), NEW f, Known(s, f)
    PROVE  PlaceOf(s, f) \in 1..Len(s.reass)
<1> DEFINE S == {k \in DOMAIN s.reass : SameDatagram(s.reass[k], f)}
<1>1. DOMAIN s.reass = 1..Len(s.reass) /\ Len(s.reass) \in Nat
  BY DEF IpOK, ReassOK, IsSeq
<1>2. S \in SUBSET Nat /\ S # {}
  BY <1>1 DEF Known
<1> HIDE DEF S
<1>3. Min(S) \in S
  BY <1>2, LeastIsMin
<1> QED
  BY <1>1, <1>3 DEF PlaceOf, S

-----------------------------------------------------------------------------
(* A complete datagram becomes one chain.                                  *)

\* The chains of the first i of ps are one chain.
CattedAll(pb, L, H, ps, i, qb) ==
    /\ Arena(qb)
    /\ \A b \in Buf : qb[b].ref = pb[b].ref /\ qb[b].data = pb[b].data
    /\ \A b \in Buf \ L : qb[b] = pb[b]
    /\ Own(qb, L, H \ (Firsts(ps, i) \ {ps[1]}))
    /\ Members(qb, ps[1]) = Hold(pb, Firsts(ps, i))
    /\ \A g \in H \ Firsts(ps, i) : Members(qb, g) = Members(pb, g)
CatInv(c, i, r) ==
    /\ DOMAIN r = {"pb", "h", "ps"} /\ r.h = c.ps[1]
    /\ r.ps = SubSeq(c.ps, i + 2, Len(c.ps))
    /\ CattedAll(c.pb, c.L, c.H, c.ps, i + 1, r.pb)
Catting == INSTANCE LoopProofs WITH Op <- CatNext, Inv <- CatInv

\* One more fragment is appended.
LEMMA CatOne ==
    ASSUME NEW pb, Arena(pb), NEW L, NEW H, Own(pb, L, H), NEW ps \in Seq(Buf),
           ToSet(ps) \subseteq H, Distinct(ps), NEW i \in 1..(Len(ps) - 1), NEW qb,
           CattedAll(pb, L, H, ps, i, qb)
    PROVE  CattedAll(pb, L, H, ps, i + 1, pbuf_cat(qb, ps[1], ps[i + 1]))
<1> DEFINE D == Firsts(ps, i)
           E == Firsts(ps, i + 1)
           h == ps[1]
           t == ps[i + 1]
           G == H \ (D \ {h})
           ub == pbuf_cat(qb, h, t)
<1>1. Len(ps) \in Nat /\ 1 \in 1..Len(ps) /\ i + 1 \in 1..Len(ps) /\ 1 \in 1..i
      /\ \A j \in 1..Len(ps) : ps[j] \in H
  BY Elements
<1>2. h \in D /\ t \in H \ D /\ D \in SUBSET H /\ h # t
  <2>1. \A j \in 1..i : j \in 1..Len(ps) /\ j # i + 1
    BY <1>1
  <2>2. \A j \in 1..i : ps[j] # ps[i + 1]
    BY <1>1, <2>1 DEF Distinct
  <2>3. h \in D /\ D \in SUBSET H
    BY <1>1, <2>1 DEF Firsts
  <2>4. t \in H /\ t \notin D
    BY <1>1, <2>2 DEF Firsts
  <2> QED
    BY <2>3, <2>4
<1>3. E = D \cup {t}
  <2>1. 1..(i + 1) = 1..i \cup {i + 1}
    OBVIOUS
  <2> QED
    BY <2>1 DEF Firsts
<1>4. /\ Arena(qb) /\ (\A b \in Buf : qb[b].ref = pb[b].ref /\ qb[b].data = pb[b].data)
      /\ (\A b \in Buf \ L : qb[b] = pb[b]) /\ Own(qb, L, G) /\ Members(qb, h) = Hold(pb, D)
      /\ \A g \in H \ D : Members(qb, g) = Members(pb, g)
  BY DEF CattedAll
<1>5. h \in G /\ t \in G
  BY <1>2
<1> HIDE DEF D, E, h, t, G
<1>6. Catted(qb, L, G, h, t, ub)
  BY <1>2, <1>4, <1>5, CatHeads
<1> HIDE DEF ub
<1>7. /\ Arena(ub) /\ (\A b \in Buf : ub[b].ref = qb[b].ref /\ ub[b].data = qb[b].data)
      /\ (\A b \in Buf \ L : ub[b] = qb[b]) /\ Own(ub, L, G \ {t})
      /\ Members(ub, h) = Members(qb, h) \cup Members(qb, t)
      /\ \A g \in G \ {h, t} : Members(ub, g) = Members(qb, g)
  BY <1>6 DEF Catted
<1>8. G \ {t} = H \ (E \ {h})
  BY <1>2, <1>3 DEF G
<1>9. Members(ub, h) = Hold(pb, E)
  <2>1. Hold(pb, D \cup {t}) = Hold(pb, D) \cup Members(pb, t)
    BY <1>2, HoldAdd
  <2> QED
    BY <1>2, <1>3, <1>4, <1>7, <2>1
<1>10. \A g \in H \ E : Members(ub, g) = Members(pb, g)
  <2>1. \A g \in H \ E : g \in H \ D /\ g \in G \ {h, t}
    BY <1>2, <1>3 DEF G
  <2> QED
    BY <1>4, <1>7, <2>1
<1>11. \A b \in Buf : ub[b].ref = pb[b].ref /\ ub[b].data = pb[b].data
  BY <1>4, <1>7
<1>12. \A b \in Buf \ L : ub[b] = pb[b]
  BY <1>4, <1>7
<1>13. CattedAll(pb, L, H, ps, i + 1, ub)
  <2>1. Own(ub, L, H \ (E \ {h}))
    BY <1>7, <1>8
  <2> QED
    BY <1>7, <1>9, <1>10, <1>11, <1>12, <2>1 DEF CattedAll, E, h
<1> QED
  BY <1>13 DEF ub, h, t

\* All the fragments of a datagram become one chain.
LEMMA CatFragments ==
    ASSUME NEW pb, Arena(pb), NEW L, NEW H, Own(pb, L, H), NEW ps \in Seq(Buf),
           ToSet(ps) \subseteq H, Distinct(ps), ps # <<>>
    PROVE  CattedAll(pb, L, H, ps, Len(ps), CatAll(pb, ps))
<1> DEFINE c == [pb |-> pb, L |-> L, H |-> H, ps |-> ps]
           r0 == [pb |-> pb, h |-> Head(ps), ps |-> Tail(ps)]
           N == Len(ps) - 1
<1>1. /\ c.pb = pb /\ c.L = L /\ c.H = H /\ c.ps = ps
      /\ r0.pb = pb /\ r0.ps = Tail(ps) /\ r0.h = Head(ps) /\ DOMAIN r0 = {"pb", "h", "ps"}
  OBVIOUS
<1>2. CatAll(pb, ps) = Iterate(CatNext, N, r0).pb
  BY DEF CatAll
<1> HIDE DEF c, r0
<1>3. Len(ps) \in Nat /\ N \in Nat /\ Head(ps) = ps[1] /\ Len(ps) = N + 1 /\ 1 \in 1..Len(ps)
      /\ \A j \in 1..Len(ps) : ps[j] \in H
  BY Elements
<1> HIDE DEF N
<1>4. CatInv(c, 0, r0)
  <2>1. Firsts(ps, 1) = {ps[1]}
    BY DEF Firsts
  <2>2. Tail(ps) = SubSeq(ps, 2, Len(ps))
    BY <1>3
  <2>3. Hold(pb, {ps[1]}) = Members(pb, ps[1])
    <3>1. ps[1] \in H
      BY <1>3
    <3>2. Members(pb, ps[1]) \subseteq L
      BY <3>1, HeadFacts
    <3>3. L \subseteq Buf
      BY DEF Own
    <3> QED
      BY <3>2, <3>3 DEF Hold
  <2>4. H \ ({ps[1]} \ {ps[1]}) = H
    OBVIOUS
  <2>5. CattedAll(pb, L, H, ps, 1, pb)
    BY <2>1, <2>3, <2>4 DEF CattedAll
  <2> QED
    BY <1>1, <1>3, <2>2, <2>5 DEF CatInv
<1>5. ASSUME NEW i \in 0..(N - 1), NEW r, CatInv(c, i, r)
      PROVE  CatInv(c, i + 1, CatNext(r))
  <2> DEFINE g == CatNext(r)
             t == ps[(i + 1) + 1]
  <2>1. /\ DOMAIN r = {"pb", "h", "ps"} /\ r.h = ps[1] /\ r.ps = SubSeq(ps, i + 2, Len(ps))
        /\ CattedAll(pb, L, H, ps, i + 1, r.pb)
    BY <1>1, <1>5 DEF CatInv
  <2>2. i + 2 \in 1..Len(ps) /\ i + 1 \in 1..(Len(ps) - 1) /\ Len(ps) \in (i + 2)..Len(ps)
        /\ (i + 1) + 1 = i + 2 /\ (i + 2) + 1 = (i + 1) + 2
    BY <1>3
  <2>3. Head(r.ps) = t /\ Tail(r.ps) = SubSeq(ps, (i + 1) + 2, Len(ps))
    BY <2>1, <2>2, HeadTailOfSubSeq
  <2>4. /\ DOMAIN g = {"pb", "h", "ps"} /\ g.h = ps[1] /\ g.ps = SubSeq(ps, (i + 1) + 2, Len(ps))
        /\ g.pb = pbuf_cat(r.pb, ps[1], t)
    BY <2>1, <2>3 DEF CatNext
  <2> HIDE DEF g
  <2>5. CattedAll(pb, L, H, ps, (i + 1) + 1, pbuf_cat(r.pb, ps[1], t))
    BY <2>1, <2>2, CatOne
  <2> QED
    BY <1>1, <2>4, <2>5 DEF CatInv, g
<1>6. \A i \in 0..(N - 1) : \A r : CatInv(c, i, r) => CatInv(c, i + 1, CatNext(r))
  BY <1>5
<1>7. CatInv(c, N, Iterate(CatNext, N, r0))
  <2>1. N \in Nat
    BY <1>3
  <2> QED
    BY <1>4, <1>6, <2>1, Catting!LoopInvariant DEF Iterate, Catting!Iterate
<1> QED
  BY <1>1, <1>2, <1>3, <1>7 DEF CatInv

\* Datagram k leaves the list; the call holds it.
Left1(s, T, h, m) ==
    /\ IpOK(m, T, {h}) /\ SameTimers(s, m) /\ m.hung = s.hung /\ m.up = s.up
    /\ IsPacket(m.pb[h].data)

\* A complete datagram leaves the list, and its buffers the count.
LEMMA JoinOne ==
    ASSUME NEW s, NEW T, IpOK(s, T, {}), NEW k \in 1..Len(s.reass), s.reass[k].p # <<>>
    PROVE  LET ps == s.reass[k].p
           IN  Left1(s, T, Head(ps), Joined(s, k, CatAll(s.pb, ps), Head(ps))) /\ Head(ps) \in Buf
<1> DEFINE ps == s.reass[k].p
           h == Head(ps)
           qb == CatAll(s.pb, ps)
           q == RemoveAt(s.reass, k)
           L == Loose(s)
           H == Holding(s, {})
           R == Heads(s.reass)
           D == ToSet(ps)
           G == H \ (D \ {h})
           W == Hold(s.pb, D)
           m == Joined(s, k, qb, h)
<1>1. ArpOK(s, T) /\ Arena(s.pb) /\ DOMAIN s = Fields /\ ReassOK(s.reass)
  BY DEF IpOK, ArpOK
<1>2. /\ Own(s.pb, L, H) /\ R \cap s.up = {} /\ (\A b \in R \cup s.up : IsPacket(s.pb[b].data))
      /\ H = R \cup s.up
  BY DEF IpOK, HeldOK, Holding
<1>3. /\ ReassOK(q) /\ Len(q) = Len(s.reass) - 1 /\ Len(q) \in Nat
      /\ Heads(q) = R \ D /\ D \subseteq R
  BY <1>1, ListRemove
<1>4. ps \in Seq(Buf) /\ Distinct(ps)
  BY <1>1 DEF ReassOK, SoundRec, Apart, Distinct
<1>5. /\ D = Firsts(ps, Len(ps)) /\ h \in D /\ h = ps[1] /\ h \in Buf
  BY <1>4, Elements DEF Firsts, ToSet
<1>6. CattedAll(s.pb, L, H, ps, Len(ps), qb)
  <2>1. ToSet(ps) \subseteq H
    BY <1>2, <1>3
  <2> QED
    BY <1>1, <1>2, <1>4, <2>1, CatFragments
<1>7. /\ DOMAIN m = Fields /\ m.pb = qb /\ m.arp = s.arp /\ m.hint = s.hint /\ m.wire = s.wire
      /\ m.reass = q /\ m.count = s.count - pbuf_clen(qb, h) /\ m.up = s.up /\ SameTimers(s, m)
      /\ m.hung = s.hung
  BY <1>1 DEF Joined, ip_reass_dequeue_datagram, Fields, SameTimers
<1>8. /\ Arena(qb) /\ (\A b \in Buf : qb[b].ref = s.pb[b].ref /\ qb[b].data = s.pb[b].data)
      /\ (\A b \in Buf \ L : qb[b] = s.pb[b]) /\ Own(qb, L, G) /\ Members(qb, h) = W
      /\ \A g \in H \ D : Members(qb, g) = Members(s.pb, g)
  BY <1>5, <1>6 DEF CattedAll
<1> HIDE DEF ps, h, qb, q, D, W, m
<1>9. pbuf_clen(qb, h) = Cardinality(W)
  <2>1. h \in G
    BY <1>2, <1>3, <1>5
  <2> QED
    BY <1>8, <2>1, HeadFacts
<1>10. D \in SUBSET H /\ D \in SUBSET R /\ R \in SUBSET H /\ R \ D \in SUBSET H
  BY <1>2, <1>3
<1>11. Cardinality(W) \in Nat
  BY <1>1, <1>2, <1>10, HoldFacts DEF W
<1>12. ArpOK(m, T) /\ \A i : i \in Loose(m) <=> i \in Buf /\ qb[i].ref # 0 /\ i \notin Kept(s)
  <2>1. \A i \in Kept(s) : qb[i] = s.pb[i]
    BY <1>1, <1>8, LooseFacts
  <2> QED
    BY <1>7, <1>8, <2>1, IpBuffers
<1>13. Loose(m) = L
  <2>1. \A i : i \in L <=> i \in Buf /\ s.pb[i].ref # 0 /\ i \notin Kept(s)
    BY <1>1, LooseFacts
  <2> QED
    BY <1>8, <1>12, <2>1
<1>14. Holding(m, {h}) = G
  BY <1>2, <1>3, <1>5, <1>7 DEF Holding
<1>15. HeldOK(m, {h})
  <2>1. \A b \in R \cup s.up : b \in Buf
    BY <1>2 DEF Own
  <2>2. \A b \in (R \ D) \cup s.up : IsPacket(qb[b].data)
    BY <1>2, <1>8, <2>1
  <2>3. Heads(m.reass) = R \ D /\ m.up = s.up /\ m.pb = qb
    BY <1>3, <1>7
  <2>4. Own(m.pb, Loose(m), Holding(m, {h}))
    BY <1>8, <1>13, <1>14, <2>3
  <2>5. {h} \cap ((R \ D) \cup s.up) = {} /\ (R \ D) \cap s.up = {}
    BY <1>2, <1>3, <1>5
  <2> QED
    BY <2>2, <2>3, <2>4, <2>5 DEF HeldOK
<1>16. s.count = Cardinality(Hold(s.pb, R)) /\ s.count \in Nat /\ s.count <= IP_REASS_MAX_PBUFS
       /\ Len(s.reass) \in Nat /\ Len(s.reass) <= MEMP_NUM_REASSDATA
  BY DEF IpOK, CountOK
<1>17. Cardinality(Hold(qb, R \ D)) = s.count - Cardinality(W) /\ Cardinality(Hold(qb, R \ D)) \in Nat
  <2>1. Hold(qb, R \ D) = Hold(s.pb, R \ D)
    <3>1. \A g \in R \ D : Members(qb, g) = Members(s.pb, g)
      BY <1>8, <1>10
    <3> QED
      BY <3>1, HoldSame
  <2>2. Cardinality(Hold(s.pb, R \ D)) = Cardinality(Hold(s.pb, R)) - Cardinality(Hold(s.pb, D))
    BY <1>1, <1>2, <1>10, HoldMinus
  <2>3. Cardinality(Hold(s.pb, R \ D)) \in Nat
    BY <1>1, <1>2, <1>10, HoldFacts
  <2> QED
    BY <1>16, <2>1, <2>2, <2>3 DEF W
<1>18. CountOK(m)
  <2> DEFINE w == Cardinality(W)
  <2>1. w \in Nat /\ m.count = s.count - w /\ s.count - w \in Nat
    BY <1>7, <1>9, <1>11, <1>17
  <2> HIDE DEF w
  <2>2. m.count \in Nat /\ m.count <= IP_REASS_MAX_PBUFS
    BY <1>16, <2>1, IpAssumption
  <2>3. m.count = Cardinality(Hold(m.pb, Heads(m.reass)))
    BY <1>3, <1>7, <1>17, <2>1 DEF w
  <2>4. Len(m.reass) \in Nat /\ Len(m.reass) <= MEMP_NUM_REASSDATA
    BY <1>3, <1>7, <1>16, IpAssumption
  <2> QED
    BY <2>2, <2>3, <2>4 DEF CountOK
<1>19. IpOK(m, T, {h})
  BY <1>3, <1>7, <1>12, <1>15, <1>18 DEF IpOK
<1>20. IsPacket(m.pb[h].data)
  BY <1>2, <1>3, <1>5, <1>7, <1>8
<1> QED
  BY <1>5, <1>7, <1>19, <1>20 DEF Left1, m, h, qb, ps

-----------------------------------------------------------------------------
(* A fragment comes.                                                       *)

\* The list is as it was up to what the datagrams know of their length.
Relisted(s, q) ==
    /\ IsSeq(q) /\ Len(q) = Len(s.reass)
    /\ \A j \in 1..Len(s.reass) : SoundRec(q[j]) /\ q[j].p = s.reass[j].p
NotedOf(s, clen, u) ==
    /\ DOMAIN u = Fields /\ u.pb = s.pb /\ u.arp = s.arp /\ u.hint = s.hint /\ u.wire = s.wire
    /\ u.count = s.count + clen /\ u.up = s.up /\ SameTimers(s, u) /\ u.hung = s.hung
    /\ Relisted(s, u.reass)

\* A fragment is counted.
LEMMA NoteOne ==
    ASSUME NEW s, NEW T, NEW X, IpOK(s, T, X), NEW k \in 1..Len(s.reass), NEW f, NEW clen \in Nat
    PROVE  NotedOf(s, clen, Noted(s, k, f, clen))
<1> DEFINE e1 == [s.reass[k] EXCEPT !.last = @ \/ f.end = f.of]
           q1 == [s.reass EXCEPT ![k] = e1]
           e2 == [q1[k] EXCEPT !.len = IF f.end = f.of THEN f.end ELSE @]
           q2 == [q1 EXCEPT ![k] = e2]
           u == Noted(s, k, f, clen)
<1>1. ReassOK(s.reass) /\ DOMAIN s = Fields
  BY DEF IpOK, ArpOK
<1>2. IsSeq(s.reass) /\ SoundRec(s.reass[k]) /\ \A j \in 1..Len(s.reass) : SoundRec(s.reass[j])
  BY <1>1 DEF ReassOK
<1>3. /\ DOMAIN u = Fields /\ u.pb = s.pb /\ u.arp = s.arp /\ u.hint = s.hint /\ u.wire = s.wire
      /\ u.reass = q2 /\ u.count = s.count + clen /\ u.up = s.up /\ SameTimers(s, u) /\ u.hung = s.hung
  BY <1>1 DEF Fields, SameTimers, Noted
<1> HIDE DEF u
<1>4. SoundRec(e1) /\ e1.p = s.reass[k].p
  BY <1>2 DEF SoundRec, RecFields
<1> HIDE DEF e1
<1>5. Replaced(s.reass, k, e1, q1)
  BY <1>2, ListExcept
<1> HIDE DEF q1
<1>6. IsSeq(q1) /\ Len(q1) = Len(s.reass) /\ q1[k] = e1
  BY <1>5 DEF Replaced
<1>7. SoundRec(e2) /\ e2.p = s.reass[k].p
  BY <1>4, <1>6 DEF SoundRec, RecFields
<1> HIDE DEF e2
<1>8. Replaced(q1, k, e2, q2)
  BY <1>6, ListExcept
<1> HIDE DEF q2
<1>9. \A j \in 1..Len(s.reass) : SoundRec(q2[j]) /\ q2[j].p = s.reass[j].p
  BY <1>2, <1>5, <1>6, <1>7, <1>8 DEF Replaced
<1>10. IsSeq(q2) /\ Len(q2) = Len(s.reass)
  BY <1>6, <1>8 DEF Replaced
<1> QED
  BY <1>3, <1>9, <1>10 DEF NotedOf, Relisted, u

\* The fragment is thrown away.
LEMMA ThrowOne ==
    ASSUME NEW s, NEW T, NEW p, IpOK(s, T, {p}), NEW u,
           NotedOf(s, pbuf_clen(s.pb, p), u)
    PROVE  LET m == ThrowAway(u, p).n
           IN  IpOK(m, T, {}) /\ SameTimers(s, m)
<1> DEFINE v == [s EXCEPT !.reass = u.reass]
           w == FreeIt(v, p)
           m == ThrowAway(u, p).n
           clen == pbuf_clen(s.pb, p)
<1>1. DOMAIN s = Fields /\ s.count \in Nat
  BY DEF IpOK, ArpOK, CountOK
<1>2. clen \in Nat
  <2>1. Arena(s.pb) /\ Own(s.pb, Loose(s), Holding(s, {p})) /\ p \in Holding(s, {p})
    BY DEF IpOK, ArpOK, HeldOK, Holding
  <2> QED
    BY <2>1, HeadFacts
<1> HIDE DEF clen
<1>3. /\ DOMAIN u = Fields /\ u.pb = s.pb /\ u.arp = s.arp /\ u.hint = s.hint /\ u.wire = s.wire
      /\ u.count = s.count + clen /\ u.up = s.up /\ SameTimers(s, u)
      /\ IsSeq(u.reass) /\ Len(u.reass) = Len(s.reass)
      /\ \A j \in 1..Len(s.reass) : SoundRec(u.reass[j]) /\ u.reass[j].p = s.reass[j].p
  BY DEF NotedOf, Relisted, clen
<1>4. /\ DOMAIN v = Fields /\ v.pb = s.pb /\ v.arp = s.arp /\ v.hint = s.hint /\ v.wire = s.wire
      /\ v.reass = u.reass /\ v.count = s.count /\ v.up = s.up /\ SameTimers(s, v) /\ v.hung = s.hung
  BY <1>1 DEF Fields, SameTimers
<1> HIDE DEF v
<1>5. LetGo(s, T, {p}, v)
  BY <1>3, <1>4, LetGoList
<1>6. IpOK(v, T, {p})
  BY <1>5 DEF LetGo
<1>7. IpOK(w, T, {p} \ {p})
  BY <1>6, IpFree
<1>8. /\ w.pb = pbuf_free(s.pb, p) /\ w.arp = s.arp /\ w.hint = s.hint /\ w.wire = s.wire
      /\ w.reass = u.reass /\ w.count = s.count /\ w.up = s.up
  BY <1>4 DEF FreeIt, Fields
<1>9. /\ DOMAIN m = Fields /\ m.pb = pbuf_free(s.pb, p) /\ m.arp = s.arp /\ m.hint = s.hint
      /\ m.wire = s.wire /\ m.reass = u.reass /\ m.count = u.count - clen /\ m.up = s.up
      /\ SameTimers(s, m)
  BY <1>3 DEF ThrowAway, Fields, SameTimers, clen
<1>10. m.count = s.count
  BY <1>1, <1>2, <1>3, <1>9
<1> HIDE DEF w, m
<1>11. SoundWire(w.wire, T) /\ {p} \ {p} = {}
  BY <1>7 DEF IpOK, ArpOK
<1>12. IpOK(m, T, {})
  <2>1. IpOK(w, T, {})
    BY <1>7, <1>11
  <2>2. /\ DOMAIN m = Fields /\ m.pb = w.pb /\ m.arp = w.arp /\ m.hint = w.hint
        /\ m.wire = w.wire /\ m.reass = w.reass /\ m.count = w.count /\ m.up = w.up
    BY <1>8, <1>9, <1>10
  <2>3. SoundWire(m.wire, T)
    BY <1>11, <2>2
  <2> QED
    BY <2>1, <2>2, <2>3, IpSame
<1> QED
  BY <1>9, <1>12 DEF m

\* The fragment is chained in.
ChainedIn(s, T, k, m) ==
    IpOK(m, T, {}) /\ SameTimers(s, m) /\ m.reass[k].p # <<>> /\ Len(m.reass) = Len(s.reass)

\* A counted fragment is put into the list of its datagram.
LEMMA ChainOne ==
    ASSUME NEW s, NEW T, NEW p, IpOK(s, T, {p}), IsPacket(s.pb[p].data), NEW u,
           NotedOf(s, pbuf_clen(s.pb, p), u),
           s.count + pbuf_clen(s.pb, p) <= IP_REASS_MAX_PBUFS, NEW k \in 1..Len(s.reass),
           NEW i \in 1..(Len(u.reass[k].p) + 1)
    PROVE  LET ps == u.reass[k].p
           IN  ChainedIn(s, T, k, Chained(u, k, SubSeq(ps, 1, i - 1), p, SubSeq(ps, i, Len(ps))).n)
<1> DEFINE clen == pbuf_clen(s.pb, p)
           ps == u.reass[k].p
           before == SubSeq(ps, 1, i - 1)
           after == SubSeq(ps, i, Len(ps))
           m == Chained(u, k, before, p, after).n
           e == [u.reass[k] EXCEPT !.p = before \o <<p>> \o after]
           q == [u.reass EXCEPT ![k] = e]
           H == Holding(s, {p})
           R == Heads(s.reass)
           M == Members(s.pb, p)
<1>1. /\ DOMAIN s = Fields /\ Arena(s.pb) /\ ArpOK(s, T) /\ ReassOK(s.reass)
  BY DEF IpOK, ArpOK
<1>2. /\ Own(s.pb, Loose(s), H) /\ p \in H /\ R \subseteq H /\ p \notin R /\ p \notin s.up
      /\ R \cap s.up = {} /\ (\A h \in R \cup s.up : IsPacket(s.pb[h].data))
      /\ H = R \cup s.up \cup {p}
  BY DEF IpOK, HeldOK, Holding
<1>3. clen = Cardinality(M) /\ clen \in Nat /\ p \in Buf
  BY <1>1, <1>2, HeadFacts
<1>4. /\ DOMAIN u = Fields /\ u.pb = s.pb /\ u.arp = s.arp /\ u.hint = s.hint /\ u.wire = s.wire
      /\ u.count = s.count + clen /\ u.up = s.up /\ SameTimers(s, u)
      /\ IsSeq(u.reass) /\ Len(u.reass) = Len(s.reass)
      /\ \A j \in 1..Len(s.reass) : SoundRec(u.reass[j]) /\ u.reass[j].p = s.reass[j].p
  BY DEF NotedOf, Relisted
<1>5. /\ DOMAIN m = Fields /\ m.pb = s.pb /\ m.arp = s.arp /\ m.hint = s.hint /\ m.wire = s.wire
      /\ m.reass = q /\ m.count = s.count + clen /\ m.up = s.up /\ SameTimers(s, m)
  BY <1>4 DEF Chained, Fields, SameTimers
<1>6. ps = s.reass[k].p /\ ps \in Seq(Buf) /\ i \in 1..(Len(s.reass[k].p) + 1)
  BY <1>4 DEF SoundRec
<1> HIDE DEF m, clen
<1>7. before \in Seq(Buf) /\ after \in Seq(Buf)
  <2>1. Len(ps) \in Nat
    BY <1>6
  <2>2. /\ 1 \in 1..(Len(ps) + 1) /\ i - 1 \in (1 - 1)..Len(ps) /\ i \in 1..(Len(ps) + 1)
        /\ Len(ps) \in (i - 1)..Len(ps)
    BY <2>1
  <2> HIDE DEF ps
  <2>3. before \in Seq(Buf)
    BY <1>6, <2>2, PartOf
  <2>4. after \in Seq(Buf)
    BY <1>6, <2>2, PartOf
  <2> QED
    BY <2>3, <2>4
<1>8. e.p = before \o <<p>> \o after /\ SoundRec(e)
  <2> HIDE DEF before, after
  <2>1. before \o <<p>> \o after \in Seq(Buf)
    BY <1>3, <1>7
  <2>2. SoundRec(u.reass[k])
    BY <1>4
  <2> QED
    BY <2>1, <2>2 DEF SoundRec, RecFields
<1> HIDE DEF e
<1>9. Replaced(u.reass, k, e, q)
  BY <1>4, ListExcept
<1> HIDE DEF q
<1>10. IsSeq(q) /\ Len(q) = Len(s.reass)
  BY <1>4, <1>9 DEF Replaced
<1>11. \A j \in 1..Len(s.reass) : SoundRec(q[j]) /\ (j # k => q[j].p = s.reass[j].p)
  BY <1>4, <1>8, <1>9 DEF Replaced
<1>12. q[k].p = SubSeq(s.reass[k].p, 1, i - 1) \o <<p>> \o SubSeq(s.reass[k].p, i, Len(s.reass[k].p))
  BY <1>6, <1>8, <1>9 DEF Replaced
<1>13. ReassOK(q) /\ Heads(q) = R \cup {p} /\ q[k].p # <<>>
  <2>1. ReassOK(s.reass) /\ p \in Buf /\ p \notin Heads(s.reass)
    BY <1>1, <1>2, <1>3
  <2>2. i \in 1..(Len(s.reass[k].p) + 1)
    BY <1>6
  <2> HIDE DEF ps, before, after
  <2> QED
    <3>1. ChainedAt(s.reass, k, i, p, q)
      BY <1>10, <1>11, <1>12 DEF ChainedAt
    <3> QED
      BY <2>1, <2>2, <3>1, ListChain
<1>14. ArpOK(m, T)
  BY <1>1, <1>5 DEF ArpOK
<1>15. Loose(m) = Loose(s) /\ Holding(m, {}) = H
  BY <1>2, <1>5, <1>13 DEF Loose, Kept, Holding
<1>16. HeldOK(m, {})
  BY <1>2, <1>5, <1>13, <1>15 DEF HeldOK
<1>17. CountOK(m)
  <2>1. CountOK(s)
    BY DEF IpOK
  <2>2. R \in SUBSET H /\ p \in H \ R
    BY <1>2
  <2>3. Cardinality(Hold(s.pb, R \cup {p})) = Cardinality(Hold(s.pb, R)) + Cardinality(M)
    <3>1. Arena(s.pb) /\ Own(s.pb, Loose(s), H)
      BY <1>1, <1>2
    <3> HIDE DEF R, H
    <3> QED
      BY <2>2, <3>1, HoldAdd
  <2>4. s.count + clen = Cardinality(Hold(s.pb, R \cup {p})) /\ s.count + clen \in Nat
    BY <1>3, <2>1, <2>3 DEF CountOK
  <2>5. s.count + clen <= IP_REASS_MAX_PBUFS
    BY DEF clen
  <2> QED
    BY <1>5, <1>10, <1>13, <2>1, <2>4, <2>5 DEF CountOK
<1>18. IpOK(m, T, {})
  BY <1>5, <1>13, <1>14, <1>16, <1>17 DEF IpOK
<1> QED
  BY <1>5, <1>10, <1>13, <1>18 DEF m, ChainedIn

\* What a call gives back: no packet, or one that it hands over.
Reassembled(s, T, r) ==
    /\ SameTimers(s, r.n)
    /\ \/ r.p = NULL /\ IpOK(r.n, T, {})
       \/ r.p \in Buf /\ IpOK(r.n, T, {r.p}) /\ IsPacket(r.n.pb[r.p].data)

\* The place of a fragment is in the list or behind it.
LEMMA PlaceIn ==
    ASSUME NEW s, NEW ps \in Seq(Buf), NEW f
    PROVE  Place(s, ps, f) \in 1..(Len(ps) + 1)
<1> DEFINE S == {j \in 1..(Len(ps) + 1) : j <= Len(ps) => f.off < Frag(s, ps[j]).off}
<1>1. Len(ps) \in Nat
  OBVIOUS
<1>2. Len(ps) + 1 \in S /\ S \in SUBSET Nat
  <2>1. Len(ps) + 1 \in 1..(Len(ps) + 1) /\ ~(Len(ps) + 1 <= Len(ps))
    BY <1>1
  <2>2. 1..(Len(ps) + 1) \subseteq Nat
    BY <1>1
  <2> QED
    BY <2>1, <2>2
<1> HIDE DEF S
<1>3. Min(S) \in S
  BY <1>2, LeastIsMin
<1> QED
  BY <1>3 DEF Place, S

\* A fragment is added to its datagram, and may complete it.
LEMMA AddOne ==
    ASSUME NEW s, NEW T, NEW p, IpOK(s, T, {p}), IsPacket(s.pb[p].data),
           NEW clen, clen = pbuf_clen(s.pb, p),
           s.count + clen <= IP_REASS_MAX_PBUFS, NEW k \in 1..Len(s.reass)
    PROVE  Reassembled(s, T, AddTo(s, k, p, s.pb[p].data, clen))
<1> DEFINE f == s.pb[p].data
           u == Noted(s, k, f, clen)
           ps == u.reass[k].p
           i == Place(u, ps, Frag(u, p))
           before == SubSeq(ps, 1, i - 1)
           after == SubSeq(ps, i, Len(ps))
           c == ChainBetween(u, k, p, before, after)
           m == Chained(u, k, before, p, after).n
<1>1. AddTo(s, k, p, f, clen) = Complete(c, k)
  BY DEF AddTo, ip_reass_chain_frag_into_datagram_and_validate, UpTo, Behind
<1>2. clen \in Nat
  <2>1. Arena(s.pb) /\ Own(s.pb, Loose(s), Holding(s, {p})) /\ p \in Holding(s, {p})
    BY DEF IpOK, ArpOK, HeldOK, Holding
  <2> QED
    BY <2>1, HeadFacts
<1>3. NotedOf(s, pbuf_clen(s.pb, p), u)
  BY <1>2, NoteOne
<1> HIDE DEF u, f
<1>4. ps \in Seq(Buf)
  BY <1>3 DEF NotedOf, Relisted, SoundRec
<1>5. i \in 1..(Len(ps) + 1)
  <2> HIDE DEF ps
  <2> QED
    BY <1>4, PlaceIn
<1> HIDE DEF i
<1>6. CASE Overlaps(u, before, after, Frag(u, p))
  <2> DEFINE w == ThrowAway(u, p).n
  <2>1. c.n = w /\ ~c.valid
    BY <1>6 DEF ChainBetween, ThrowAway
  <2>2. IpOK(w, T, {}) /\ SameTimers(s, w)
    BY <1>3, ThrowOne
  <2> HIDE DEF w, c
  <2>3. Complete(c, k).n = w /\ Complete(c, k).p = NULL
    BY <2>1 DEF Complete
  <2> QED
    BY <1>1, <2>2, <2>3 DEF Reassembled, f
<1>7. CASE ~Overlaps(u, before, after, Frag(u, p))
  <2>1. c.n = m
    <3> HIDE DEF before, after
    <3>1. c = Chained(u, k, before, p, after)
      BY <1>7, Zenon DEF ChainBetween
    <3> QED
      BY <3>1
  <2>2. IpOK(m, T, {}) /\ SameTimers(s, m) /\ m.reass[k].p # <<>> /\ Len(m.reass) = Len(s.reass)
    <3>1. s.count + pbuf_clen(s.pb, p) <= IP_REASS_MAX_PBUFS
      OBVIOUS
    <3>2. ChainedIn(s, T, k, m)
      BY <1>3, <1>5, <3>1, ChainOne
    <3> QED
      BY <3>2 DEF ChainedIn
  <2> HIDE DEF m, c
  <2>3. CASE ~c.valid
    <3>1. Complete(c, k).n = m /\ Complete(c, k).p = NULL
      BY <2>1, <2>3 DEF Complete
    <3> QED
      BY <1>1, <2>2, <3>1 DEF Reassembled, f
  <2>4. CASE c.valid
    <3> DEFINE h == Head(m.reass[k].p)
               j == Joined(m, k, CatAll(m.pb, m.reass[k].p), h)
    <3>1. Complete(c, k).n = j /\ Complete(c, k).p = h
      BY <2>1, <2>4 DEF Complete
    <3>2. Left1(m, T, h, j) /\ h \in Buf
      BY <2>2, JoinOne
    <3> HIDE DEF h, j
    <3>3. IpOK(j, T, {h}) /\ SameTimers(m, j) /\ IsPacket(j.pb[h].data)
      BY <3>2 DEF Left1
    <3>4. SameTimers(s, j)
      BY <2>2, <3>3 DEF SameTimers
    <3> QED
      BY <1>1, <3>1, <3>2, <3>3, <3>4 DEF Reassembled, f
  <2> QED
    BY <2>3, <2>4
<1> QED
  BY <1>6, <1>7

\* A fragment there is no room for is dropped.
LEMMA DropOne ==
    ASSUME NEW s, NEW T, NEW p, IpOK(s, T, {p})
    PROVE  Reassembled(s, T, Dropped(s, p))
<1>1. IpOK(FreeIt(s, p), T, {p} \ {p}) /\ SameTimers(s, FreeIt(s, p)) /\ {p} \ {p} = {}
  BY IpFree
<1> QED
  BY <1>1 DEF Reassembled, Dropped, FreeIt

\* Reassembly after a step that let datagrams go.
LEMMA ReassembledAfter ==
    ASSUME NEW s, NEW m, NEW T, NEW r, SameTimers(s, m), Reassembled(m, T, r)
    PROVE  Reassembled(s, T, r)
BY DEF Reassembled, SameTimers

\* ip_reass.
LEMMA Reassembly ==
    ASSUME NEW s, NEW T, NEW p, IpOK(s, T, {p}), IsPacket(s.pb[p].data)
    PROVE  Reassembled(s, T, ip_reass(s, p))
<1> DEFINE f == s.pb[p].data
           clen == pbuf_clen(s.pb, p)
           r == MakeRoom(s, f, clen)
           x == Find(r.n, f, clen)
           a == AddTo(x.n, PlaceOf(x.n, f), p, f, clen)
<1>1. ip_reass(s, p) = AddWithRoom(r, p, f, clen)
  BY DEF ip_reass, Frag
<1>2. clen = Cardinality(Members(s.pb, p)) /\ clen \in Nat
  <2>1. Arena(s.pb) /\ Own(s.pb, Loose(s), Holding(s, {p})) /\ p \in Holding(s, {p})
    BY DEF IpOK, ArpOK, HeldOK, Holding
  <2> QED
    BY <2>1, HeadFacts
<1> HIDE DEF f, clen
<1>3. LetGo(s, T, {p}, r.n) /\ (r.ok => r.n.count + clen <= IP_REASS_MAX_PBUFS)
  BY <1>2, RoomMade
<1> HIDE DEF r
<1>4. IpOK(r.n, T, {p}) /\ SameTimers(s, r.n)
  BY <1>3 DEF LetGo
<1>5. CASE ~r.ok
  <2>1. ip_reass(s, p) = Dropped(r.n, p)
    BY <1>1, <1>5 DEF AddWithRoom
  <2> QED
    BY <1>4, <2>1, DropOne, ReassembledAfter
<1>6. CASE r.ok
  <2>1. ip_reass(s, p) = AddFound(x, p, f, clen)
    BY <1>1, <1>6 DEF AddWithRoom
  <2>2. FoundIn(r.n, T, {p}, f, x)
    BY <1>2, <1>4, FindOne
  <2> HIDE DEF x
  <2>3. LetGo(r.n, T, {p}, x.n) /\ (x.ok => Known(x.n, f))
    BY <2>2 DEF FoundIn
  <2>4. LetGo(s, T, {p}, x.n)
    BY <1>3, <2>3, LetGoThen
  <2>5. /\ IpOK(x.n, T, {p}) /\ SameTimers(s, x.n) /\ x.n.pb[p].data = f
        /\ Members(x.n.pb, p) = Members(s.pb, p) /\ x.n.count <= r.n.count
    BY <2>3, <2>4 DEF LetGo, f
  <2>6. CASE ~x.ok
    <3>1. ip_reass(s, p) = Dropped(x.n, p)
      BY <2>1, <2>6 DEF AddFound
    <3> QED
      BY <2>5, <3>1, DropOne, ReassembledAfter
  <2>7. CASE x.ok
    <3> DEFINE k == PlaceOf(x.n, f)
    <3>1. ip_reass(s, p) = AddTo(x.n, k, p, x.n.pb[p].data, clen)
      BY <2>1, <2>5, <2>7 DEF AddFound
    <3>2. k \in 1..Len(x.n.reass)
      BY <2>3, <2>5, <2>7, PlaceFound
    <3> HIDE DEF k
    <3>3. clen = pbuf_clen(x.n.pb, p)
      <4>1. /\ Arena(x.n.pb) /\ Own(x.n.pb, Loose(x.n), Holding(x.n, {p}))
            /\ p \in Holding(x.n, {p})
        BY <2>5 DEF IpOK, ArpOK, HeldOK, Holding
      <4>2. pbuf_clen(x.n.pb, p) = Cardinality(Members(x.n.pb, p))
        BY <4>1, HeadFacts
      <4> QED
        BY <1>2, <2>5, <4>2
    <3>4. x.n.count + clen <= IP_REASS_MAX_PBUFS
      <4>1. x.n.count \in Nat /\ r.n.count \in Nat
        BY <1>4, <2>5 DEF IpOK, CountOK
      <4> QED
        BY <1>2, <1>3, <1>6, <2>5, <4>1, IpAssumption
    <3>5. IsPacket(x.n.pb[p].data)
      BY <2>5 DEF f
    <3>6. Reassembled(x.n, T, AddTo(x.n, k, p, x.n.pb[p].data, clen))
      BY <2>5, <3>2, <3>3, <3>4, <3>5, AddOne
    <3> QED
      BY <2>5, <3>1, <3>6, ReassembledAfter
  <2> QED
    BY <2>6, <2>7
<1> QED
  BY <1>5, <1>6

-----------------------------------------------------------------------------
(* Packets are handled.                                                    *)

\* The call is over, or it goes on with the packets X.
Handled(s, T, X, m) == IpOK(m, T, X) /\ SameTimers(s, m)

\* The call frees the packet it holds.
LEMMA HandledFree ==
    ASSUME NEW s, NEW T, NEW p, NEW m, Handled(s, T, {p}, m)
    PROVE  Handled(s, T, {}, FreeIt(m, p))
<1>1. IpOK(FreeIt(m, p), T, {p} \ {p}) /\ SameTimers(m, FreeIt(m, p)) /\ {p} \ {p} = {}
  BY IpFree DEF Handled
<1> QED
  BY <1>1 DEF Handled, SameTimers

\* The call has done nothing yet.
LEMMA HandledSelf ==
    ASSUME NEW s, NEW T, NEW X, IpOK(s, T, X) PROVE Handled(s, T, X, s)
BY DEF Handled, SameTimers

\* The call goes on.
LEMMA HandledThen ==
    ASSUME NEW s, NEW T, NEW X, NEW u, SameTimers(s, u), NEW m, Handled(u, T, X, m)
    PROVE  Handled(s, T, X, m)
BY DEF Handled, SameTimers

\* The call sends something.
LEMMA HandledSends ==
    ASSUME NEW s, NEW T, NEW X, IpOK(s, T, X), NEW U, NEW m, ArpStep(s, U, m)
    PROVE  Handled(s, U, X, m)
<1>1. SentOnly(s, U, m)
  BY StepSends
<1> QED
  BY <1>1, IpSends DEF Handled

\* icmp_send_response.
LEMMA HandledError ==
    ASSUME NEW s, NEW T, NEW X, IpOK(s, T, X), NEW src
    PROVE  Handled(s, T, X, icmp_send_response(s, src))
<1>1. ArpOK(s, T)
  BY DEF IpOK
<1>2. ArpStep(s, T, icmp_send_response(s, src))
  BY <1>1, ErrorSent
<1> QED
  BY <1>2, HandledSends

\* A packet with room for its headers is sent.
LEMMA SendWithRoom ==
    ASSUME NEW s, NEW T, NEW p, IpOK(s, T, {p}), NEW d, NEW dst, d.dst = dst, NEW parts \in Nat
    PROVE  Handled(s, T, {p}, ip_output_if([s EXCEPT !.pb[p].data = d], p, dst, parts))
<1> DEFINE v == [s EXCEPT !.pb[p].data = d]
           m == ip_output_if(v, p, dst, parts)
<1>1. /\ IpOK(v, T, {p}) /\ SameTimers(s, v) /\ v.pb[p].data = d /\ v.pb[p].ref = 1
      /\ p \in Loose(v)
  BY IpData
<1> HIDE DEF v
<1>2. ArpOK(v, T) /\ v.pb[p].data.dst = dst
  BY <1>1 DEF IpOK
<1>3. ArpStep(v, T, m)
  BY <1>1, <1>2, IpOutput
<1>4. Handled(v, T, {p}, m)
  BY <1>1, <1>3, HandledSends
<1>5. Handled(s, T, {p}, m)
  BY <1>1, <1>4, HandledThen
<1> QED
  BY <1>5 DEF v

\* An echo request is answered in its buffer.
LEMMA EchoOne ==
    ASSUME NEW s, NEW T, NEW p, IpOK(s, T, {p}), NEW f, IsPacket(f)
    PROVE  Handled(s, T, {p}, EchoReply(s, p, f))
<1> DEFINE d == [f EXCEPT !.src = f.dst, !.dst = f.src]
<1>1. d.dst = f.src /\ f.of \in Nat
  BY DEF IsPacket, PacketFields
<1> HIDE DEF d
<1>2. Handled(s, T, {p}, ip_output_if([s EXCEPT !.pb[p].data = d], p, f.src, f.of))
  BY <1>1, SendWithRoom
<1> QED
  BY <1>2 DEF EchoReply, d

\* A datagram goes to UDP or ICMP, or is refused.
LEMMA DispatchOne ==
    ASSUME NEW s, NEW T, NEW p, IpOK(s, T, {p}), IsPacket(s.pb[p].data)
    PROVE  Handled(s, T, {}, Dispatch(s, p, s.pb[p].data))
<1> DEFINE f == s.pb[p].data
<1>1. Handled(s, T, {}, FreeIt(s, p))
  BY HandledSelf, HandledFree
<1>2. Handled(s, T, {}, FreeIt(icmp_send_response(s, f.src), p))
  BY HandledError, HandledFree
<1>3. Handled(s, T, {}, FreeIt(EchoReply(s, p, f), p))
  BY EchoOne, HandledFree
<1>4. Handled(s, T, {}, [s EXCEPT !.up = @ \cup {p}])
  BY IpUp DEF Handled
<1>5. CASE f.proto = "udp"
  <2>1. Dispatch(s, p, f) = udp_input(s, p, f)
    BY <1>5 DEF Dispatch
  <2>2. \/ udp_input(s, p, f) = [s EXCEPT !.up = @ \cup {p}]
        \/ udp_input(s, p, f) = FreeIt(icmp_send_response(s, f.src), p)
        \/ udp_input(s, p, f) = FreeIt(s, p)
    BY Zenon DEF udp_input
  <2> QED
    BY <1>1, <1>2, <1>4, <2>1, <2>2
<1>6. CASE f.proto = "icmp"
  <2>1. Dispatch(s, p, f) = icmp_input(s, p, f)
    BY <1>6 DEF Dispatch
  <2>2. \/ icmp_input(s, p, f) = FreeIt(EchoReply(s, p, f), p)
        \/ icmp_input(s, p, f) = FreeIt(s, p)
    BY Zenon DEF icmp_input
  <2> QED
    BY <1>1, <1>3, <2>1, <2>2
<1>7. CASE f.proto \notin {"udp", "icmp"}
  <2>1. \/ Dispatch(s, p, f) = FreeIt(icmp_send_response(s, f.src), p)
        \/ Dispatch(s, p, f) = FreeIt(s, p)
    BY <1>7 DEF Dispatch
  <2> QED
    BY <1>1, <1>2, <2>1
<1> QED
  BY <1>5, <1>6, <1>7

\* ip_input.
LEMMA IpInput ==
    ASSUME NEW s, NEW T, NEW p, IpOK(s, T, {p}), IsPacket(s.pb[p].data)
    PROVE  Handled(s, T, {}, ip_input(s, p, s.pb[p].data))
<1> DEFINE f == s.pb[p].data
           r == IF IsFragment(f) THEN ip_reass(s, p) ELSE [n |-> s, p |-> p]
<1>1. p \in Buf
  BY DEF IpOK, HeldOK, Holding, Own
<1>2. Reassembled(s, T, [n |-> s, p |-> p])
  BY <1>1 DEF Reassembled, SameTimers
<1>3. Reassembled(s, T, r)
  BY <1>2, Reassembly
<1>4. CASE f.dst \notin {"me", Broadcast} \/ f.proto = "damaged"
  <2>1. ip_input(s, p, f) = FreeIt(s, p)
    BY <1>4 DEF ip_input
  <2> QED
    BY <2>1, HandledSelf, HandledFree
<1>5. CASE ~(f.dst \notin {"me", Broadcast} \/ f.proto = "damaged")
  <2>1. ip_input(s, p, f) = Passed(r)
    BY <1>5 DEF ip_input
  <2> HIDE DEF r
  <2>2. CASE r.p = NULL
    <3>1. Passed(r) = r.n
      BY <2>2 DEF Passed
    <3>2. IpOK(r.n, T, {}) /\ SameTimers(s, r.n)
      BY <1>3, <2>2, BufFacts DEF Reassembled
    <3> QED
      BY <2>1, <3>1, <3>2 DEF Handled
  <2>3. CASE r.p # NULL
    <3>1. Passed(r) = Dispatch(r.n, r.p, r.n.pb[r.p].data)
      BY <2>3 DEF Passed, Frag
    <3>2. IpOK(r.n, T, {r.p}) /\ SameTimers(s, r.n) /\ IsPacket(r.n.pb[r.p].data)
      BY <1>3, <2>3 DEF Reassembled
    <3>3. Handled(r.n, T, {}, Dispatch(r.n, r.p, r.n.pb[r.p].data))
      BY <3>2, DispatchOne
    <3> QED
      BY <2>1, <3>1, <3>2, <3>3, HandledThen
  <2> QED
    BY <2>2, <2>3
<1> QED
  BY <1>4, <1>5

\* What the neighbours have told after frame f.
ToldBy(T, f) == IF f.type = "arp" THEN Told(T, f.sipaddr, f.shwaddr) ELSE T
IsFrame(f) == (f.type = "arp" => f.shwaddr # Zero) /\ (f.type = "ip" => IsPacket(f))

\* ethernet_input.
LEMMA EthernetInput ==
    ASSUME NEW s, NEW T, NEW p, IpOK(s, T, {p}), s.wire = {}, IsFrame(s.pb[p].data)
    PROVE  Handled(s, ToldBy(T, s.pb[p].data), {}, ethernet_input(s, p, s.pb[p].data))
<1> DEFINE f == s.pb[p].data
<1>1. CASE f.type = "arp"
  <2> DEFINE U == Told(T, f.sipaddr, f.shwaddr)
             flag == IF f.dipaddr = "me" THEN "TRY_HARD" ELSE "FIND_ONLY"
             m == etharp_update_arp_entry(s, f.sipaddr, f.shwaddr, flag)
  <2>1. ethernet_input(s, p, f) = FreeIt(m, p) /\ ToldBy(T, f) = U
    BY <1>1 DEF ethernet_input, etharp_arp_input, FreeIt, ToldBy
  <2>2. ArpOK(s, T) /\ f.shwaddr # Zero
    BY <1>1 DEF IpOK, IsFrame
  <2>3. ArpStep(s, U, m)
    BY <2>2, UpdateEntry
  <2>4. Handled(s, U, {p}, m)
    BY <2>3, HandledSends
  <2>5. Handled(s, U, {}, FreeIt(m, p))
    BY <2>4, HandledFree
  <2> QED
    BY <2>1, <2>5
<1>2. CASE f.type = "ip"
  <2>1. ethernet_input(s, p, f) = ip_input(s, p, f) /\ ToldBy(T, f) = T
    BY <1>2 DEF ethernet_input, ToldBy
  <2>2. IsPacket(f)
    BY <1>2 DEF IsFrame
  <2>3. Handled(s, T, {}, ip_input(s, p, f))
    BY <2>2, IpInput
  <2> QED
    BY <2>1, <2>3
<1>3. CASE f.type \notin {"arp", "ip"}
  <2>1. ethernet_input(s, p, f) = FreeIt(s, p) /\ ToldBy(T, f) = T
    BY <1>3 DEF ethernet_input, ToldBy
  <2> QED
    BY <2>1, HandledSelf, HandledFree
<1> QED
  BY <1>1, <1>2, <1>3

\* ethernetif_input: a frame is taken, or lost for want of buffers.
LEMMA DriverInput ==
    ASSUME NEW s, NEW T, IpOK(s, T, {}), s.wire = {}, NEW f, IsFrame(f), NEW clen \in Nat \ {0}
    PROVE  Handled(s, IF clen <= Cardinality(FreeIn(s.pb, PBUF_POOL)) THEN ToldBy(T, f) ELSE T, {},
                   ethernetif_input(s, f, clen))
<1> DEFINE a == pbuf_alloc(s.pb, PBUF_POOL, clen, f)
           m == [s EXCEPT !.pb = a.pb]
           w == Cardinality(FreeIn(s.pb, PBUF_POOL))
<1>1. w \in Nat
  <2>1. FreeIn(s.pb, PBUF_POOL) \subseteq Buf
    BY BufFacts DEF FreeIn
  <2> QED
    BY <2>1, BufFacts, FS_Subset, FS_CardinalityType
<1>2. CASE clen <= w
  <2>1. w >= clen
    BY <1>1, <1>2
  <2>2. /\ a.p # NULL /\ IpOK(m, T, {a.p}) /\ m.pb[a.p].data = f
        /\ SameTimers(s, m) /\ m.hung = s.hung /\ m.wire = s.wire
    BY <2>1, IpAlloc
  <2>3. ethernetif_input(s, f, clen) = ethernet_input(m, a.p, f)
    BY <2>2 DEF ethernetif_input, Taken
  <2> HIDE DEF m, a
  <2>4. Handled(m, ToldBy(T, f), {}, ethernet_input(m, a.p, f))
    BY <2>2, EthernetInput
  <2>5. Handled(s, ToldBy(T, f), {}, ethernet_input(m, a.p, f))
    BY <2>2, <2>4, HandledThen
  <2> QED
    BY <1>2, <2>3, <2>5
<1>3. CASE ~(clen <= w)
  <2>1. w < clen
    BY <1>1, <1>3
  <2>2. a.p = NULL
    BY <2>1 DEF pbuf_alloc
  <2>3. ethernetif_input(s, f, clen) = s
    BY <2>2 DEF ethernetif_input, Taken
  <2> QED
    BY <1>3, <2>3, HandledSelf
<1> QED
  BY <1>2, <1>3

-----------------------------------------------------------------------------
(* The application sends.                                                  *)

\* udp_sendto, with and without room for the headers.
LEMMA UdpSend ==
    ASSUME NEW s, NEW T, NEW p, IpOK(s, T, {p}), NEW dst, NEW parts \in Nat, NEW room
    PROVE  Handled(s, T, {p}, udp_sendto(s, p, dst, parts, room))
<1>1. Made(dst).dst = dst
  BY DEF Made
<1>2. Handled(s, T, {p}, ip_output_if([s EXCEPT !.pb[p].data = Made(dst)], p, dst, parts))
  BY <1>1, SendWithRoom
<1> DEFINE m == SendBehind(s, pbuf_alloc(s.pb, PBUF_RAM, 1, Made(dst)), p, dst, parts)
<1>3. ArpOK(s, T) /\ p \in Loose(s) /\ s.pb[p].ref = 1
  BY DEF IpOK, HeldOK, Holding, Own
<1>4. SentOnly(s, T, m)
  BY <1>3, BehindSent
<1>5. Handled(s, T, {p}, m)
  BY <1>4, IpSends DEF Handled
<1> QED
  BY <1>2, <1>5 DEF udp_sendto

\* ARP does not look at what the application holds.
LEMMA ArpSame ==
    ASSUME NEW s, NEW T, ArpOK(s, T), NEW m, DOMAIN m = Fields, m.pb = s.pb, m.arp = s.arp,
           m.hint = s.hint, m.wire = s.wire
    PROVE  ArpOK(m, T) /\ Loose(m) = Loose(s)
BY DEF ArpOK, Loose, Kept

\* An answer in the buffers of the datagram, which the application then does
\* not hold any more.
LEMMA UdpAnswer ==
    ASSUME NEW s, NEW T, IpOK(s, T, {}), NEW p \in s.up
    PROVE  Handled(s, T, {p}, [udp_sendto(s, p, s.pb[p].data.src, s.pb[p].data.of, TRUE)
                                  EXCEPT !.up = @ \ {p}])
<1> DEFINE f == s.pb[p].data
           d == Made(f.src)
           lo == [s EXCEPT !.up = @ \ {p}]
           v == [s EXCEPT !.pb[p].data = d]
           lv == [lo EXCEPT !.pb[p].data = d]
           m == ip_output_if(v, p, f.src, f.of)
           lm == [m EXCEPT !.up = @ \ {p}]
<1>1. udp_sendto(s, p, f.src, f.of, TRUE) = m
  BY DEF udp_sendto
<1>2. DOMAIN s = Fields /\ IsPacket(f)
  BY DEF IpOK, ArpOK, HeldOK
<1>3. IpOK(lo, T, {p}) /\ SameTimers(s, lo)
  BY IpDown
<1>4. /\ IpOK(lv, T, {p}) /\ SameTimers(lo, lv) /\ lv.pb[p].data = d /\ lv.pb[p].ref = 1
      /\ p \in Loose(lv)
  <2> HIDE DEF lo, d
  <2> QED
    BY <1>3, IpData
<1>5. /\ DOMAIN v = Fields /\ lv.pb = v.pb /\ lv.arp = v.arp /\ lv.hint = v.hint
      /\ lv.wire = v.wire /\ lv.up = v.up \ {p} /\ lv.reass = v.reass /\ lv.count = v.count
      /\ lv.hung = v.hung /\ SameTimers(v, lv) /\ DOMAIN lv = Fields
  BY <1>2 DEF Fields, SameTimers
<1>6. d.dst = f.src /\ f.of \in Nat
  BY <1>2 DEF Made, IsPacket
<1> HIDE DEF d, f, v, lv, lo
<1>7. ArpOK(v, T) /\ Loose(v) = Loose(lv)
  <2>1. ArpOK(lv, T)
    BY <1>4 DEF IpOK
  <2> QED
    BY <1>5, <2>1, ArpSame
<1>8. p \in Loose(v) /\ v.pb[p].data.dst = f.src /\ v.pb[p].ref = 1
  BY <1>4, <1>5, <1>6, <1>7
<1>9. ArpStep(v, T, m)
  BY <1>6, <1>7, <1>8, IpOutput
<1> HIDE DEF m
<1>10. SentOnly(v, T, m) /\ DOMAIN m = Fields
  <2>1. SentOnly(v, T, m)
    BY <1>9, StepSends
  <2> QED
    BY <2>1 DEF SentOnly, ArpOK
<1>11. /\ DOMAIN lm = Fields /\ lm.pb = m.pb /\ lm.arp = m.arp /\ lm.hint = m.hint
       /\ lm.wire = m.wire /\ lm.up = m.up \ {p} /\ lm.reass = m.reass /\ lm.count = m.count
       /\ lm.hung = m.hung /\ SameTimers(m, lm)
  BY <1>10 DEF Fields, SameTimers
<1> HIDE DEF lm
<1>12. ArpOK(lm, T) /\ Loose(lm) = Loose(m)
  BY <1>10, <1>11, ArpSame DEF SentOnly
<1>13. SameRest(lv, lm)
  BY <1>5, <1>10, <1>11 DEF SentOnly, SameRest, SameTimers
<1>14. SentOnly(lv, T, lm)
  <2>1. /\ Loose(m) = Loose(v)
        /\ \A i \in Loose(v) : /\ m.pb[i].ref = v.pb[i].ref /\ m.pb[i].next = v.pb[i].next
                               /\ m.pb[i].data = v.pb[i].data
    BY <1>10 DEF SentOnly
  <2>2. \A i \in Loose(lv) : /\ lm.pb[i].ref = lv.pb[i].ref /\ lm.pb[i].next = lv.pb[i].next
                             /\ lm.pb[i].data = lv.pb[i].data
    BY <1>5, <1>7, <1>11, <2>1
  <2>3. Loose(lm) = Loose(lv)
    BY <1>7, <1>12, <2>1
  <2> QED
    BY <1>12, <1>13, <2>2, <2>3 DEF SentOnly
<1>15. IpOK(lm, T, {p}) /\ SameTimers(lv, lm)
  BY <1>4, <1>14, IpSends
<1>16. SameTimers(s, lm)
  BY <1>3, <1>4, <1>15 DEF SameTimers
<1> QED
  BY <1>1, <1>15, <1>16 DEF Handled, lm, f

-----------------------------------------------------------------------------
(* The list of timeouts.                                                   *)

Handlers == {"tcp", "reass", "arp"}
Slot == [h : Handlers, time : Nat]

SumInv(c, i, r) ==
    r = c.g[i] /\ DOMAIN r = {"ts", "i", "sum"} /\ r.ts = c.ts /\ r.i = i + 1 /\ r.sum \in Nat
Adding == INSTANCE LoopProofs WITH Op <- AddTime, Inv <- SumInv

\* Until is the sum of the times up to there.
LEMMA UntilFacts ==
    ASSUME NEW ts \in Seq(Slot)
    PROVE  /\ Until(ts, 0) = 0
           /\ \A j \in 0..Len(ts) : Until(ts, j) \in Nat
           /\ \A j \in 0..(Len(ts) - 1) : Until(ts, j + 1) = Until(ts, j) + ts[j + 1].time
<1> DEFINE a == [ts |-> ts, i |-> 1, sum |-> 0]
           N == Len(ts)
<1>1. N \in Nat /\ \A j \in 1..N : ts[j].time \in Nat
  <2>1. \A j \in 1..Len(ts) : ts[j] \in Slot
    OBVIOUS
  <2>2. \A x \in Slot : x.time \in Nat
    BY DEF Slot
  <2> QED
    BY <2>1, <2>2
<1>2. a.ts = ts /\ a.i = 1 /\ a.sum = 0 /\ DOMAIN a = {"ts", "i", "sum"}
  OBVIOUS
<1>3. \A j \in 0..N : Until(ts, j) = Iterate(AddTime, j, a).sum
  BY DEF Until
<1> HIDE DEF a, N
<1>4. PICK g : g = [i \in 0..N |-> IF i = 0 THEN a ELSE AddTime(g[i - 1])]
  BY <1>1, Adding!IterateExists
<1>5. g[0] = a /\ \A i \in 0..(N - 1) : g[i + 1] = AddTime(g[i])
  BY <1>1, <1>4
<1> DEFINE c == [ts |-> ts, g |-> g]
<1>6. c.ts = ts /\ c.g = g
  OBVIOUS
<1> HIDE DEF c
<1>7. SumInv(c, 0, a)
  BY <1>2, <1>5, <1>6 DEF SumInv
<1>8. \A i \in 0..(N - 1) : \A r : SumInv(c, i, r) => SumInv(c, i + 1, AddTime(r))
  <2> SUFFICES ASSUME NEW i \in 0..(N - 1), NEW r, SumInv(c, i, r)
               PROVE  SumInv(c, i + 1, AddTime(r))
    OBVIOUS
  <2> DEFINE q == AddTime(r)
  <2>1. r = g[i] /\ DOMAIN r = {"ts", "i", "sum"} /\ r.ts = ts /\ r.i = i + 1 /\ r.sum \in Nat
    BY <1>6 DEF SumInv
  <2>2. i + 1 \in 1..N
    BY <1>1
  <2>3. /\ DOMAIN q = {"ts", "i", "sum"} /\ q.ts = ts /\ q.i = (i + 1) + 1
        /\ q.sum = r.sum + ts[i + 1].time
    BY <2>1 DEF AddTime
  <2>4. q = g[i + 1]
    BY <1>5, <2>1
  <2> HIDE DEF q
  <2>5. q.sum \in Nat
    BY <1>1, <2>1, <2>2, <2>3
  <2> QED
    BY <1>6, <2>3, <2>4, <2>5 DEF SumInv, q
<1>9. \A j \in 0..N : SumInv(c, j, Iterate(AddTime, j, a))
  <2> SUFFICES ASSUME NEW j \in 0..N PROVE SumInv(c, j, Iterate(AddTime, j, a))
    OBVIOUS
  <2>1. j \in Nat
    BY <1>1
  <2>2. \A i \in 0..(j - 1) : \A r : SumInv(c, i, r) => SumInv(c, i + 1, AddTime(r))
    BY <1>1, <1>8
  <2> QED
    BY <1>7, <2>1, <2>2, Adding!LoopInvariant DEF Iterate, Adding!Iterate
<1>10. \A j \in 0..N : /\ Until(ts, j) = g[j].sum /\ Until(ts, j) \in Nat
                       /\ g[j].ts = ts /\ g[j].i = j + 1 /\ DOMAIN g[j] = {"ts", "i", "sum"}
  BY <1>3, <1>6, <1>9 DEF SumInv
<1>11. 0 \in 0..N
  BY <1>1
<1>12. Until(ts, 0) = 0
  BY <1>2, <1>5, <1>10, <1>11
<1>13. ASSUME NEW j \in 0..(N - 1) PROVE Until(ts, j + 1) = Until(ts, j) + ts[j + 1].time
  <2>1. j \in 0..N /\ j + 1 \in 0..N
    BY <1>1
  <2>2. g[j + 1].sum = g[j].sum + ts[j + 1].time
    <3> DEFINE x == g[j]
    <3>1. g[j + 1] = AddTime(x)
      BY <1>5
    <3>2. DOMAIN x = {"ts", "i", "sum"} /\ x.ts = ts /\ x.i = j + 1
      BY <1>10, <2>1
    <3> HIDE DEF x
    <3>3. AddTime(x).sum = x.sum + ts[j + 1].time
      BY <3>2 DEF AddTime
    <3> QED
      BY <3>1, <3>3 DEF x
  <2> QED
    BY <1>10, <2>1, <2>2
<1> QED
  BY <1>10, <1>12, <1>13 DEF N

\* A record of the list, by its fields.
LEMMA SlotFacts ==
    ASSUME NEW ts \in Seq(Slot)
    PROVE  /\ Len(ts) \in Nat /\ DOMAIN ts = 1..Len(ts)
           /\ \A j \in 1..Len(ts) : /\ ts[j] \in Slot /\ ts[j].h \in Handlers /\ ts[j].time \in Nat
                                    /\ DOMAIN ts[j] = {"h", "time"}
<1>1. \A j \in 1..Len(ts) : ts[j] \in Slot
  OBVIOUS
<1>2. \A x \in Slot : x.time \in Nat /\ x.h \in Handlers /\ DOMAIN x = {"h", "time"}
  BY DEF Slot
<1> QED
  BY <1>1, <1>2

\* The new timeout goes where the ones in front of it come no later and the
\* one behind it comes later.
LEMMA AfterFacts ==
    ASSUME NEW ts \in Seq(Slot), NEW msecs \in Nat
    PROVE  LET j == After(ts, msecs)
           IN  /\ j \in 0..Len(ts) /\ Until(ts, j) <= msecs
               /\ j < Len(ts) => ts[j + 1].time > msecs - Until(ts, j)
<1> DEFINE N == Len(ts)
           S == {j \in 0..N : j = N \/ ts[j + 1].time > msecs - Until(ts, j)}
           m == Min(S)
<1>1. N \in Nat /\ \A j \in 1..N : ts[j].time \in Nat
  BY SlotFacts
<1>2. /\ Until(ts, 0) = 0
      /\ \A j \in 0..N : Until(ts, j) \in Nat
      /\ \A j \in 0..(N - 1) : Until(ts, j + 1) = Until(ts, j) + ts[j + 1].time
  BY UntilFacts
<1>3. After(ts, msecs) = m
  BY DEF After
<1> HIDE DEF N
<1>4. N \in S /\ S \in SUBSET Nat
  <2>1. N \in 0..N /\ 0..N \subseteq Nat
    BY <1>1
  <2> QED
    BY <2>1
<1>5. m \in S /\ \A j \in S : m <= j
  <2> HIDE DEF S
  <2> QED
    BY <1>4, LeastIsMin
<1> HIDE DEF m
<1>6. m \in 0..N /\ m \in Nat /\ (m = N \/ ts[m + 1].time > msecs - Until(ts, m))
  BY <1>1, <1>5
<1>7. Until(ts, m) <= msecs
  <2>1. CASE m = 0
    BY <1>2, <2>1
  <2>2. CASE m # 0
    <3> DEFINE k == m - 1
    <3>1. k \in 0..(N - 1) /\ k \in 0..N /\ k + 1 = m /\ k < m /\ k # N /\ k + 1 \in 1..N
      BY <1>1, <1>6, <2>2
    <3> HIDE DEF k
    <3>2. k \notin S
      <4> HIDE DEF S
      <4>1. k \in Nat
        BY <1>1, <3>1
      <4> QED
        BY <1>5, <1>6, <3>1, <4>1
    <3>3. ~(ts[k + 1].time > msecs - Until(ts, k))
      BY <3>1, <3>2
    <3>4. Until(ts, k + 1) = Until(ts, k) + ts[k + 1].time /\ Until(ts, k) \in Nat /\ ts[k + 1].time \in Nat
      BY <1>1, <1>2, <3>1
    <3>5. Until(ts, k + 1) <= msecs
      BY <3>3, <3>4
    <3> QED
      BY <3>1, <3>5
  <2> QED
    BY <2>1, <2>2
<1>8. m < N => ts[m + 1].time > msecs - Until(ts, m)
  BY <1>1, <1>6
<1> QED
  BY <1>3, <1>6, <1>7, <1>8 DEF N

\* The list with a new timeout behind the first j.
Moved(j, i) == IF i <= j THEN i ELSE i + 1
Inserted(ts, j, h, r) ==
    /\ r \in Seq(Slot) /\ Len(r) = Len(ts) + 1
    /\ r[j + 1].h = h
    /\ \A i \in 1..Len(ts) : r[Moved(j, i)].h = ts[i].h
    /\ \A i \in 0..Len(ts) : Until(r, Moved(j, i)) = Until(ts, i)

\* sys_timeout keeps the time of all the others.
LEMMA InsertOne ==
    ASSUME NEW ts \in Seq(Slot), NEW h \in Handlers, NEW msecs \in Nat
    PROVE  Inserted(ts, After(ts, msecs), h, sys_timeout(ts, h, msecs))
<1> DEFINE N == Len(ts)
           j == After(ts, msecs)
           t == msecs - Until(ts, j)
           r == Insert(ts, j, h, msecs)
<1>1. N \in Nat /\ \A i \in 1..N : ts[i] \in Slot /\ ts[i].h \in Handlers /\ ts[i].time \in Nat
                                  /\ DOMAIN ts[i] = {"h", "time"}
  BY SlotFacts
<1>2. /\ Until(ts, 0) = 0
      /\ \A i \in 0..N : Until(ts, i) \in Nat
      /\ \A i \in 0..(N - 1) : Until(ts, i + 1) = Until(ts, i) + ts[i + 1].time
  BY UntilFacts
<1>3. j \in 0..N /\ Until(ts, j) <= msecs /\ (j < N => ts[j + 1].time > msecs - Until(ts, j))
  BY AfterFacts
<1>4. sys_timeout(ts, h, msecs) = r
  BY DEF sys_timeout
<1> HIDE DEF j
<1>5. j \in Nat /\ Until(ts, j) \in Nat /\ t \in Nat
  BY <1>1, <1>2, <1>3
<1> DEFINE Later == [ts[j + 1] EXCEPT !.time = @ - t]
<1>6. /\ DOMAIN r = 1..(N + 1)
      /\ \A i \in 1..j : r[i] = ts[i]
      /\ r[j + 1] = [h |-> h, time |-> t]
      /\ j < N => r[j + 2] = Later
      /\ \A i \in (j + 3)..(N + 1) : r[i] = ts[i - 1]
  <2>1. r = [i \in 1..(N + 1) |->
        CASE i <= j -> ts[i]
          [] i = j + 1 -> [h |-> h, time |-> t]
          [] i = j + 2 -> Later
          [] OTHER -> ts[i - 1]]
    BY DEF Insert
  <2> HIDE DEF r, Later, t
  <2>2. \A i \in 1..j : i \in 1..(N + 1) /\ i <= j /\ i # j + 1 /\ i # j + 2
    BY <1>1, <1>3, <1>5
  <2>3. j + 1 \in 1..(N + 1) /\ ~(j + 1 <= j) /\ j + 1 # j + 2
    BY <1>1, <1>3, <1>5
  <2>4. j < N => j + 2 \in 1..(N + 1) /\ ~(j + 2 <= j) /\ j + 2 # j + 1
    BY <1>1, <1>3, <1>5
  <2>5. \A i \in (j + 3)..(N + 1) : i \in 1..(N + 1) /\ ~(i <= j) /\ i # j + 1 /\ i # j + 2
    BY <1>1, <1>3, <1>5
  <2> DEFINE F(i) == CASE i <= j -> ts[i]
                      [] i = j + 1 -> [h |-> h, time |-> t]
                      [] i = j + 2 -> Later
                      [] OTHER -> ts[i - 1]
  <2>6. DOMAIN r = 1..(N + 1) /\ \A i \in 1..(N + 1) : r[i] = F(i)
    BY <2>1
  <2>7. \A i \in 1..j : F(i) = ts[i]
    BY <2>2
  <2>8. F(j + 1) = [h |-> h, time |-> t]
    BY <2>3
  <2>9. j < N => F(j + 2) = Later
    BY <2>4
  <2>10. \A i \in (j + 3)..(N + 1) : F(i) = ts[i - 1]
    BY <2>5
  <2> HIDE DEF F
  <2> QED
    BY <2>2, <2>3, <2>4, <2>5, <2>6, <2>7, <2>8, <2>9, <2>10
<1>7. /\ [h |-> h, time |-> t] \in Slot /\ [h |-> h, time |-> t].h = h
      /\ [h |-> h, time |-> t].time = t
  BY <1>5 DEF Slot
<1>8. j < N => Later \in Slot /\ Later.h = ts[j + 1].h /\ Later.time = ts[j + 1].time - t
  <2> SUFFICES ASSUME j < N PROVE Later \in Slot /\ Later.h = ts[j + 1].h /\ Later.time = ts[j + 1].time - t
    OBVIOUS
  <2> DEFINE e == ts[j + 1]
  <2>1. j + 1 \in 1..N
    BY <1>1, <1>3, <1>5
  <2>2. e \in Slot /\ e.time \in Nat /\ e.time - t \in Nat
    BY <1>1, <1>3, <1>5, <2>1
  <2> HIDE DEF e, t
  <2>3. [e EXCEPT !.time = @ - t] \in Slot /\ [e EXCEPT !.time = @ - t].h = e.h
        /\ [e EXCEPT !.time = @ - t].time = e.time - t
    BY <2>2 DEF Slot
  <2> QED
    BY <2>3 DEF e
<1> HIDE DEF r, Later, t
<1>9. /\ \A i \in 1..j : i \in 1..N /\ i \in 1..(N + 1)
      /\ j < N => j + 1 \in 1..N
      /\ \A i \in (j + 3)..(N + 1) : i - 1 \in 1..N
  BY <1>1, <1>3, <1>5
<1>10. \A i \in 1..(N + 1) : r[i] \in Slot
  <2> SUFFICES ASSUME NEW i \in 1..(N + 1) PROVE r[i] \in Slot
    OBVIOUS
  <2>1. i \in 1..j \/ i = j + 1 \/ (j < N /\ i = j + 2) \/ i \in (j + 3)..(N + 1)
    <3>1. N \in Nat /\ j \in Nat
      BY <1>1, <1>5
    <3> HIDE DEF N
    <3>2. i \in Int /\ 1 <= i /\ i <= N + 1
      BY <3>1
    <3> QED
      BY <3>1, <3>2
  <2> QED
    BY <1>1, <1>6, <1>7, <1>8, <1>9, <2>1
<1>11. r \in Seq(Slot) /\ Len(r) = N + 1
  <2>1. r \in [1..(N + 1) -> Slot]
    <3>1. r = [i \in 1..(N + 1) |-> r[i]]
      BY <1>6 DEF r, Insert
    <3> QED
      BY <1>10, <3>1
  <2>2. N + 1 \in Nat
    BY <1>1
  <2> QED
    BY <2>1, <2>2
<1>12. r[j + 1].h = h
  BY <1>6, <1>7
<1>13. ASSUME NEW i \in 1..N
       PROVE  /\ r[Moved(j, i)].h = ts[i].h
              /\ i <= j => r[i].time = ts[i].time
              /\ i = j + 1 => r[i + 1].time = ts[i].time - t
              /\ i > j + 1 => r[i + 1].time = ts[i].time
  <2>1. CASE i <= j
    <3>1. i \in 1..j /\ Moved(j, i) = i /\ i # j + 1 /\ ~(i > j + 1)
      BY <1>1, <1>5, <2>1 DEF Moved
    <3> QED
      BY <1>6, <3>1
  <2>2. CASE i = j + 1
    <3>1. j < N /\ Moved(j, i) = j + 2 /\ i + 1 = j + 2 /\ ~(i <= j) /\ ~(i > j + 1)
      BY <1>1, <1>5, <2>2 DEF Moved
    <3> QED
      BY <1>6, <1>8, <2>2, <3>1
  <2>3. CASE i > j + 1
    <3>1. i + 1 \in (j + 3)..(N + 1) /\ Moved(j, i) = i + 1 /\ (i + 1) - 1 = i /\ ~(i <= j) /\ i # j + 1
      BY <1>1, <1>5, <2>3 DEF Moved
    <3> QED
      BY <1>6, <3>1
  <2> QED
    BY <1>1, <1>5, <2>1, <2>2, <2>3
<1>14. /\ Until(r, 0) = 0
       /\ \A i \in 0..(N + 1) : Until(r, i) \in Nat
       /\ \A i \in 0..N : Until(r, i + 1) = Until(r, i) + r[i + 1].time
  <2>1. /\ Until(r, 0) = 0
        /\ \A i \in 0..Len(r) : Until(r, i) \in Nat
        /\ \A i \in 0..(Len(r) - 1) : Until(r, i + 1) = Until(r, i) + r[i + 1].time
    BY <1>11, UntilFacts
  <2>2. Len(r) - 1 = N
    BY <1>1, <1>11
  <2> QED
    BY <1>11, <2>1, <2>2
<1> DEFINE K == {i \in Nat : i <= N => Until(r, Moved(j, i)) = Until(ts, i)}
<1>15. 0 \in K
  <2>1. Moved(j, 0) = 0
    BY <1>5 DEF Moved
  <2> QED
    BY <1>2, <1>14, <2>1
<1>16. ASSUME NEW i \in K PROVE i + 1 \in K
  <2> SUFFICES ASSUME i + 1 <= N PROVE Until(r, Moved(j, i + 1)) = Until(ts, i + 1)
    OBVIOUS
  <2>1. i \in Nat /\ i <= N /\ Until(r, Moved(j, i)) = Until(ts, i)
    BY <1>1
  <2>2. /\ i \in 0..(N - 1) /\ i + 1 \in 1..N /\ i \in 0..N /\ i + 1 \in 0..N /\ i \in 0..(N + 1)
        /\ (i + 1) + 1 \in 0..(N + 1)
    BY <1>1, <2>1
  <2>3. Until(ts, i + 1) = Until(ts, i) + ts[i + 1].time /\ Until(ts, i) \in Nat
        /\ ts[i + 1].time \in Nat
    BY <1>1, <1>2, <2>2
  <2>4. /\ Until(r, i + 1) = Until(r, i) + r[i + 1].time
        /\ Until(r, (i + 1) + 1) = Until(r, i + 1) + r[(i + 1) + 1].time
        /\ Until(r, i) \in Nat /\ Until(r, i + 1) \in Nat
    BY <1>1, <1>14, <2>2
  <2>5. CASE i + 1 <= j
    <3>1. Moved(j, i) = i /\ Moved(j, i + 1) = i + 1
      BY <1>5, <2>1, <2>5 DEF Moved
    <3>2. r[i + 1].time = ts[i + 1].time
      BY <1>13, <2>2, <2>5
    <3> QED
      BY <2>1, <2>3, <2>4, <3>1, <3>2
  <2>6. CASE i + 1 = j + 1
    <3>1. Moved(j, i) = i /\ Moved(j, i + 1) = (i + 1) + 1 /\ i = j
      BY <1>5, <2>1, <2>6 DEF Moved
    <3>2. r[(i + 1) + 1].time = ts[i + 1].time - t /\ r[i + 1].time = t
      BY <1>6, <1>7, <1>13, <2>2, <2>6, <3>1
    <3> QED
      BY <1>5, <2>1, <2>3, <2>4, <3>1, <3>2
  <2>7. CASE i + 1 > j + 1
    <3>1. Moved(j, i) = i + 1 /\ Moved(j, i + 1) = (i + 1) + 1
      BY <1>5, <2>1, <2>7 DEF Moved
    <3>2. r[(i + 1) + 1].time = ts[i + 1].time
      BY <1>13, <2>2, <2>7
    <3> QED
      BY <2>1, <2>3, <2>4, <3>1, <3>2
  <2> QED
    BY <1>5, <2>1, <2>5, <2>6, <2>7
<1>17. K = Nat
  <2> HIDE DEF K
  <2>1. K \in SUBSET Nat
    BY DEF K
  <2> QED
    BY <1>15, <1>16, <2>1, Chaining!SetInduction
<1>18. \A i \in 0..N : Until(r, Moved(j, i)) = Until(ts, i)
  BY <1>1, <1>17
<1> QED
  BY <1>4, <1>11, <1>12, <1>13, <1>18 DEF Inserted, j, N

-----------------------------------------------------------------------------
(* Handlers in the list.                                                   *)

Once(ts) == \A i, j \in 1..Len(ts) : ts[i].h = ts[j].h => i = j
Has(ts, h) == \E i \in 1..Len(ts) : ts[i].h = h
ToGo(ts, h) == Until(ts, SelectInSeq(ts, LAMBDA t : t.h = h))

\* The time to go of a handler that is in the list once.
LEMMA ToGoAt ==
    ASSUME NEW ts \in Seq(Slot), Once(ts), NEW i \in 1..Len(ts)
    PROVE  ToGo(ts, ts[i].h) = Until(ts, i) /\ ToGo(ts, ts[i].h) \in Nat
<1> DEFINE I == {k \in 1..Len(ts) : ts[k].h = ts[i].h}
<1>1. Len(ts) \in Nat /\ i \in Nat /\ i \in 0..Len(ts)
  BY SlotFacts
<1>2. I = {i}
  BY DEF Once
<1>3. SelectInSeq(ts, LAMBDA t : t.h = ts[i].h) = IF I # {} THEN Min(I) ELSE 0
  BY DEF SelectInSeq
<1> HIDE DEF I
<1>4. {i} \in SUBSET Nat /\ {i} # {}
  BY <1>1
<1>5. Min({i}) \in {i}
  BY <1>4, LeastIsMin
<1>6. SelectInSeq(ts, LAMBDA t : t.h = ts[i].h) = i
  BY <1>2, <1>3, <1>5
<1>7. Until(ts, i) \in Nat
  BY <1>1, UntilFacts
<1> QED
  BY <1>6, <1>7 DEF ToGo

\* A handler is armed.
Rearmed(ts, h, r) ==
    /\ r \in Seq(Slot)
    /\ \A g : Has(r, g) <=> Has(ts, g) \/ g = h
    /\ Once(ts) /\ ~Has(ts, h) => Once(r) /\ \A g : Has(ts, g) => ToGo(r, g) = ToGo(ts, g)

\* sys_timeout, by handlers.
LEMMA ArmList ==
    ASSUME NEW ts \in Seq(Slot), NEW h \in Handlers, NEW msecs \in Nat
    PROVE  Rearmed(ts, h, sys_timeout(ts, h, msecs))
<1> DEFINE N == Len(ts)
           j == After(ts, msecs)
           r == sys_timeout(ts, h, msecs)
<1>1. /\ r \in Seq(Slot) /\ Len(r) = N + 1 /\ r[j + 1].h = h
      /\ \A i \in 1..N : r[Moved(j, i)].h = ts[i].h
      /\ \A i \in 0..N : Until(r, Moved(j, i)) = Until(ts, i)
  BY InsertOne DEF Inserted
<1>2. N \in Nat
  BY SlotFacts
<1>3. j \in 0..N
  BY AfterFacts
<1> HIDE DEF N, j, r
<1>4. j \in Nat /\ j <= N
  BY <1>2, <1>3
<1>5. \A i \in 1..N : Moved(j, i) \in 1..(N + 1) /\ Moved(j, i) # j + 1
  BY <1>2, <1>4 DEF Moved
<1>6. \A i \in 1..(N + 1) : i # j + 1 => \E k \in 1..N : i = Moved(j, k)
  <2> SUFFICES ASSUME NEW i \in 1..(N + 1), i # j + 1 PROVE \E k \in 1..N : i = Moved(j, k)
    OBVIOUS
  <2> DEFINE k == IF i <= j THEN i ELSE i - 1
  <2>1. k \in 1..N /\ i = Moved(j, k)
    BY <1>2, <1>4 DEF Moved
  <2> QED
    BY <2>1
<1>7. j + 1 \in 1..(N + 1)
  BY <1>2, <1>4
<1>8. ASSUME NEW g PROVE Has(r, g) <=> Has(ts, g) \/ g = h
  <2>1. ASSUME Has(r, g) PROVE Has(ts, g) \/ g = h
    <3>1. PICK i \in 1..(N + 1) : r[i].h = g
      BY <1>1, <2>1 DEF Has
    <3>2. CASE i = j + 1
      BY <1>1, <3>1, <3>2
    <3>3. CASE i # j + 1
      <4>1. PICK k \in 1..N : i = Moved(j, k)
        BY <1>6, <3>3
      <4>2. ts[k].h = g
        BY <1>1, <3>1, <4>1
      <4> QED
        BY <4>2 DEF Has, N
    <3> QED
      BY <3>2, <3>3
  <2>2. ASSUME Has(ts, g) PROVE Has(r, g)
    <3>1. PICK i \in 1..N : ts[i].h = g
      BY <2>2 DEF Has, N
    <3>2. r[Moved(j, i)].h = g /\ Moved(j, i) \in 1..(N + 1)
      BY <1>1, <1>5, <3>1
    <3> QED
      BY <1>1, <3>2 DEF Has
  <2>3. ASSUME g = h PROVE Has(r, g)
    BY <1>1, <1>7, <2>3 DEF Has
  <2> QED
    BY <2>1, <2>2, <2>3
<1>9. ASSUME Once(ts), ~Has(ts, h)
      PROVE  Once(r) /\ \A g : Has(ts, g) => ToGo(r, g) = ToGo(ts, g)
  <2>1. Once(r)
    <3> SUFFICES ASSUME NEW a \in 1..(N + 1), NEW b \in 1..(N + 1), r[a].h = r[b].h PROVE a = b
      BY <1>1 DEF Once
    <3>1. \A i \in 1..N : ts[i].h # h
      BY <1>9 DEF Has, N
    <3>2. CASE a = j + 1 /\ b # j + 1
      <4>1. PICK k \in 1..N : b = Moved(j, k)
        BY <1>6, <3>2
      <4> QED
        BY <1>1, <3>1, <3>2, <4>1
    <3>3. CASE b = j + 1 /\ a # j + 1
      <4>1. PICK k \in 1..N : a = Moved(j, k)
        BY <1>6, <3>3
      <4> QED
        BY <1>1, <3>1, <3>3, <4>1
    <3>4. CASE a # j + 1 /\ b # j + 1
      <4>1. PICK k \in 1..N : a = Moved(j, k)
        BY <1>6, <3>4
      <4>2. PICK l \in 1..N : b = Moved(j, l)
        BY <1>6, <3>4
      <4>3. ts[k].h = ts[l].h
        BY <1>1, <4>1, <4>2
      <4>4. k = l
        BY <1>9, <4>3 DEF Once, N
      <4> QED
        BY <4>1, <4>2, <4>4
    <3> QED
      BY <3>2, <3>3, <3>4
  <2>2. ASSUME NEW g, Has(ts, g) PROVE ToGo(r, g) = ToGo(ts, g)
    <3>1. PICK i \in 1..N : ts[i].h = g
      BY <2>2 DEF Has, N
    <3>2. ToGo(ts, g) = Until(ts, i)
      BY <1>9, <3>1, ToGoAt DEF N
    <3>3. Moved(j, i) \in 1..Len(r) /\ r[Moved(j, i)].h = g
      BY <1>1, <1>5, <3>1
    <3>4. ToGo(r, g) = Until(r, Moved(j, i))
      BY <1>1, <2>1, <3>3, ToGoAt
    <3>5. i \in 0..N
      BY <1>2
    <3> QED
      BY <1>1, <3>2, <3>4, <3>5
  <2> QED
    BY <2>1, <2>2
<1>10. Rearmed(ts, h, r)
  BY <1>1, <1>8, <1>9 DEF Rearmed
<1> QED
  BY <1>10 DEF r

\* The first timeout is taken off the list.
Popped(ts, r) ==
    /\ r \in Seq(Slot)
    /\ \A g : Has(ts, g) <=> Has(r, g) \/ g = Head(ts).h
    /\ Once(ts) => /\ Once(r) /\ ~Has(r, Head(ts).h) /\ ToGo(ts, Head(ts).h) = Head(ts).time
                   /\ \A g : Has(r, g) => ToGo(r, g) = ToGo(ts, g) - Head(ts).time

\* The list without its first timeout, by handlers.
LEMMA PopList ==
    ASSUME NEW ts \in Seq(Slot), ts # <<>>
    PROVE  Popped(ts, Tail(ts))
<1> DEFINE N == Len(ts)
           r == Tail(ts)
           t == ts[1].time
           h == ts[1].h
<1>1. N \in Nat /\ \A i \in 1..N : ts[i].time \in Nat
  BY SlotFacts
<1>2. /\ N >= 1 /\ Head(ts) = ts[1] /\ r \in Seq(Slot) /\ Len(r) = N - 1
      /\ \A i \in 1..(N - 1) : r[i] = ts[i + 1]
  OBVIOUS
<1> HIDE DEF N, r
<1>3. /\ Until(ts, 0) = 0
      /\ \A i \in 0..N : Until(ts, i) \in Nat
      /\ \A i \in 0..(N - 1) : Until(ts, i + 1) = Until(ts, i) + ts[i + 1].time
  BY UntilFacts DEF N
<1>4. /\ Until(r, 0) = 0
      /\ \A i \in 0..(N - 1) : Until(r, i) \in Nat
      /\ \A i \in 0..((N - 1) - 1) : Until(r, i + 1) = Until(r, i) + r[i + 1].time
  BY <1>2, UntilFacts
<1>5. t \in Nat /\ 1 \in 1..N /\ Until(ts, 1) = t
  <2>1. 0 \in 0..(N - 1) /\ 0 + 1 = 1 /\ 1 \in 1..N
    BY <1>1, <1>2
  <2>2. t \in Nat
    BY <1>1, <2>1
  <2>3. Until(ts, 0 + 1) = Until(ts, 0) + ts[0 + 1].time
    BY <1>3, <2>1
  <2> QED
    BY <1>3, <2>1, <2>2, <2>3
<1> HIDE DEF t, h
<1> DEFINE K == {i \in Nat : i <= N - 1 => Until(ts, i + 1) = Until(r, i) + t}
<1>6. 0 \in K
  BY <1>4, <1>5
<1>7. ASSUME NEW i \in K PROVE i + 1 \in K
  <2> SUFFICES ASSUME i + 1 <= N - 1 PROVE Until(ts, (i + 1) + 1) = Until(r, i + 1) + t
    OBVIOUS
  <2>1. i \in Nat /\ i <= N - 1 /\ Until(ts, i + 1) = Until(r, i) + t
    BY <1>1
  <2>2. i + 1 \in 0..(N - 1) /\ i \in 0..((N - 1) - 1) /\ i + 1 \in 1..(N - 1) /\ (i + 1) + 1 \in 1..N
        /\ i \in 0..(N - 1)
    BY <1>1, <2>1
  <2>3. Until(ts, (i + 1) + 1) = Until(ts, i + 1) + ts[(i + 1) + 1].time
    BY <1>3, <2>2
  <2>4. Until(r, i + 1) = Until(r, i) + ts[(i + 1) + 1].time
    BY <1>2, <1>4, <2>2
  <2>5. Until(r, i) \in Nat /\ ts[(i + 1) + 1].time \in Nat
    BY <1>1, <1>4, <2>2
  <2> QED
    BY <1>5, <2>1, <2>3, <2>4, <2>5
<1>8. K = Nat
  <2> HIDE DEF K
  <2>1. K \in SUBSET Nat
    BY DEF K
  <2> QED
    BY <1>6, <1>7, <2>1, Chaining!SetInduction
<1>9. \A i \in 0..(N - 1) : Until(ts, i + 1) = Until(r, i) + t
  BY <1>1, <1>8
<1> HIDE DEF K
<1>10. ASSUME NEW g PROVE Has(ts, g) <=> Has(r, g) \/ g = h
  <2>1. ASSUME Has(ts, g) PROVE Has(r, g) \/ g = h
    <3>1. PICK i \in 1..N : ts[i].h = g
      BY <2>1 DEF Has, N
    <3>2. CASE i = 1
      BY <3>1, <3>2 DEF h
    <3>3. CASE i # 1
      <4> DEFINE k == i - 1
      <4>1. k \in 1..(N - 1) /\ k + 1 = i
        BY <1>1, <3>3
      <4> HIDE DEF k
      <4>2. r[k].h = g
        BY <1>2, <3>1, <4>1
      <4> QED
        BY <1>2, <4>1, <4>2 DEF Has
    <3> QED
      BY <3>2, <3>3
  <2>2. ASSUME Has(r, g) PROVE Has(ts, g)
    <3>1. PICK i \in 1..(N - 1) : r[i].h = g
      BY <1>2, <2>2 DEF Has
    <3>2. i + 1 \in 1..N /\ ts[i + 1].h = g
      BY <1>1, <1>2, <3>1
    <3> QED
      BY <3>2 DEF Has, N
  <2>3. ASSUME g = h PROVE Has(ts, g)
    BY <1>5, <2>3 DEF Has, N, h
  <2> QED
    BY <2>1, <2>2, <2>3
<1>11. ASSUME Once(ts)
       PROVE  /\ Once(r) /\ ~Has(r, h) /\ ToGo(ts, h) = t
              /\ \A g : Has(r, g) => ToGo(r, g) = ToGo(ts, g) - t
  <2>1. \A a, b \in 1..N : ts[a].h = ts[b].h => a = b
    BY <1>11 DEF Once, N
  <2>2. \A i \in 1..(N - 1) : i + 1 \in 1..N /\ i + 1 # 1 /\ i \in Nat /\ i \in 0..(N - 1)
    BY <1>1
  <2>3. Once(r)
    <3> SUFFICES ASSUME NEW a \in 1..(N - 1), NEW b \in 1..(N - 1), r[a].h = r[b].h PROVE a = b
      BY <1>2 DEF Once
    <3>1. a + 1 = b + 1
      BY <1>2, <2>1, <2>2
    <3> QED
      BY <2>2, <3>1
  <2>4. ~Has(r, h)
    <3> SUFFICES ASSUME NEW a \in 1..(N - 1), r[a].h = h PROVE FALSE
      BY <1>2 DEF Has
    <3>1. a + 1 = 1
      BY <1>2, <1>5, <2>1, <2>2 DEF h
    <3> QED
      BY <2>2, <3>1
  <2>5. ToGo(ts, h) = t
    <3>1. 1 \in 1..Len(ts)
      BY <1>5 DEF N
    <3>2. ToGo(ts, ts[1].h) = Until(ts, 1)
      BY <1>11, <3>1, ToGoAt
    <3> QED
      BY <1>5, <3>2 DEF h
  <2>6. ASSUME NEW g, Has(r, g) PROVE ToGo(r, g) = ToGo(ts, g) - t
    <3>1. PICK i \in 1..(N - 1) : r[i].h = g
      BY <1>2, <2>6 DEF Has
    <3>2. i \in 1..Len(r) /\ ts[i + 1].h = g /\ i + 1 \in 1..Len(ts)
      BY <1>2, <2>2, <3>1 DEF N
    <3>3. ToGo(r, g) = Until(r, i) /\ ToGo(r, g) \in Nat
      BY <1>2, <2>3, <3>1, <3>2, ToGoAt
    <3>4. ToGo(ts, g) = Until(ts, i + 1) /\ ToGo(ts, g) \in Nat
      BY <1>11, <3>2, ToGoAt
    <3>5. Until(ts, i + 1) = Until(r, i) + t
      BY <1>9, <2>2
    <3> QED
      BY <1>5, <3>3, <3>4, <3>5
  <2> QED
    BY <2>3, <2>4, <2>5, <2>6
<1>12. Head(ts).h = h /\ Head(ts).time = t
  BY <1>2 DEF h, t
<1>13. Popped(ts, r)
  BY <1>2, <1>10, <1>11, <1>12 DEF Popped
<1> QED
  BY <1>13 DEF r

-----------------------------------------------------------------------------
(* The handlers.                                                           *)

\* The state, and the timeouts of a board that does not hang.
Typed(s, T) == IpOK(s, T, {}) /\ s.ts \in Seq(Slot) /\ s.since \in Nat /\ s.tcp \in BOOLEAN
Armed(s) ==
    /\ Once(s.ts) /\ Has(s.ts, "arp") /\ Has(s.ts, "reass")
    /\ s.tcp <=> Has(s.ts, "tcp")
    /\ s.pcbs => s.tcp

\* No part of the network looks at the timeouts.
LEMMA TypedSame ==
    ASSUME NEW s, NEW T, IpOK(s, T, {}), NEW m, DOMAIN m = Fields, m.pb = s.pb, m.arp = s.arp,
           m.hint = s.hint, m.wire = s.wire, m.reass = s.reass, m.count = s.count, m.up = s.up
    PROVE  IpOK(m, T, {})
<1>1. SoundWire(m.wire, T)
  BY DEF IpOK, ArpOK
<1> QED
  BY <1>1, IpSame

\* A handler is armed, or the board hangs.
ArmedOne(s, T, h, m) ==
    /\ Typed(m, T) /\ m.since = s.since /\ m.tcp = s.tcp /\ m.pcbs = s.pcbs
    /\ s.hung => m.hung
    /\ m.hung \/ Rearmed(s.ts, h, m.ts)

\* Arm, on the state.
LEMMA ArmOne ==
    ASSUME NEW s, NEW T, Typed(s, T), NEW h \in Handlers
    PROVE  ArmedOne(s, T, h, Arm(s, h))
<1> DEFINE m == Arm(s, h)
           q == sys_timeout(s.ts, h, Interval[h])
<1>1. DOMAIN s = Fields /\ IpOK(s, T, {}) /\ s.ts \in Seq(Slot)
  BY DEF Typed, IpOK, ArpOK
<1>2. Interval[h] \in Nat
  BY StackAssumption DEF Handlers
<1>3. Rearmed(s.ts, h, q)
  BY <1>1, <1>2, ArmList
<1>4. q \in Seq(Slot)
  BY <1>3 DEF Rearmed
<1> HIDE DEF q
<1>5. CASE Len(s.ts) >= MEMP_NUM_SYS_TIMEOUT
  <2>1. m = [s EXCEPT !.hung = TRUE]
    BY <1>5 DEF Arm
  <2>2. /\ DOMAIN m = Fields /\ m.pb = s.pb /\ m.arp = s.arp /\ m.hint = s.hint /\ m.wire = s.wire
        /\ m.reass = s.reass /\ m.count = s.count /\ m.up = s.up /\ m.ts = s.ts
        /\ m.since = s.since /\ m.tcp = s.tcp /\ m.pcbs = s.pcbs /\ m.hung
    BY <1>1, <2>1 DEF Fields
  <2> HIDE DEF m
  <2>3. IpOK(m, T, {})
    BY <1>1, <2>2, TypedSame
  <2> QED
    BY <2>2, <2>3 DEF ArmedOne, Typed, m
<1>6. CASE ~(Len(s.ts) >= MEMP_NUM_SYS_TIMEOUT)
  <2>1. m = [s EXCEPT !.ts = q]
    BY <1>6 DEF Arm, q
  <2>2. /\ DOMAIN m = Fields /\ m.pb = s.pb /\ m.arp = s.arp /\ m.hint = s.hint /\ m.wire = s.wire
        /\ m.reass = s.reass /\ m.count = s.count /\ m.up = s.up /\ m.ts = q
        /\ m.since = s.since /\ m.tcp = s.tcp /\ m.pcbs = s.pcbs /\ m.hung = s.hung
    BY <1>1, <2>1 DEF Fields
  <2> HIDE DEF m
  <2>3. IpOK(m, T, {})
    BY <1>1, <2>2, TypedSame
  <2> QED
    BY <1>3, <1>4, <2>2, <2>3 DEF ArmedOne, Typed, m
<1> QED
  BY <1>5, <1>6

\* A handler ran, and is armed again, or is the one of TCP and stopped.
Ran(s, T, h, m) ==
    /\ Typed(m, T) /\ m.since = s.since /\ (s.hung => m.hung)
    /\ \/ m.hung
       \/ Rearmed(s.ts, h, m.ts) /\ m.tcp = s.tcp /\ m.pcbs = s.pcbs
       \/ h = "tcp" /\ m.ts = s.ts /\ ~m.tcp /\ ~m.pcbs

\* Every handler does its work and is armed again, but the one of TCP.
LEMMA HandleOne ==
    ASSUME NEW s, NEW T, Typed(s, T), NEW h \in Handlers, NEW ends
    PROVE  Ran(s, T, h, Handle(s, h, ends))
<1>1. /\ DOMAIN s = Fields /\ IpOK(s, T, {}) /\ s.ts \in Seq(Slot) /\ s.since \in Nat
      /\ s.tcp \in BOOLEAN /\ ArpOK(s, T)
  BY DEF Typed, IpOK, ArpOK
<1>2. CASE h = "tcp" /\ s.pcbs /\ ~ends
  <2>1. Handle(s, h, ends) = Arm(s, h)
    BY <1>2 DEF Handle, tcpip_tcp_timer
  <2>2. ArmedOne(s, T, h, Arm(s, h))
    BY ArmOne
  <2> QED
    BY <2>1, <2>2 DEF ArmedOne, Ran
<1>3. CASE h = "tcp" /\ ~(s.pcbs /\ ~ends)
  <2> DEFINE m == [s EXCEPT !.pcbs = FALSE, !.tcp = FALSE]
  <2>1. Handle(s, h, ends) = m
    BY <1>3 DEF Handle, tcpip_tcp_timer
  <2>2. /\ DOMAIN m = Fields /\ m.pb = s.pb /\ m.arp = s.arp /\ m.hint = s.hint /\ m.wire = s.wire
        /\ m.reass = s.reass /\ m.count = s.count /\ m.up = s.up /\ m.ts = s.ts
        /\ m.since = s.since /\ m.tcp = FALSE /\ m.pcbs = FALSE /\ m.hung = s.hung
    BY <1>1 DEF Fields
  <2> HIDE DEF m
  <2>3. IpOK(m, T, {})
    BY <1>1, <2>2, TypedSame
  <2> QED
    BY <1>1, <1>3, <2>1, <2>2, <2>3 DEF Ran, Typed
<1>4. ASSUME NEW w, Typed(w, T), SameTimers(s, w), s.hung => w.hung
      PROVE  Ran(s, T, h, Arm(w, h))
  <2>1. ArmedOne(w, T, h, Arm(w, h))
    BY <1>4, ArmOne
  <2> QED
    BY <1>4, <2>1 DEF ArmedOne, Ran, SameTimers
<1>5. CASE h = "reass"
  <2> DEFINE w == ip_reass_tmr(s)
  <2>1. Handle(s, h, ends) = Arm(w, h)
    BY <1>5 DEF Handle, ip_reass_timer
  <2>2. LetGo(s, T, {}, w)
    BY <1>1, ReassTimer
  <2> HIDE DEF w
  <2>3. Typed(w, T) /\ SameTimers(s, w) /\ (s.hung => w.hung)
    BY <1>1, <2>2 DEF LetGo, Typed, SameTimers
  <2> QED
    BY <1>4, <2>1, <2>3
<1>6. CASE h = "arp"
  <2> DEFINE w == etharp_tmr(s)
  <2>1. Handle(s, h, ends) = Arm(w, h)
    BY <1>6 DEF Handle, arp_timer
  <2>2. ArpStep(s, T, w)
    BY <1>1, ArpTimer
  <2> HIDE DEF w
  <2>3. Handled(s, T, {}, w)
    BY <1>1, <2>2, HandledSends
  <2>4. Typed(w, T) /\ SameTimers(s, w) /\ (s.hung => w.hung)
    BY <1>1, <2>2, <2>3 DEF Handled, Typed, SameTimers, ArpStep, Framed, SameRest
  <2> QED
    BY <1>4, <2>1, <2>4
<1> QED
  BY <1>2, <1>3, <1>5, <1>6 DEF Handlers

-----------------------------------------------------------------------------
(* sys_check_timeouts.                                                     *)

\* With diff of D milliseconds left, no timeout of the list ts at the start
\* has come nearer than the clock brought it, but those that were due.
NotNearer(ts, D, s, diff) ==
    \A h : Has(ts, h) /\ Has(s.ts, h) =>
        ToGo(s.ts, h) >= ToGo(ts, h) - (D - diff) \/ ToGo(ts, h) <= D
RunInv(c, i, r) ==
    /\ DOMAIN r = {"n", "diff", "ends"} /\ r.diff \in Nat
    /\ Typed(r.n, c.T)
    /\ i = 0 => r.n = c.s /\ r.diff = c.D
    /\ i # 0 => r.n.since = 0
    /\ r.n.hung \/ (Armed(r.n) /\ NotNearer(c.s.ts, c.D, r.n, r.diff))
Running == INSTANCE LoopProofs WITH Op <- RunFirst, Inv <- RunInv

\* m is s after its first timeout.
Advanced(s, m) ==
    \A g : Has(m.ts, g) =>
        /\ Has(s.ts, g)
        /\ g # Head(s.ts).h => ToGo(m.ts, g) = ToGo(s.ts, g) - Head(s.ts).time

\* The timeouts are armed when the first handler has run.
LEMMA RanArmed ==
    ASSUME NEW s, NEW v, NEW T, NEW m, s.ts \in Seq(Slot), s.ts # <<>>, Armed(s),
           Popped(s.ts, v.ts), v.tcp = s.tcp, v.pcbs = s.pcbs, Ran(v, T, Head(s.ts).h, m), ~m.hung
    PROVE  Armed(m) /\ Advanced(s, m)
<1> USE DEF Advanced
<1> DEFINE h == Head(s.ts).h
           t == Head(s.ts).time
<1>1. /\ Once(v.ts) /\ ~Has(v.ts, h) /\ (\A g : Has(s.ts, g) <=> Has(v.ts, g) \/ g = h)
      /\ \A g : Has(v.ts, g) => ToGo(v.ts, g) = ToGo(s.ts, g) - t
  BY DEF Popped, Armed
<1>2. /\ Has(s.ts, "arp") /\ Has(s.ts, "reass") /\ (s.tcp <=> Has(s.ts, "tcp"))
      /\ s.pcbs => s.tcp
  BY DEF Armed
<1>3. CASE Rearmed(v.ts, h, m.ts) /\ m.tcp = v.tcp /\ m.pcbs = v.pcbs
  <2>1. /\ Once(m.ts) /\ (\A g : Has(m.ts, g) <=> Has(v.ts, g) \/ g = h)
        /\ \A g : Has(v.ts, g) => ToGo(m.ts, g) = ToGo(v.ts, g)
    BY <1>1, <1>3 DEF Rearmed
  <2>2. \A g : Has(m.ts, g) <=> Has(s.ts, g)
    BY <1>1, <2>1
  <2>3. Armed(m)
    BY <1>2, <1>3, <2>1, <2>2 DEF Armed
  <2> QED
    BY <1>1, <2>1, <2>2, <2>3
<1>4. CASE h = "tcp" /\ m.ts = v.ts /\ ~m.tcp /\ ~m.pcbs
  BY <1>1, <1>2, <1>4 DEF Armed
<1> QED
  BY <1>3, <1>4 DEF Ran

\* One round of the loop of sys_check_timeouts.
LEMMA RunOne ==
    ASSUME NEW c, c.s.ts \in Seq(Slot), c.s.ts # <<>>, Head(c.s.ts).time <= c.D, c.D \in Nat,
           Once(c.s.ts), NEW i \in Nat, NEW r, RunInv(c, i, r)
    PROVE  RunInv(c, i + 1, RunFirst(r))
<1> DEFINE s == r.n
           T == c.T
           h == Head(s.ts).h
           t == Head(s.ts).time
           v == [s EXCEPT !.ts = Tail(@), !.since = 0]
           m == Handle(v, h, r.ends)
           g0 == RunFirst(r)
<1>1. /\ DOMAIN r = {"n", "diff", "ends"} /\ r.diff \in Nat
      /\ Typed(s, T) /\ (i = 0 => s = c.s /\ r.diff = c.D) /\ (i # 0 => s.since = 0)
      /\ s.hung \/ (Armed(s) /\ NotNearer(c.s.ts, c.D, s, r.diff))
  BY DEF RunInv
<1>2. CASE ~(s.ts # <<>> /\ t <= r.diff)
  <2>1. g0 = r
    BY <1>2 DEF RunFirst
  <2>2. i # 0
    BY <1>1, <1>2
  <2> QED
    BY <1>1, <2>1, <2>2 DEF RunInv
<1>3. CASE s.ts # <<>> /\ t <= r.diff
  <2>1. g0.n = m /\ g0.diff = r.diff - t /\ DOMAIN g0 = {"n", "diff", "ends"}
    BY <1>1, <1>3 DEF RunFirst
  <2>2. s.ts \in Seq(Slot) /\ DOMAIN s = Fields /\ IpOK(s, T, {}) /\ s.tcp \in BOOLEAN
    BY <1>1 DEF Typed, IpOK, ArpOK
  <2>3. h \in Handlers /\ t \in Nat
    <3>1. 1 \in 1..Len(s.ts) /\ Head(s.ts) = s.ts[1]
      BY <1>3, <2>2
    <3> QED
      BY <2>2, <3>1, SlotFacts
  <2>4. Popped(s.ts, Tail(s.ts))
    BY <1>3, <2>2, PopList
  <2>5. /\ DOMAIN v = Fields /\ v.pb = s.pb /\ v.arp = s.arp /\ v.hint = s.hint /\ v.wire = s.wire
        /\ v.reass = s.reass /\ v.count = s.count /\ v.up = s.up /\ v.ts = Tail(s.ts)
        /\ v.since = 0 /\ v.tcp = s.tcp /\ v.pcbs = s.pcbs /\ v.hung = s.hung
    BY <2>2 DEF Fields
  <2> HIDE DEF v, g0
  <2>6. IpOK(v, T, {})
    BY <2>2, <2>5, TypedSame
  <2>7. Typed(v, T)
    BY <2>2, <2>4, <2>5, <2>6 DEF Typed, Popped
  <2> HIDE DEF s, T, h, t
  <2>8. Ran(v, T, h, m)
    BY <2>3, <2>7, HandleOne
  <2> HIDE DEF m
  <2>9. Typed(m, T) /\ m.since = 0 /\ (s.hung => m.hung)
    BY <2>5, <2>8 DEF Ran
  <2>10. r.diff - t \in Nat
    BY <1>1, <1>3, <2>3
  <2>11. ASSUME ~m.hung PROVE Armed(m) /\ NotNearer(c.s.ts, c.D, m, r.diff - t)
    <3>1. ~s.hung /\ Armed(s) /\ NotNearer(c.s.ts, c.D, s, r.diff)
      BY <1>1, <2>9, <2>11
    <3>2. Popped(s.ts, v.ts)
      BY <2>4, <2>5
    <3>3. Ran(v, T, Head(s.ts).h, m)
      BY <2>8 DEF h
    <3>4. /\ Armed(m)
          /\ \A g : Has(m.ts, g) =>
                /\ Has(s.ts, g)
                /\ g # h => ToGo(m.ts, g) = ToGo(s.ts, g) - t
      <4>1. Armed(m) /\ Advanced(s, m)
        BY <1>3, <2>2, <2>5, <2>11, <3>1, <3>2, <3>3, RanArmed
      <4> QED
        BY <4>1 DEF Advanced, h, t
    <3>5. ASSUME NEW g, Has(c.s.ts, g), Has(m.ts, g)
          PROVE  ToGo(m.ts, g) >= ToGo(c.s.ts, g) - (c.D - (r.diff - t)) \/ ToGo(c.s.ts, g) <= c.D
      <4>1. Has(s.ts, g) /\ (g # h => ToGo(m.ts, g) = ToGo(s.ts, g) - t)
        BY <3>4, <3>5
      <4>2. ToGo(s.ts, g) >= ToGo(c.s.ts, g) - (c.D - r.diff) \/ ToGo(c.s.ts, g) <= c.D
        BY <3>1, <3>5, <4>1 DEF NotNearer
      <4>3. ToGo(c.s.ts, g) \in Nat
        BY <3>5, ToGoAt DEF Has
      <4>4. ToGo(s.ts, g) \in Nat
        <5>1. Once(s.ts)
          BY <3>1 DEF Armed
        <5>2. PICK k \in 1..Len(s.ts) : s.ts[k].h = g
          BY <4>1 DEF Has
        <5> QED
          BY <2>2, <5>1, <5>2, ToGoAt
      <4>5. CASE g # h
        BY <1>1, <2>3, <4>1, <4>2, <4>3, <4>4, <4>5
      <4>6. CASE g = h
        <5>1. ToGo(s.ts, h) = t
          BY <2>4, <3>1 DEF Popped, Armed, h, t
        <5> QED
          BY <1>1, <1>3, <2>3, <4>2, <4>3, <4>6, <5>1
      <4> QED
        BY <4>5, <4>6
    <3> QED
      BY <3>4, <3>5 DEF NotNearer
  <2>12. i + 1 # 0
    OBVIOUS
  <2> QED
    BY <2>1, <2>9, <2>10, <2>11, <2>12 DEF RunInv, T, g0
<1> QED
  BY <1>2, <1>3

-----------------------------------------------------------------------------
(* Steps, as relations of two states.                                      *)

Unhurried(s, m) ==
    \/ m.hung \/ (m.ts = s.ts /\ m.since = s.since + 1)
    \/ \A h \in {s.ts[i].h : i \in DOMAIN s.ts} \cap {m.ts[i].h : i \in DOMAIN m.ts} :
          Left(m, h) >= Left(s, h)
Good(s, T) == Typed(s, T) /\ (s.hung \/ Armed(s))
Stepped(s, T, m) == Good(m, T) /\ Unhurried(s, m)

\* The wire of the last step is empty.
Quieted(s, T, q) ==
    /\ Typed(q, T) /\ DOMAIN q = Fields /\ q.wire = {} /\ SameTimers(s, q) /\ q.hung = s.hung
    /\ q.up = s.up /\ q.pb = s.pb

\* The frames of the last step are off the wire.
LEMMA QuietOne ==
    ASSUME NEW s, NEW T, Typed(s, T)
    PROVE  Quieted(s, T, [s EXCEPT !.wire = {}])
<1> DEFINE q == [s EXCEPT !.wire = {}]
<1>1. DOMAIN s = Fields /\ IpOK(s, T, {})
  BY DEF Typed, IpOK, ArpOK
<1>2. /\ DOMAIN q = Fields /\ q.pb = s.pb /\ q.arp = s.arp /\ q.hint = s.hint /\ q.wire = {}
      /\ q.reass = s.reass /\ q.count = s.count /\ q.up = s.up /\ SameTimers(s, q) /\ q.hung = s.hung
  BY <1>1 DEF Fields, SameTimers
<1>3. SoundWire({}, T)
  BY DEF SoundWire
<1> HIDE DEF q
<1>4. IpOK(q, T, {})
  BY <1>1, <1>2, <1>3, IpSame
<1>5. Typed(q, T)
  BY <1>2, <1>4 DEF Typed, SameTimers
<1> QED
  BY <1>2, <1>5 DEF Quieted, q

\* A handler in both lists.
LEMMA LeftFacts ==
    ASSUME NEW s, s.ts \in Seq(Slot), Once(s.ts), NEW h, h \in {s.ts[i].h : i \in DOMAIN s.ts}
    PROVE  Has(s.ts, h) /\ ToGo(s.ts, h) \in Nat /\ Left(s, h) = ToGo(s.ts, h) - s.since
<1>1. DOMAIN s.ts = 1..Len(s.ts)
  BY SlotFacts
<1>2. PICK i \in 1..Len(s.ts) : s.ts[i].h = h
  BY <1>1
<1>3. ToGo(s.ts, s.ts[i].h) \in Nat
  BY ToGoAt
<1> QED
  BY <1>2, <1>3 DEF Has, Left, ToGo

\* Timeouts that stay, or come later, are not hurried.
LEMMA NotHurried ==
    ASSUME NEW s, s.ts \in Seq(Slot), Once(s.ts), s.since \in Nat,
           NEW m, m.ts \in Seq(Slot), Once(m.ts), m.since \in Nat,
           \A h : Has(s.ts, h) /\ Has(m.ts, h) =>
              ToGo(m.ts, h) - m.since >= ToGo(s.ts, h) - s.since
    PROVE  Unhurried(s, m)
<1> SUFFICES ASSUME NEW h, h \in {s.ts[i].h : i \in DOMAIN s.ts}, h \in {m.ts[i].h : i \in DOMAIN m.ts}
             PROVE  Left(m, h) >= Left(s, h)
  BY DEF Unhurried
<1>1. Has(s.ts, h) /\ ToGo(s.ts, h) \in Nat /\ Left(s, h) = ToGo(s.ts, h) - s.since
  BY LeftFacts
<1>2. Has(m.ts, h) /\ ToGo(m.ts, h) \in Nat /\ Left(m, h) = ToGo(m.ts, h) - m.since
  BY LeftFacts
<1> QED
  BY <1>1, <1>2

\* The time to go is a number.
LEMMA ToGoNat ==
    ASSUME NEW ts \in Seq(Slot), Once(ts), NEW h, Has(ts, h)
    PROVE  ToGo(ts, h) \in Nat
<1>1. PICK i \in 1..Len(ts) : ts[i].h = h
  BY DEF Has
<1> QED
  BY <1>1, ToGoAt

\* Steps that leave the timeouts alone.
LEMMA TimersKept ==
    ASSUME NEW s, NEW T, Good(s, T), ~s.hung, NEW U, NEW m, IpOK(m, U, {}), SameTimers(s, m)
    PROVE  Stepped(s, U, m)
<1>1. /\ s.ts \in Seq(Slot) /\ s.since \in Nat /\ s.tcp \in BOOLEAN /\ Armed(s) /\ Once(s.ts)
  BY DEF Good, Typed, Armed
<1>2. Good(m, U)
  BY <1>1 DEF Good, Typed, Armed, SameTimers
<1>3. m.ts = s.ts /\ m.since = s.since
  BY DEF SameTimers
<1>4. \A h : Has(s.ts, h) => ToGo(s.ts, h) - s.since >= ToGo(s.ts, h) - s.since
  BY <1>1, ToGoNat
<1>5. Unhurried(s, m)
  BY <1>1, <1>3, <1>4, NotHurried
<1> QED
  BY <1>2, <1>5 DEF Stepped

\* A call of the network leaves the timeouts alone.
LEMMA HandledStep ==
    ASSUME NEW s, NEW T, Good(s, T), ~s.hung, NEW q, SameTimers(s, q), NEW U, NEW m,
           Handled(q, U, {}, m)
    PROVE  Stepped(s, U, m)
<1>1. IpOK(m, U, {}) /\ SameTimers(s, m)
  BY DEF Handled, SameTimers
<1> QED
  BY <1>1, TimersKept

\* The clock moves.
LEMMA TickStep ==
    ASSUME NEW s, NEW T, Good(s, T), ~s.hung
    PROVE  Stepped(s, T, [[s EXCEPT !.wire = {}] EXCEPT !.since = @ + 1])
<1> DEFINE q == [s EXCEPT !.wire = {}]
           m == [q EXCEPT !.since = @ + 1]
<1>1. Quieted(s, T, q)
  BY QuietOne DEF Good
<1> HIDE DEF q
<1>2. DOMAIN q = Fields /\ IpOK(q, T, {}) /\ SameTimers(s, q) /\ q.hung = s.hung /\ Typed(q, T)
  BY <1>1 DEF Quieted, Typed
<1>3. /\ DOMAIN m = Fields /\ m.pb = q.pb /\ m.arp = q.arp /\ m.hint = q.hint /\ m.wire = q.wire
      /\ m.reass = q.reass /\ m.count = q.count /\ m.up = q.up /\ m.ts = q.ts
      /\ m.since = q.since + 1 /\ m.tcp = q.tcp /\ m.pcbs = q.pcbs /\ m.hung = q.hung
  BY <1>2 DEF Fields
<1> HIDE DEF m
<1>4. IpOK(m, T, {})
  BY <1>2, <1>3, TypedSame
<1>5. Typed(m, T)
  BY <1>2, <1>3, <1>4 DEF Typed
<1>6. Armed(m)
  BY <1>2, <1>3 DEF Good, Armed, SameTimers
<1>7. Unhurried(s, m)
  BY <1>2, <1>3 DEF Unhurried, SameTimers
<1> QED
  BY <1>5, <1>6, <1>7 DEF Stepped, Good, m, q

\* The last connection goes; the timer of TCP stops at its next run.
LEMMA CloseStep ==
    ASSUME NEW s, NEW T, Good(s, T), ~s.hung
    PROVE  Stepped(s, T, [[s EXCEPT !.wire = {}] EXCEPT !.pcbs = FALSE])
<1> DEFINE q == [s EXCEPT !.wire = {}]
           m == [q EXCEPT !.pcbs = FALSE]
<1>1. Quieted(s, T, q)
  BY QuietOne DEF Good
<1> HIDE DEF q
<1>2. DOMAIN q = Fields /\ IpOK(q, T, {}) /\ SameTimers(s, q) /\ q.hung = s.hung /\ Typed(q, T)
  BY <1>1 DEF Quieted, Typed
<1>3. /\ DOMAIN m = Fields /\ m.pb = q.pb /\ m.arp = q.arp /\ m.hint = q.hint /\ m.wire = q.wire
      /\ m.reass = q.reass /\ m.count = q.count /\ m.up = q.up /\ m.ts = q.ts
      /\ m.since = q.since /\ m.tcp = q.tcp /\ m.pcbs = FALSE /\ m.hung = q.hung
  BY <1>2 DEF Fields
<1> HIDE DEF m
<1>4. IpOK(m, T, {})
  BY <1>2, <1>3, TypedSame
<1>5. Typed(m, T)
  BY <1>2, <1>3, <1>4 DEF Typed
<1>6. Armed(m)
  BY <1>2, <1>3 DEF Good, Armed, SameTimers
<1>7. s.ts \in Seq(Slot) /\ s.since \in Nat /\ Once(s.ts) /\ m.ts = s.ts /\ m.since = s.since
  BY <1>2, <1>3 DEF Good, Typed, Armed, SameTimers
<1>8. \A h : Has(s.ts, h) => ToGo(s.ts, h) - s.since >= ToGo(s.ts, h) - s.since
  BY <1>7, ToGoNat
<1>9. Unhurried(s, m)
  BY <1>7, <1>8, NotHurried
<1> QED
  BY <1>5, <1>6, <1>9 DEF Stepped, Good, m, q

\* A connection is opened; the timer of TCP is armed unless it still is.
LEMMA OpenStep ==
    ASSUME NEW s, NEW T, Good(s, T), ~s.hung
    PROVE  Stepped(s, T, tcp_timer_needed([[s EXCEPT !.wire = {}] EXCEPT !.pcbs = TRUE]))
<1> DEFINE q == [s EXCEPT !.wire = {}]
           v == [q EXCEPT !.pcbs = TRUE]
           w == [v EXCEPT !.tcp = TRUE]
           m == tcp_timer_needed(v)
<1>1. Quieted(s, T, q)
  BY QuietOne DEF Good
<1> HIDE DEF q
<1>2. DOMAIN q = Fields /\ IpOK(q, T, {}) /\ SameTimers(s, q) /\ q.hung = s.hung /\ Typed(q, T)
  BY <1>1 DEF Quieted, Typed
<1>3. s.ts \in Seq(Slot) /\ s.since \in Nat /\ Once(s.ts) /\ Armed(s) /\ s.tcp \in BOOLEAN
  BY DEF Good, Typed, Armed
<1>4. /\ DOMAIN v = Fields /\ v.pb = q.pb /\ v.arp = q.arp /\ v.hint = q.hint /\ v.wire = q.wire
      /\ v.reass = q.reass /\ v.count = q.count /\ v.up = q.up /\ v.ts = s.ts
      /\ v.since = s.since /\ v.tcp = s.tcp /\ v.pcbs = TRUE /\ v.hung = s.hung
  BY <1>2 DEF Fields, SameTimers
<1>5. CASE ~s.tcp
  <2>1. m = Arm(w, "tcp")
    BY <1>4, <1>5 DEF tcp_timer_needed
  <2>2. /\ DOMAIN w = Fields /\ w.pb = q.pb /\ w.arp = q.arp /\ w.hint = q.hint /\ w.wire = q.wire
        /\ w.reass = q.reass /\ w.count = q.count /\ w.up = q.up /\ w.ts = s.ts
        /\ w.since = s.since /\ w.tcp = TRUE /\ w.pcbs = TRUE /\ w.hung = s.hung
    BY <1>2, <1>4 DEF Fields
  <2> HIDE DEF v, w
  <2>3. IpOK(w, T, {})
    BY <1>2, <2>2, TypedSame
  <2>4. Typed(w, T)
    BY <1>3, <2>2, <2>3 DEF Typed
  <2>5. ArmedOne(w, T, "tcp", m)
    <3>1. "tcp" \in Handlers
      BY DEF Handlers
    <3> QED
      BY <2>1, <2>4, <3>1, ArmOne
  <2> HIDE DEF m
  <2>6. Typed(m, T) /\ m.since = s.since /\ m.tcp = TRUE /\ m.pcbs = TRUE
        /\ (m.hung \/ Rearmed(s.ts, "tcp", m.ts))
    BY <2>2, <2>5 DEF ArmedOne
  <2>7. CASE m.hung
    BY <2>6, <2>7 DEF Stepped, Good, Unhurried, m, v, q
  <2>8. CASE ~m.hung
    <3>1. ~Has(s.ts, "tcp") /\ Has(s.ts, "arp") /\ Has(s.ts, "reass")
      BY <1>3, <1>5 DEF Armed
    <3>2. /\ m.ts \in Seq(Slot) /\ (\A g : Has(m.ts, g) <=> Has(s.ts, g) \/ g = "tcp")
          /\ Once(m.ts) /\ \A g : Has(s.ts, g) => ToGo(m.ts, g) = ToGo(s.ts, g)
      BY <1>3, <2>6, <2>8, <3>1 DEF Rearmed
    <3>3. Armed(m)
      BY <2>6, <3>1, <3>2 DEF Armed
    <3>4. \A h : Has(s.ts, h) => ToGo(m.ts, h) - m.since >= ToGo(s.ts, h) - s.since
      BY <1>3, <2>6, <3>2, ToGoNat
    <3>5. Unhurried(s, m)
      BY <1>3, <2>6, <3>2, <3>4, NotHurried
    <3> QED
      BY <2>6, <3>3, <3>5 DEF Stepped, Good, m, v, q
  <2> QED
    BY <2>7, <2>8
<1>6. CASE s.tcp
  <2>1. m = v
    BY <1>4, <1>6 DEF tcp_timer_needed
  <2> HIDE DEF v, m
  <2>2. IpOK(v, T, {})
    BY <1>2, <1>4, TypedSame
  <2>3. Typed(v, T)
    BY <1>3, <1>4, <2>2 DEF Typed
  <2>4. Armed(v)
    BY <1>3, <1>4, <1>6 DEF Armed
  <2>5. \A h : Has(s.ts, h) => ToGo(s.ts, h) - s.since >= ToGo(s.ts, h) - s.since
    BY <1>3, ToGoNat
  <2>6. Unhurried(s, v)
    BY <1>3, <1>4, <2>5, NotHurried
  <2> QED
    BY <2>1, <2>3, <2>4, <2>6 DEF Stepped, Good, m, v, q
<1> QED
  BY <1>3, <1>5, <1>6

\* sys_check_timeouts.
LEMMA CheckStep ==
    ASSUME NEW s, NEW T, Good(s, T), ~s.hung, s.ts # <<>>, Head(s.ts).time <= s.since, NEW ends
    PROVE  Stepped(s, T, RunDue([s EXCEPT !.wire = {}], s.since, ends))
<1> DEFINE q == [s EXCEPT !.wire = {}]
           D == s.since
           K == Cardinality(DOMAIN Interval)
           N == K * (D + 1)
           c == [s |-> q, T |-> T, D |-> D]
           r0 == [n |-> q, diff |-> D, ends |-> ends]
           z == Iterate(RunFirst, N, r0)
<1>1. Quieted(s, T, q)
  BY QuietOne DEF Good
<1>2. RunDue(q, D, ends) = z.n
  BY DEF RunDue
<1>3. c.s = q /\ c.T = T /\ c.D = D /\ r0.n = q /\ r0.diff = D /\ DOMAIN r0 = {"n", "diff", "ends"}
  OBVIOUS
<1> HIDE DEF q, c, r0
<1>4. /\ s.ts \in Seq(Slot) /\ D \in Nat /\ Armed(s) /\ Once(s.ts)
      /\ q.ts = s.ts /\ q.since = D /\ q.tcp = s.tcp /\ q.pcbs = s.pcbs /\ Typed(q, T)
  BY <1>1 DEF Good, Typed, Armed, Quieted, SameTimers
<1>5. Armed(q)
  BY <1>4 DEF Armed
<1>6. N \in Nat /\ N # 0
  <2>1. DOMAIN Interval = {"tcp", "reass", "arp"}
    BY StackAssumption
  <2>2. IsFiniteSet({"tcp", "reass", "arp"})
    <3>1. \A S, x : IsFiniteSet(S) => IsFiniteSet(S \cup {x})
      BY FS_AddElement
    <3>2. IsFiniteSet({})
      BY FS_EmptySet
    <3>3. IsFiniteSet((({} \cup {"tcp"}) \cup {"reass"}) \cup {"arp"})
      BY <3>1, <3>2, Zenon
    <3>4. (({} \cup {"tcp"}) \cup {"reass"}) \cup {"arp"} = {"tcp", "reass", "arp"}
      OBVIOUS
    <3> QED
      BY <3>3, <3>4
  <2>3. K \in Nat /\ K # 0
    <3>1. K \in Nat
      BY <2>1, <2>2, FS_CardinalityType
    <3>2. K = 0 <=> DOMAIN Interval = {}
      BY <2>1, <2>2, FS_EmptySet
    <3> QED
      BY <2>1, <3>1, <3>2
  <2>4. \A a, b \in Nat : a # 0 => a * (b + 1) \in Nat /\ a * (b + 1) # 0
    OBVIOUS
  <2> HIDE DEF K, D
  <2> QED
    BY <1>4, <2>3, <2>4
<1> HIDE DEF N
<1>7. \A h : Has(s.ts, h) => ToGo(s.ts, h) \in Nat
  BY <1>4, ToGoNat
<1>8. NotNearer(q.ts, D, q, D)
  BY <1>4, <1>7 DEF NotNearer
<1>9. RunInv(c, 0, r0)
  BY <1>3, <1>4, <1>5, <1>8 DEF RunInv
<1>10. \A i \in 0..(N - 1) : \A r : RunInv(c, i, r) => RunInv(c, i + 1, RunFirst(r))
  <2> SUFFICES ASSUME NEW i \in 0..(N - 1), NEW r, RunInv(c, i, r)
               PROVE  RunInv(c, i + 1, RunFirst(r))
    OBVIOUS
  <2>1. i \in Nat
    BY <1>6
  <2>2. c.s.ts \in Seq(Slot) /\ c.s.ts # <<>> /\ Head(c.s.ts).time <= c.D /\ c.D \in Nat
        /\ Once(c.s.ts)
    BY <1>3, <1>4
  <2> QED
    BY <2>1, <2>2, RunOne
<1>11. RunInv(c, N, z)
  BY <1>6, <1>9, <1>10, Running!LoopInvariant DEF Iterate, Running!Iterate
<1> HIDE DEF z
<1>12. /\ Typed(z.n, T) /\ z.n.since = 0 /\ z.diff \in Nat
       /\ z.n.hung \/ (Armed(z.n) /\ NotNearer(s.ts, D, z.n, z.diff))
  BY <1>3, <1>4, <1>6, <1>11 DEF RunInv
<1>13. Good(z.n, T)
  BY <1>12 DEF Good
<1>14. CASE z.n.hung
  BY <1>2, <1>13, <1>14 DEF Stepped, Unhurried, q
<1>15. CASE ~z.n.hung
  <2>1. /\ NotNearer(s.ts, D, z.n, z.diff) /\ Once(z.n.ts) /\ z.n.ts \in Seq(Slot)
        /\ z.n.since \in Nat
    BY <1>12, <1>15 DEF Armed, Typed
  <2>2. \A h : Has(z.n.ts, h) => ToGo(z.n.ts, h) \in Nat
    BY <2>1, ToGoNat
  <2>3. \A h : Has(s.ts, h) /\ Has(z.n.ts, h) => ToGo(z.n.ts, h) - z.n.since >= ToGo(s.ts, h) - s.since
    <3> SUFFICES ASSUME NEW h, Has(s.ts, h), Has(z.n.ts, h)
                 PROVE  ToGo(z.n.ts, h) - z.n.since >= ToGo(s.ts, h) - s.since
      OBVIOUS
    <3>1. ToGo(z.n.ts, h) >= ToGo(s.ts, h) - (D - z.diff) \/ ToGo(s.ts, h) <= D
      BY <2>1 DEF NotNearer
    <3>2. ToGo(z.n.ts, h) \in Nat /\ ToGo(s.ts, h) \in Nat
      BY <1>7, <2>2
    <3> QED
      BY <1>4, <1>12, <3>1, <3>2
  <2>4. Unhurried(s, z.n)
    BY <1>4, <2>1, <2>3, NotHurried
  <2> QED
    BY <1>2, <1>13, <2>4 DEF Stepped, q
<1> QED
  BY <1>14, <1>15

-----------------------------------------------------------------------------
(* Steps of the network and of the application.                            *)

\* A frame arrives.
LEMMA ReceiveStep ==
    ASSUME NEW s, NEW T, Good(s, T), ~s.hung, NEW f, IsFrame(f), NEW clen \in Nat \ {0}
    PROVE  Stepped(s, IF clen <= Cardinality(FreeIn(s.pb, PBUF_POOL)) THEN ToldBy(T, f) ELSE T,
                   ethernetif_input([s EXCEPT !.wire = {}], f, clen))
<1> DEFINE q == [s EXCEPT !.wire = {}]
<1>1. Quieted(s, T, q)
  BY QuietOne DEF Good
<1> HIDE DEF q
<1>2. IpOK(q, T, {}) /\ q.wire = {} /\ SameTimers(s, q) /\ q.pb = s.pb
  BY <1>1 DEF Quieted, Typed
<1> DEFINE U == IF clen <= Cardinality(FreeIn(q.pb, PBUF_POOL)) THEN ToldBy(T, f) ELSE T
           m == ethernetif_input(q, f, clen)
<1>3. Handled(q, U, {}, m)
  BY <1>2, DriverInput
<1> HIDE DEF m, U
<1>4. Stepped(s, U, m)
  BY <1>2, <1>3, HandledStep
<1> QED
  BY <1>2, <1>4 DEF U, m, q

\* The application sends a datagram of its own.
LEMMA SendStep ==
    ASSUME NEW s, NEW T, Good(s, T), ~s.hung, NEW dst, NEW parts \in Nat, NEW room
    PROVE  LET q == [s EXCEPT !.wire = {}]
               a == pbuf_alloc(s.pb, PBUF_RAM, 1, Rest)
           IN  Stepped(s, T, IF a.p = NULL THEN q
                             ELSE FreeIt(udp_sendto([q EXCEPT !.pb = a.pb], a.p, dst, parts, room), a.p))
<1> DEFINE q == [s EXCEPT !.wire = {}]
           a == pbuf_alloc(s.pb, PBUF_RAM, 1, Rest)
           v == [q EXCEPT !.pb = a.pb]
           w == udp_sendto(v, a.p, dst, parts, room)
<1>1. Quieted(s, T, q)
  BY QuietOne DEF Good
<1>2. IpOK(q, T, {}) /\ q.wire = {} /\ SameTimers(s, q) /\ q.pb = s.pb /\ Arena(s.pb)
  BY <1>1 DEF Quieted, Typed, IpOK, ArpOK
<1>3. CASE a.p = NULL
  <2>1. Stepped(s, T, q)
    <3> HIDE DEF q
    <3>1. Handled(q, T, {}, q)
      BY <1>2, HandledSelf
    <3> QED
      BY <1>2, <3>1, HandledStep
  <2> QED
    BY <1>3, <2>1
<1>4. CASE a.p # NULL
  <2> HIDE DEF q
  <2>1. 1 \in Nat \ {0} /\ PBUF_RAM \in {PBUF_POOL, PBUF_RAM}
    OBVIOUS
  <2>2. ~(Cardinality(FreeIn(s.pb, PBUF_RAM)) < 1)
    BY <1>4 DEF pbuf_alloc
  <2>3. Cardinality(FreeIn(s.pb, PBUF_RAM)) >= 1
    <3>1. FreeIn(s.pb, PBUF_RAM) \in SUBSET Buf
      BY DEF FreeIn, Buf
    <3>2. Cardinality(FreeIn(s.pb, PBUF_RAM)) \in Nat
      BY <3>1, BufFacts, FS_Subset, FS_CardinalityType
    <3> QED
      BY <2>2, <3>2
  <2>4. IpOK(v, T, {a.p}) /\ SameTimers(q, v)
    BY <1>2, <2>1, <2>3, IpAlloc
  <2> HIDE DEF v, a
  <2>5. Handled(v, T, {a.p}, w)
    BY <2>4, UdpSend
  <2> HIDE DEF w
  <2>6. Handled(v, T, {}, FreeIt(w, a.p))
    BY <2>5, HandledFree
  <2>7. SameTimers(s, v)
    BY <1>2, <2>4 DEF SameTimers
  <2>8. Stepped(s, T, FreeIt(w, a.p))
    BY <2>6, <2>7, HandledStep
  <2> QED
    BY <1>4, <2>8 DEF w, v, a, q
<1> QED
  BY <1>3, <1>4

\* The application answers a datagram, or only frees it.
LEMMA AnswerStep ==
    ASSUME NEW s, NEW T, Good(s, T), ~s.hung, NEW p \in s.up, NEW answer
    PROVE  LET q == [s EXCEPT !.wire = {}]
           IN  Stepped(s, T, FreeIt([IF answer THEN Answered(q, p, s.pb[p].data) ELSE q EXCEPT !.up = @ \ {p}], p))
<1> DEFINE q == [s EXCEPT !.wire = {}]
           v == [IF answer THEN Answered(q, p, s.pb[p].data) ELSE q EXCEPT !.up = @ \ {p}]
<1>1. Quieted(s, T, q)
  BY QuietOne DEF Good
<1> HIDE DEF q
<1>2. IpOK(q, T, {}) /\ SameTimers(s, q) /\ q.pb = s.pb /\ p \in q.up
  BY <1>1 DEF Quieted, Typed
<1>3. Handled(q, T, {p}, v)
  <2>1. CASE answer
    <3>1. v = [udp_sendto(q, p, q.pb[p].data.src, q.pb[p].data.of, TRUE) EXCEPT !.up = @ \ {p}]
      BY <1>2, <2>1 DEF Answered
    <3> QED
      BY <1>2, <3>1, UdpAnswer
  <2>2. CASE ~answer
    <3>1. v = [q EXCEPT !.up = @ \ {p}]
      BY <2>2
    <3> HIDE DEF v
    <3>2. IpOK(v, T, {p}) /\ SameTimers(q, v)
      BY <1>2, <3>1, IpDown
    <3> QED
      BY <3>2 DEF Handled
  <2> QED
    BY <2>1, <2>2
<1> HIDE DEF v
<1>4. Handled(q, T, {}, FreeIt(v, p))
  BY <1>3, HandledFree
<1>5. Stepped(s, T, FreeIt(v, p))
  BY <1>2, <1>4, HandledStep
<1> QED
  BY <1>5 DEF v, q

-----------------------------------------------------------------------------
(* The specification.                                                      *)

\* What is still to come.
LoadOK(l) ==
    /\ DOMAIN l = {"frames", "dups", "sends", "opens", "stall"}
    /\ \A x \in l.frames : x.clen \in Nat \ {0} /\ IsFrame(x.f)
    /\ \E S : l.sends \in Seq(S) /\ \A c \in S : c.parts \in Nat

\* Every load is as the proofs need it.
LEMMA LoadsOK == \A l \in Loads : LoadOK(l)
<1> SUFFICES ASSUME NEW l \in Loads PROVE LoadOK(l)
  OBVIOUS
<1>1. DOMAIN l = {"frames", "dups", "sends", "opens", "stall"}
  <2>1. l = [frames |-> l.frames, dups |-> l.dups, sends |-> l.sends,
             opens |-> l.opens, stall |-> l.stall]
    BY LoadsAssumption
  <2>2. \A a, b, c, d, e : DOMAIN [frames |-> a, dups |-> b, sends |-> c, opens |-> d, stall |-> e]
                           = {"frames", "dups", "sends", "opens", "stall"}
    OBVIOUS
  <2> QED
    BY <2>1, <2>2
<1>2. ASSUME NEW x \in l.frames PROVE x.clen \in Nat \ {0} /\ IsFrame(x.f)
  BY LoadsAssumption DEF IsFrame, IsPacket, PacketFields
<1>3. \E S : l.sends \in Seq(S) /\ \A c \in S : c.parts \in Nat
  BY LoadsAssumption
<1> QED
  BY <1>1, <1>2, <1>3 DEF LoadOK

\* The inductive invariant.
StackInv == Good(n, told) /\ LoadOK(todo)

\* Nothing is in use.
LEMMA FirstNet ==
    ASSUME NEW s, NEW T, DOMAIN s = Fields, s.pb = [i \in PBUF_POOL \cup PBUF_RAM |-> Unused],
           s.arp = [i \in ArpIndex |-> EmptyEntry], s.hint = 0, s.wire = {}, s.reass = <<>>,
           s.count = 0, s.up = {}
    PROVE  IpOK(s, T, {})
<1>1. /\ DOMAIN s.pb = Buf
      /\ \A i \in Buf : s.pb[i] = Unused
  BY DEF Buf
<1>2. DOMAIN Unused = {"ref", "next", "data"} /\ Unused.ref = 0 /\ Unused.next = NULL
  BY DEF Unused
<1>3. Arena(s.pb)
  BY <1>1, <1>2 DEF Arena
<1>4. DOMAIN s.arp = ArpIndex /\ \A j \in ArpIndex : s.arp[j] = EmptyEntry
  OBVIOUS
<1>5. /\ DOMAIN EmptyEntry = EntryFields /\ EmptyEntry.ctime = 0 /\ EmptyEntry.state = "EMPTY"
      /\ EmptyEntry.q = NULL
  BY DEF EmptyEntry, EntryFields
<1>6. SoundEntry(EmptyEntry, s.pb, T)
  BY <1>5 DEF SoundEntry, IsStable
<1>7. ArpOK(s, T)
  BY <1>3, <1>4, <1>5, <1>6, IndexFacts DEF ArpOK, SoundWire
<1>8. Loose(s) = {}
  BY <1>1, <1>2 DEF Loose
<1>9. IsSeq(s.reass) /\ Len(s.reass) = 0 /\ 1..Len(s.reass) = {}
  <2>1. <<>> \in Seq({}) /\ Len(<<>>) = 0 /\ 1..0 = {}
    OBVIOUS
  <2> QED
    BY <2>1 DEF IsSeq
<1>10. ReassOK(s.reass) /\ Heads(s.reass) = {}
  BY <1>9 DEF ReassOK, Apart, Heads, InList
<1>11. HeldOK(s, {})
  BY <1>8, <1>10 DEF HeldOK, Holding, Own
<1>12. Hold(s.pb, {}) = {} /\ Cardinality({}) = 0
  BY FS_EmptySet DEF Hold
<1>13. CountOK(s)
  <2>1. Cardinality(Hold(s.pb, Heads(s.reass))) = 0
    BY <1>10, <1>12
  <2>2. 0 <= IP_REASS_MAX_PBUFS /\ 0 <= MEMP_NUM_REASSDATA
    BY IpAssumption
  <2> QED
    BY <1>9, <2>1, <2>2 DEF CountOK
<1> QED
  BY <1>7, <1>10, <1>11, <1>13 DEF IpOK

\* sys_timeouts_init arms the handlers of reassembly and ARP.
LEMMA FirstTimeouts ==
    LET ts == sys_timeouts_init
    IN  ts \in Seq(Slot) /\ Once(ts) /\ Has(ts, "arp") /\ Has(ts, "reass") /\ ~Has(ts, "tcp")
<1> DEFINE a == sys_timeout(<<>>, "reass", Interval["reass"])
           ts == sys_timeout(a, "arp", Interval["arp"])
<1>1. sys_timeouts_init = ts
  BY DEF sys_timeouts_init
<1>2. /\ "reass" \in Handlers /\ "arp" \in Handlers /\ "reass" # "arp" /\ "tcp" # "arp"
      /\ "reass" # "tcp" /\ Interval["reass"] \in Nat /\ Interval["arp"] \in Nat
  BY StackAssumption DEF Handlers
<1>3. <<>> \in Seq(Slot) /\ Once(<<>>) /\ \A g : ~Has(<<>>, g)
  <2>1. <<>> \in Seq(Slot) /\ Len(<<>>) = 0 /\ 1..0 = {}
    OBVIOUS
  <2> QED
    BY <2>1 DEF Once, Has
<1>4. Rearmed(<<>>, "reass", a)
  BY <1>2, <1>3, ArmList
<1> HIDE DEF a
<1>5. a \in Seq(Slot) /\ Once(a) /\ \A g : Has(a, g) <=> g = "reass"
  BY <1>3, <1>4 DEF Rearmed
<1>6. Rearmed(a, "arp", ts)
  BY <1>2, <1>5, ArmList
<1> HIDE DEF ts
<1>7. ts \in Seq(Slot) /\ Once(ts) /\ \A g : Has(ts, g) <=> Has(a, g) \/ g = "arp"
  BY <1>2, <1>5, <1>6 DEF Rearmed
<1> QED
  BY <1>1, <1>2, <1>5, <1>7 DEF ts

\* The invariant holds at the start.
LEMMA StackInit == Init => StackInv
<1> SUFFICES ASSUME Init PROVE StackInv
  OBVIOUS
<1>1. /\ DOMAIN n = Fields /\ n.pb = [i \in PBUF_POOL \cup PBUF_RAM |-> Unused]
      /\ n.arp = [i \in ArpIndex |-> EmptyEntry] /\ n.hint = 0 /\ n.wire = {} /\ n.reass = <<>>
      /\ n.count = 0 /\ n.up = {} /\ n.hung = FALSE /\ n.ts = sys_timeouts_init /\ n.since = 0
      /\ n.pcbs = FALSE /\ n.tcp = FALSE
  BY DEF Init, Fields
<1>2. IpOK(n, told, {})
  BY <1>1, FirstNet
<1>3. n.ts \in Seq(Slot) /\ Once(n.ts) /\ Has(n.ts, "arp") /\ Has(n.ts, "reass") /\ ~Has(n.ts, "tcp")
  BY <1>1, FirstTimeouts
<1>4. Typed(n, told)
  <2>1. n.since \in Nat
    BY <1>1
  <2>2. n.tcp \in BOOLEAN
    BY <1>1, Zenon
  <2> QED
    BY <1>2, <1>3, <2>1, <2>2, Zenon DEF Typed
<1>5. Armed(n)
  BY <1>1, <1>3 DEF Armed
<1>6. LoadOK(todo)
  BY LoadsOK DEF Init
<1> QED
  BY <1>4, <1>5, <1>6 DEF StackInv, Good

\* What is taken from the load leaves a load.
LEMMA LoadKept ==
    ASSUME NEW l, LoadOK(l)
    PROVE  /\ \A x : LoadOK([l EXCEPT !.frames = @ \ {x}])
           /\ LoadOK([l EXCEPT !.dups = @ - 1]) /\ LoadOK([l EXCEPT !.opens = @ - 1])
           /\ l.sends # <<>> => /\ LoadOK([l EXCEPT !.sends = Tail(@)])
                                /\ Head(l.sends).parts \in Nat
<1>1. /\ DOMAIN l = {"frames", "dups", "sends", "opens", "stall"}
      /\ \A x \in l.frames : x.clen \in Nat \ {0} /\ IsFrame(x.f)
      /\ \E S : l.sends \in Seq(S) /\ \A c \in S : c.parts \in Nat
  BY DEF LoadOK
<1>2. ASSUME NEW x PROVE LoadOK([l EXCEPT !.frames = @ \ {x}])
  <2> DEFINE k == [l EXCEPT !.frames = @ \ {x}]
  <2>1. DOMAIN k = {"frames", "dups", "sends", "opens", "stall"} /\ k.frames = l.frames \ {x}
        /\ k.sends = l.sends
    BY <1>1
  <2> HIDE DEF k
  <2>2. LoadOK(k)
    BY <1>1, <2>1 DEF LoadOK
  <2> QED
    BY <2>2 DEF k
<1>3. LoadOK([l EXCEPT !.dups = @ - 1])
  <2> DEFINE k == [l EXCEPT !.dups = @ - 1]
  <2>1. DOMAIN k = {"frames", "dups", "sends", "opens", "stall"} /\ k.frames = l.frames
        /\ k.sends = l.sends
    BY <1>1
  <2> HIDE DEF k
  <2>2. LoadOK(k)
    BY <1>1, <2>1 DEF LoadOK
  <2> QED
    BY <2>2 DEF k
<1>4. LoadOK([l EXCEPT !.opens = @ - 1])
  <2> DEFINE k == [l EXCEPT !.opens = @ - 1]
  <2>1. DOMAIN k = {"frames", "dups", "sends", "opens", "stall"} /\ k.frames = l.frames
        /\ k.sends = l.sends
    BY <1>1
  <2> HIDE DEF k
  <2>2. LoadOK(k)
    BY <1>1, <2>1 DEF LoadOK
  <2> QED
    BY <2>2 DEF k
<1>5. ASSUME l.sends # <<>>
      PROVE  LoadOK([l EXCEPT !.sends = Tail(@)]) /\ Head(l.sends).parts \in Nat
  <2> DEFINE k == [l EXCEPT !.sends = Tail(@)]
  <2>1. DOMAIN k = {"frames", "dups", "sends", "opens", "stall"} /\ k.frames = l.frames
        /\ k.sends = Tail(l.sends)
    BY <1>1
  <2> HIDE DEF k
  <2>2. PICK S : l.sends \in Seq(S) /\ \A c \in S : c.parts \in Nat
    BY <1>1
  <2>3. Tail(l.sends) \in Seq(S) /\ Head(l.sends) \in S
    BY <1>5, <2>2
  <2>4. LoadOK(k)
    BY <1>1, <2>1, <2>2, <2>3 DEF LoadOK
  <2> QED
    BY <2>2, <2>3, <2>4 DEF k
<1> QED
  BY <1>2, <1>3, <1>4, <1>5

\* Every step keeps the invariant and hurries no timeout.
LEMMA StackNext == StackInv /\ Next => StackInv' /\ Unhurried(n, n')
<1> SUFFICES ASSUME StackInv, Next PROVE StackInv' /\ Unhurried(n, n')
  OBVIOUS
<1>1. Good(n, told) /\ LoadOK(todo)
  BY DEF StackInv
<1>2. ASSUME LoadOK(todo'), Stepped(n, told', n') PROVE StackInv' /\ Unhurried(n, n')
  <2>1. Good(n', told') /\ Unhurried(n, n')
    BY <1>2 DEF Stepped
  <2>2. StackInv'
    BY <1>2, <2>1 DEF StackInv
  <2> QED
    BY <2>1, <2>2
<1>3. CASE Tick
  <2>1. ~n.hung /\ n' = [[n EXCEPT !.wire = {}] EXCEPT !.since = @ + 1] /\ todo' = todo /\ told' = told
    BY <1>3 DEF Tick, Quiet
  <2>2. Stepped(n, told', n')
    BY <1>1, <2>1, TickStep
  <2> QED
    BY <1>1, <1>2, <2>1, <2>2
<1>4. CASE CheckTimeouts
  <2>1. PICK ends \in BOOLEAN : sys_check_timeouts(ends)
    BY <1>4 DEF CheckTimeouts
  <2>2. /\ ~n.hung /\ n' = RunDue([n EXCEPT !.wire = {}], n.since, ends) /\ todo' = todo /\ told' = told
        /\ n.ts # <<>> /\ Head(n.ts).time <= n.since
    BY <2>1 DEF sys_check_timeouts, Quiet, Due
  <2>3. Stepped(n, told', n')
    BY <1>1, <2>2, CheckStep
  <2> QED
    BY <1>1, <1>2, <2>2, <2>3
<1>5. CASE App
  <2>1. PICK p \in n.up, answer \in BOOLEAN : AppAnswer(p, answer)
    BY <1>5 DEF App
  <2> DEFINE q == [n EXCEPT !.wire = {}]
             m == FreeIt([IF answer THEN Answered(q, p, n.pb[p].data) ELSE q EXCEPT !.up = @ \ {p}], p)
  <2>2. ~n.hung /\ n' = m /\ todo' = todo /\ told' = told
    BY <2>1 DEF AppAnswer, Quiet
  <2>3. Stepped(n, told, m)
    BY <1>1, <2>2, AnswerStep
  <2> QED
    BY <1>1, <1>2, <2>2, <2>3
<1>6. CASE \E x \in todo.frames : Receive(x)
  <2>1. PICK x \in todo.frames : Receive(x)
    BY <1>6
  <2> DEFINE f == x.f
             U == IF x.clen <= Cardinality(FreeIn(n.pb, PBUF_POOL)) THEN ToldBy(told, f) ELSE told
  <2>2. ~n.hung /\ n' = ethernetif_input([n EXCEPT !.wire = {}], f, x.clen)
    BY <2>1 DEF Receive, Quiet
  <2>3. told' = U
    BY <2>1 DEF Receive, ToldBy, Told
  <2>4. x.clen \in Nat \ {0} /\ IsFrame(f)
    BY <1>1 DEF LoadOK
  <2>5. Stepped(n, U, n')
    <3> HIDE DEF f
    <3> QED
      BY <1>1, <2>2, <2>4, ReceiveStep
  <2>6. LoadOK(todo')
    <3>1. todo' = [todo EXCEPT !.frames = @ \ {x}] \/ todo' = [todo EXCEPT !.dups = @ - 1]
      BY <2>1 DEF Receive
    <3>2. LoadOK([todo EXCEPT !.frames = @ \ {x}]) /\ LoadOK([todo EXCEPT !.dups = @ - 1])
      BY <1>1, LoadKept
    <3> QED
      BY <3>1, <3>2
  <2> QED
    BY <1>2, <2>3, <2>5, <2>6
<1>7. CASE AppSend
  <2> DEFINE c == Head(todo.sends)
             q == [n EXCEPT !.wire = {}]
             a == pbuf_alloc(n.pb, PBUF_RAM, 1, Rest)
             m == IF a.p = NULL THEN q
                  ELSE FreeIt(udp_sendto([q EXCEPT !.pb = a.pb], a.p, c.dst, c.parts, c.room), a.p)
  <2>1. ~n.hung /\ todo.sends # <<>> /\ n' = m /\ todo' = [todo EXCEPT !.sends = Tail(@)] /\ told' = told
    BY <1>7 DEF AppSend, SendOwn, Quiet
  <2>2. LoadOK(todo') /\ c.parts \in Nat
    BY <1>1, <2>1, LoadKept
  <2>3. Stepped(n, told, m)
    BY <1>1, <2>1, <2>2, SendStep
  <2> QED
    BY <1>2, <2>1, <2>2, <2>3
<1>8. CASE TcpOpen
  <2>1. /\ ~n.hung /\ n' = tcp_timer_needed([[n EXCEPT !.wire = {}] EXCEPT !.pcbs = TRUE])
        /\ todo' = [todo EXCEPT !.opens = @ - 1] /\ told' = told
    BY <1>8 DEF TcpOpen, Quiet
  <2>2. LoadOK(todo')
    BY <1>1, <2>1, LoadKept
  <2>3. Stepped(n, told', n')
    BY <1>1, <2>1, OpenStep
  <2> QED
    BY <1>2, <2>2, <2>3
<1>9. CASE TcpClose
  <2>1. ~n.hung /\ n' = [[n EXCEPT !.wire = {}] EXCEPT !.pcbs = FALSE] /\ todo' = todo /\ told' = told
    BY <1>9 DEF TcpClose, Quiet
  <2>2. Stepped(n, told', n')
    BY <1>1, <2>1, CloseStep
  <2> QED
    BY <1>1, <1>2, <2>1, <2>2
<1> QED
  BY <1>3, <1>4, <1>5, <1>6, <1>7, <1>8, <1>9 DEF Next

\* The invariant holds in every reachable state.
LEMMA StackSafe == Spec => []StackInv
<1>1. Init => StackInv
  BY StackInit
<1>2. StackInv /\ [Next]_vars => StackInv'
  <2>1. ASSUME StackInv, UNCHANGED vars PROVE StackInv'
    <3>1. n' = n /\ todo' = todo /\ told' = told
      BY <2>1 DEF vars
    <3> QED
      BY <2>1, <3>1 DEF StackInv
  <2> QED
    BY <2>1, StackNext
<1> QED
  BY <1>1, <1>2, PTL DEF Spec

-----------------------------------------------------------------------------
(* What the invariant says.                                                *)

\* Who refers to buffer i: ARP, the list of datagrams, other buffers.
ByArp(s, i) == {j \in ArpIndex : s.arp[j].q = i}
ByList(s, i) ==
    {x \in (DOMAIN s.reass) \X (DOMAIN s.pb) : x[2] \in DOMAIN s.reass[x[1]].p /\ s.reass[x[1]].p[x[2]] = i}
ByBuffer(s, i) == {j \in DOMAIN s.pb : s.pb[j].ref > 0 /\ s.pb[j].next = i}
Referred(s, i) ==
    s.pb[i].ref = Cardinality(ByArp(s, i)) + Cardinality(ByList(s, i)) + Cardinality(ByBuffer(s, i))
                  + (IF i \in s.up THEN 1 ELSE 0)

\* A datagram being put together has no more fragments than there are
\* buffers.
LEMMA ListShort ==
    ASSUME NEW q, ReassOK(q), NEW k \in 1..Len(q)
    PROVE  /\ Len(q[k].p) \in Nat /\ DOMAIN q[k].p = 1..Len(q[k].p) /\ 1..Len(q[k].p) \subseteq Buf
           /\ DOMAIN q = 1..Len(q)
<1> DEFINE p == q[k].p
<1>1. p \in Seq(Buf) /\ IsSeq(q)
  BY DEF ReassOK, SoundRec
<1>2. \A a, b \in 1..Len(p) : p[a] = p[b] => a = b
  BY DEF ReassOK, Apart
<1> HIDE DEF p
<1>3. Cardinality(ToSet(p)) = Len(p)
  BY <1>1, <1>2, InjectiveCount
<1>4. ToSet(p) \subseteq Buf /\ DOMAIN p = 1..Len(p) /\ Len(p) \in Nat
  BY <1>1, Elements
<1>5. Cardinality(ToSet(p)) <= Cardinality(Buf)
  BY <1>4, BufFacts, FS_Subset
<1>6. Buf = 1..(PBUF_POOL_SIZE + RamSize) /\ Cardinality(Buf) = PBUF_POOL_SIZE + RamSize
      /\ PBUF_POOL_SIZE + RamSize \in Nat
  BY BufFacts
<1>7. 1..Len(p) \subseteq Buf
  BY <1>3, <1>4, <1>5, <1>6
<1>8. DOMAIN q = 1..Len(q)
  BY <1>1 DEF IsSeq
<1> QED
  BY <1>4, <1>7, <1>8 DEF p

\* Every buffer has the references somebody holds to it.
LEMMA ReferredAll ==
    ASSUME NEW s, NEW T, IpOK(s, T, {}), NEW i \in Buf
    PROVE  Referred(s, i)
<1> DEFINE A == ByArp(s, i)
           B == ByList(s, i)
           C == ByBuffer(s, i)
           R == Heads(s.reass)
           L == Loose(s)
           H == R \cup s.up
<1>1. /\ ArpOK(s, T) /\ ReassOK(s.reass) /\ Own(s.pb, L, H) /\ R \cap s.up = {} /\ DOMAIN s.pb = Buf
      /\ \A j \in Buf : s.pb[j].ref \in Nat
  <2>1. Holding(s, {}) = H
    BY DEF Holding
  <2> QED
    BY <2>1 DEF IpOK, HeldOK, ArpOK, Arena
<1>2. /\ \A j : j \in Kept(s) <=> j # NULL /\ \E a \in ArpIndex : s.arp[a].q = j
      /\ \A j \in Kept(s) : j \in Buf /\ s.pb[j].ref = 1 /\ s.pb[j].next = NULL
      /\ \A j : j \in L <=> j \in Buf /\ s.pb[j].ref # 0 /\ j \notin Kept(s)
      /\ NULL \notin Buf
  BY <1>1, LooseFacts
<1>3. /\ L \subseteq Buf /\ H \subseteq L
      /\ \A j \in L : s.pb[j].ref = 1 /\ s.pb[j].next \in L \cup {NULL}
      /\ \A j, k \in L : s.pb[j].next = s.pb[k].next /\ s.pb[j].next # NULL => j = k
      /\ \A j \in L : s.pb[j].next \notin H
      /\ \A j \in L \ H : \E k \in L : s.pb[k].next = j
  BY <1>1 DEF Own
<1>4. \A j, k \in ArpIndex : s.arp[j].q = s.arp[k].q /\ s.arp[j].q # NULL => j = k
  BY <1>1 DEF ArpOK
<1> HIDE DEF R, L, H
<1>5. i # NULL
  BY <1>2
<1>6. \A S : S = {} => Cardinality(S) = 0
  BY FS_EmptySet
<1>7. \A S, x : S = {x} => Cardinality(S) = 1
  BY FS_Singleton
<1>8. i \notin Kept(s) => A = {}
  BY <1>2, <1>5 DEF ByArp
<1>9. \A j : j \in C <=> j \in L /\ s.pb[j].next = i
  <2> SUFFICES ASSUME NEW j PROVE j \in C <=> j \in L /\ s.pb[j].next = i
    OBVIOUS
  <2>1. j \in C <=> j \in Buf /\ s.pb[j].ref # 0 /\ s.pb[j].next = i
    BY <1>1 DEF ByBuffer
  <2> HIDE DEF C
  <2> QED
    BY <1>2, <1>5, <2>1
<1>10. i \notin R => B = {}
  <2> SUFFICES ASSUME NEW x \in B PROVE i \in R
    OBVIOUS
  <2>1. x[1] \in DOMAIN s.reass /\ x[2] \in DOMAIN s.reass[x[1]].p /\ s.reass[x[1]].p[x[2]] = i
    BY DEF ByList
  <2>2. DOMAIN s.reass = 1..Len(s.reass)
    BY <1>1 DEF ReassOK, IsSeq
  <2>3. x[1] \in 1..Len(s.reass)
    BY <2>1, <2>2
  <2>4. DOMAIN s.reass[x[1]].p = 1..Len(s.reass[x[1]].p)
    BY <1>1, <2>3, ListShort
  <2> QED
    BY <2>1, <2>3, <2>4 DEF R, Heads, InList
<1> HIDE DEF A, B, C
<1>11. CASE s.pb[i].ref = 0
  <2>1. i \notin Kept(s) /\ i \notin L
    BY <1>2, <1>11
  <2>2. i \notin R /\ i \notin s.up
    BY <1>3, <2>1 DEF H
  <2>3. A = {} /\ B = {} /\ C = {}
    BY <1>3, <1>5, <1>8, <1>9, <1>10, <2>1, <2>2
  <2> QED
    BY <1>6, <1>11, <2>2, <2>3 DEF Referred, A, B, C
<1>12. CASE i \in Kept(s)
  <2>1. s.pb[i].ref = 1 /\ i \notin L
    BY <1>2, <1>12
  <2>2. i \notin R /\ i \notin s.up
    BY <1>3, <2>1 DEF H
  <2>3. PICK j \in ArpIndex : s.arp[j].q = i
    BY <1>2, <1>12
  <2>4. A = {j}
    BY <1>4, <1>5, <2>3 DEF A, ByArp
  <2>5. B = {} /\ C = {}
    BY <1>3, <1>5, <1>9, <1>10, <2>1, <2>2
  <2>6. Cardinality(A) = 1 /\ Cardinality(B) = 0 /\ Cardinality(C) = 0
    BY <1>6, <1>7, <2>4, <2>5
  <2> QED
    BY <2>1, <2>2, <2>6 DEF Referred, A, B, C
<1>13. CASE i \in R
  <2>1. i \in L /\ i \notin Kept(s) /\ s.pb[i].ref = 1 /\ i \in H
    BY <1>2, <1>3, <1>13 DEF H
  <2>2. i \notin s.up
    BY <1>1, <1>13
  <2>3. A = {} /\ C = {}
    BY <1>3, <1>8, <1>9, <2>1
  <2>4. PICK k \in 1..Len(s.reass) : \E l \in 1..Len(s.reass[k].p) : s.reass[k].p[l] = i
    BY <1>13 DEF R, Heads, InList
  <2>5. PICK l \in 1..Len(s.reass[k].p) : s.reass[k].p[l] = i
    BY <2>4
  <2>6. B = {<<k, l>>}
    <3>1. <<k, l>> \in B
      <4>1. DOMAIN s.reass[k].p = 1..Len(s.reass[k].p) /\ l \in Buf /\ DOMAIN s.reass = 1..Len(s.reass)
        BY <1>1, ListShort
      <4> QED
        BY <1>1, <2>5, <4>1 DEF B, ByList
    <3>2. ASSUME NEW x \in B PROVE x = <<k, l>>
      <4>1. /\ x \in (DOMAIN s.reass) \X (DOMAIN s.pb) /\ x[2] \in DOMAIN s.reass[x[1]].p
            /\ s.reass[x[1]].p[x[2]] = i
        BY <3>2 DEF B, ByList
      <4>2. x = <<x[1], x[2]>> /\ x[1] \in DOMAIN s.reass
        BY <4>1
      <4>3. x[1] \in 1..Len(s.reass)
        BY <1>1, <4>2 DEF ReassOK, IsSeq
      <4>4. x[2] \in 1..Len(s.reass[x[1]].p)
        BY <1>1, <4>1, <4>3, ListShort
      <4>5. k = x[1] /\ l = x[2]
        BY <1>1, <2>5, <4>1, <4>3, <4>4 DEF ReassOK, Apart
      <4> QED
        BY <4>2, <4>5
    <3> QED
      BY <3>1, <3>2
  <2>7. Cardinality(A) = 0 /\ Cardinality(B) = 1 /\ Cardinality(C) = 0
    BY <1>6, <1>7, <2>3, <2>6
  <2> QED
    BY <2>1, <2>2, <2>7 DEF Referred, A, B, C
<1>14. CASE i \in s.up
  <2>1. i \in L /\ i \notin Kept(s) /\ s.pb[i].ref = 1 /\ i \in H /\ i \notin R
    BY <1>1, <1>2, <1>3, <1>14 DEF H
  <2>2. A = {} /\ B = {} /\ C = {}
    BY <1>3, <1>8, <1>9, <1>10, <2>1
  <2>3. Cardinality(A) = 0 /\ Cardinality(B) = 0 /\ Cardinality(C) = 0
    BY <1>6, <2>2
  <2> QED
    BY <1>14, <2>1, <2>3 DEF Referred, A, B, C
<1>15. CASE i \in L \ H
  <2>1. i \notin Kept(s) /\ s.pb[i].ref = 1 /\ i \notin R /\ i \notin s.up
    BY <1>2, <1>3, <1>15 DEF H
  <2>2. A = {} /\ B = {}
    BY <1>8, <1>10, <2>1
  <2>3. PICK j \in L : s.pb[j].next = i
    BY <1>3, <1>15
  <2>4. C = {j}
    BY <1>3, <1>5, <1>9, <2>3
  <2>5. Cardinality(A) = 0 /\ Cardinality(B) = 0 /\ Cardinality(C) = 1
    BY <1>6, <1>7, <2>2, <2>4
  <2> QED
    BY <2>1, <2>5 DEF Referred, A, B, C
<1> QED
  BY <1>2, <1>11, <1>12, <1>13, <1>14, <1>15 DEF H

\* The references to the packet buffers are counted right (ReferencesHeld):
\* whatever arrives, is sent, waits, expires or is thrown away, no operation
\* of ARP, IP, ICMP, UDP or their timers leaves a buffer without an owner,
\* frees one that somebody refers to, or counts a reference twice.
THEOREM ReferencesCounted == Spec => []ReferencesHeld
<1>1. StackInv => ReferencesHeld
  <2> SUFFICES ASSUME StackInv, NEW i \in DOMAIN n.pb PROVE n.pb[i].ref = Holders(i)
    BY DEF ReferencesHeld
  <2>1. IpOK(n, told, {})
    BY DEF StackInv, Good, Typed
  <2>2. i \in Buf
    BY <2>1 DEF IpOK, ArpOK, Arena
  <2>3. Referred(n, i)
    BY <2>1, <2>2, ReferredAll
  <2> QED
    BY <2>3 DEF Referred, Holders, ByArp, ByList, ByBuffer
<1> QED
  BY <1>1, StackSafe, PTL

\* ip_reass_pbufcount is the number of buffers that wait for the rest of
\* their datagram, through overlapping, repeated and late fragments, through
\* the timer and through the removal of older datagrams for newer ones, and
\* neither it nor the list of datagrams goes over its limit.
THEOREM ReassemblyCounted == Spec => []ReassemblyBounded
<1>1. StackInv => ReassemblyBounded
  <2> SUFFICES ASSUME StackInv PROVE ReassemblyBounded
    OBVIOUS
  <2>1. IpOK(n, told, {})
    BY DEF StackInv, Good, Typed
  <2>2. /\ n.count = Cardinality(Hold(n.pb, Heads(n.reass))) /\ n.count <= IP_REASS_MAX_PBUFS
        /\ Len(n.reass) <= MEMP_NUM_REASSDATA
    BY <2>1 DEF IpOK, CountOK
  <2>3. ReassOK(n.reass) /\ DOMAIN n.reass = 1..Len(n.reass)
    BY <2>1 DEF IpOK, ReassOK, IsSeq
  <2> DEFINE P == UNION {ToSet(n.reass[k].p) : k \in DOMAIN n.reass}
  <2>4. P = Heads(n.reass)
    <3>1. \A k \in 1..Len(n.reass) : n.reass[k].p \in Seq(Buf)
      BY <2>3 DEF ReassOK, SoundRec
    <3>2. \A k \in 1..Len(n.reass) : \A e :
              e \in ToSet(n.reass[k].p) <=> \E j \in 1..Len(n.reass[k].p) : n.reass[k].p[j] = e
      BY <3>1, Elements
    <3>3. \A k \in 1..Len(n.reass) : ToSet(n.reass[k].p) \subseteq Buf
      BY <3>1, Elements
    <3>4. \A e : e \in P <=> \E k \in 1..Len(n.reass) : e \in ToSet(n.reass[k].p)
      BY <2>3
    <3>5. \A e : e \in P <=> e \in Heads(n.reass)
      <4> HIDE DEF P
      <4> QED
        BY <3>2, <3>3, <3>4 DEF Heads, InList
    <3> HIDE DEF P
    <3> QED
      BY <3>5
  <2>5. \A h \in Heads(n.reass) : Members(n.pb, h) \subseteq Buf
    <3>1. Arena(n.pb) /\ Own(n.pb, Loose(n), Holding(n, {}))
      BY <2>1 DEF IpOK, ArpOK, HeldOK
    <3>2. Heads(n.reass) \subseteq Holding(n, {}) /\ Loose(n) \subseteq Buf
      BY DEF Holding, Loose
    <3>3. \A h \in Holding(n, {}) : Members(n.pb, h) \subseteq Loose(n)
      BY <3>1, HeadFacts
    <3> QED
      BY <3>2, <3>3
  <2>6. Waiting = Hold(n.pb, Heads(n.reass))
    <3>1. Waiting = UNION {Members(n.pb, h) : h \in P}
      BY DEF Waiting, Members
    <3> HIDE DEF P
    <3> QED
      BY <2>4, <2>5, <3>1 DEF Hold
  <2> QED
    BY <2>2, <2>6 DEF ReassemblyBounded
<1> QED
  BY <1>1, StackSafe, PTL

\* No IP frame goes to a hardware address its next hop has not given, or to
\* one it has given up for another, and none but a broadcast goes to all
\* (RightNeighbour): neither the cached index of etharp_output nor a packet
\* that waited in an entry outlives the entry.
THEOREM NeighbourRight == Spec => []RightNeighbour
<1>1. StackInv => RightNeighbour
  <2> SUFFICES ASSUME StackInv, NEW f \in n.wire
                     PROVE  /\ f.to = IF f.hop = Broadcast THEN Broadcast ELSE told[f.hop]
                            /\ f.to # Zero
    BY DEF RightNeighbour
  <2>1. \/ f.to = Broadcast /\ f.hop = Broadcast
        \/ f.hop \in Unicast /\ f.to = told[f.hop] /\ f.to # Zero
    BY DEF StackInv, Good, Typed, IpOK, ArpOK, SoundWire
  <2>2. Broadcast # Zero /\ Broadcast \notin Unicast
    BY EtharpAssumption DEF Broadcast, Zero, Unicast
  <2> QED
    BY <2>1, <2>2
<1> QED
  BY <1>1, StackSafe, PTL

\* No handler of the list of timeouts is lost or doubled (TimersArmed): the
\* flag of the TCP timer says whether it is in the list, however connections
\* come and go between two runs of sys_check_timeouts.
THEOREM TimersSound == Spec => []TimersArmed
<1>1. StackInv => TimersArmed
  <2> SUFFICES ASSUME StackInv, ~n.hung PROVE TimersArmed
    BY DEF TimersArmed
  <2>1. Armed(n) /\ n.ts \in Seq(Slot) /\ n.tcp \in BOOLEAN
    BY DEF StackInv, Good, Typed
  <2>2. DOMAIN n.ts = 1..Len(n.ts)
    BY <2>1, SlotFacts
  <2>3. IsInjective([i \in DOMAIN n.ts |-> n.ts[i].h])
    BY <2>1, <2>2 DEF IsInjective, Armed, Once
  <2>4. {"arp", "reass"} \subseteq {n.ts[i].h : i \in DOMAIN n.ts}
    BY <2>1, <2>2 DEF Armed, Has
  <2>5. n.tcp <=> \E i \in DOMAIN n.ts : n.ts[i].h = "tcp"
    BY <2>1, <2>2 DEF Armed, Has
  <2>6. n.tcp = (\E i \in DOMAIN n.ts : n.ts[i].h = "tcp")
    BY <2>1, <2>5
  <2>7. n.pcbs => n.tcp
    BY <2>1 DEF Armed
  <2> QED
    BY <2>3, <2>4, <2>6, <2>7 DEF TimersArmed
<1> QED
  BY <1>1, StackSafe, PTL

\* Only the clock brings a timeout nearer (NoTimeoutHurried), whatever runs
\* late: the handlers sys_check_timeouts runs in one call take what is left of
\* its time from nobody else's timeout.
THEOREM TimeoutsNotHurried == Spec => NoTimeoutHurried
<1>1. StackInv /\ [Next]_vars =>
         [\/ n'.hung \/ (n'.ts = n.ts /\ n'.since = n.since + 1)
          \/ \A h \in {n.ts[i].h : i \in DOMAIN n.ts} \cap {n'.ts[i].h : i \in DOMAIN n'.ts} :
                Left(n', h) >= Left(n, h)]_vars
  BY StackNext DEF Unhurried
<1> QED
  BY <1>1, StackSafe, PTL DEF Spec, NoTimeoutHurried
=============================================================================
