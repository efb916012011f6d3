----------------------------- MODULE HeapProofs -----------------------------
(***************************************************************************)
(* The blocks of heap_4.c tile the heap, its free list is sound and its    *)
(* free bytes are counted, for every size of heap, alignment, header and   *)
(* set of tasks.                                                           *)
(***************************************************************************)
EXTENDS Heap, FiniteSetTheorems, TLAPS

HeapType == [size : [Link -> Nat], nxt : [Link -> Link \cup {NULL}],
             free : SUBSET Byte, remaining : Int, least : Int]

\* A heap whose blocks outside the free list are out.
Sound(h, out) ==
    /\ h \in HeapType /\ h.size[xStart] = 0
    /\ out \subseteq Byte /\ h.free \cap out = {}
    /\ Tiled(h, out)
    /\ Linked(h)

\* The addresses prvHeapInit computes are in order.
LEMMA Addresses ==
    /\ pucAlignedHeap \in Int /\ pxEnd \in Int
    /\ NULL < pucAlignedHeap /\ pucAlignedHeap < pxEnd /\ xStart < NULL
    /\ Byte \subseteq Int /\ \A a \in Byte : pucAlignedHeap <= a /\ a < pxEnd
    /\ pucAlignedHeap \in Byte /\ NULL \in Int /\ xStart \in Int
    /\ NULL \notin Byte /\ xStart \notin Byte /\ pxEnd \notin Byte
    /\ \A a \in Byte : xStart < a
<1>1. pucAlignedHeap \in Int /\ pxEnd \in Int
  BY HeapAssumption DEF pucAlignedHeap, pxEnd, Up, Down
<1>2. NULL < pucAlignedHeap /\ pucAlignedHeap < pxEnd
  BY HeapAssumption
<1> QED
  BY <1>1, <1>2 DEF NULL, xStart, Byte

\* prvHeapInit leaves one free block.
LEMMA InitSound == Sound(prvHeapInit, {})
<1> DEFINE h == prvHeapInit
<1>1. /\ h.free = {pucAlignedHeap}
      /\ h.size = [a \in Link |-> IF a = pucAlignedHeap THEN pxEnd - pucAlignedHeap ELSE 0]
      /\ h.nxt = [a \in Link |-> IF a = xStart THEN pucAlignedHeap
                                 ELSE IF a = pucAlignedHeap THEN pxEnd ELSE NULL]
  BY DEF prvHeapInit
<1>2. h \in HeapType
  BY Addresses DEF prvHeapInit, HeapType, Link
<1>3. /\ h.size[xStart] = 0 /\ h.size[pucAlignedHeap] = pxEnd - pucAlignedHeap
      /\ h.nxt[xStart] = pucAlignedHeap /\ h.nxt[pucAlignedHeap] = pxEnd
      /\ \A a \in Byte : a # pucAlignedHeap => h.nxt[a] = NULL
  BY <1>1, Addresses DEF Link
<1> HIDE DEF h
<1>4. Tiled(h, {})
  BY <1>1, <1>3, Addresses DEF Tiled
<1>5. Linked(h)
  BY <1>1, <1>3, Addresses DEF Linked
<1> QED
  BY <1>1, <1>2, <1>3, <1>4, <1>5, Addresses DEF Sound, h

\* The walk of prvInsertBlockIntoFreeList ends at a list element around b.
LEMMA Iterator ==
    ASSUME NEW h, NEW out, Sound(h, out), NEW b \in out
    PROVE  LET it == pxIterator(h, b)
           IN  it \in h.free \cup {xStart} /\ it < b /\ b < h.nxt[it]
<1>1. \E p \in h.free \cup {xStart} : p < b /\ b <= h.nxt[p]
  BY DEF Sound, Linked
<1>2. pxIterator(h, b) \in h.free \cup {xStart} /\ pxIterator(h, b) < b
         /\ b <= h.nxt[pxIterator(h, b)]
  BY <1>1 DEF pxIterator
<1>3. h.nxt[pxIterator(h, b)] # b
  BY <1>2, Addresses DEF Sound, Linked
<1>4. h.nxt[pxIterator(h, b)] \in Int /\ b \in Int
  BY <1>2, Addresses DEF Sound, Linked, HeapType
<1> QED
  BY <1>2, <1>3, <1>4

\* prvInsertBlockIntoFreeList puts b into the list and keeps the heap sound.
LEMMA InsertSound ==
    ASSUME NEW h, NEW out, Sound(h, out), NEW b \in out
    PROVE  Sound(prvInsertBlockIntoFreeList(h, b), out \ {b})
<1> DEFINE it == pxIterator(h, b)
           next == h.nxt[it]
           joinsPrevious == it + h.size[it] = b
           joinsNext == b + h.size[b] = next /\ next # pxEnd
           head == IF joinsPrevious THEN it ELSE b
           gone == (IF joinsPrevious THEN {b} ELSE {}) \cup (IF joinsNext THEN {next} ELSE {})
           total == h.size[b] + (IF joinsPrevious THEN h.size[it] ELSE 0)
                              + (IF joinsNext THEN h.size[next] ELSE 0)
           size == [a \in Link |-> IF a = head THEN total
                                   ELSE IF a \in gone THEN 0 ELSE h.size[a]]
           nxt == [a \in Link |-> IF a = head THEN (IF joinsNext THEN h.nxt[next] ELSE next)
                                  ELSE IF a = it THEN head
                                  ELSE IF a \in gone THEN NULL ELSE h.nxt[a]]
           free == (h.free \cup {head}) \ gone
           g == prvInsertBlockIntoFreeList(h, b)
           rest == out \ {b}
<1>g. g = [h EXCEPT !.size = size, !.nxt = nxt, !.free = free]
  BY DEF prvInsertBlockIntoFreeList
<1>f. g.size = size /\ g.nxt = nxt /\ g.free = free /\ h.free \subseteq Byte /\ out \subseteq Byte
      /\ h.size \in [Link -> Nat] /\ h.nxt \in [Link -> Link \cup {NULL}]
  BY <1>g DEF Sound, HeapType
<1>i. it \in h.free \cup {xStart} /\ it < b /\ b < next
  BY Iterator
<1>n. next \in h.free \cup {pxEnd} /\ b \notin h.free /\ h.size[xStart] = 0
  BY <1>i DEF Sound, Linked
<1>d. it \in Link /\ next \in Link /\ b \in Link /\ it \in Int /\ next \in Int /\ b \in Int
      /\ h.size[it] \in Nat /\ h.size[next] \in Nat /\ h.size[b] \in Nat
  BY <1>i, <1>n, <1>f, Addresses DEF Link
<1>p. joinsPrevious => it \in h.free
  BY <1>i, <1>n, Addresses DEF xStart
<1>q. joinsNext => next \in h.free /\ h.nxt[next] \in Link /\ next < h.nxt[next]
  BY <1>n, <1>f, Addresses DEF Sound, Linked, Link
<1>t. g \in HeapType
  <2>1. size \in [Link -> Nat]
    BY <1>d, <1>f
  <2>2. nxt \in [Link -> Link \cup {NULL}]
    BY <1>d, <1>f, <1>q
  <2>3. free \subseteq Byte
    BY <1>f, <1>p
  <2> QED
    BY <1>g, <2>1, <2>2, <2>3 DEF Sound, HeapType
<1>s. g.size[xStart] = 0 /\ rest \subseteq Byte /\ g.free \cap rest = {}
  BY <1>f, <1>d, <1>p, <1>q, <1>n, Addresses DEF Sound, Link
<1>a. \A a \in Link : /\ size[a] = IF a = head THEN total
                                   ELSE IF a \in gone THEN 0 ELSE h.size[a]
                      /\ nxt[a] = IF a = head THEN (IF joinsNext THEN h.nxt[next] ELSE next)
                                  ELSE IF a = it THEN head
                                  ELSE IF a \in gone THEN NULL ELSE h.nxt[a]
  OBVIOUS
<1> HIDE DEF g, size, nxt
<1> DEFINE B == h.free \cup out
           End(a) == a + h.size[a]
           NewEnd(a) == a + g.size[a]
<1>b. /\ pucAlignedHeap \in B /\ b \in B /\ B \subseteq Link /\ B \subseteq Byte /\ B \subseteq Int
      /\ \A a \in B : a < End(a) /\ (End(a) = pxEnd \/ End(a) \in B) /\ End(a) \in Int
      /\ \A a, c \in B : a < c => End(a) <= c
  BY <1>f, Addresses DEF Sound, Tiled, Link
<1>e. \A a, c \in B : End(a) = End(c) => a = c
  <2> HIDE DEF B, End
  <2> QED BY <1>b
<1>h. head \in B /\ head \notin gone /\ gone \subseteq B /\ g.free \cup rest = B \ gone
  BY <1>f, <1>i, <1>n, <1>d, <1>p, <1>q DEF Sound
<1>j. /\ NewEnd(head) = IF joinsNext THEN End(next) ELSE End(b)
      /\ \A a \in B \ gone : a # head => NewEnd(a) = End(a)
  BY <1>f, <1>a, <1>d, <1>h, <1>b
<1>T. Tiled(g, rest)
  <2>1. pucAlignedHeap \in B \ gone
    BY <1>b, <1>i, <1>p, <1>q, <1>n, <1>d, Addresses
  <2>2. ASSUME NEW a \in B \ gone
        PROVE  a < NewEnd(a) /\ (NewEnd(a) = pxEnd \/ NewEnd(a) \in B \ gone)
    <3>1. CASE a # head
      BY <3>1, <1>j, <1>b, <1>e, <1>p, <1>q, <1>d
    <3>2. CASE a = head
      BY <3>2, <1>j, <1>b, <1>e, <1>p, <1>q, <1>d, <1>i
    <3> QED BY <3>1, <3>2
  <2>3. ASSUME NEW a \in B \ gone, NEW c \in B \ gone, a < c
        PROVE  NewEnd(a) <= c
    <3>1. CASE a # head
      BY <3>1, <2>3, <1>j, <1>b
    <3>2. CASE a = head
      BY <3>2, <2>3, <1>j, <1>b, <1>p, <1>q, <1>d, <1>i
    <3> QED BY <3>1, <3>2
  <2> QED
    BY <2>1, <2>2, <2>3, <1>h DEF Tiled
<1>l. /\ \A p \in h.free \cup {xStart} :
            p \in Link /\ p \in Int /\ p < h.nxt[p] /\ h.nxt[p] \in h.free \cup {pxEnd} /\ h.nxt[p] \in Int
      /\ \A p \in h.free \cup {xStart}, f \in h.free : f <= p \/ h.nxt[p] <= f
      /\ \A x \in Byte : \E p \in h.free \cup {xStart} : p < x /\ x <= h.nxt[p]
      /\ \A a \in h.free : End(a) \notin h.free
      /\ \A a \in Byte \ h.free : h.nxt[a] = NULL
  BY <1>f, Addresses DEF Sound, Linked, Link
\* How the list changes: head takes the place of what it was merged with.
<1>m. /\ g.free \cup {xStart} = ((h.free \cup {xStart}) \cup {head}) \ gone
      /\ g.nxt[head] = IF joinsNext THEN h.nxt[next] ELSE next
      /\ it # head => g.nxt[it] = head
      /\ \A p \in ((h.free \cup {xStart}) \ gone) \ {head, it} : g.nxt[p] = h.nxt[p]
  BY <1>f, <1>a, <1>d, <1>l, <1>p, <1>q, <1>n, Addresses
<1>k. /\ head \in g.free /\ it \in g.free \cup {xStart} /\ it <= head /\ head <= b /\ head \in Int
      /\ \A f \in g.free : f \in Int /\ (f = head \/ f \in h.free \ gone)
      /\ next # pxEnd /\ ~joinsNext => next \in g.free
  <2>1. it # b /\ it # next /\ next # b /\ head \in h.free \cup {b}
    BY <1>i, <1>d, <1>p
  <2>2. head \in g.free /\ it \in g.free \cup {xStart}
    BY <2>1, <1>f, <1>i, <1>h
  <2>3. it <= head /\ head <= b /\ head \in Int
    BY <1>i, <1>d
  <2>4. \A f \in g.free : f \in Int /\ (f = head \/ f \in h.free \ gone)
    BY <2>3, <1>f, <1>l
  <2>5. next # pxEnd /\ ~joinsNext => next \in g.free
    BY <2>1, <1>f, <1>n
  <2> QED BY <2>2, <2>3, <2>4, <2>5
<1>u. \A p \in h.free \cup {xStart} : p # it => h.nxt[p] <= it \/ next <= p
  <2> SUFFICES ASSUME NEW p \in h.free \cup {xStart}, p # it
               PROVE  h.nxt[p] <= it \/ next <= p
    OBVIOUS
  <2>1. \A f \in h.free : xStart < f /\ f \in Int
    BY <1>f, Addresses
  <2>2. p \in Int /\ it \in Int /\ h.nxt[p] \in Int /\ next \in Int
    BY <1>l, <1>d
  <2>3. CASE p < it
    <3>1. it \in h.free
      BY <2>1, <2>2, <2>3, <1>i
    <3> QED BY <3>1, <2>2, <2>3, <1>l
  <2>4. CASE it < p
    <3>1. p \in h.free
      BY <2>1, <2>2, <2>4, <1>i
    <3> QED BY <3>1, <2>2, <2>4, <1>l, <1>i
  <2> QED BY <2>2, <2>3, <2>4
<1>L. Linked(g)
  <2>1. ASSUME NEW p \in g.free \cup {xStart}
        PROVE  p < g.nxt[p] /\ g.nxt[p] \in g.free \cup {pxEnd}
    <3>1. CASE p = head
      BY <3>1, <1>m, <1>k, <1>l, <1>q, <1>n, <1>i, <1>d
    <3>2. CASE p = it /\ it # head
      BY <3>2, <1>m, <1>k, <1>d
    <3>3. CASE p # it /\ p # head
      <4>1. p \in h.free \cup {xStart} /\ g.nxt[p] = h.nxt[p]
        BY <3>3, <1>m, <1>k
      <4>2. h.nxt[p] # b /\ (joinsNext => h.nxt[p] # next)
        BY <3>3, <4>1, <1>u, <1>l, <1>n, <1>d, <1>i, Addresses
      <4>3. h.nxt[p] \in g.free \cup {pxEnd}
        BY <4>1, <4>2, <1>l, <1>f
      <4> QED BY <4>1, <4>3, <1>l
    <3> QED BY <3>1, <3>2, <3>3
  <2>2. ASSUME NEW p \in g.free \cup {xStart}, NEW f \in g.free
        PROVE  f <= p \/ g.nxt[p] <= f
    <3>1. CASE p = head
      BY <3>1, <1>m, <1>k, <1>l, <1>q, <1>n, <1>i, <1>d, <1>p
    <3>2. CASE p = it /\ it # head
      BY <3>2, <1>m, <1>k, <1>l, <1>d, <1>i, <1>n
    <3>3. CASE p # it /\ p # head
      <4>1. p \in h.free \cup {xStart} /\ g.nxt[p] = h.nxt[p]
        BY <3>3, <1>m, <1>k
      <4>2. CASE f = head
        BY <3>3, <4>1, <4>2, <1>u, <1>l, <1>d, <1>i, <1>k
      <4>3. CASE f # head
        BY <4>1, <4>3, <1>l, <1>k
      <4> QED BY <4>2, <4>3
    <3> QED BY <3>1, <3>2, <3>3
  <2>3. ASSUME NEW x \in Byte
        PROVE  \E p \in g.free \cup {xStart} : p < x /\ x <= g.nxt[p]
    <3>1. PICK p \in h.free \cup {xStart} : p < x /\ x <= h.nxt[p]
      BY <1>l
    <3>2. x \in Int
      BY Addresses
    <3>3. CASE p = it
      <4>1. CASE x <= head
        BY <3>1, <3>2, <3>3, <4>1, <1>m, <1>k, <1>d
      <4>2. CASE ~(x <= head)
        <5>1. next <= g.nxt[head] /\ g.nxt[head] \in Int
          BY <1>m, <1>d, <1>q, <1>l
        <5> QED BY <5>1, <3>1, <3>2, <3>3, <4>2, <1>k, <1>d
      <4> QED BY <4>1, <4>2
    <3>4. CASE joinsNext /\ p = next
      BY <3>1, <3>2, <3>4, <1>m, <1>k, <1>d, <1>q, <1>i
    <3>5. CASE p # it /\ ~(joinsNext /\ p = next)
      <4>1. p # b /\ p # head
        BY <3>5, <1>n, <1>f, Addresses
      <4>2. p \in g.free \cup {xStart} /\ g.nxt[p] = h.nxt[p]
        BY <3>5, <4>1, <1>m
      <4> QED BY <3>1, <4>2
    <3> QED BY <3>3, <3>4, <3>5
  <2>4. ASSUME NEW a \in g.free
        PROVE  NewEnd(a) \notin g.free
    <3>1. CASE a = head /\ joinsNext
      <4>1. NewEnd(a) = End(next) /\ End(next) \notin h.free /\ head < End(next)
        BY <3>1, <1>j, <1>q, <1>l, <1>k, <1>i, <1>d, <1>b
      <4> QED BY <4>1, <1>k, <1>d
    <3>2. CASE a = head /\ ~joinsNext
      <4>1. NewEnd(a) = End(b) /\ b < End(b) /\ End(b) \in Int
        BY <3>2, <1>j, <1>b
      <4>2. End(b) \notin h.free
        <5>1. SUFFICES ASSUME End(b) \in h.free PROVE FALSE
          OBVIOUS
        <5>2. next <= End(b)
          BY <5>1, <4>1, <1>l, <1>i, <1>d
        <5>3. next # pxEnd /\ next \in B
          BY <5>1, <5>2, <1>n, <1>d, <1>b, Addresses
        <5>4. End(b) <= next
          BY <5>3, <1>b, <1>i
        <5> QED BY <5>2, <5>3, <5>4, <3>2, <4>1, <1>d
      <4> QED BY <4>1, <4>2, <1>k, <1>d
    <3>3. CASE a # head
      <4>1. a \in h.free /\ a \in B \ gone /\ NewEnd(a) = End(a) /\ End(a) \notin h.free
        BY <3>3, <1>j, <1>k, <1>l
      <4>2. SUFFICES ASSUME End(a) = head PROVE FALSE
        BY <4>1, <1>k
      <4>3. head = b /\ ~joinsPrevious /\ a < b /\ a \in Int
        BY <4>1, <4>2, <1>p, <1>b
      <4>4. a < it
        BY <4>1, <4>2, <4>3, <1>l, <1>i, <1>d
      <4>5. it \in B
        <5>1. xStart < a /\ xStart \in Int
          BY <4>1, <1>f, Addresses
        <5>2. it # xStart
          BY <5>1, <4>3, <4>4, <1>d
        <5> QED BY <5>2, <1>i
      <4> QED BY <4>1, <4>2, <4>3, <4>4, <4>5, <1>b, <1>i, <1>d
    <3> QED BY <3>1, <3>2, <3>3
  <2>5. ASSUME NEW a \in Byte \ g.free
        PROVE  g.nxt[a] = NULL
    BY <1>f, <1>a, <1>l, <1>k, <1>n, Addresses DEF Link
  <2> QED
    BY <2>1, <2>2, <2>3, <2>4, <2>5 DEF Linked
<1> QED
  BY <1>t, <1>s, <1>T, <1>L DEF Sound, g

\* A block that is unlinked from the list is one of the blocks outside it.
LEMMA UnlinkSound ==
    ASSUME NEW h, NEW out, Sound(h, out), NEW b \in h.free,
           NEW q \in h.free \cup {xStart}, h.nxt[q] = b
    PROVE  Sound([h EXCEPT !.nxt = [a \in Link |-> IF a = q THEN h.nxt[b]
                                                    ELSE IF a = b THEN NULL ELSE h.nxt[a]],
                           !.free = h.free \ {b}], out \cup {b})
<1> DEFINE nxt == [a \in Link |-> IF a = q THEN h.nxt[b]
                                   ELSE IF a = b THEN NULL ELSE h.nxt[a]]
           g == [h EXCEPT !.nxt = nxt, !.free = h.free \ {b}]
<1>1. /\ g.size = h.size /\ g.nxt = nxt /\ g.free = h.free \ {b}
      /\ h.free \subseteq Byte /\ out \subseteq Byte /\ h.free \cap out = {}
      /\ h.size \in [Link -> Nat] /\ h.nxt \in [Link -> Link \cup {NULL}] /\ h.size[xStart] = 0
  BY DEF Sound, HeapType
<1>2. /\ \A p \in h.free \cup {xStart} :
            p \in Link /\ p \in Int /\ p < h.nxt[p] /\ h.nxt[p] \in h.free \cup {pxEnd} /\ h.nxt[p] \in Int
      /\ \A p \in h.free \cup {xStart}, f \in h.free : f <= p \/ h.nxt[p] <= f
      /\ \A x \in Byte : \E p \in h.free \cup {xStart} : p < x /\ x <= h.nxt[p]
      /\ \A a \in h.free : a + h.size[a] \notin h.free
      /\ \A a \in Byte \ h.free : h.nxt[a] = NULL
  BY <1>1, Addresses DEF Sound, Linked, Link
<1>3. g \in HeapType
  <2>1. nxt \in [Link -> Link \cup {NULL}]
    BY <1>1, <1>2
  <2> QED BY <2>1, <1>1 DEF Sound, HeapType
<1>4. /\ nxt[q] = h.nxt[b] /\ q # b /\ q < b /\ nxt[b] = NULL
      /\ \A a \in Link \ {q, b} : nxt[a] = h.nxt[a]
  BY <1>2, <1>1, Addresses DEF Link
<1> HIDE DEF nxt, g
<1>5. Tiled(g, out \cup {b})
  <2>1. g.free \cup (out \cup {b}) = h.free \cup out
    BY <1>1
  <2> QED BY <2>1, <1>1 DEF Sound, Tiled
<1>6. ASSUME NEW p \in h.free \cup {xStart}, p # q
      PROVE  h.nxt[p] # b
  <2>1. \A f \in h.free : xStart < f /\ f \in Int
    BY <1>1, Addresses
  <2>2. p \in Int /\ q \in Int /\ b \in Int
    BY <1>2
  <2>3. CASE p < q
    <3>1. q \in h.free
      BY <2>1, <2>2, <2>3, <1>6
    <3> QED BY <3>1, <2>2, <2>3, <1>2, <1>4
  <2>4. CASE q < p
    <3>1. p \in h.free
      BY <2>1, <2>2, <2>4, <1>6
    <3> QED BY <3>1, <2>2, <2>4, <1>2
  <2> QED BY <2>2, <2>3, <2>4, <1>6
<1>7. Linked(g)
  <2>0. g.free \cup {xStart} = (h.free \cup {xStart}) \ {b}
    BY <1>1, Addresses
  <2>1. ASSUME NEW p \in g.free \cup {xStart}
        PROVE  p < g.nxt[p] /\ g.nxt[p] \in g.free \cup {pxEnd}
    <3>1. CASE p = q
      BY <3>1, <1>1, <1>2, <1>4
    <3>2. CASE p # q
      BY <3>2, <2>0, <1>1, <1>2, <1>4, <1>6
    <3> QED BY <3>1, <3>2
  <2>2. ASSUME NEW p \in g.free \cup {xStart}, NEW f \in g.free
        PROVE  f <= p \/ g.nxt[p] <= f
    <3>1. CASE p = q
      BY <3>1, <1>1, <1>2, <1>4
    <3>2. CASE p # q
      BY <3>2, <2>0, <1>1, <1>2, <1>4
    <3> QED BY <3>1, <3>2
  <2>3. ASSUME NEW x \in Byte
        PROVE  \E p \in g.free \cup {xStart} : p < x /\ x <= g.nxt[p]
    <3>1. PICK p \in h.free \cup {xStart} : p < x /\ x <= h.nxt[p]
      BY <1>2
    <3>2. x \in Int /\ q \in g.free \cup {xStart} /\ g.nxt[q] = h.nxt[b]
      BY <1>1, <1>4, <2>0, Addresses
    <3>3. CASE p = q \/ p = b
      BY <3>1, <3>2, <3>3, <1>2, <1>4
    <3>4. CASE p # q /\ p # b
      BY <3>1, <3>4, <2>0, <1>1, <1>2, <1>4
    <3> QED BY <3>3, <3>4
  <2>4. \A a \in g.free : a + g.size[a] \notin g.free
    BY <1>1, <1>2
  <2>5. ASSUME NEW a \in Byte \ g.free
        PROVE  g.nxt[a] = NULL
    BY <1>1, <1>2, <1>4, Addresses DEF Link
  <2> QED
    BY <2>1, <2>2, <2>3, <2>4, <2>5 DEF Linked
<1>8. g.size[xStart] = 0 /\ out \cup {b} \subseteq Byte /\ g.free \cap (out \cup {b}) = {}
  BY <1>1
<1> QED
  BY <1>3, <1>5, <1>7, <1>8 DEF Sound, g, nxt

\* A block outside the list is cut in two blocks outside the list.
LEMMA SplitSound ==
    ASSUME NEW h, NEW out, Sound(h, out), NEW b \in out,
           NEW wanted \in Nat, 0 < wanted, wanted < h.size[b]
    PROVE  Sound([h EXCEPT !.size = [a \in Link |-> IF a = b THEN wanted
                                     ELSE IF a = b + wanted THEN h.size[b] - wanted ELSE h.size[a]]],
                 out \cup {b + wanted})
<1> DEFINE c == b + wanted
           size == [a \in Link |-> IF a = b THEN wanted
                                    ELSE IF a = c THEN h.size[b] - wanted ELSE h.size[a]]
           g == [h EXCEPT !.size = size]
           B == h.free \cup out
           End(a) == a + h.size[a]
<1>1. /\ g.size = size /\ g.nxt = h.nxt /\ g.free = h.free
      /\ h.free \subseteq Byte /\ out \subseteq Byte /\ h.free \cap out = {}
      /\ h.size \in [Link -> Nat] /\ h.size[xStart] = 0
  BY DEF Sound, HeapType
<1>2. /\ pucAlignedHeap \in B /\ b \in B /\ B \subseteq Link /\ B \subseteq Byte /\ B \subseteq Int
      /\ \A a \in B : a < End(a) /\ (End(a) = pxEnd \/ End(a) \in B) /\ End(a) \in Int
      /\ \A a, d \in B : a < d => End(a) <= d
  BY <1>1, Addresses DEF Sound, Tiled, Link
<1>3. /\ b \in Int /\ c \in Int /\ h.size[b] \in Nat /\ b < c /\ c < End(b)
      /\ b \in Byte /\ End(b) <= pxEnd
  BY <1>1, <1>2, Addresses
<1>4. c \in Byte /\ c \in Link
  BY <1>3, Addresses DEF Byte, Link
<1>5. c \notin B
  BY <1>2, <1>3
<1>6. /\ size[b] = wanted /\ size[c] = h.size[b] - wanted
      /\ \A a \in B \ {b} : size[a] = h.size[a]
      /\ size[xStart] = 0 /\ size \in [Link -> Nat]
  BY <1>1, <1>2, <1>3, <1>4, <1>5, Addresses DEF Link
<1>7. \A a \in h.free : size[a] = h.size[a]
  BY <1>1, <1>6
<1>8. g \in HeapType
  BY <1>6 DEF Sound, HeapType
<1> HIDE DEF size, g
<1>9. Tiled(g, out \cup {c})
  <2>1. g.free \cup (out \cup {c}) = B \cup {c}
    BY <1>1
  <2>2. /\ b + size[b] = c /\ c + size[c] = End(b)
    BY <1>3, <1>6
  <2>3. ASSUME NEW a \in B \cup {c}
        PROVE  a < a + size[a] /\ (a + size[a] = pxEnd \/ a + size[a] \in B \cup {c})
    BY <1>2, <1>3, <1>6, <2>2
  <2>4. ASSUME NEW a \in B \cup {c}, NEW d \in B \cup {c}, a < d
        PROVE  a + size[a] <= d
    <3>1. CASE a = b
      BY <3>1, <2>2, <2>4, <1>2, <1>3
    <3>2. CASE a = c
      BY <3>2, <2>2, <2>4, <1>2, <1>3
    <3>3. CASE a # b /\ a # c
      BY <3>3, <2>4, <1>2, <1>3, <1>6
    <3> QED BY <3>1, <3>2, <3>3
  <2> QED
    BY <2>1, <2>3, <2>4, <1>1, <1>2 DEF Tiled
<1>10. Linked(g)
  BY <1>1, <1>7 DEF Sound, Linked
<1>11. g.size[xStart] = 0 /\ out \cup {c} \subseteq Byte /\ g.free \cap (out \cup {c}) = {}
  BY <1>1, <1>4, <1>5, <1>6
<1> QED
  BY <1>8, <1>9, <1>10, <1>11 DEF Sound, g, size

\* prvInsertBlockIntoFreeList leaves the blocks outside the list alone.
LEMMA InsertKeeps ==
    ASSUME NEW h, NEW out, Sound(h, out), NEW b \in out, NEW a \in out, a # b
    PROVE  prvInsertBlockIntoFreeList(h, b).size[a] = h.size[a]
<1> DEFINE it == pxIterator(h, b)
<1>1. it \in h.free \cup {xStart} /\ h.nxt[it] \in h.free \cup {pxEnd}
  BY Iterator DEF Sound, Linked
<1>2. a \in Byte /\ a \in Link /\ a \notin h.free /\ h \in HeapType
  BY DEF Sound, Link
<1>3. a # it /\ a # h.nxt[it]
  BY <1>1, <1>2, Addresses
<1> QED
  BY <1>2, <1>3 DEF prvInsertBlockIntoFreeList, HeapType

\* A free block is the successor of another one, or of xStart.
LEMMA Predecessor ==
    ASSUME NEW h, NEW out, Sound(h, out), NEW b \in h.free
    PROVE  \E p \in h.free \cup {xStart} : h.nxt[p] = b
<1>1. b \in Byte /\ \A p \in h.free \cup {xStart} : p \in Int /\ h.nxt[p] \in Int
  BY Addresses DEF Sound, Linked, HeapType
<1>2. PICK p \in h.free \cup {xStart} : p < b /\ b <= h.nxt[p]
  BY <1>1 DEF Sound, Linked
<1>3. h.nxt[p] <= b
  BY <1>1, <1>2, Addresses DEF Sound, Linked
<1> QED BY <1>1, <1>2, <1>3, Addresses

\* pvPortMalloc's work on a block that is large enough: what it takes holds
\* the request, and the blocks that are out already keep their sizes.
LEMMA TakeSound ==
    ASSUME NEW h, NEW out, Sound(h, out), NEW b \in h.free,
           NEW wanted \in Nat, 0 < wanted, wanted <= h.size[b]
    PROVE  /\ Sound(Take(h, b, wanted), out \cup {b})
           /\ Take(h, b, wanted).size[b] >= wanted
           /\ \A a \in out : Take(h, b, wanted).size[a] = h.size[a]
<1> DEFINE q == CHOOSE p \in h.free \cup {xStart} : h.nxt[p] = b
           rest == h.size[b] - wanted
           cut == [h EXCEPT !.nxt = [a \in Link |-> IF a = q THEN h.nxt[b]
                                                     ELSE IF a = b THEN NULL ELSE h.nxt[a]],
                            !.free = h.free \ {b}]
           two == [cut EXCEPT !.size = [a \in Link |-> IF a = b THEN wanted
                                        ELSE IF a = b + wanted THEN rest ELSE h.size[a]]]
<1>1. \E p \in h.free \cup {xStart} : h.nxt[p] = b
  BY Predecessor
<1>2. q \in h.free \cup {xStart} /\ h.nxt[q] = b
  BY <1>1
<1>3. Sound(cut, out \cup {b})
  BY <1>2, UnlinkSound
<1>4. cut.size = h.size /\ h.size[b] \in Nat /\ b \in Byte /\ xHeapStructSize \in Nat
  BY HeapAssumption DEF Sound, HeapType, Link
<1>5. CASE rest > heapMINIMUM_BLOCK_SIZE
  <2>1. wanted < h.size[b]
    BY <1>4, <1>5 DEF heapMINIMUM_BLOCK_SIZE
  <2>2. Sound(two, (out \cup {b}) \cup {b + wanted})
    <3> HIDE DEF cut
    <3> QED BY <1>3, <1>4, <2>1, SplitSound
  <2>3. Sound(prvInsertBlockIntoFreeList(two, b + wanted),
              ((out \cup {b}) \cup {b + wanted}) \ {b + wanted})
    <3> HIDE DEF two
    <3> QED BY <2>2, InsertSound
  <2>4. b + wanted \notin out \cup {b}
    <3>1. \A a \in out : a \in Int /\ h.size[a] \in Nat /\ (a < b \/ b + h.size[b] <= a)
      BY <1>4, Addresses DEF Sound, Tiled, HeapType, Link
    <3> QED BY <3>1, <2>1, <1>4, Addresses
  <2>5. ((out \cup {b}) \cup {b + wanted}) \ {b + wanted} = out \cup {b}
    BY <2>4
  <2>6. Take(h, b, wanted) = prvInsertBlockIntoFreeList(two, b + wanted)
    BY <1>5 DEF Take
  <2>7. ASSUME NEW a \in out \cup {b}
        PROVE  Take(h, b, wanted).size[a] = two.size[a]
    <3> HIDE DEF two
    <3> QED BY <2>2, <2>4, <2>6, InsertKeeps
  <2>8. two.size[b] = wanted /\ \A a \in out : two.size[a] = h.size[a]
    BY <1>4, <2>4 DEF Sound, HeapType, Link
  <2> HIDE DEF two
  <2> QED BY <2>3, <2>5, <2>6, <2>7, <2>8
<1>6. CASE ~(rest > heapMINIMUM_BLOCK_SIZE)
  BY <1>3, <1>4, <1>6 DEF Take
<1> QED BY <1>5, <1>6

\* Soundness does not depend on the counts of free bytes.
LEMMA CountsIrrelevant ==
    ASSUME NEW h, NEW out, Sound(h, out), NEW g \in HeapType,
           g.size = h.size, g.nxt = h.nxt, g.free = h.free
    PROVE  Sound(g, out)
BY DEF Sound, Tiled, Linked

LEMMA WantedType == \A n \in Request : xWantedSize(n) \in Nat
<1> SUFFICES ASSUME NEW n \in Request PROVE xWantedSize(n) \in Nat
  OBVIOUS
<1>1. n \in Nat /\ xHeapStructSize \in Nat /\ portBYTE_ALIGNMENT \in Nat /\ portBYTE_ALIGNMENT > 0
  BY HeapAssumption
<1>2. n % portBYTE_ALIGNMENT \in 0..(portBYTE_ALIGNMENT - 1)
  BY <1>1
<1> QED
  BY <1>1, <1>2 DEF xWantedSize

\* A size that is not refused holds the request and the header.
LEMMA WantedHolds ==
    \A n \in Request : xWantedSize(n) > 0 => xWantedSize(n) >= n + xHeapStructSize
<1> SUFFICES ASSUME NEW n \in Request, xWantedSize(n) > 0
             PROVE  xWantedSize(n) >= n + xHeapStructSize
  OBVIOUS
<1>1. n \in Nat /\ xHeapStructSize \in Nat /\ portBYTE_ALIGNMENT \in Nat /\ portBYTE_ALIGNMENT > 0
  BY HeapAssumption
<1>2. n % portBYTE_ALIGNMENT \in 0..(portBYTE_ALIGNMENT - 1)
  BY <1>1
<1> QED
  BY <1>1, <1>2 DEF xWantedSize

\* The inductive invariant: the types, and a heap that is sound from its
\* initialisation on.
HeapInv ==
    /\ TypeOK
    /\ ready => Sound(heap, Taken)
    /\ ~ready => Taken = {}

\* The heap pvPortMalloc works on.
Current == IF ready THEN heap ELSE prvHeapInit

LEMMA CurrentSound == HeapInv => Sound(Current, Taken)
BY InitSound DEF HeapInv, Current

\* pvPortMalloc keeps the invariant.
LEMMA MallocKeeps ==
    ASSUME HeapInv, NEW n \in Request, pvPortMalloc(n)
    PROVE  HeapInv'
<1> DEFINE wanted == xWantedSize(n)
<1>1. Sound(Current, Taken) /\ Current \in HeapType /\ Current.free \cap Taken = {}
  BY CurrentSound DEF Sound
<1>2. ready' = TRUE /\ freeing' = freeing
  BY DEF pvPortMalloc
<1>3. CASE Plausible(Current, wanted) /\ Fitting(Current, wanted) # {}
  <2>1. PICK b \in Fitting(Current, wanted) :
              heap' = Count(Take(Current, b, wanted), b) /\ used' = used \cup {b}
    BY <1>3 DEF pvPortMalloc, Current
  <2>2. b \in Current.free /\ wanted \in Nat /\ 0 < wanted /\ wanted <= Current.size[b]
        /\ b \in Byte /\ b \in Link
    BY <1>1, <1>3, WantedType DEF Fitting, Plausible, HeapType, Link
  <2> DEFINE g == Take(Current, b, wanted)
  <2>3. Sound(g, Taken \cup {b})
    BY <1>1, <2>2, TakeSound
  <2>4. g \in HeapType /\ g.size[b] \in Nat
    BY <2>2, <2>3 DEF Sound, HeapType
  <2>5. heap' \in HeapType /\ heap'.size = g.size /\ heap'.nxt = g.nxt /\ heap'.free = g.free
    <3> DEFINE left == g.remaining - g.size[b]
               low == IF left < g.least THEN left ELSE g.least
    <3>1. heap' = Count(g, b)
      BY <2>1
    <3> HIDE DEF g
    <3>2. left \in Int /\ low \in Int
      BY <2>4 DEF HeapType
    <3>3. heap' = [g EXCEPT !.remaining = left, !.least = low]
      BY <3>1 DEF Count
    <3> HIDE DEF left, low
    <3> QED BY <2>4, <3>2, <3>3 DEF HeapType
  <2>6. Sound(heap', Taken \cup {b})
    <3> HIDE DEF g
    <3> QED BY <2>3, <2>5, CountsIrrelevant
  <2>7. Taken' = Taken \cup {b} /\ b \notin Taken
    BY <1>1, <1>2, <2>1, <2>2 DEF Taken
  <2>8. TypeOK'
    <3>1. \A t \in Task : freeing[t] # NULL => freeing[t] # b
      BY <2>7 DEF Taken
    <3>2. used' \subseteq Byte /\ freeing' \in [Task -> Byte \cup {NULL}]
      BY <1>2, <2>1, <2>2 DEF HeapInv, TypeOK
    <3>3. (heap.free \cap Taken = {})'
      BY <2>6, <2>7 DEF Sound
    <3>4. (\A t, u \in Task :
             freeing[t] # NULL => freeing[t] \notin used /\ (t # u => freeing[t] # freeing[u]))'
      BY <1>2, <2>1, <3>1 DEF HeapInv, TypeOK
    <3> QED BY <1>2, <2>5, <3>2, <3>3, <3>4 DEF TypeOK, HeapType
  <2> QED BY <1>2, <2>6, <2>7, <2>8 DEF HeapInv
<1>4. CASE ~(Plausible(Current, wanted) /\ Fitting(Current, wanted) # {})
  <2>1. heap' = Current /\ used' = used /\ Taken' = Taken
    BY <1>2, <1>4 DEF pvPortMalloc, Current, Taken
  <2>2. TypeOK'
    BY <1>1, <1>2, <2>1 DEF HeapInv, TypeOK, HeapType
  <2> QED BY <1>1, <1>2, <2>1, <2>2 DEF HeapInv
<1> QED BY <1>3, <1>4

\* The first part of vPortFree hands the block from a task to freeing.
LEMMA FreeKeeps ==
    ASSUME HeapInv, NEW t \in Task, NEW b \in used, vPortFree(t, b)
    PROVE  HeapInv'
<1>1. /\ ready' = ready /\ heap' = heap /\ used' = used \ {b}
      /\ freeing' = [freeing EXCEPT ![t] = b] /\ freeing[t] = NULL
  BY DEF vPortFree
<1>2. /\ used \subseteq Byte /\ freeing \in [Task -> Byte \cup {NULL}] /\ b \in Byte /\ b # NULL
      /\ \A u \in Task : freeing[u] # b
      /\ freeing'[t] = b /\ \A u \in Task \ {t} : freeing'[u] = freeing[u]
  BY <1>1, Addresses DEF HeapInv, TypeOK
<1>3. Taken' = Taken
  BY <1>1, <1>2 DEF Taken
<1>4. TypeOK'
  BY <1>1, <1>2, <1>3 DEF HeapInv, TypeOK
<1> QED BY <1>1, <1>3, <1>4 DEF HeapInv

\* The second part puts it into the free list.
LEMMA FreeLockedKeeps ==
    ASSUME HeapInv, NEW t \in Task, FreeLocked(t)
    PROVE  HeapInv'
<1> DEFINE b == freeing[t]
           h == [heap EXCEPT !.remaining = @ + heap.size[b]]
<1>1. /\ ready' = ready /\ used' = used /\ b # NULL /\ b \in Taken
      /\ heap' = prvInsertBlockIntoFreeList(h, b)
      /\ freeing' = [freeing EXCEPT ![t] = NULL]
  BY DEF FreeLocked, Taken
<1>2. /\ freeing \in [Task -> Byte \cup {NULL}] /\ b \in Byte /\ b \notin used
      /\ \A u \in Task \ {t} : freeing[u] # b /\ freeing'[u] = freeing[u]
      /\ freeing'[t] = NULL
  BY <1>1 DEF HeapInv, TypeOK
<1>3. ready /\ Sound(heap, Taken)
  BY <1>1 DEF HeapInv
<1>4. h \in HeapType /\ h.size = heap.size /\ h.nxt = heap.nxt /\ h.free = heap.free
  BY <1>2, <1>3 DEF Sound, HeapType, Link
<1>5. Sound(h, Taken)
  <2> HIDE DEF h
  <2> QED BY <1>3, <1>4, CountsIrrelevant
<1>6. Sound(heap', Taken \ {b})
  <2> HIDE DEF h
  <2> QED BY <1>1, <1>5, InsertSound
<1>7. Taken' = Taken \ {b}
  BY <1>1, <1>2 DEF Taken
<1>8. TypeOK'
  <2>1. heap' \in HeapType /\ (heap.free \cap Taken = {})'
    BY <1>6, <1>7 DEF Sound
  <2> HIDE DEF b, h
  <2> QED BY <1>1, <1>2, <2>1 DEF HeapInv, TypeOK, HeapType
<1> QED BY <1>1, <1>3, <1>6, <1>7, <1>8 DEF HeapInv

\* The inductive invariant.
LEMMA HeapInductive == Spec => []HeapInv
<1>1. Init => HeapInv
  <2> SUFFICES ASSUME Init PROVE HeapInv
    OBVIOUS
  <2>1. Taken = {}
    BY DEF Init, Taken
  <2>2. heap \in HeapType
    BY DEF Init, HeapType
  <2> QED BY <2>1, <2>2 DEF Init, HeapInv, TypeOK, HeapType
<1>2. HeapInv /\ [Next]_vars => HeapInv'
  <2> SUFFICES ASSUME HeapInv, [Next]_vars PROVE HeapInv'
    OBVIOUS
  <2>1. CASE \E n \in Request : pvPortMalloc(n)
    BY <2>1, MallocKeeps
  <2>2. CASE \E t \in Task : \E b \in used : vPortFree(t, b)
    BY <2>2, FreeKeeps
  <2>3. CASE \E t \in Task : FreeLocked(t)
    BY <2>3, FreeLockedKeeps
  <2>4. CASE UNCHANGED vars
    BY <2>4 DEF vars, HeapInv, TypeOK, Taken
  <2> QED BY <2>1, <2>2, <2>3, <2>4 DEF Next
<1> QED BY <1>1, <1>2, PTL DEF Spec

\* The types, and that every block has one owner (vPortFree between its two
\* parts included).
THEOREM TypeCorrect == Spec => []TypeOK
<1>1. HeapInv => TypeOK
  BY DEF HeapInv
<1> QED BY <1>1, HeapInductive, PTL

\* The blocks tile the heap: pvPortMalloc and vPortFree lose no memory and
\* hand none out twice, for every heap, alignment and header size.
THEOREM HeapIsTiled == Spec => []BlocksTile
<1>1. HeapInv => BlocksTile
  BY DEF HeapInv, Sound, BlocksTile
<1> QED BY <1>1, HeapInductive, PTL

\* The free list is ordered, complete and fully merged.
THEOREM FreeListIsSound == Spec => []FreeListSound
<1>1. HeapInv => FreeListSound
  BY DEF HeapInv, Sound, FreeListSound
<1> QED BY <1>1, HeapInductive, PTL

\* A heap from which everything was freed is one block, as at the start.
THEOREM FreedHeapIsWhole == Spec => []AllFreed
<1>1. HeapInv => AllFreed
  <2> SUFFICES ASSUME HeapInv, ready, Taken = {}
               PROVE  heap.free = {pucAlignedHeap}
                      /\ heap.size[pucAlignedHeap] = pxEnd - pucAlignedHeap
    BY DEF AllFreed
  <2> DEFINE F == heap.free
             s == pucAlignedHeap
  <2>1. /\ s \in F /\ F \subseteq Byte /\ F \subseteq Int
        /\ \A a \in F : heap.size[a] \in Nat /\ a < a + heap.size[a]
                         /\ (a + heap.size[a] = pxEnd \/ a + heap.size[a] \in F)
        /\ \A a, b \in F : a < b => a + heap.size[a] <= b
        /\ \A a \in F : a + heap.size[a] \notin F
    BY Addresses DEF HeapInv, Sound, Tiled, Linked, HeapType, Link
  <2>2. s + heap.size[s] = pxEnd
    BY <2>1
  <2>3. \A a \in F : a = s
    BY <2>1, <2>2, Addresses
  <2> QED BY <2>1, <2>2, <2>3, Addresses
<1> QED BY <1>1, HeapInductive, PTL

\* Every block handed out is large enough for its request, although
\* xWantedSize counts modulo the width of size_t, and no call of another task
\* changes the size of a block somebody holds.
THEOREM RequestsAreHeld == Spec => BlockHoldsRequest
<1> DEFINE Held == /\ \A n \in Request : pvPortMalloc(n) =>
                         \A b \in used' \ used : heap'.size[b] >= n + xHeapStructSize
                   /\ \A b \in Taken \cap Taken' : heap'.size[b] = heap.size[b]
<1>1. ASSUME HeapInv, NEW n \in Request, pvPortMalloc(n)
      PROVE  /\ \A b \in used' \ used : heap'.size[b] >= n + xHeapStructSize
             /\ \A b \in Taken : heap'.size[b] = heap.size[b]
  <2> DEFINE wanted == xWantedSize(n)
  <2>1. Sound(Current, Taken) /\ (Taken # {} => Current = heap)
    BY <1>1, CurrentSound DEF HeapInv, Current
  <2>2. CASE Plausible(Current, wanted) /\ Fitting(Current, wanted) # {}
    <3>1. PICK b \in Fitting(Current, wanted) :
                heap' = Count(Take(Current, b, wanted), b) /\ used' = used \cup {b}
      BY <1>1, <2>2 DEF pvPortMalloc, Current
    <3>2. b \in Current.free /\ wanted \in Nat /\ 0 < wanted /\ wanted <= Current.size[b]
      BY <2>1, <2>2, WantedType DEF Fitting, Plausible, Sound, HeapType, Link
    <3> DEFINE g == Take(Current, b, wanted)
    <3>3. /\ g \in HeapType /\ g.size[b] >= wanted
          /\ \A a \in Taken : g.size[a] = Current.size[a]
      <4>1. /\ Sound(g, Taken \cup {b}) /\ g.size[b] >= wanted
            /\ \A a \in Taken : g.size[a] = Current.size[a]
        BY <2>1, <3>2, TakeSound
      <4> HIDE DEF g
      <4> QED BY <4>1 DEF Sound
    <3>4. heap'.size = g.size
      <4>1. heap' = Count(g, b)
        BY <3>1
      <4> HIDE DEF g
      <4> QED BY <3>3, <4>1 DEF Count, HeapType
    <3>5. wanted >= n + xHeapStructSize
      BY <3>2, WantedHolds
    <3>6. b \in Link /\ g.size[b] \in Nat /\ n \in Nat /\ xHeapStructSize \in Nat
      BY <2>1, <3>2, <3>3, HeapAssumption DEF Sound, HeapType, Link
    <3> HIDE DEF g, wanted
    <3> QED BY <2>1, <3>1, <3>2, <3>3, <3>4, <3>5, <3>6
  <2>3. CASE ~(Plausible(Current, wanted) /\ Fitting(Current, wanted) # {})
    BY <1>1, <2>1, <2>3 DEF pvPortMalloc, Current
  <2> QED BY <2>2, <2>3
<1>2. ASSUME HeapInv, NEW t \in Task, FreeLocked(t)
      PROVE  \A b \in Taken \cap Taken' : heap'.size[b] = heap.size[b]
  <2> DEFINE f == freeing[t]
             h == [heap EXCEPT !.remaining = @ + heap.size[f]]
  <2>1. f \in Taken /\ f \notin Taken' /\ Sound(heap, Taken) /\ f \in Link
        /\ heap' = prvInsertBlockIntoFreeList(h, f)
    <3>1. /\ used' = used /\ f # NULL /\ heap' = prvInsertBlockIntoFreeList(h, f)
          /\ freeing' = [freeing EXCEPT ![t] = NULL]
      BY <1>2 DEF FreeLocked
    <3>2. /\ freeing \in [Task -> Byte \cup {NULL}] /\ f \in Byte /\ f \notin used
          /\ \A u \in Task \ {t} : freeing[u] # f /\ freeing'[u] = freeing[u]
          /\ freeing'[t] = NULL
      BY <1>2, <3>1 DEF HeapInv, TypeOK
    <3>3. f \in Taken /\ f \notin Taken'
      BY <3>1, <3>2 DEF Taken
    <3>4. ready
      BY <1>2, <3>3 DEF HeapInv
    <3> QED BY <1>2, <3>1, <3>2, <3>3, <3>4 DEF HeapInv, Link
  <2>2. h \in HeapType /\ h.size = heap.size /\ h.nxt = heap.nxt /\ h.free = heap.free
    BY <2>1 DEF Sound, HeapType
  <2>3. Sound(h, Taken)
    <3> HIDE DEF h
    <3> QED BY <2>1, <2>2, CountsIrrelevant
  <2> HIDE DEF h, f
  <2> QED BY <2>1, <2>2, <2>3, InsertKeeps
<1>3. HeapInv /\ [Next]_vars => [Held]_vars
  <2> SUFFICES ASSUME HeapInv, Next PROVE Held
    BY DEF vars
  <2>1. \A n \in Request : pvPortMalloc(n) =>
           \A b \in used' \ used : heap'.size[b] >= n + xHeapStructSize
    BY <1>1
  <2>2. CASE \E n \in Request : pvPortMalloc(n)
    BY <1>1, <2>1, <2>2
  <2>3. CASE \E t \in Task : \E b \in used : vPortFree(t, b)
    BY <2>1, <2>3 DEF vPortFree
  <2>4. CASE \E t \in Task : FreeLocked(t)
    BY <1>2, <2>1, <2>4
  <2> QED BY <2>2, <2>3, <2>4 DEF Next
<1> QED BY <1>3, HeapInductive, PTL DEF Spec, BlockHoldsRequest

-----------------------------------------------------------------------------
(* xFreeBytesRemaining.                                                    *)

\* The bytes of block b.
BlockByte(h, b) == b..(b + h.size[b] - 1)

\* The bytes of a block are bytes of the heap, as many as its size, and those
\* of a block that is out are not free.
LEMMA BlockBytes ==
    ASSUME NEW h, NEW out, Sound(h, out), NEW b \in h.free \cup out
    PROVE  /\ BlockByte(h, b) \subseteq Byte /\ IsFiniteSet(BlockByte(h, b))
           /\ Cardinality(BlockByte(h, b)) = h.size[b] /\ h.size[b] \in Nat /\ b \in Int
           /\ b \in out => BlockByte(h, b) \cap FreeByte(h) = {}
           /\ b \in h.free => BlockByte(h, b) \subseteq FreeByte(h)
<1>1. /\ b \in Byte /\ b \in Int /\ h.size[b] \in Nat /\ 0 < h.size[b] /\ h.free \subseteq Byte
      /\ \A a \in h.free : a \in Int /\ h.size[a] \in Nat
  BY Addresses DEF Sound, Tiled, HeapType, Link
<1>2. b + h.size[b] <= pxEnd /\ pucAlignedHeap <= b
  BY <1>1, Addresses DEF Sound, Tiled
<1>3. BlockByte(h, b) \subseteq Byte
  BY <1>1, <1>2, Addresses DEF BlockByte, Byte
<1>4. IsFiniteSet(BlockByte(h, b)) /\ Cardinality(BlockByte(h, b)) = h.size[b]
  <2>1. PICK e \in Int : e = b + h.size[b] - 1
    BY <1>1
  <2>2. IsFiniteSet(b..e) /\ Cardinality(b..e) = IF b > e THEN 0 ELSE e - b + 1
    BY <1>1, FS_Interval
  <2>3. BlockByte(h, b) = b..e
    BY <2>1 DEF BlockByte
  <2> QED
    BY <2>1, <2>2, <2>3, <1>1
<1>5. ASSUME b \in out PROVE BlockByte(h, b) \cap FreeByte(h) = {}
  <2> SUFFICES ASSUME NEW x \in BlockByte(h, b), NEW a \in h.free, a <= x, x < a + h.size[a] PROVE FALSE
    BY DEF FreeByte
  <2>1. a # b /\ (a < b => a + h.size[a] <= b) /\ (b < a => b + h.size[b] <= a)
    BY <1>5 DEF Sound, Tiled
  <2> QED
    BY <2>1, <1>1 DEF BlockByte
<1>6. ASSUME b \in h.free PROVE BlockByte(h, b) \subseteq FreeByte(h)
  <2> SUFFICES ASSUME NEW x \in BlockByte(h, b) PROVE b <= x /\ x < b + h.size[b]
    BY <1>3, <1>6 DEF FreeByte
  <2> QED
    BY <1>1 DEF BlockByte
<1> QED
  BY <1>1, <1>3, <1>4, <1>5, <1>6

\* The free bytes are finitely many.
LEMMA FreeFinite ==
    ASSUME NEW h
    PROVE  IsFiniteSet(FreeByte(h)) /\ Cardinality(FreeByte(h)) \in Nat /\ FreeByte(h) \subseteq Byte
<1>1. PICK e \in Int : e = pxEnd - 1
  BY Addresses
<1>2. PICK s \in Int : s = pucAlignedHeap
  BY Addresses
<1>3. IsFiniteSet(s..e)
  BY FS_Interval
<1>4. IsFiniteSet(Byte)
  BY <1>1, <1>2, <1>3 DEF Byte
<1>5. FreeByte(h) \subseteq Byte
  BY DEF FreeByte
<1>6. IsFiniteSet(FreeByte(h))
  BY <1>4, <1>5, FS_Subset
<1> QED
  BY <1>5, <1>6, FS_CardinalityType

\* prvInsertBlockIntoFreeList adds the bytes of b, however it merges.
LEMMA InsertBytes ==
    ASSUME NEW h, NEW out, Sound(h, out), NEW b \in out
    PROVE  FreeByte(prvInsertBlockIntoFreeList(h, b)) = FreeByte(h) \cup BlockByte(h, b)
<1> DEFINE it == pxIterator(h, b)
           next == h.nxt[it]
           joinsPrevious == it + h.size[it] = b
           joinsNext == b + h.size[b] = next /\ next # pxEnd
           head == IF joinsPrevious THEN it ELSE b
           gone == (IF joinsPrevious THEN {b} ELSE {}) \cup (IF joinsNext THEN {next} ELSE {})
           total == h.size[b] + (IF joinsPrevious THEN h.size[it] ELSE 0)
                              + (IF joinsNext THEN h.size[next] ELSE 0)
           size == [a \in Link |-> IF a = head THEN total
                                   ELSE IF a \in gone THEN 0 ELSE h.size[a]]
           nxt == [a \in Link |-> IF a = head THEN (IF joinsNext THEN h.nxt[next] ELSE next)
                                  ELSE IF a = it THEN head
                                  ELSE IF a \in gone THEN NULL ELSE h.nxt[a]]
           free == (h.free \cup {head}) \ gone
           g == prvInsertBlockIntoFreeList(h, b)
<1>1. g = [h EXCEPT !.size = size, !.nxt = nxt, !.free = free]
  BY DEF prvInsertBlockIntoFreeList
<1>2. /\ g.size = size /\ g.free = free /\ h.free \subseteq Byte /\ out \subseteq Byte
      /\ h.size \in [Link -> Nat] /\ h.nxt \in [Link -> Link \cup {NULL}]
  BY <1>1 DEF Sound, HeapType
<1>3. it \in h.free \cup {xStart} /\ it < b /\ b < next
  BY Iterator
<1>4. next \in h.free \cup {pxEnd} /\ b \notin h.free /\ h.size[xStart] = 0
  BY <1>3 DEF Sound, Linked
<1>5. /\ it \in Link /\ next \in Link /\ b \in Link /\ it \in Int /\ next \in Int /\ b \in Int
      /\ h.size[it] \in Nat /\ h.size[next] \in Nat /\ h.size[b] \in Nat
  BY <1>2, <1>3, <1>4, Addresses DEF Link
<1>6. (joinsPrevious => it \in h.free) /\ (joinsNext => next \in h.free)
  BY <1>3, <1>4, Addresses DEF xStart
<1>7. \A a \in Link : size[a] = IF a = head THEN total ELSE IF a \in gone THEN 0 ELSE h.size[a]
  OBVIOUS
<1>8. \A a \in h.free : a \in Link /\ a \in Int /\ h.size[a] \in Nat
  BY <1>2, Addresses DEF Link
<1>9. BlockByte(h, b) \subseteq Byte
  BY BlockBytes
<1> HIDE DEF g, size, it, next
<1>10. ASSUME NEW x \in Byte
       PROVE  x \in FreeByte(g) <=> x \in FreeByte(h) \/ (b <= x /\ x < b + h.size[b])
  <2>1. x \in Int
    BY Addresses
  <2>2. x \in FreeByte(g) <=> \E a \in free : a <= x /\ x < a + size[a]
    BY <1>2 DEF FreeByte
  <2>3. x \in FreeByte(h) <=> \E a \in h.free : a <= x /\ x < a + h.size[a]
    BY DEF FreeByte
  <2>4. CASE joinsPrevious /\ joinsNext
    <3>1. free = h.free \ {next} /\ size[it] = h.size[it] + h.size[b] + h.size[next] /\ it \in free
      BY <2>4, <1>3, <1>4, <1>5, <1>6, <1>7
    <3>2. \A a \in free \ {it} : size[a] = h.size[a] /\ a \in h.free
      BY <3>1, <2>4, <1>4, <1>7, <1>8
    <3> QED
      BY <2>1, <2>2, <2>3, <2>4, <3>1, <3>2, <1>5, <1>6, <1>8
  <2>5. CASE joinsPrevious /\ ~joinsNext
    <3>1. free = h.free /\ size[it] = h.size[it] + h.size[b] /\ it \in free
      BY <2>5, <1>3, <1>4, <1>5, <1>6, <1>7
    <3>2. \A a \in free \ {it} : size[a] = h.size[a] /\ a \in h.free
      BY <3>1, <2>5, <1>4, <1>7, <1>8
    <3> QED
      BY <2>1, <2>2, <2>3, <2>5, <3>1, <3>2, <1>5, <1>6, <1>8
  <2>6. CASE ~joinsPrevious /\ joinsNext
    <3>1. free = (h.free \cup {b}) \ {next} /\ size[b] = h.size[b] + h.size[next] /\ b \in free
      BY <2>6, <1>3, <1>4, <1>5, <1>6, <1>7
    <3>2. \A a \in free \ {b} : size[a] = h.size[a] /\ a \in h.free
      BY <3>1, <2>6, <1>4, <1>7, <1>8
    <3> QED
      BY <2>1, <2>2, <2>3, <2>6, <3>1, <3>2, <1>5, <1>6, <1>8
  <2>7. CASE ~joinsPrevious /\ ~joinsNext
    <3>1. free = h.free \cup {b} /\ size[b] = h.size[b] /\ b \in free
      BY <2>7, <1>3, <1>4, <1>5, <1>6, <1>7
    <3>2. \A a \in free \ {b} : size[a] = h.size[a] /\ a \in h.free
      BY <3>1, <2>7, <1>4, <1>7, <1>8
    <3> QED
      BY <2>1, <2>2, <2>3, <2>7, <3>1, <3>2, <1>5, <1>6, <1>8
  <2> QED
    BY <2>4, <2>5, <2>6, <2>7
<1>11. ASSUME NEW x \in Byte
       PROVE  x \in BlockByte(h, b) <=> (b <= x /\ x < b + h.size[b])
  <2>1. x \in Int
    BY Addresses
  <2>2. PICK n \in Nat : n = h.size[b]
    BY <1>5
  <2> QED
    BY <2>1, <2>2, <1>5 DEF BlockByte
<1>12. FreeByte(g) \subseteq Byte /\ FreeByte(h) \subseteq Byte
  BY FreeFinite
<1>13. FreeByte(g) = FreeByte(h) \cup BlockByte(h, b)
  BY <1>9, <1>10, <1>11, <1>12
<1> QED
  BY <1>13 DEF g

\* So their number grows by the size of b, and the count is left alone.
LEMMA InsertCounts ==
    ASSUME NEW h, NEW out, Sound(h, out), NEW b \in out
    PROVE  /\ Cardinality(FreeByte(prvInsertBlockIntoFreeList(h, b)))
                  = Cardinality(FreeByte(h)) + h.size[b]
           /\ prvInsertBlockIntoFreeList(h, b).remaining = h.remaining
<1>1. /\ IsFiniteSet(BlockByte(h, b)) /\ Cardinality(BlockByte(h, b)) = h.size[b]
      /\ h.size[b] \in Nat /\ BlockByte(h, b) \cap FreeByte(h) = {}
  BY BlockBytes
<1>2. IsFiniteSet(FreeByte(h)) /\ Cardinality(FreeByte(h)) \in Nat
  BY FreeFinite
<1>3. FreeByte(h) \cap BlockByte(h, b) = {}
  BY <1>1
<1>4. Cardinality(FreeByte(h) \cup BlockByte(h, b))
          = Cardinality(FreeByte(h)) + Cardinality(BlockByte(h, b))
                - Cardinality(FreeByte(h) \cap BlockByte(h, b))
  BY <1>1, <1>2, FS_Union
<1>5. Cardinality(FreeByte(h) \cap BlockByte(h, b)) = 0
  BY <1>3, FS_EmptySet
<1>6. prvInsertBlockIntoFreeList(h, b).remaining = h.remaining
  BY DEF prvInsertBlockIntoFreeList, Sound, HeapType
<1>7. FreeByte(prvInsertBlockIntoFreeList(h, b)) = FreeByte(h) \cup BlockByte(h, b)
  BY InsertBytes
<1>8. Cardinality(FreeByte(h) \cup BlockByte(h, b)) = Cardinality(FreeByte(h)) + h.size[b]
  BY <1>1, <1>2, <1>4, <1>5
<1> QED
  BY <1>6, <1>7, <1>8

\* A block that leaves the free list takes its bytes with it.
LEMMA UnlinkCounts ==
    ASSUME NEW h, NEW out, Sound(h, out), NEW b \in h.free,
           NEW g, g.size = h.size, g.free = h.free \ {b}
    PROVE  Cardinality(FreeByte(g)) = Cardinality(FreeByte(h)) - h.size[b]
<1>1. /\ BlockByte(h, b) \subseteq FreeByte(h) /\ IsFiniteSet(BlockByte(h, b))
      /\ Cardinality(BlockByte(h, b)) = h.size[b] /\ h.size[b] \in Nat /\ b \in Int
  BY BlockBytes
<1>2. IsFiniteSet(FreeByte(h)) /\ Cardinality(FreeByte(h)) \in Nat
  BY FreeFinite
<1>3. \A a \in h.free : a \in Int /\ h.size[a] \in Nat
  BY Addresses DEF Sound, HeapType, Link
<1>4. ASSUME NEW x \in Byte
      PROVE  x \in FreeByte(g) <=> x \in FreeByte(h) /\ x \notin BlockByte(h, b)
  <2>1. x \in Int
    BY Addresses
  <2>2. x \in FreeByte(g) <=> \E a \in h.free \ {b} : a <= x /\ x < a + h.size[a]
    BY DEF FreeByte
  <2>3. x \in FreeByte(h) <=> \E a \in h.free : a <= x /\ x < a + h.size[a]
    BY DEF FreeByte
  <2>4. PICK n \in Nat : n = h.size[b]
    BY <1>1
  <2>5. x \in BlockByte(h, b) <=> (b <= x /\ x < b + h.size[b])
    BY <2>1, <2>4, <1>1 DEF BlockByte
  <2>6. \A a \in h.free \ {b} : (a < b => a + h.size[a] <= b) /\ (b < a => b + h.size[b] <= a)
    BY DEF Sound, Tiled
  <2> QED
    BY <2>1, <2>2, <2>3, <2>5, <2>6, <1>1, <1>3
<1>5. FreeByte(g) \subseteq Byte /\ FreeByte(h) \subseteq Byte
  BY FreeFinite
<1>6. FreeByte(g) = FreeByte(h) \ BlockByte(h, b)
  BY <1>4, <1>5
<1>7. FreeByte(h) \cap BlockByte(h, b) = BlockByte(h, b)
  BY <1>1
<1>8. Cardinality(FreeByte(h) \ BlockByte(h, b))
          = Cardinality(FreeByte(h)) - Cardinality(FreeByte(h) \cap BlockByte(h, b))
  BY <1>2, FS_Difference
<1> QED
  BY <1>1, <1>6, <1>7, <1>8

\* pvPortMalloc takes as many bytes as the block has in the end; the count
\* is adapted afterwards.
LEMMA TakeCounts ==
    ASSUME NEW h, NEW out, Sound(h, out), NEW b \in h.free,
           NEW wanted \in Nat, 0 < wanted, wanted <= h.size[b]
    PROVE  /\ Cardinality(FreeByte(Take(h, b, wanted)))
                  = Cardinality(FreeByte(h)) - Take(h, b, wanted).size[b]
           /\ Take(h, b, wanted).remaining = h.remaining
<1> DEFINE q == CHOOSE p \in h.free \cup {xStart} : h.nxt[p] = b
           rest == h.size[b] - wanted
           cut == [h EXCEPT !.nxt = [a \in Link |-> IF a = q THEN h.nxt[b]
                                                     ELSE IF a = b THEN NULL ELSE h.nxt[a]],
                            !.free = h.free \ {b}]
           two == [cut EXCEPT !.size = [a \in Link |-> IF a = b THEN wanted
                                        ELSE IF a = b + wanted THEN rest ELSE h.size[a]]]
<1>1. q \in h.free \cup {xStart} /\ h.nxt[q] = b
  BY Predecessor
<1>2. Sound(cut, out \cup {b})
  BY <1>1, UnlinkSound
<1>3. /\ cut.size = h.size /\ cut.free = h.free \ {b} /\ cut.remaining = h.remaining
      /\ h.size[b] \in Nat /\ b \in Byte /\ b \in Int /\ xHeapStructSize \in Nat
  BY HeapAssumption, Addresses DEF Sound, HeapType, Link
<1>4. Cardinality(FreeByte(cut)) = Cardinality(FreeByte(h)) - h.size[b]
  <2> HIDE DEF cut
  <2> QED
    BY <1>3, UnlinkCounts
<1>5. Cardinality(FreeByte(h)) \in Nat
  BY FreeFinite
<1>6. CASE rest > heapMINIMUM_BLOCK_SIZE
  <2>1. wanted < h.size[b]
    BY <1>3, <1>6 DEF heapMINIMUM_BLOCK_SIZE
  <2>2. Sound(two, (out \cup {b}) \cup {b + wanted})
    <3> HIDE DEF cut
    <3> QED BY <1>2, <1>3, <2>1, SplitSound
  <2>3. Take(h, b, wanted) = prvInsertBlockIntoFreeList(two, b + wanted)
    BY <1>6 DEF Take
  <2>4. two.free = cut.free /\ two.remaining = h.remaining
    BY <1>3 DEF Sound, HeapType
  <2>5. \A a \in Link : two.size[a] = IF a = b THEN wanted
                                      ELSE IF a = b + wanted THEN rest ELSE h.size[a]
    BY DEF Sound, HeapType
  <2>6. b \in Link /\ b + wanted \in Link /\ b \notin two.free /\ b + wanted \notin two.free
    <3> HIDE DEF two, cut
    <3> QED
      BY <1>3, <2>2 DEF Sound, Link
  <2>7. two.size[b] = wanted /\ two.size[b + wanted] = rest
    <3> HIDE DEF two
    <3> QED
      BY <1>3, <2>5, <2>6
  <2>8. \A a \in two.free : two.size[a] = cut.size[a]
    <3>1. two.free \subseteq Link
      BY <2>4, <1>3 DEF Sound, HeapType, Link
    <3> HIDE DEF two, cut
    <3> QED
      BY <3>1, <1>3, <2>5, <2>6
  <2>9. FreeByte(two) = FreeByte(cut)
    <3> HIDE DEF two, cut
    <3> QED
      BY <2>4, <2>8 DEF FreeByte
  <2> HIDE DEF two, cut
  <2>10. /\ Cardinality(FreeByte(Take(h, b, wanted)))
                = Cardinality(FreeByte(two)) + two.size[b + wanted]
         /\ Take(h, b, wanted).remaining = two.remaining
    BY <2>2, <2>3, InsertCounts
  <2>11. Take(h, b, wanted).size[b] = two.size[b]
    BY <2>2, <2>3, <1>3, InsertKeeps
  <2> QED
    BY <2>4, <2>7, <2>9, <2>10, <2>11, <1>3, <1>4, <1>5
<1>7. CASE ~(rest > heapMINIMUM_BLOCK_SIZE)
  <2>1. Take(h, b, wanted) = cut
    BY <1>7 DEF Take
  <2> HIDE DEF cut
  <2> QED
    BY <2>1, <1>3, <1>4
<1> QED
  BY <1>6, <1>7

\* What the initialisation counts is the whole heap.
LEMMA InitCounts == prvHeapInit.remaining = Cardinality(FreeByte(prvHeapInit))
<1>1. PICK s \in Int : s = pucAlignedHeap
  BY Addresses
<1>2. PICK e \in Int : e = pxEnd - 1
  BY Addresses
<1>3. FreeByte(prvHeapInit) = s..e
  <2>1. prvHeapInit.free = {s} /\ prvHeapInit.size[s] = pxEnd - s
    BY <1>1, Addresses DEF prvHeapInit, Link
  <2>2. \A x \in Byte : x \in Int /\ s <= x /\ x < s + (pxEnd - s)
    BY <1>1, Addresses
  <2>3. FreeByte(prvHeapInit) = Byte
    BY <2>1, <2>2 DEF FreeByte
  <2> QED
    BY <2>3, <1>1, <1>2 DEF Byte
<1>4. Cardinality(s..e) = IF s > e THEN 0 ELSE e - s + 1
  BY FS_Interval
<1>5. prvHeapInit.remaining = e - s + 1 /\ s <= e
  BY <1>1, <1>2, Addresses DEF prvHeapInit
<1> QED
  BY <1>3, <1>4, <1>5

\* Each step keeps the count.
LEMMA CountStep ==
    ASSUME HeapInv, FreeBytes, [Next]_vars
    PROVE  FreeBytes'
<1>1. CASE \E n \in Request : pvPortMalloc(n)
  <2>1. PICK n \in Request : pvPortMalloc(n)
    BY <1>1
  <2> DEFINE wanted == xWantedSize(n)
  <2>2. Sound(Current, Taken) /\ Current \in HeapType
    BY CurrentSound DEF Sound
  <2>3. Current.remaining = Cardinality(FreeByte(Current))
    BY InitCounts DEF Current, FreeBytes
  <2>4. CASE Plausible(Current, wanted) /\ Fitting(Current, wanted) # {}
    <3>1. PICK b \in Fitting(Current, wanted) : heap' = Count(Take(Current, b, wanted), b)
      BY <2>1, <2>4 DEF pvPortMalloc, Current
    <3>2. b \in Current.free /\ wanted \in Nat /\ 0 < wanted /\ wanted <= Current.size[b] /\ b \in Link
      BY <2>2, <2>4, WantedType DEF Fitting, Plausible, HeapType, Link
    <3> DEFINE g == Take(Current, b, wanted)
    <3>3. Sound(g, Taken \cup {b})
      BY <2>2, <3>2, TakeSound
    <3>4. /\ Cardinality(FreeByte(g)) = Cardinality(FreeByte(Current)) - g.size[b]
          /\ g.remaining = Current.remaining
      BY <2>2, <3>2, TakeCounts
    <3>5. heap' = Count(g, b)
      BY <3>1
    <3> HIDE DEF g
    <3>6. heap'.free = g.free /\ heap'.size = g.size /\ heap'.remaining = g.remaining - g.size[b]
      BY <3>3, <3>5 DEF Count, Sound, HeapType
    <3>7. FreeByte(heap') = FreeByte(g)
      BY <3>6 DEF FreeByte
    <3> QED
      BY <2>3, <3>4, <3>6, <3>7 DEF FreeBytes
  <2>5. CASE ~(Plausible(Current, wanted) /\ Fitting(Current, wanted) # {})
    <3>1. heap' = Current
      BY <2>1, <2>5 DEF pvPortMalloc, Current
    <3> QED
      BY <2>3, <3>1 DEF FreeBytes
  <2> QED
    BY <2>4, <2>5
<1>2. CASE \E t \in Task : FreeLocked(t)
  <2>1. PICK t \in Task : FreeLocked(t)
    BY <1>2
  <2> DEFINE b == freeing[t]
             h == [heap EXCEPT !.remaining = @ + heap.size[b]]
  <2>2. b # NULL /\ b \in Taken /\ heap' = prvInsertBlockIntoFreeList(h, b)
    BY <2>1 DEF FreeLocked, Taken
  <2>3. ready /\ Sound(heap, Taken)
    BY <2>2 DEF HeapInv
  <2>4. b \in Link /\ heap.size[b] \in Nat
    BY <2>2, <2>3 DEF Sound, HeapType, Link
  <2>5. /\ h \in HeapType /\ h.size = heap.size /\ h.nxt = heap.nxt /\ h.free = heap.free
        /\ h.remaining = heap.remaining + heap.size[b]
    BY <2>3, <2>4 DEF Sound, HeapType
  <2> HIDE DEF h
  <2>6. Sound(h, Taken)
    BY <2>3, <2>5, CountsIrrelevant
  <2>7. FreeByte(h) = FreeByte(heap)
    BY <2>5 DEF FreeByte
  <2>8. /\ Cardinality(FreeByte(heap')) = Cardinality(FreeByte(h)) + h.size[b]
        /\ heap'.remaining = h.remaining
    BY <2>2, <2>6, InsertCounts
  <2> QED
    BY <2>5, <2>7, <2>8 DEF FreeBytes
<1>3. CASE UNCHANGED heap
  BY <1>3 DEF FreeBytes, FreeByte
<1>4. (\E t \in Task : \E b \in used : vPortFree(t, b)) => UNCHANGED heap
  BY DEF vPortFree
<1> QED
  BY <1>1, <1>2, <1>3, <1>4 DEF Next, vars

\* xFreeBytesRemaining is the number of free bytes, whatever pvPortMalloc
\* split off and vPortFree merged.
THEOREM FreeBytesCounted == Spec => []FreeBytes
<1>1. Init => FreeBytes
  <2> SUFFICES ASSUME Init PROVE FreeBytes
    OBVIOUS
  <2>1. heap.free = {} /\ heap.remaining = 0
    BY DEF Init
  <2>2. FreeByte(heap) = {}
    BY <2>1 DEF FreeByte
  <2> QED
    BY <2>1, <2>2, FS_EmptySet DEF FreeBytes
<1>2. HeapInv /\ FreeBytes /\ [Next]_vars => FreeBytes'
  BY CountStep
<1> QED
  BY <1>1, <1>2, HeapInductive, PTL DEF Spec
=============================================================================
