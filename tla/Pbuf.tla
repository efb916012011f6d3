-------------------------------- MODULE Pbuf --------------------------------
(***************************************************************************)
(* The packet buffers of lwIP (core/pbuf.c) as operators on an arena pb    *)
(* that gives every buffer its reference count, its successor in the chain *)
(* and what it carries.  A buffer with ref 0 is in its pool: PBUF_POOL for *)
(* received frames (memp.c) and PBUF_RAM for everything the board sends    *)
(* (mem.c, here a number of buffers instead of bytes).  Lengths are left   *)
(* out; a chain has as many buffers as its packet needs.                   *)
(***************************************************************************)
EXTENDS Integers, Sequences, SequencesExt, FiniteSetsExt, Loops

CONSTANTS PBUF_POOL_SIZE, RamSize

ASSUME PbufAssumption == PBUF_POOL_SIZE \in Nat /\ RamSize \in Nat

NULL == 0
PBUF_POOL == 1..PBUF_POOL_SIZE
PBUF_RAM == (PBUF_POOL_SIZE + 1)..(PBUF_POOL_SIZE + RamSize)

\* The contents of a buffer that is no first buffer of a packet.
Rest == [type |-> "rest"]
Unused == [ref |-> 0, next |-> NULL, data |-> Rest]
FreeIn(pb, type) == {i \in type : pb[i].ref = 0}

\* The n lowest numbers in S.
Lowest(S, n) == {i \in S : Cardinality({j \in S : j < i}) < n}

\* The buffers in c become a chain that carries d.
Alloced(pb, c, d) ==
    [p |-> Min(c),
     pb |-> [i \in DOMAIN pb |->
        IF i \notin c THEN pb[i]
        ELSE [ref |-> 1, next |-> IF i = Max(c) THEN NULL ELSE Min({j \in c : j > i}),
              data |-> IF i = Min(c) THEN d ELSE Rest]]]

\* A chain of n buffers of a type for the packet d, or NULL: what was taken
\* for a chain that cannot be completed goes back.
pbuf_alloc(pb, type, n, d) ==
    IF Cardinality(FreeIn(pb, type)) < n THEN [pb |-> pb, p |-> NULL]
    ELSE Alloced(pb, Lowest(FreeIn(pb, type), n), d)

\* The buffers from p on along next: a chain has no more than there are.
Longer(r) ==
    IF r.pb[Last(r.c)].next = NULL THEN r ELSE [r EXCEPT !.c = Append(@, r.pb[Last(@)].next)]
Chain(pb, p) == Iterate(Longer, PBUF_POOL_SIZE + RamSize, [pb |-> pb, c |-> <<p>>]).c

pbuf_clen(pb, p) == Len(Chain(pb, p))

\* The first buffer of the chain somebody else refers to, too.
FirstShared(pb, c) == Min({k \in DOMAIN c : pb[c[k]].ref # 1} \cup {Len(c) + 1})
Released(pb, c, k) ==
    [i \in DOMAIN pb |->
        IF k <= Len(c) /\ i = c[k] THEN [pb[i] EXCEPT !.ref = @ - 1]
        ELSE IF Contains(SubSeq(c, 1, k - 1), i) THEN Unused
        ELSE pb[i]]

\* One reference to the chain is given up: buffers are returned up to the
\* first one that has another reference.
FreeChain(pb, c) == Released(pb, c, FirstShared(pb, c))
pbuf_free(pb, p) == FreeChain(pb, Chain(pb, p))

pbuf_ref(pb, p) == [pb EXCEPT ![p].ref = @ + 1]

\* Appends the chain t to h; the reference to t goes over to h.
pbuf_cat(pb, h, t) == [pb EXCEPT ![Last(Chain(pb, h))].next = t]

\* Appends t to h while the caller keeps its reference to t.
pbuf_chain(pb, h, t) == pbuf_ref(pbuf_cat(pb, h, t), t)
=============================================================================
