--------------------------------- MODULE Ip ---------------------------------
(***************************************************************************)
(* IPv4, ICMP and UDP (core/ipv4/ip.c, ip_frag.c, icmp.c, core/udp.c) as   *)
(* operators on the record n of module Etharp.  n.reass is reassdatagrams, *)
(* n.count ip_reass_pbufcount, n.up the datagrams the application was      *)
(* handed and has not freed, and n.hung says that an LWIP_ASSERT failed:   *)
(* LWIP_PLATFORM_ASSERT of arch/cc.h then loops for ever.                  *)
(*                                                                         *)
(* A packet is [type, src, dst, id, off, end, of, proto, port, sum]: it    *)
(* carries the parts off .. end - 1 of a datagram of `of` parts, each of   *)
(* which fills a frame; datagrams are known by src and id.  sum: the UDP   *)
(* header has a checksum (0 means none).                                   *)
(***************************************************************************)
EXTENDS Etharp

CONSTANTS IP_REASS_MAX_PBUFS, IP_REASS_MAXAGE, MEMP_NUM_REASSDATA

ASSUME IpAssumption ==
    IP_REASS_MAX_PBUFS \in Nat /\ IP_REASS_MAXAGE \in Nat /\ MEMP_NUM_REASSDATA \in Nat

-----------------------------------------------------------------------------
(* Output.                                                                 *)

\* One fragment of the packet at p: a header in a buffer of its own, with
\* references to the data of p behind it, freed once it is sent.  Running out of
\* these references has the same effect as having no buffer for the header.
SendFragment(n, a, p, dst) ==
    [p |-> p, dst |-> dst, ok |-> a.p # NULL,
     n |-> IF a.p = NULL THEN n
           ELSE [etharp_output([n EXCEPT !.pb = a.pb], a.p, dst) EXCEPT !.pb = pbuf_free(@, a.p)]]
FragmentNext(r) ==
    IF r.ok
    THEN SendFragment(r.n, pbuf_alloc(r.n.pb, PBUF_RAM, 1, r.n.pb[r.p].data), r.p, r.dst)
    ELSE r
ip_frag(n, p, dst, parts) ==
    Iterate(FragmentNext, parts, [n |-> n, p |-> p, dst |-> dst, ok |-> TRUE]).n

\* The datagram at p of that many parts is sent; the caller frees it.
ip_output_if(n, p, dst, parts) ==
    CASE n.pb[p].ref # 1 -> [n EXCEPT !.hung = TRUE]
      [] n.pb[p].ref = 1 /\ parts > 1 -> ip_frag(n, p, dst, parts)
      [] n.pb[p].ref = 1 /\ parts <= 1 -> etharp_output(n, p, dst)

\* A packet the board makes itself.
Made(dst) == [type |-> "ip", dst |-> dst]

\* An ICMP error goes back to src, if there is memory for it.
Respond(n, a, src) ==
    IF a.p = NULL THEN n
    ELSE [ip_output_if([n EXCEPT !.pb = a.pb], a.p, src, 1) EXCEPT !.pb = pbuf_free(@, a.p)]
icmp_send_response(n, src) == Respond(n, pbuf_alloc(n.pb, PBUF_RAM, 1, Made(src)), src)

-----------------------------------------------------------------------------
(* Reassembly.                                                             *)

Frag(n, p) == n.pb[p].data
IsFragment(f) == f.off # 0 \/ f.end # f.of
SameDatagram(r, f) == r.src = f.src /\ r.id = f.id

\* The fragments ps are freed one by one; gives how many buffers that were.
FreeFirst(r) ==
    [pb |-> pbuf_free(r.pb, Head(r.ps)), ps |-> Tail(r.ps),
     freed |-> r.freed + pbuf_clen(r.pb, Head(r.ps))]
FreeFragments(pb, ps) == Iterate(FreeFirst, Len(ps), [pb |-> pb, ps |-> ps, freed |-> 0])

ip_reass_dequeue_datagram(n, k) == [n EXCEPT !.reass = RemoveAt(@, k)]

\* Mutant: the datagram goes, its buffers stay counted.
FreeUncounted(n, k) ==
    LET f == FreeFragments(n.pb, n.reass[k].p)
    IN  [n |-> [ip_reass_dequeue_datagram(n, k) EXCEPT !.pb = f.pb], freed |-> f.freed]

\* Datagram k is given up.  If its first fragment is there the sender hears
\* of it.
TimeExceeded(n, k) ==
    IF Frag(n, Head(n.reass[k].p)).off = 0 THEN icmp_send_response(n, n.reass[k].src) ELSE n
Discard(n, k, f) ==
    [n |-> [ip_reass_dequeue_datagram(n, k) EXCEPT !.pb = f.pb, !.count = @ - f.freed],
     freed |-> f.freed]
GiveUp(n, k) ==
    Discard(TimeExceeded(n, k), k, FreeFragments(TimeExceeded(n, k).pb, n.reass[k].p))

\* prev is the place the caller takes for the one before k, 0 for none; gives
\* the number of buffers freed.
ip_reass_free_complete_datagram(n, k, prev) ==
    IF prev = k \/ (prev # 0 /\ prev + 1 # k) THEN [n |-> [n EXCEPT !.hung = TRUE], freed |-> 0]
    ELSE GiveUp(n, k)

\* The timer makes the datagrams older, from the head of the list on.
AgeDatagram(r) ==
    IF r.n.reass[r.k].timer > 0
    THEN [n |-> [r.n EXCEPT !.reass[r.k].timer = @ - 1], k |-> r.k + 1]
    ELSE [n |-> ip_reass_free_complete_datagram(r.n, r.k, r.k - 1).n, k |-> r.k]
ip_reass_tmr(n) == Iterate(AgeDatagram, Len(n.reass), [n |-> n, k |-> 1]).n

\* The oldest of the other datagrams, the last one of several.
Others(n, f) == {k \in DOMAIN n.reass : ~SameDatagram(n.reass[k], f)}
OldestOther(n, f) ==
    Max({k \in Others(n, f) : \A j \in Others(n, f) : n.reass[k].timer <= n.reass[j].timer})

\* Frees the oldest datagrams until `need` buffers are free.  The walk takes
\* the last but one of the list for the predecessor, whichever was oldest.
Removed(r, d) ==
    [r EXCEPT !.n = d.n, !.freed = @ + d.freed,
              !.done = r.freed + d.freed >= r.need \/ Cardinality(Others(r.n, r.f)) <= 1]
RemoveOne(r) ==
    IF r.done \/ r.n.hung \/ Others(r.n, r.f) = {} THEN [r EXCEPT !.done = TRUE]
    ELSE Removed(r, ip_reass_free_complete_datagram(r.n, OldestOther(r.n, r.f), Len(r.n.reass) - 1))
ip_reass_remove_oldest_datagram(n, f, need) ==
    Iterate(RemoveOne, need, [n |-> n, f |-> f, need |-> need, freed |-> 0, done |-> FALSE])

\* Room for clen more buffers, at the cost of older datagrams.
RoomAfter(r, clen) ==
    [n |-> r.n, ok |-> r.freed > 0 /\ r.n.count + clen <= IP_REASS_MAX_PBUFS]
MakeRoom(n, f, clen) ==
    IF n.count + clen <= IP_REASS_MAX_PBUFS THEN [n |-> n, ok |-> TRUE]
    ELSE RoomAfter(ip_reass_remove_oldest_datagram(n, f, clen), clen)

Fresh(f) ==
    [src |-> f.src, id |-> f.id, p |-> <<>>, timer |-> IP_REASS_MAXAGE,
     last |-> FALSE, len |-> 0]
Entered(n, f) == [n |-> [n EXCEPT !.reass = <<Fresh(f)>> \o @], ok |-> TRUE]
EnteredAfter(r, f, clen) ==
    IF r.freed >= clen /\ Len(r.n.reass) < MEMP_NUM_REASSDATA THEN Entered(r.n, f)
    ELSE [n |-> r.n, ok |-> FALSE]
ip_reass_enqueue_new_datagram(n, f, clen) ==
    IF Len(n.reass) < MEMP_NUM_REASSDATA THEN Entered(n, f)
    ELSE EnteredAfter(ip_reass_remove_oldest_datagram(n, f, clen), f, clen)

\* The datagram of fragment f: found, or entered at the head of the list.
Known(n, f) == \E k \in DOMAIN n.reass : SameDatagram(n.reass[k], f)
Find(n, f, clen) ==
    IF Known(n, f) THEN [n |-> n, ok |-> TRUE] ELSE ip_reass_enqueue_new_datagram(n, f, clen)
PlaceOf(n, f) == Min({k \in DOMAIN n.reass : SameDatagram(n.reass[k], f)})

\* The new fragment goes in front of the first one with a larger offset, or
\* behind all: the fragments up to there, and the ones from there on.
Place(n, ps, f) ==
    Min({j \in 1..(Len(ps) + 1) : j <= Len(ps) => f.off < Frag(n, ps[j]).off})
UpTo(n, ps, f) == SubSeq(ps, 1, Place(n, ps, f) - 1)
Behind(n, ps, f) == SubSeq(ps, Place(n, ps, f), Len(ps))

\* The new fragment starts in one that is there, or ends in the next one.
Overlaps(n, before, after, f) ==
    \/ \E i \in DOMAIN before : f.off < Frag(n, before[i]).end
    \/ before # <<>> /\ after # <<>> /\ f.end > Frag(n, Head(after)).off

Adjoin(n, ps) ==
    \A i \in 1..(Len(ps) - 1) : Frag(n, ps[i]).end = Frag(n, ps[i + 1]).off

\* "basic continuity checks": the fragments in front of the new one adjoin,
\* and so do the ones from the new one on; between the two the code looks
\* only when the new one is the last.
Continuous(n, before, p, after) ==
    /\ Adjoin(n, before)
    /\ after = <<>> => Adjoin(n, before \o <<p>>)
    /\ Frag(n, Head(before \o <<p>>)).off = 0
    /\ Adjoin(n, <<p>> \o after)

\* Fragment p, already counted, is thrown away.
ThrowAway(n, p) ==
    [n |-> [n EXCEPT !.pb = pbuf_free(@, p), !.count = @ - pbuf_clen(n.pb, p)], valid |-> FALSE]
Chained(n, k, before, p, after) ==
    LET valid == n.reass[k].last /\ Continuous(n, before, p, after)
    IN  [valid |-> valid,
         n |-> [n EXCEPT !.reass[k].p = before \o <<p>> \o after,
                         !.hung = @ \/ (valid /\ Frag(n, Last(<<p>> \o after)).end # n.reass[k].len)]]
ChainBetween(n, k, p, before, after) ==
    IF Overlaps(n, before, after, Frag(n, p)) THEN ThrowAway(n, p)
    ELSE Chained(n, k, before, p, after)
ip_reass_chain_frag_into_datagram_and_validate(n, k, p) ==
    ChainBetween(n, k, p, UpTo(n, n.reass[k].p, Frag(n, p)), Behind(n, n.reass[k].p, Frag(n, p)))

\* A complete datagram leaves the list as one chain.
CatNext(r) == [r EXCEPT !.pb = pbuf_cat(@, r.h, Head(r.ps)), !.ps = Tail(@)]
CatAll(pb, ps) ==
    Iterate(CatNext, Len(ps) - 1, [pb |-> pb, h |-> Head(ps), ps |-> Tail(ps)]).pb
Joined(n, k, pb, p) ==
    [ip_reass_dequeue_datagram(n, k) EXCEPT !.pb = pb, !.count = @ - pbuf_clen(pb, p)]
Complete(c, k) ==
    IF ~c.valid THEN [n |-> c.n, p |-> NULL]
    ELSE [p |-> Head(c.n.reass[k].p),
          n |-> Joined(c.n, k, CatAll(c.n.pb, c.n.reass[k].p), Head(c.n.reass[k].p))]

\* The datagram of the fragment counts its buffers and, with the last
\* fragment, learns its length.
Noted(n, k, f, clen) ==
    [n EXCEPT !.count = @ + clen, !.reass[k].last = @ \/ f.end = f.of,
              !.reass[k].len = IF f.end = f.of THEN f.end ELSE @]
AddTo(n, k, p, f, clen) ==
    Complete(ip_reass_chain_frag_into_datagram_and_validate(Noted(n, k, f, clen), k, p), k)

Dropped(n, p) == [n |-> [n EXCEPT !.pb = pbuf_free(@, p)], p |-> NULL]
AddFound(r, p, f, clen) ==
    IF ~r.ok THEN Dropped(r.n, p) ELSE AddTo(r.n, PlaceOf(r.n, f), p, f, clen)
AddWithRoom(r, p, f, clen) ==
    IF ~r.ok THEN Dropped(r.n, p) ELSE AddFound(Find(r.n, f, clen), p, f, clen)

\* Takes a fragment; gives the datagram it completes, or NULL.
ip_reass(n, p) ==
    AddWithRoom(MakeRoom(n, Frag(n, p), pbuf_clen(n.pb, p)), p, Frag(n, p), pbuf_clen(n.pb, p))

-----------------------------------------------------------------------------
(* Input.                                                                  *)

FreeIt(n, p) == [n EXCEPT !.pb = pbuf_free(@, p)]

\* The chain at p carries all parts of its datagram; a checksum over one that
\* does not is wrong.
Whole(pb, p) ==
    UNION {pb[i].data.off .. (pb[i].data.end - 1) :
              i \in {j \in ToSet(Chain(pb, p)) : pb[j].data.type = "ip"}}
    = 0 .. (pb[p].data.of - 1)

\* An echo request is turned round in its buffer.
EchoReply(n, p, f) ==
    ip_output_if([n EXCEPT !.pb[p].data = [f EXCEPT !.src = f.dst, !.dst = f.src]], p, f.src, f.of)
icmp_input(n, p, f) ==
    FreeIt(IF f.dst = "me" /\ Whole(n.pb, p) THEN EchoReply(n, p, f) ELSE n, p)

\* A datagram for a port with a PCB goes to its recv callback, if the checksum
\* it carries is right.
udp_input(n, p, f) ==
    IF (f.port # "bound" /\ f.dst # "me") \/ (f.sum = TRUE /\ ~Whole(n.pb, p)) THEN FreeIt(n, p)
    ELSE IF f.port = "bound" THEN [n EXCEPT !.up = @ \cup {p}]
    ELSE FreeIt(icmp_send_response(n, f.src), p)

Dispatch(n, p, f) ==
    CASE f.proto = "udp" -> udp_input(n, p, f)
      [] f.proto = "icmp" -> icmp_input(n, p, f)
      [] OTHER -> FreeIt(IF f.dst = "me" THEN icmp_send_response(n, f.src) ELSE n, p)
Passed(r) == IF r.p = NULL THEN r.n ELSE Dispatch(r.n, r.p, Frag(r.n, r.p))

\* What is damaged or for somebody else is dropped.
ip_input(n, p, f) ==
    IF f.dst \notin {"me", Broadcast} \/ f.proto = "damaged" THEN FreeIt(n, p)
    ELSE Passed(IF IsFragment(f) THEN ip_reass(n, p) ELSE [n |-> n, p |-> p])

ethernet_input(n, p, f) ==
    CASE f.type = "arp" -> etharp_arp_input(n, p, f)
      [] f.type = "ip" -> ip_input(n, p, f)
      [] OTHER -> FreeIt(n, p)

\* A frame of clen buffers comes from the driver, or is lost for want of
\* buffers.
Taken(n, a, f) == IF a.p = NULL THEN n ELSE ethernet_input([n EXCEPT !.pb = a.pb], a.p, f)
ethernetif_input(n, f, clen) == Taken(n, pbuf_alloc(n.pb, PBUF_POOL, clen, f), f)

-----------------------------------------------------------------------------
(* udp_sendto with the buffer p of the application, which keeps it.        *)

\* p has no room for the headers: they go in front, in a buffer of their
\* own.
SendBehind(n, a, p, dst, parts) ==
    IF a.p = NULL THEN n
    ELSE [ip_output_if([n EXCEPT !.pb = pbuf_chain(a.pb, a.p, p)], a.p, dst, parts)
             EXCEPT !.pb = pbuf_free(@, a.p)]
udp_sendto(n, p, dst, parts, room) ==
    IF room THEN ip_output_if([n EXCEPT !.pb[p].data = Made(dst)], p, dst, parts)
    ELSE SendBehind(n, pbuf_alloc(n.pb, PBUF_RAM, 1, Made(dst)), p, dst, parts)
=============================================================================
