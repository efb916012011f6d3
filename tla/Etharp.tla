------------------------------- MODULE Etharp -------------------------------
(***************************************************************************)
(* ARP (netif/etharp.c) as operators on the record n, the state of the     *)
(* stack: n.pb are the packet buffers, n.arp is arp_table, n.hint is       *)
(* etharp_cached_entry and n.wire collects the IP frames handed to the     *)
(* driver, each with the hardware address it goes to and the next hop it   *)
(* was meant for.  The build has ARP_QUEUEING 0: an entry keeps one packet *)
(* while its address is unknown.                                           *)
(***************************************************************************)
EXTENDS Pbuf

CONSTANTS
    Host,            \* addresses on the local network
    Outside,         \* other unicast addresses: not local, or the board's own
    Gw,              \* netif->gw, one of Host or "none"
    ARP_TABLE_SIZE,
    ARP_MAXAGE, ARP_AGE_REREQUEST_USED, ARP_MAXPENDING

ASSUME EtharpAssumption ==
    /\ Gw \in Host \cup {"none"}
    /\ {"none", "broadcast"} \cap (Host \cup Outside) = {}
    /\ ARP_TABLE_SIZE \in Nat \ {0}

ArpIndex == 0..(ARP_TABLE_SIZE - 1)
ERR_MEM == -1
Zero == "zero"       \* no address, of either kind
Broadcast == "broadcast"
Unicast == Host \cup Outside

EmptyEntry == [state |-> "EMPTY", ipaddr |-> Zero, ethaddr |-> Zero, ctime |-> 0, q |-> NULL]
IsStable(e) == e.state \in {"STABLE", "REREQUESTING"}

\* The neighbour a packet for dst is handed to (etharp_output).
NextHop(dst) == IF dst \in Host \cup {Broadcast} THEN dst ELSE Gw

-----------------------------------------------------------------------------
(* The table.                                                              *)

\* Mutant: the packet of the entry is forgotten.
FreeEntryOnly(n, i) == [n EXCEPT !.arp[i] = EmptyEntry]

\* LWIP_DEBUG is defined, so the fields are reset, too.
etharp_free_entry(n, i) ==
    [n EXCEPT !.pb = IF n.arp[i].q = NULL THEN @ ELSE pbuf_free(@, n.arp[i].q),
              !.arp[i] = EmptyEntry]

\* Mutant: a pending entry does not age.
AgeStableOnly(n, i) ==
    IF IsStable(n.arp[i]) THEN [n EXCEPT !.arp[i].ctime = Min({@ + 1, ARP_MAXAGE})] ELSE n

Aged(e) == [e EXCEPT !.ctime = @ + 1]
TooOld(e) ==
    e.ctime >= ARP_MAXAGE \/ (e.state = "PENDING" /\ e.ctime >= ARP_MAXPENDING)
\* One period older; a request that was repeated may be repeated again.
Older(e) == [Aged(e) EXCEPT !.state = IF e.state = "REREQUESTING" THEN "STABLE" ELSE @]
Age(n, i) ==
    CASE n.arp[i].state = "EMPTY" -> n
      [] n.arp[i].state # "EMPTY" /\ TooOld(Aged(n.arp[i])) -> etharp_free_entry(n, i)
      [] OTHER -> [n EXCEPT !.arp[i] = Older(@)]

AgeNext(r) == [n |-> Age(r.n, r.i), i |-> r.i + 1]
etharp_tmr(n) == Iterate(AgeNext, ARP_TABLE_SIZE, [n |-> n, i |-> 0]).n

Matching(n, ip) == {i \in ArpIndex : n.arp[i].state # "EMPTY" /\ n.arp[i].ipaddr = ip}
Empty(n) == {i \in ArpIndex : n.arp[i].state = "EMPTY"}

\* The entry that goes when the table is full: the oldest stable one, then a
\* pending one without a packet, then any; of two that are equally old the
\* one with the higher index.
Oldest(n, S) == Max({i \in S : \A j \in S : n.arp[j].ctime <= n.arp[i].ctime})
Recycled(n) ==
    LET stable == {i \in ArpIndex : IsStable(n.arp[i])}
        idle == {i \in ArpIndex : n.arp[i].state = "PENDING" /\ n.arp[i].q = NULL}
    IN  Oldest(n, IF stable # {} THEN stable ELSE IF idle # {} THEN idle ELSE ArpIndex)

\* Entry i is prepared for address ip.
Claim(n, i, ip) == [i |-> i, n |-> [n EXCEPT !.arp[i].ipaddr = ip, !.arp[i].ctime = 0]]

\* The entry of ip, or with TRY_HARD one that was made free for it.
etharp_find_entry(n, ip, flag) ==
    CASE Matching(n, ip) # {} -> [i |-> Min(Matching(n, ip)), n |-> n]
      [] Matching(n, ip) = {} /\ flag = "FIND_ONLY" -> [i |-> ERR_MEM, n |-> n]
      [] Matching(n, ip) = {} /\ flag # "FIND_ONLY" /\ Empty(n) # {} -> Claim(n, Min(Empty(n)), ip)
      [] Matching(n, ip) = {} /\ flag # "FIND_ONLY" /\ Empty(n) = {} ->
            Claim(etharp_free_entry(n, Recycled(n)), Recycled(n), ip)

-----------------------------------------------------------------------------
(* Output.                                                                 *)

etharp_send_ip(n, q, ethaddr) ==
    [n EXCEPT !.wire = @ \cup {[to |-> ethaddr, hop |-> NextHop(n.pb[q].data.dst)]}]

\* A request needs a buffer while it is sent.
etharp_request(n) == FreeIn(n.pb, PBUF_RAM) # {}

\* Sends q with a stable entry; an entry that will soon be too old is asked
\* for again, once in a period of the timer.
etharp_output_to_arp_index(n, q, i) ==
    etharp_send_ip(
        [n EXCEPT !.arp[i].state =
            IF /\ @ = "STABLE" /\ n.arp[i].ctime >= ARP_AGE_REREQUEST_USED /\ etharp_request(n)
            THEN "REREQUESTING" ELSE @],
        q, n.arp[i].ethaddr)

\* The entry keeps the copy that a holds, instead of the one it had.
KeepPacket(n, i, a) ==
    IF a.p = NULL THEN n
    ELSE [n EXCEPT !.pb = IF n.arp[i].q = NULL THEN a.pb ELSE pbuf_free(a.pb, n.arp[i].q),
                   !.arp[i].q = a.p]

\* The entry of a packet that was not found stable: asked for, and a copy of
\* the packet is kept if there is memory for it.
QueryEntry(n, i, q) ==
    IF IsStable(n.arp[i])
    THEN etharp_send_ip([n EXCEPT !.hint = i], q, n.arp[i].ethaddr)
    ELSE KeepPacket([n EXCEPT !.arp[i].state = "PENDING"], i,
                    pbuf_alloc(n.pb, PBUF_RAM, 1, n.pb[q].data))
Queried(f, q) == IF f.i = ERR_MEM THEN f.n ELSE QueryEntry(f.n, f.i, q)
etharp_query(n, ip, q) == Queried(etharp_find_entry(n, ip, "TRY_HARD"), q)

\* Mutant: the cached index is used without a look at its address.
CachedAnyAddress(n, hop) == IsStable(n.arp[n.hint])
CachedFits(n, hop) == IsStable(n.arp[n.hint]) /\ n.arp[n.hint].ipaddr = hop

StableFor(n, hop) == {i \in ArpIndex : IsStable(n.arp[i]) /\ n.arp[i].ipaddr = hop}
OutputTo(n, q, hop) ==
    CASE CachedFits(n, hop) -> etharp_output_to_arp_index(n, q, n.hint)
      [] ~CachedFits(n, hop) /\ StableFor(n, hop) # {} ->
            etharp_output_to_arp_index([n EXCEPT !.hint = Min(StableFor(n, hop))], q,
                                       Min(StableFor(n, hop)))
      [] OTHER -> etharp_query(n, hop, q)

\* netif->output: without a gateway ERR_RTE for what is not local.
etharp_output(n, q, dst) ==
    CASE dst = Broadcast -> etharp_send_ip(n, q, Broadcast)
      [] dst # Broadcast /\ NextHop(dst) = "none" -> n
      [] dst # Broadcast /\ NextHop(dst) # "none" -> OutputTo(n, q, NextHop(dst))

-----------------------------------------------------------------------------
(* Input.                                                                  *)

\* The packet that waited in entry i is sent.
SendKept(n, i) ==
    IF n.arp[i].q = NULL THEN n
    ELSE [etharp_send_ip(n, n.arp[i].q, n.arp[i].ethaddr) EXCEPT
              !.pb = pbuf_free(@, n.arp[i].q), !.arp[i].q = NULL]

Updated(f, ethaddr) ==
    IF f.i = ERR_MEM THEN f.n
    ELSE SendKept([f.n EXCEPT !.arp[f.i].state = "STABLE", !.arp[f.i].ethaddr = ethaddr,
                              !.arp[f.i].ctime = 0], f.i)
etharp_update_arp_entry(n, ip, ethaddr, flag) ==
    IF ip \notin Unicast THEN n ELSE Updated(etharp_find_entry(n, ip, flag), ethaddr)

\* A request or a reply; for a request for us the answer is sent in the same
\* buffer.
etharp_arp_input(n, p, f) ==
    [etharp_update_arp_entry(n, f.sipaddr, f.shwaddr,
                             IF f.dipaddr = "me" THEN "TRY_HARD" ELSE "FIND_ONLY")
        EXCEPT !.pb = pbuf_free(@, p)]
=============================================================================
