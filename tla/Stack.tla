-------------------------------- MODULE Stack -------------------------------
(***************************************************************************)
(* lwIP without TCP's inside, as the main loop drives it (NO_SYS): frames  *)
(* from the driver, calls of a UDP application and sys_check_timeouts, one *)
(* after the other, on shared packet buffers and one list of timeouts.     *)
(* The record n holds the state of modules Etharp and Ip and               *)
(*   ts, since   the timeouts, and now - timeouts_last_time, the only way  *)
(*               the code uses its clock                                   *)
(*   pcbs        tcp_active_pcbs or tcp_tw_pcbs is not empty               *)
(*   tcp         tcpip_tcp_timer_active                                    *)
(* todo is what the network and the application may still do; told[h] is   *)
(* the hardware address neighbour h last gave as its own.                  *)
(***************************************************************************)
EXTENDS Ip, Timeouts

CONSTANTS
    Loads,                 \* frames and calls to come, and how long the
                           \* main loop leaves the timeouts alone
    Interval,              \* of the handlers "tcp", "reass" and "arp"
    MEMP_NUM_SYS_TIMEOUT

ASSUME StackAssumption ==
    /\ DOMAIN Interval = {"tcp", "reass", "arp"}
    /\ \A h \in DOMAIN Interval : Interval[h] \in Nat \ {0}

\* A frame fills at least one buffer, a neighbour gives a hardware address as
\* its own, and an IP packet has a header, with a length.
ASSUME LoadsAssumption ==
    \A l \in Loads :
        /\ l = [frames |-> l.frames, dups |-> l.dups, sends |-> l.sends,
                opens |-> l.opens, stall |-> l.stall]
        /\ \A x \in l.frames : /\ x.clen \in Nat \ {0}
                               /\ x.f.type = "arp" => x.f.shwaddr # Zero
                               /\ x.f.type = "ip" =>
                                     /\ DOMAIN x.f = {"type", "src", "dst", "id", "off", "end",
                                                      "of", "proto", "port", "sum"}
                                     /\ x.f.of \in Nat
        /\ l.sends \in Seq(ToSet(l.sends))
        /\ \A c \in ToSet(l.sends) : c.parts \in Nat

VARIABLES n, todo, told
vars == <<n, todo, told>>

-----------------------------------------------------------------------------
(* Timeouts.                                                               *)

\* A handler is armed, or the pool of timeouts is empty and the board hangs.
Arm(s, h) ==
    IF Len(s.ts) >= MEMP_NUM_SYS_TIMEOUT THEN [s EXCEPT !.hung = TRUE]
    ELSE [s EXCEPT !.ts = sys_timeout(@, h, Interval[h])]

\* The first PCB starts the timer of TCP.
tcp_timer_needed(s) ==
    IF ~s.tcp /\ s.pcbs THEN Arm([s EXCEPT !.tcp = TRUE], "tcp") ELSE s

\* Mutant: the timer stops without a reset of its flag.
TimerStopsFlagged(s, ends) == IF s.pcbs /\ ~ends THEN Arm(s, "tcp") ELSE [s EXCEPT !.pcbs = FALSE]

\* tcp_tmr may end the last connection; the timer then stops.
tcpip_tcp_timer(s, ends) ==
    IF s.pcbs /\ ~ends THEN Arm(s, "tcp") ELSE [s EXCEPT !.pcbs = FALSE, !.tcp = FALSE]
ip_reass_timer(s) == Arm(ip_reass_tmr(s), "reass")
arp_timer(s) == Arm(etharp_tmr(s), "arp")

Handle(s, h, ends) ==
    CASE h = "tcp" -> tcpip_tcp_timer(s, ends)
      [] h = "reass" -> ip_reass_timer(s)
      [] OTHER -> arp_timer(s)

sys_timeouts_init == sys_timeout(sys_timeout(<<>>, "reass", Interval["reass"]), "arp", Interval["arp"])

\* The loop of sys_check_timeouts: diff is the time not yet accounted for.
\* What is left of it at the end is forgotten.  No handler runs twice at the
\* same time.
RunFirst(r) ==
    IF r.n.ts # <<>> /\ Head(r.n.ts).time <= r.diff
    THEN [r EXCEPT !.n = Handle([r.n EXCEPT !.ts = Tail(@), !.since = 0], Head(r.n.ts).h, r.ends),
                   !.diff = @ - Head(r.n.ts).time]
    ELSE r
RunDue(s, diff, ends) ==
    Iterate(RunFirst, Cardinality(DOMAIN Interval) * (diff + 1),
            [n |-> s, diff |-> diff, ends |-> ends]).n

-----------------------------------------------------------------------------
(* Steps of the main loop.  n.wire holds the IP frames of the last one.    *)

Init ==
    /\ n = [pb |-> [i \in PBUF_POOL \cup PBUF_RAM |-> Unused],
            arp |-> [i \in ArpIndex |-> EmptyEntry], hint |-> 0, wire |-> {},
            reass |-> <<>>, count |-> 0, up |-> {}, hung |-> FALSE,
            ts |-> sys_timeouts_init, since |-> 0, pcbs |-> FALSE, tcp |-> FALSE]
    /\ todo \in Loads
    /\ told = [h \in Unicast |-> Zero]

Quiet == [n EXCEPT !.wire = {}]

\* The clock moves while the main loop is elsewhere.
Tick ==
    /\ ~n.hung /\ n.since < todo.stall
    /\ n' = [Quiet EXCEPT !.since = @ + 1]
    /\ UNCHANGED <<todo, told>>

Due == n.ts # <<>> /\ Head(n.ts).time <= n.since
sys_check_timeouts(ends) ==
    /\ ~n.hung /\ Due
    /\ n' = RunDue(Quiet, n.since, ends)
    /\ UNCHANGED <<todo, told>>

\* A frame arrives, once or, while todo.dups lasts, again.
Receive(x) ==
    /\ ~n.hung /\ x \in todo.frames
    /\ n' = ethernetif_input(Quiet, x.f, x.clen)
    /\ told' = IF x.f.type = "arp" /\ x.clen <= Cardinality(FreeIn(n.pb, PBUF_POOL))
               THEN [h \in Unicast |-> IF h = x.f.sipaddr THEN x.f.shwaddr ELSE told[h]] ELSE told
    /\ \/ todo' = [todo EXCEPT !.frames = @ \ {x}]
       \/ todo.dups > 0 /\ todo' = [todo EXCEPT !.dups = @ - 1]

\* The application sends a datagram of its own and frees it.
SendOwn(a, c) ==
    IF a.p = NULL THEN Quiet
    ELSE FreeIt(udp_sendto([Quiet EXCEPT !.pb = a.pb], a.p, c.dst, c.parts, c.room), a.p)
AppSend ==
    /\ ~n.hung /\ todo.sends # <<>>
    /\ n' = SendOwn(pbuf_alloc(n.pb, PBUF_RAM, 1, Rest), Head(todo.sends))
    /\ todo' = [todo EXCEPT !.sends = Tail(@)]
    /\ UNCHANGED told

\* It answers a datagram in the buffers it came in, or only frees them.
Answered(s, p, f) == udp_sendto(s, p, f.src, f.of, TRUE)
AppAnswer(p, answer) ==
    /\ ~n.hung /\ p \in n.up
    /\ n' = FreeIt([IF answer THEN Answered(Quiet, p, n.pb[p].data) ELSE Quiet EXCEPT !.up = @ \ {p}], p)
    /\ UNCHANGED <<todo, told>>

\* A connection is opened (TCP_REG calls tcp_timer_needed), or the last one
\* goes without the timer.
TcpOpen ==
    /\ ~n.hung /\ todo.opens > 0 /\ ~n.pcbs
    /\ n' = tcp_timer_needed([Quiet EXCEPT !.pcbs = TRUE])
    /\ todo' = [todo EXCEPT !.opens = @ - 1]
    /\ UNCHANGED told
TcpClose ==
    /\ ~n.hung /\ n.pcbs
    /\ n' = [Quiet EXCEPT !.pcbs = FALSE]
    /\ UNCHANGED <<todo, told>>

CheckTimeouts == \E ends \in BOOLEAN : sys_check_timeouts(ends)
App == \E p \in n.up, answer \in BOOLEAN : AppAnswer(p, answer)
Next ==
    \/ Tick \/ CheckTimeouts \/ App
    \/ \E x \in todo.frames : Receive(x)
    \/ AppSend \/ TcpOpen \/ TcpClose

Spec == Init /\ [][Next]_vars

\* The clock runs, the main loop comes round and the application does not
\* keep what it was handed: weak fairness, with the enabling conditions
\* spelled out.
FairSpec ==
    /\ Spec
    /\ []<>(n.hung \/ n.since >= todo.stall) \/ []<><<Tick>>_vars
    /\ []<>(n.hung \/ ~Due) \/ []<><<CheckTimeouts>>_vars
    /\ []<>(n.hung \/ n.up = {}) \/ []<><<App>>_vars

-----------------------------------------------------------------------------
(* Properties.                                                             *)

\* Every reference to a buffer is somebody's, and nobody refers to a buffer
\* that is in its pool: ARP entries, datagrams being put together, the
\* application and chains of buffers hold as many references as pbuf_ref,
\* pbuf_chain and pbuf_alloc made and pbuf_free has not taken back.
Holders(i) ==
    Cardinality({j \in ArpIndex : n.arp[j].q = i})
    + Cardinality({x \in (DOMAIN n.reass) \X (DOMAIN n.pb) :
                      x[2] \in DOMAIN n.reass[x[1]].p /\ n.reass[x[1]].p[x[2]] = i})
    + Cardinality({j \in DOMAIN n.pb : n.pb[j].ref > 0 /\ n.pb[j].next = i})
    + (IF i \in n.up THEN 1 ELSE 0)
ReferencesHeld == n.hung \/ \A i \in DOMAIN n.pb : n.pb[i].ref = Holders(i)

\* ip_reass_pbufcount counts the buffers that wait for the rest of their
\* datagram, and stays within IP_REASS_MAX_PBUFS.
Waiting ==
    UNION {ToSet(Chain(n.pb, p)) : p \in UNION {ToSet(n.reass[k].p) : k \in DOMAIN n.reass}}
ReassemblyBounded ==
    n.hung \/ /\ n.count = Cardinality(Waiting)
              /\ n.count <= IP_REASS_MAX_PBUFS
              /\ Len(n.reass) <= MEMP_NUM_REASSDATA

\* An IP frame goes to the hardware address its next hop last gave as its
\* own, however stale the cached entry, however old the queued packet and
\* however often the table was recycled; only a broadcast goes to all.
RightNeighbour ==
    \A f \in n.wire : f.to = (IF f.hop = Broadcast THEN Broadcast ELSE told[f.hop]) /\ f.to # Zero

\* Each handler is in the list of timeouts at most once; those of ARP and
\* reassembly always, the one of TCP while there are connections.
TimersArmed ==
    n.hung \/ /\ IsInjective([i \in DOMAIN n.ts |-> n.ts[i].h])
              /\ {"arp", "reass"} \subseteq {n.ts[i].h : i \in DOMAIN n.ts}
              /\ n.tcp = (\E i \in DOMAIN n.ts : n.ts[i].h = "tcp")
              /\ n.pcbs => n.tcp

\* Only the clock brings a timeout nearer: neither arming another one nor
\* running those that are due makes a handler run before its time.
Left(s, h) == Until(s.ts, SelectInSeq(s.ts, LAMBDA t : t.h = h)) - s.since
NoTimeoutHurried ==
    [][\/ n'.hung \/ (n'.ts = n.ts /\ n'.since = n.since + 1)
       \/ \A h \in {n.ts[i].h : i \in DOMAIN n.ts} \cap {n'.ts[i].h : i \in DOMAIN n'.ts} :
             Left(n', h) >= Left(n, h)]_vars

\* All buffers come back: packets that wait for an address or for the rest
\* of their datagram are sent, delivered or given up.
BuffersReturn == <>[](n.hung \/ \A i \in DOMAIN n.pb : n.pb[i].ref = 0)

\* A datagram handed to the application has all its parts, in whatever order
\* the fragments came: ip_reass_chain_frag_into_datagram_and_validate checks
\* "that the datagram passes basic continuity checks".
DatagramsWhole == \A p \in n.up : Whole(n.pb, p)
=============================================================================
