-------------------------------- MODULE Tcp ---------------------------------
(***************************************************************************)
(* Two hosts that run lwIP's TCP, one connection between them, and a       *)
(* network that loses, duplicates and reorders segments.                   *)
(*                                                                         *)
(* pcb[h] is the PCB of host h, app[h] what its application has done and   *)
(* has been told by the callbacks, net the segments in flight.  The server *)
(* has a listening PCB.  An action is one call into the stack (lwIP is     *)
(* not reentrant): the application's, a timer's, or tcp_input for one      *)
(* segment.  Time is abstract: a timer that runs may expire at any call of *)
(* tcp_slowtmr, except the ones of 2 * TCP_MSL, which pass in action Quiet. *)
(***************************************************************************)
EXTENDS TcpPcb

CONSTANTS
    Loads        \* the loads, see Init
ISSStep == 8     \* by which tcp_next_iss moves from one PCB to the next

Host == {"client", "server"}
Peer(h) == CHOOSE g \in Host : g # h

VARIABLES pcb, app, net, faults, load
vars == <<pcb, app, net, faults, load>>

\* todo, wrote: bytes still to be written, bytes written; got: the bytes the
\* recv callback has taken, unread of them not yet passed to tcp_recved; eof:
\* the callback was told of the FIN; end: how the connection ended; conns: the
\* PCBs the listening PCB has made; skipped: the sequence numbers rcv_nxt passed
\* without data.  An application accepts one connection.
NewApp(n) ==
    [todo |-> n, wrote |-> 0, got |-> <<>>, unread |-> 0, eof |-> FALSE, end |-> "open", conns |-> 0,
     skipped |-> 0]

\* A connection without data in flight, right after the handshake.
Established(l, h) ==
    LET first == l[Peer(h)].iss
    IN  [tcp_alloc(l[h].iss, l.mss) EXCEPT
            !.state = "ESTABLISHED", !.snd_wnd = TCP_WND, !.snd_wnd_max = TCP_WND,
            !.snd_wl1 = Minus(first, 1), !.ssthresh = TCP_WND, !.cwnd = Cap(2 * l.mss),
            !.rcv_nxt = first, !.rcv_ann_right_edge = Plus(first, TCP_WND)]

\* A load says how the connection starts (open: with a SYN), its mss, what
\* the two applications do, if that may break the connection, with which
\* sequence numbers it starts (iss), and bounds the segments in flight (cap)
\* and the faults.
Init ==
    \E l \in Loads :
        /\ load = l /\ faults = 0 /\ net = {}
        /\ app = [h \in Host |-> NewApp(l[h].bytes)]
        /\ pcb = [h \in Host |-> IF l.open THEN NoPcb ELSE Established(l, h)]

-----------------------------------------------------------------------------
\* The end of every call of the stack by host h: it leaves c, the PCB and the
\* application, what was sent goes to the network, bounded, without done.
Commit(h, c, done) ==
    /\ net' = (net \ done) \cup {[to |-> Peer(h), seg |-> s] : s \in c.p.out}
    /\ Cardinality(net') <= load.cap
    /\ pcb' = [pcb EXCEPT ![h] = [c.p EXCEPT !.out = {}, !.recv_data = <<>>, !.recv_flags = {},
                                             !.skipped = 0, !.acked = 0]]
    /\ app[h].end # "hung" /\ app' = [app EXCEPT ![h] = c.a]
    /\ UNCHANGED load

\* A fault: a lost or duplicated segment, a timer that expires while segments
\* are in flight.
Fault(yes) ==
    /\ yes => faults < load.faults
    /\ faults' = IF yes THEN faults + 1 ELSE faults

\* The recv callback takes the data.
Take(a, data) == [a EXCEPT !.got = @ \o data, !.unread = @ + Len(data)]

\* Mutant: the byte of the FIN is not given back to the window.
ReadFinNot(p) == p

\* The recv callback is told that the peer has closed: the FIN is read.
ReadFin(p) == [p EXCEPT !.rcv_wnd = IF @ # TCP_WND THEN @ + 1 ELSE @]

tcp_process_refused_data(p, a, ok) ==
    IF p.refused_data = <<>> \/ ~ok THEN [p |-> p, a |-> a]
    ELSE LET q == [p EXCEPT !.refused_data = <<>>, !.refused_fin = FALSE]
         IN  IF p.refused_fin THEN [p |-> ReadFin(q), a |-> [Take(a, p.refused_data) EXCEPT !.eof = TRUE]]
             ELSE [p |-> q, a |-> Take(a, p.refused_data)]

\* The application is told how its connection ended; of a PCB it has not
\* accepted it knows nothing.
Told(h, a, how) == IF pcb[h].state = "SYN_RCVD" \/ a.end # "open" THEN a ELSE [a EXCEPT !.end = how]

\* tcp_input after tcp_process: the callbacks, and the output.
AfterProcess(h, p, a, ok) ==
    LET taken == p.recv_data = <<>> \/ ok
        q == IF taken THEN p ELSE [p EXCEPT !.refused_data = p.recv_data, !.refused_fin = GotFin(p)]
        b == [(IF taken THEN Take(a, p.recv_data) ELSE a) EXCEPT !.skipped = @ + p.skipped]
        ends == p.recv_flags \cap {"ASSERT", "ABRT", "RESET", "CLOSED"}
        rejects == p.recv_data # <<>> /\ "RXCLOSED" \in p.flags
    IN  CASE "ASSERT" \in ends -> [p |-> pcb[h], a |-> [a EXCEPT !.end = "hung"]]
          [] ends = {"ABRT"} -> [p |-> Freed(p), a |-> a]
          [] ends = {"RESET"} -> [p |-> Freed(p), a |-> Told(h, a, "reset")]
          [] ends = {"CLOSED"} -> [p |-> Freed(p), a |-> Told(h, a, "closed")]
          [] ends = {} /\ rejects -> [p |-> AbortInInput(p), a |-> Told(h, a, "aborted")]
          [] ends = {} /\ ~rejects /\ GotFin(p) /\ taken ->
                [p |-> tcp_output(ReadFin(q)), a |-> [b EXCEPT !.eof = TRUE]]
          [] ends = {} /\ ~rejects /\ ~(GotFin(p) /\ taken) -> [p |-> tcp_output(q), a |-> b]

\* A segment for the listening PCB, or for no PCB at all.
NoConnection(h, p, a, s) ==
    LET made(q) == [p |-> q, a |-> IF q.state = "SYN_RCVD" THEN [a EXCEPT !.conns = @ + 1] ELSE a]
    IN  IF load.open /\ h = "server"
        THEN made(tcp_listen_input(p, s, Plus(load[h].iss, a.conns * ISSStep), load.mss))
        ELSE [p |-> IF s.rst THEN p ELSE Reply(p, s), a |-> a]

\* A segment for an active PCB, after refused data was offered again.
Active(h, c, s, ok) ==
    IF c.p.refused_data # <<>> /\ TCP_TCPLEN(s) > 0 THEN c
    ELSE AfterProcess(h, tcp_process(c.p, s, c.a.end = "open"), c.a, ok)

tcp_input(h, p, a, s, ok) ==
    CASE p.state = "CLOSED" -> NoConnection(h, p, a, s)
      [] p.state = "TIME_WAIT" -> [p |-> tcp_timewait_input(p, s), a |-> a]
      [] OTHER -> Active(h, tcp_process_refused_data(p, a, ok), s, ok)

Answers(h) == IF load[h].refuses THEN BOOLEAN ELSE {TRUE}

\* duplicated: the network keeps a copy.
Receive(m, duplicated, ok) ==
    /\ ok \in Answers(m.to) /\ Fault(duplicated)
    /\ Commit(m.to, tcp_input(m.to, pcb[m.to], app[m.to], m.seg, ok), IF duplicated THEN {} ELSE {m})

Lose(m) == Fault(TRUE) /\ net' = net \ {m} /\ UNCHANGED <<pcb, app, load>>

-----------------------------------------------------------------------------
(* The application.                                                        *)

Connect ==
    /\ Fault(FALSE)
    /\ load.open /\ pcb["client"].state = "CLOSED" /\ app["client"].end = "open" /\ app["client"].wrote = 0
    /\ Commit("client", [p |-> tcp_connect(load.client.iss, load.mss), a |-> app["client"]], {})

Write(h, n) ==
    /\ Fault(FALSE)
    /\ pcb[h].state \in {"ESTABLISHED", "CLOSE_WAIT"} /\ n <= app[h].todo
    /\ LET data == [i \in 1..n |-> app[h].wrote + i]
       IN  Commit(h, [p |-> tcp_write(pcb[h], data),
                      a |-> IF WriteFits(pcb[h], data) THEN [app[h] EXCEPT !.wrote = @ + n, !.todo = @ - n]
                            ELSE app[h]], {})

Output(h) ==
    /\ Fault(FALSE)
    /\ pcb[h].state \notin {"CLOSED", "TIME_WAIT"}
    /\ Commit(h, [p |-> tcp_output(pcb[h]), a |-> app[h]], {})

\* The application has used up what it was given.
Recved(h) ==
    /\ Fault(FALSE)
    /\ pcb[h].state \notin {"CLOSED", "TIME_WAIT"} /\ app[h].unread > 0
    /\ Commit(h, [p |-> tcp_recved(pcb[h], app[h].unread), a |-> [app[h] EXCEPT !.unread = 0]], {})

MayEnd(h) ==
    /\ pcb[h].state \in {"SYN_SENT", "ESTABLISHED", "CLOSE_WAIT"} /\ app[h].end = "open"
    /\ load[h].when = "any" \/ app[h].todo = 0
    /\ load[h].when = "eof" => app[h].eof

Closed(h, p) ==
    [p |-> p, a |-> IF p.state \in {"CLOSED", "TIME_WAIT"} THEN Told(h, app[h], "reset") ELSE app[h]]

Close(h) ==
    /\ Fault(FALSE)
    /\ load[h].how = "close" /\ MayEnd(h)
    /\ Commit(h, Closed(h, tcp_close(pcb[h])), {})

Shutdown(h) ==
    /\ Fault(FALSE)
    /\ load[h].how = "shutdown" /\ MayEnd(h)
    /\ Commit(h, [p |-> tcp_shutdown_tx(pcb[h]), a |-> app[h]], {})

Abort(h) ==
    /\ Fault(FALSE)
    /\ load[h].how = "abort" /\ MayEnd(h)
    /\ Commit(h, [p |-> tcp_abort(pcb[h]), a |-> Told(h, app[h], "aborted")], {})

-----------------------------------------------------------------------------
(* The timers.                                                             *)

FastTmr(h, ok) ==
    /\ Fault(FALSE)
    /\ pcb[h].state \notin {"CLOSED", "TIME_WAIT"} /\ ok \in Answers(h)
    /\ Commit(h, tcp_process_refused_data(tcp_fasttmr(pcb[h]), app[h], ok), {})

\* How a PCB ends that tcp_slowtmr removes.
Verdict(p) ==
    CASE p.state = "TIME_WAIT" -> "closed"
      [] p.state = "LAST_ACK" /\ ~GivesUp(p) -> "idle"
      [] OTHER -> "timeout"

Expired(h, p) ==
    [p |-> p, a |-> IF p.state # "CLOSED" THEN app[h] ELSE Told(h, app[h], Verdict(pcb[h]))]

SlowTmr(h, due) ==
    /\ Fault(due # {} /\ net # {})
    /\ pcb[h].state # "CLOSED"
    /\ Commit(h, Expired(h, tcp_slowtmr(pcb[h], due)), {})

\* The timers make p send nothing, or have done so almost as often as they may.
Silent(p) ==
    p.nrtx + 1 >= TCP_MAXRTX \/ (tcp_slowtmr(p, {"rexmit"}) = p /\ tcp_fasttmr(p) = p)

\* Can more than 2 * TCP_MSL have passed since tmr of host h was set?  Nothing
\* sets it once the application has closed.  Otherwise no segment may be in
\* flight (none lives longer than TCP_MSL) and no host may be about to send one.
\* Other states need no Quiet: they are left by a segment that sets tmr, or by a
\* close that lets time pass later on.
CanBeQuiet(h) ==
    /\ pcb[h].state \in {"CLOSE_WAIT", "LAST_ACK", "TIME_WAIT"} /\ ~pcb[h].stale
    /\ "RXCLOSED" \in pcb[h].flags \/ (net = {} /\ \A g \in Host : Silent(pcb[g]))

\* Time passes.
Quiet(h) ==
    /\ CanBeQuiet(h)
    /\ pcb' = [pcb EXCEPT ![h].stale = TRUE]
    /\ UNCHANGED <<app, net, faults, load>>

-----------------------------------------------------------------------------
Timers == {{}, {"rexmit"}, {"ooseq"}, {"idle"}}

Next ==
    \/ Connect
    \/ \E h \in Host : \/ \E n \in 1..2 : Write(h, n)
                       \/ Output(h) \/ Recved(h) \/ Close(h) \/ Shutdown(h) \/ Abort(h)
                       \/ \E ok \in BOOLEAN : FastTmr(h, ok)
                       \/ \E due \in Timers : SlowTmr(h, due)
                       \/ Quiet(h)
    \/ \E m \in net : \/ Lose(m)
                      \/ \E duplicated, ok \in BOOLEAN : Receive(m, duplicated, ok)

Spec == Init /\ [][Next]_vars

\* tcp_tmr is called from the main loop for ever, the network delivers what
\* it does not lose (the faults are bounded), the applications go on, and one
\* that refuses data takes it in the end.  Each conjunct is weak fairness
\* written out, with when the action changes something and what it does: TLC's
\* ENABLED does not remember the values of arguments, and takes too long for
\* actions built from operators as deep as these.
Delivers(h) ==
    []<>(\A m \in net : m.to # h) \/ []<><<faults' = faults /\ \E m \in net \ net' : m.to = h>>_vars

FastTmrRuns(h) ==
    LET due == "ACK_DELAY" \in pcb[h].flags \/ pcb[h].refused_data # <<>>
    IN  []<>~due \/ []<><<due /\ FastTmr(h, TRUE)>>_vars

SlowTmrRuns(h, timer) ==
    LET due == /\ net = {} /\ pcb[h].state # "CLOSED"
               /\ tcp_slowtmr(pcb[h], {timer}) # pcb[h]
    IN  []<>~due \/ []<><<net = {} /\ SlowTmr(h, {timer})>>_vars

TimePasses(h) == []<>~CanBeQuiet(h) \/ []<><<Quiet(h)>>_vars

Writes(h) ==
    \/ []<>(pcb[h].state \notin {"ESTABLISHED", "CLOSE_WAIT"} \/ app[h].todo = 0 \/ pcb[h].snd_buf = 0)
    \/ []<><<app'[h].wrote > app[h].wrote>>_vars

Reads(h) ==
    \/ []<>(pcb[h].state \in {"CLOSED", "TIME_WAIT"} \/ app[h].unread = 0)
    \/ []<><<app'[h].unread < app[h].unread>>_vars

Ends(h) ==
    []<>~MayEnd(h) \/ []<><<MayEnd(h) /\ (Close(h) \/ Shutdown(h) \/ Abort(h))>>_vars

Fairness ==
    \A h \in Host :
        /\ Delivers(h) /\ FastTmrRuns(h) /\ SlowTmrRuns(h, "rexmit") /\ SlowTmrRuns(h, "idle")
        /\ TimePasses(h) /\ Writes(h) /\ Reads(h) /\ Ends(h)
FairSpec == Spec /\ Fairness

-----------------------------------------------------------------------------
(* Properties.                                                             *)

Synchronized == {"ESTABLISHED", "FIN_WAIT_1", "FIN_WAIT_2", "CLOSE_WAIT", "CLOSING", "LAST_ACK"}

\* Both PCBs belong to the connection.
Connected == \A h \in Host : pcb[h].state \in Synchronized

Increasing(s, n) ==
    \A i \in 1..Len(s) : s[i] \in 1..n /\ (i > 1 => s[i - 1] < s[i])

\* The bytes an application receives are ones the other one has written, in
\* order, each once, whatever the network does (tcp_receive, tcp_input).  None
\* is left out, and the end of the stream is told after the last of them, but
\* in a connection whose rcv_nxt has skipped some (TrimLast).
StreamIntegrity ==
    \A h \in Host :
        /\ Increasing(app[h].got, app[Peer(h)].wrote)
        /\ app[h].skipped = 0 =>
              /\ \A i \in 1..Len(app[h].got) : app[h].got[i] = i
              /\ app[h].eof => Len(app[h].got) = app[Peer(h)].wrote

\* All segments that wait for an acknowledgment, in order.
SendQueue(p) == FoldLeft(InsertBySeq, p.unacked, p.unsent)

\* Between the last acknowledgment and the last byte written every sequence
\* number is in exactly one segment of unsent or unacked: retransmissions,
\* partial acknowledgments and late ones lose nothing and queue nothing twice.
\* (A peer that has skipped data acknowledges what was never sent, with a window
\* that has shrunk: then a FIN may go with a segment in the middle.)
SendQueueComplete ==
    \A h \in Host :
        LET p == pcb[h]
            q == SendQueue(p)
        IN  p.state \in Synchronized /\ app[Peer(h)].skipped = 0 =>
              /\ \A i \in 1..(Len(q) - 1) : SeqEnd(q[i]) = q[i + 1].seq /\ ~q[i].fin
              /\ q = <<>> => p.lastack \in {p.snd_lbb, Plus(p.snd_lbb, 1)}
              /\ q # <<>> => /\ Minus(p.lastack, q[1].seq) < TCP_TCPLEN(q[1])
                             /\ SeqEnd(Last(q)) \in {p.snd_lbb, Plus(p.snd_lbb, 1)}

\* The sequence number of the first byte host h sends.
FirstByte(h) ==
    IF load.open /\ h = "server" THEN Plus(load[h].iss, (app[h].conns - 1) * ISSStep + 1) ELSE load[h].iss

\* The sequence numbers host h has taken in: of the bytes given to the
\* application or kept in refused_data, and of the FIN.
Received(h) ==
    Len(app[h].got) + Len(pcb[h].refused_data) + (IF app[h].eof \/ pcb[h].refused_fin THEN 1 ELSE 0)

\* An acknowledgment is earned: rcv_nxt stands behind exactly what was received,
\* and the sender has freed nothing beyond it.  The code does skip sequence
\* numbers it never received (TrimLast), but only up to an edge of the window
\* that has wrapped.
AcksAreEarned ==
    Connected => \A h \in Host :
        /\ TCP_SEQ_LEQ(pcb[Peer(h)].lastack, pcb[h].rcv_nxt)
        /\ Minus(pcb[h].rcv_nxt, FirstByte(Peer(h))) = Received(h) + app[h].skipped
        /\ app[h].skipped > 0 => pcb[h].rcv_nxt < FirstByte(Peer(h))

\* The receive window is what the application has not been given or has not
\* yet returned with tcp_recved; the FIN is returned by the stack, what rcv_nxt
\* skipped never.
WindowAccounted ==
    \A h \in Host :
        LET p == pcb[h]
        IN  p.state \in Synchronized =>
              p.rcv_wnd + app[h].unread + Len(p.refused_data) + (IF p.refused_fin THEN 1 ELSE 0)
                + app[h].skipped = TCP_WND

\* The out-of-sequence queue is ordered, without overlaps and behind a gap;
\* nothing is queued behind a FIN.
OoseqOrdered ==
    \A h \in Host :
        LET p == pcb[h]
            q == p.ooseq
        IN  \A i \in 1..Len(q) :
              /\ TCP_SEQ_GT(q[i].seq, p.rcv_nxt) /\ TCP_TCPLEN(q[i]) > 0
              /\ i < Len(q) => TCP_SEQ_LEQ(SeqEnd(q[i]), q[i + 1].seq) /\ ~q[i].fin

\* The announced right edge of the receive window never moves to the left.
EdgeNeverRetreats ==
    [][\A h \in Host : pcb[h].state \in Synchronized /\ pcb'[h].state \in Synchronized =>
          TCP_SEQ_GEQ(pcb'[h].rcv_ann_right_edge, pcb[h].rcv_ann_right_edge)]_vars

\* No assertion of tcp_receive about the out-of-sequence queue fails.
AssertionsHold == \A h \in Host : app[h].end # "hung"

\* The code has a stall: a sender with nothing in flight and a window that is
\* open, but too small for its next segment, has no timer running (tcp_slowtmr
\* probes only a window of 0), and waits for ever if the update that opens the
\* window is lost.
Stalled(p) ==
    p.unacked = <<>> /\ p.unsent # <<>> /\ ~p.persist /\ p.snd_wnd < Len(Head(p.unsent).data)

Broken ==
    \E h \in Host : \/ app[h].end \in {"reset", "timeout", "idle", "aborted", "hung"}
                    \/ Stalled(pcb[h]) \/ app[h].skipped > 0

\* What an application writes arrives, over losses and closed windows.  A
\* connection may break only in loads that say so (breaks): the listening side
\* gives up on a PCB in SYN_RCVD, an application aborts or refuses data, the
\* sender stalls, or rcv_nxt skips data.  In every load the sender may be
\* removed in LAST_ACK, with data in flight, when nothing came for 2 * TCP_MSL
\* before (tcp_slowtmr).
AllDelivered ==
    \A h \in Host :
        (pcb[h].state = "ESTABLISHED") ~>
            \/ Len(app[Peer(h)].got) = load[h].bytes
            \/ app[h].end = "idle" \/ (load.breaks /\ Broken)

\* A PCB does not stay for ever: it reaches TIME_WAIT or is freed.  (Without
\* keepalives, the peer of a connection that broke may stay.)
ConnectionEnds ==
    \A h \in Host : (pcb[h].state # "CLOSED") ~> (pcb[h].state \in {"TIME_WAIT", "CLOSED"} \/ Broken)
=============================================================================
