------------------------------- MODULE TcpPcb -------------------------------
(***************************************************************************)
(* lwIP 1.4.1 core/tcp.c, tcp_in.c and tcp_out.c: what the functions do to *)
(* one protocol control block (PCB), as operators on records.              *)
(*                                                                         *)
(* The PCB p holds the fields of struct tcp_pcb that decide something.     *)
(* Data is a sequence of bytes, a queued segment is [seq, data, syn, fin], *)
(* and sequence numbers are integers modulo SeqSpace, compared by their    *)
(* signed difference as TCP_SEQ_LT does.  Of the timers p keeps whether    *)
(* they run: rtime (rtime >= 0) and persist (persist_backoff > 0), and of  *)
(* tmr whether more than 2 * TCP_MSL have passed since it was set (stale). *)
(* out, recv_data and recv_flags are what the current call has sent and    *)
(* received: the statics of tcp_in.c and the calls of ip_output.  skipped  *)
(* is not in the code: it counts what rcv_nxt passed without data.         *)
(***************************************************************************)
EXTENDS Integers, Sequences, FiniteSets, SequencesExt

CONSTANTS
    TCP_WND, TCP_SND_BUF,
    TCP_MAXRTX, TCP_SYNMAXRTX,
    SeqSpace                     \* sequence numbers wrap here (2^32 in the code)

ASSUME TcpAssumption ==
    /\ {TCP_WND, TCP_SND_BUF, TCP_MAXRTX, TCP_SYNMAXRTX, SeqSpace} \subseteq Nat \ {0}
    /\ 4 * TCP_WND < SeqSpace /\ SeqSpace % 2 = 0

Plus(a, n) == (a + n) % SeqSpace
Minus(a, b) == (a - b) % SeqSpace

TCP_SEQ_LT(a, b) == Minus(a, b) >= SeqSpace \div 2
TCP_SEQ_LEQ(a, b) == a = b \/ TCP_SEQ_LT(a, b)
TCP_SEQ_GEQ(a, b) == ~TCP_SEQ_LT(a, b)
TCP_SEQ_GT(a, b) == a # b /\ ~TCP_SEQ_LT(a, b)
TCP_SEQ_BETWEEN(a, b, c) == TCP_SEQ_GEQ(a, b) /\ TCP_SEQ_LEQ(a, c)

Least(a, b) == IF a < b THEN a ELSE b

\* Windows above TCP_WND make no difference: tcp_output takes the smaller of
\* cwnd and snd_wnd, and no peer announces more than TCP_WND.
Cap(n) == Least(n, TCP_WND)

TCP_TCPLEN(s) == Len(s.data) + (IF s.syn \/ s.fin THEN 1 ELSE 0)
SeqEnd(s) == Plus(s.seq, TCP_TCPLEN(s))

\* The order of enum tcp_state that "pcb->state < CLOSE_WAIT" relies on.
BeforeCloseWait == {"CLOSED", "LISTEN", "SYN_SENT", "SYN_RCVD", "ESTABLISHED", "FIN_WAIT_1", "FIN_WAIT_2"}

\* No PCB: it was freed, or never allocated.
NoPcb ==
    [state |-> "CLOSED", flags |-> {}, mss |-> 0, snd_nxt |-> 0, lastack |-> 0, snd_lbb |-> 0,
     snd_wnd |-> 0, snd_wnd_max |-> 0, snd_wl1 |-> 0, snd_wl2 |-> 0, snd_buf |-> 0,
     unsent |-> <<>>, unacked |-> <<>>, cwnd |-> 0, ssthresh |-> 0, dupacks |-> 0,
     nrtx |-> 0, rtime |-> FALSE, persist |-> FALSE, acked |-> 0,
     rcv_nxt |-> 0, rcv_wnd |-> 0, rcv_ann_wnd |-> 0, rcv_ann_right_edge |-> 0,
     ooseq |-> <<>>, refused_data |-> <<>>, refused_fin |-> FALSE, stale |-> FALSE,
     out |-> {}, recv_data |-> <<>>, recv_flags |-> {}, skipped |-> 0]

tcp_alloc(iss, mss) ==
    [NoPcb EXCEPT !.mss = mss, !.snd_buf = TCP_SND_BUF, !.rcv_wnd = TCP_WND, !.rcv_ann_wnd = TCP_WND,
                  !.cwnd = 1, !.snd_wl2 = iss, !.snd_nxt = iss, !.lastack = iss, !.snd_lbb = iss]

Set(p, fs) == [p EXCEPT !.flags = @ \cup fs]
Clear(p, fs) == [p EXCEPT !.flags = @ \ fs]

tcp_ack(p) ==
    IF "ACK_DELAY" \in p.flags THEN Set(Clear(p, {"ACK_DELAY"}), {"ACK_NOW"})
    ELSE Set(p, {"ACK_DELAY"})

tcp_ack_now(p) == Set(p, {"ACK_NOW"})

-----------------------------------------------------------------------------
(* Output.                                                                 *)

\* A segment on the wire.
Segment(seq, data, syn, fin, rst, isAck, ackno, wnd) ==
    [seq |-> seq, data |-> data, syn |-> syn, fin |-> fin, rst |-> rst,
     isAck |-> isAck, ackno |-> ackno, wnd |-> wnd]

\* Every segment of a PCB announces the receive window.
Emit(p, s, isAck) ==
    [p EXCEPT !.out = @ \cup {Segment(s.seq, s.data, s.syn, s.fin, FALSE, isAck,
                                      p.rcv_nxt, p.rcv_ann_wnd)},
              !.rcv_ann_right_edge = Plus(p.rcv_nxt, p.rcv_ann_wnd)]

tcp_output_alloc_header(p, seq, data, fin) ==
    Emit(p, [seq |-> seq, data |-> data, syn |-> FALSE, fin |-> fin], TRUE)

tcp_rst(seqno, ackno) == Segment(seqno, <<>>, FALSE, FALSE, TRUE, TRUE, ackno, TCP_WND)

tcp_send_empty_ack(p) ==
    Clear(tcp_output_alloc_header(p, p.snd_nxt, <<>>, FALSE), {"ACK_DELAY", "ACK_NOW"})

\* One byte of the oldest segment, or its FIN; snd_nxt does not move.
tcp_zero_window_probe(p) ==
    LET q == p.unacked \o p.unsent
        s == Head(q)
    IN  IF q = <<>> THEN p
        ELSE IF s.fin /\ s.data = <<>> THEN tcp_output_alloc_header(p, s.seq, <<>>, TRUE)
        ELSE tcp_output_alloc_header(p, s.seq, SubSeq(s.data, 1, 1), FALSE)

\* May the segment at the head of unsent be sent before the others are
\* acknowledged?
tcp_do_output_nagle(p) ==
    \/ p.unacked = <<>>
    \/ "INFR" \in p.flags
    \/ Len(p.unsent) > 1
    \/ Len(Head(p.unsent).data) >= p.mss
    \/ p.snd_buf = 0

InWindow(p) ==
    Plus(Minus(Head(p.unsent).seq, p.lastack), Len(Head(p.unsent).data))
        <= Least(p.snd_wnd, p.cwnd)

InsertBySeq(q, s) ==
    SelectSeq(q, LAMBDA u : TCP_SEQ_LT(u.seq, s.seq)) \o <<s>>
        \o SelectSeq(q, LAMBDA u : ~TCP_SEQ_LT(u.seq, s.seq))

\* One round of the loop of tcp_output, with tcp_output_segment.
SendFirst(p) ==
    LET s == Head(p.unsent)
        synSent == p.state = "SYN_SENT"
        e == Emit(IF synSent THEN p ELSE Clear(p, {"ACK_DELAY", "ACK_NOW"}), s, ~synSent)
    IN  [e EXCEPT !.unsent = Tail(@), !.unacked = InsertBySeq(@, s), !.rtime = TRUE,
                  !.snd_nxt = IF TCP_SEQ_LT(@, SeqEnd(s)) THEN SeqEnd(s) ELSE @]

tcp_output(p) ==
    IF "ACK_NOW" \in p.flags /\ (p.unsent = <<>> \/ ~InWindow(p))
    THEN tcp_send_empty_ack(p)
    ELSE LET round(q, i) ==
                 IF /\ q.unsent # <<>> /\ InWindow(q)
                    /\ tcp_do_output_nagle(q) \/ q.flags \cap {"NAGLEMEMERR", "FIN"} # {}
                 THEN SendFirst(q) ELSE q
         IN  Clear(FoldLeft(round, p, p.unsent), {"NAGLEMEMERR"})

tcp_enqueue_flags(p, syn, fin) ==
    LET s == [seq |-> p.snd_lbb, data |-> <<>>, syn |-> syn, fin |-> fin]
        q == [p EXCEPT !.unsent = Append(@, s), !.snd_lbb = Plus(@, 1), !.snd_buf = @ - 1]
    IN  IF fin THEN Set(q, {"FIN"}) ELSE q

\* The FIN goes with the last unsent segment if there is one.
tcp_send_fin(p) ==
    LET n == Len(p.unsent)
    IN  IF n > 0 /\ ~p.unsent[n].syn /\ ~p.unsent[n].fin
        THEN Set([p EXCEPT !.unsent[n].fin = TRUE], {"FIN"})
        ELSE tcp_enqueue_flags(p, FALSE, TRUE)

\* The conditions under which tcp_enqueue_flags and so tcp_send_fin succeed.
FinFits(p) == p.snd_buf > 0 \/ (p.unsent # <<>> /\ ~Last(p.unsent).syn)

\* Segments are no longer than half the largest window the peer announced.
mss_local(p) == Least(p.mss, p.snd_wnd_max \div 2)

\* data cut into segments of at most n bytes.
Cut(seq, data, n) ==
    [i \in 1..((Len(data) + n - 1) \div n) |->
        [seq |-> Plus(seq, (i - 1) * n), data |-> SubSeq(data, (i - 1) * n + 1, Least(i * n, Len(data))),
         syn |-> FALSE, fin |-> FALSE]]

\* tcp_write_checks, and the memory tcp_write runs out of when mss_local is 0.
WriteFits(p, data) == Len(data) <= p.snd_buf /\ mss_local(p) > 0

\* Bytes of data that go into the last unsent segment.
Space(p, data) ==
    IF p.unsent = <<>> \/ Last(p.unsent).data = <<>> THEN 0
    ELSE Least(mss_local(p) - Len(Last(p.unsent).data), Len(data))

Enqueue(p, data, space) ==
    [p EXCEPT
        !.unsent = (IF space = 0 THEN @ ELSE [@ EXCEPT ![Len(@)].data = @ \o SubSeq(data, 1, space)])
                       \o Cut(Plus(p.snd_lbb, space), SubSeq(data, space + 1, Len(data)), mss_local(p)),
        !.snd_lbb = Plus(@, Len(data)), !.snd_buf = @ - Len(data)]

tcp_write(p, data) ==
    IF WriteFits(p, data) THEN Enqueue(p, data, Space(p, data)) ELSE Set(p, {"NAGLEMEMERR"})

-----------------------------------------------------------------------------
(* Retransmission.                                                         *)

\* Mutant: what was not sent yet is lost.
RexmitRtoOnlyUnacked(p) ==
    IF p.unacked = <<>> THEN p
    ELSE tcp_output([p EXCEPT !.unsent = p.unacked, !.unacked = <<>>, !.nrtx = @ + 1])

tcp_rexmit_rto(p) ==
    IF p.unacked = <<>> THEN p
    ELSE tcp_output([p EXCEPT !.unsent = p.unacked \o p.unsent, !.unacked = <<>>, !.nrtx = @ + 1])

tcp_rexmit(p) ==
    IF p.unacked = <<>> THEN p
    ELSE [p EXCEPT !.unsent = InsertBySeq(@, Head(p.unacked)), !.unacked = Tail(@), !.nrtx = @ + 1]

\* Half of the smaller window, but two segments at least.
Ssthresh(p) ==
    LET half == Least(p.cwnd, p.snd_wnd) \div 2
    IN  Cap(IF half < 2 * p.mss THEN 2 * p.mss ELSE half)

tcp_rexmit_fast(p) ==
    LET enter(q) == Set([q EXCEPT !.ssthresh = Ssthresh(q), !.cwnd = Cap(Ssthresh(q) + 3 * p.mss)], {"INFR"})
    IN  IF p.unacked = <<>> \/ "INFR" \in p.flags THEN p ELSE enter(tcp_rexmit(p))

-----------------------------------------------------------------------------
(* The receive window.                                                     *)

\* The announced edge moves by steps that are worth a segment.
WindowGain(p) == Minus(Plus(p.rcv_nxt, p.rcv_wnd), p.rcv_ann_right_edge)
WorthAnnouncing(p) ==
    TCP_SEQ_GEQ(Plus(p.rcv_nxt, p.rcv_wnd),
                Plus(p.rcv_ann_right_edge, Least(TCP_WND \div 2, p.mss)))

\* Mutant: nothing is announced until it is worth it.
AnnounceNothing(p) == [p EXCEPT !.rcv_ann_wnd = IF WorthAnnouncing(p) THEN p.rcv_wnd ELSE 0]

tcp_update_rcv_ann_wnd(p) ==
    [p EXCEPT !.rcv_ann_wnd =
        IF WorthAnnouncing(p) THEN p.rcv_wnd
        ELSE IF TCP_SEQ_GT(p.rcv_nxt, p.rcv_ann_right_edge) THEN 0
        ELSE Minus(p.rcv_ann_right_edge, p.rcv_nxt)]

TCP_WND_UPDATE_THRESHOLD == TCP_WND \div 4

AnnounceWindow(p, q) ==
    IF WorthAnnouncing(p) /\ WindowGain(p) >= TCP_WND_UPDATE_THRESHOLD
    THEN tcp_output(tcp_ack_now(q)) ELSE q

GrowWindow(p) == AnnounceWindow(p, tcp_update_rcv_ann_wnd(p))
tcp_recved(p, len) == GrowWindow([p EXCEPT !.rcv_wnd = Least(@ + len, TCP_WND)])

-----------------------------------------------------------------------------
(* tcp_receive: the acknowledgment.                                        *)

UpdatesWindow(p, m) ==
    \/ TCP_SEQ_LT(p.snd_wl1, m.seq)
    \/ p.snd_wl1 = m.seq /\ TCP_SEQ_LT(p.snd_wl2, m.ackno)
    \/ p.snd_wl2 = m.ackno /\ m.wnd > p.snd_wnd

\* A window of 0 starts the persist timer, another one stops it.
WindowUpdate(p, m) ==
    IF ~UpdatesWindow(p, m) THEN p
    ELSE [p EXCEPT !.snd_wnd = m.wnd, !.snd_wl1 = m.seq, !.snd_wl2 = m.ackno,
                   !.snd_wnd_max = IF @ < m.wnd THEN m.wnd ELSE @, !.persist = m.wnd = 0]

\* Is the segment a duplicate acknowledgment?  right is the edge of the send
\* window before the update.
IsDupAck(p, m, right) ==
    /\ TCP_TCPLEN(m) = 0
    /\ Plus(p.snd_wl2, p.snd_wnd) = right
    /\ p.rtime
    /\ p.lastack = m.ackno

\* More than 3 duplicates are counted as 4.
OldAck(p, m, right) ==
    LET n == Least(p.dupacks + 1, 4)
        q == [p EXCEPT !.acked = 0, !.dupacks = n]
    IN  IF ~IsDupAck(p, m, right) THEN [p EXCEPT !.acked = 0, !.dupacks = 0]
        ELSE IF n > 3 THEN [q EXCEPT !.cwnd = Cap(@ + p.mss)]
        ELSE IF n = 3 THEN tcp_rexmit_fast(q)
        ELSE q

\* Queue q without the segments at its front that ackno covers, and the byte
\* count acked without the FIN among them.
DropAcked(q, acked, ackno) ==
    LET covered(s) == TCP_SEQ_LEQ(SeqEnd(s), ackno)
        step(a, s) == IF a.rest # <<>> \/ ~covered(s) THEN [a EXCEPT !.rest = Append(@, s)]
                      ELSE [a EXCEPT !.acked = IF @ # 0 /\ s.fin THEN @ - 1 ELSE @]
    IN  FoldLeft(step, [rest |-> <<>>, acked |-> acked], q)

Grown(p, cwnd) ==
    Cap(IF cwnd < p.ssthresh THEN cwnd + p.mss ELSE cwnd + (p.mss * p.mss) \div cwnd)

\* Mutant: any acknowledgment stops the retransmission timer.
AcknowledgedStop(p, ackno, n, d) ==
    [Clear(p, {"INFR"}) EXCEPT
        !.cwnd = Grown(p, IF "INFR" \in p.flags THEN p.ssthresh ELSE @), !.nrtx = 0, !.dupacks = 0,
        !.lastack = ackno, !.snd_buf = @ + n, !.acked = d.acked, !.unacked = d.rest, !.rtime = FALSE]

\* n bytes are acknowledged; d is what DropAcked leaves of unacked.
Acknowledged(p, ackno, n, d) ==
    [Clear(p, {"INFR"}) EXCEPT
        !.cwnd = Grown(p, IF "INFR" \in p.flags THEN p.ssthresh ELSE @), !.nrtx = 0, !.dupacks = 0,
        !.lastack = ackno, !.snd_buf = @ + n, !.acked = d.acked, !.unacked = d.rest,
        !.rtime = d.rest # <<>>]

NewAck(p, m, n) == Acknowledged(p, m.ackno, n, DropAcked(p.unacked, n, m.ackno))

\* Segments that wait for a retransmission may have been acknowledged.
DropUnsent(p, m, d) ==
    IF TCP_SEQ_GT(m.ackno, p.snd_nxt) THEN p ELSE [p EXCEPT !.unsent = d.rest, !.acked = d.acked]
CleanUnsent(p, m) == DropUnsent(p, m, DropAcked(p.unsent, p.acked, m.ackno))

\* right: the edge of the send window before the update of the window.
Acknowledge(p, m, right) ==
    CASE TCP_SEQ_LEQ(m.ackno, p.lastack) -> OldAck(p, m, right)
      [] TCP_SEQ_BETWEEN(m.ackno, Plus(p.lastack, 1), p.snd_nxt) -> NewAck(p, m, Minus(m.ackno, p.lastack))
      [] OTHER -> [p EXCEPT !.acked = 0]

AckReceived(p, m) == CleanUnsent(Acknowledge(WindowUpdate(p, m), m, Plus(p.snd_wnd, p.snd_wl2)), m)

-----------------------------------------------------------------------------
(* tcp_receive: the data.                                                  *)

Shorten(s, len) == [s EXCEPT !.data = SubSeq(@, 1, len)]

\* Mutant: the segment is moved but not cut.
TrimFrontOnlySeq(p, m) ==
    IF TCP_SEQ_BETWEEN(p.rcv_nxt, Plus(m.seq, 1), Plus(m.seq, TCP_TCPLEN(m) - 1))
    THEN [m EXCEPT !.seq = p.rcv_nxt] ELSE m

\* The part of m that was received before is cut off.
TrimFront(p, m) ==
    IF TCP_SEQ_BETWEEN(p.rcv_nxt, Plus(m.seq, 1), Plus(m.seq, TCP_TCPLEN(m) - 1))
    THEN [m EXCEPT !.data = SubSeq(@, Minus(p.rcv_nxt, m.seq) + 1, Len(@)), !.seq = p.rcv_nxt]
    ELSE m

\* What does not fit into the window is cut off, the FIN first.
TrimToWindow(p, m) ==
    IF TCP_TCPLEN(m) > p.rcv_wnd THEN [Shorten(m, p.rcv_wnd) EXCEPT !.fin = FALSE] ELSE m

\* Segments at the front of q that s covers are dropped, s takes over their
\* FIN and is cut where the next one begins.
Absorb(s, q) ==
    LET step(a, u) == IF a.rest = <<>> /\ TCP_SEQ_GEQ(SeqEnd(a.s), Plus(u.seq, Len(u.data)))
                      THEN [a EXCEPT !.s.fin = @ \/ u.fin]
                      ELSE [a EXCEPT !.rest = Append(@, u)]
        yield(a) == IF a.rest # <<>> /\ TCP_SEQ_GT(SeqEnd(a.s), Head(a.rest).seq)
                    THEN [a EXCEPT !.s = Shorten(@, Minus(Head(a.rest).seq, s.seq))]
                    ELSE a
    IN  yield(FoldLeft(step, [s |-> s, rest |-> <<>>], q))

\* The length of a queued segment may be larger than its data (TrimLast): what
\* is not there is Missing, a value no byte has.
Missing == 0
Present(s) == SelectSeq(s.data, LAMBDA b : b # Missing)

\* Mutant: every segment is taken to end with a FIN.
AcceptOneMore(p, s) ==
    tcp_update_rcv_ann_wnd(
        [p EXCEPT !.rcv_nxt = Plus(@, Len(s.data) + 1), !.rcv_wnd = @ - TCP_TCPLEN(s),
                  !.recv_data = @ \o Present(s), !.skipped = @ + Len(s.data) - Len(Present(s)),
                  !.recv_flags = IF s.fin THEN @ \cup {"GOT_FIN"} ELSE @])

\* s has arrived in sequence: rcv_nxt moves behind it.
Accept(p, s) ==
    tcp_update_rcv_ann_wnd(
        [p EXCEPT !.rcv_nxt = Plus(@, TCP_TCPLEN(s)), !.rcv_wnd = @ - TCP_TCPLEN(s),
                  !.recv_data = @ \o Present(s), !.skipped = @ + Len(s.data) - Len(Present(s)),
                  !.recv_flags = IF s.fin THEN @ \cup {"GOT_FIN"} ELSE @])

\* LWIP_ASSERT("tcp_receive: ooseq tcplen > rcv_wnd"); a failed assertion
\* stops the host (LWIP_PLATFORM_ASSERT of arch/cc.h loops for ever).
OoseqFits(p) ==
    IF TCP_TCPLEN(Head(p.ooseq)) > p.rcv_wnd THEN [p EXCEPT !.recv_flags = @ \cup {"ASSERT"}] ELSE p

\* An in-sequence FIN makes the out-of-sequence queue useless; otherwise the
\* queue is merged, and what has become in sequence is taken from it.
TakeQueued(p, u) ==
    IF p.ooseq = <<>> \/ Head(p.ooseq).seq # p.rcv_nxt THEN p
    ELSE [Accept(OoseqFits(p), Head(p.ooseq)) EXCEPT
             !.ooseq = Tail(@),
             !.state = IF Head(p.ooseq).fin /\ @ = "ESTABLISHED" THEN "CLOSE_WAIT" ELSE @]

AcceptAll(p, a) == tcp_ack(FoldLeft(TakeQueued, [Accept(p, a.s) EXCEPT !.ooseq = a.rest], a.rest))
InSequence(p, s) == AcceptAll(p, IF s.fin THEN [s |-> s, rest |-> <<>>] ELSE Absorb(s, p.ooseq))

\* s with the queue q behind it.
tcp_oos_insert_segment(s, q) ==
    LET seq(a) == <<a.s>> \o a.rest
    IN  IF s.fin THEN <<s>> ELSE seq(Absorb(s, q))

\* A queued segment u gives way where s begins.
GiveWay(u, s) ==
    IF TCP_SEQ_GT(Plus(u.seq, Len(u.data)), s.seq) THEN Shorten(u, Minus(s.seq, u.seq)) ELSE u

\* The length of s becomes len; pbuf_realloc shrinks the data, it does not grow it.
Resized(s, len) ==
    [s EXCEPT !.data = [i \in 1..len |-> IF i <= Len(s.data) THEN s.data[i] ELSE Missing], !.fin = FALSE]

\* A segment behind all others ends at the end of the window if it would end
\* beyond it.  The code compares the two as numbers, not with TCP_SEQ_GT: where
\* only the edge of the window has wrapped, a segment that fits is resized too,
\* and where only the end of the segment has, one that does not fit is kept.
TrimLast(p, s) ==
    LET edge == Plus(p.rcv_nxt, p.rcv_wnd)
    IN  IF SeqEnd(s) > edge THEN Resized(s, Minus(edge, s.seq)) ELSE s

\* Mutant: segments are queued in the order of arrival.
QueueAtEnd(p, m) ==
    Append(p.ooseq, TrimLast(p, [seq |-> m.seq, data |-> m.data, syn |-> m.syn, fin |-> m.fin]))

\* Where m goes in the out-of-sequence queue: the queue is in the order of
\* sequence numbers, i is the first segment that does not begin before m.
QueueOutOfSequence(p, m) ==
    LET q == p.ooseq
        s == [seq |-> m.seq, data |-> m.data, syn |-> m.syn, fin |-> m.fin]
        n == Len(q)
        i == 1 + Len(SelectSeq(q, LAMBDA u : TCP_SEQ_LT(u.seq, s.seq)))
        before == SubSeq(q, 1, i - 1)
        give == IF i = 1 THEN <<>> ELSE [before EXCEPT ![i - 1] = GiveWay(@, s)]
        rest == SubSeq(q, i, n)
    IN  CASE q = <<>> -> <<s>>
          [] i > n /\ n > 0 -> IF q[n].fin THEN q ELSE Append(give, TrimLast(p, s))
          [] i <= n /\ q[i].seq = s.seq ->
                IF Len(s.data) > Len(q[i].data) THEN before \o tcp_oos_insert_segment(s, rest) ELSE q
          [] OTHER -> give \o tcp_oos_insert_segment(s, rest)

InReceiveWindow(p, seq) == TCP_SEQ_BETWEEN(seq, p.rcv_nxt, Plus(p.rcv_nxt, p.rcv_wnd - 1))

Place(p, s) ==
    CASE ~InReceiveWindow(p, s.seq) -> tcp_send_empty_ack(p)
      [] s.seq = p.rcv_nxt -> InSequence(p, TrimToWindow(p, s))
      [] OTHER -> [tcp_send_empty_ack(p) EXCEPT !.ooseq = QueueOutOfSequence(p, s)]

DataReceived(p, s) == Place(IF TCP_SEQ_LT(s.seq, p.rcv_nxt) THEN tcp_ack_now(p) ELSE p, s)

\* The part of tcp_receive behind the acknowledgment.
ReceiveData(p, m) ==
    IF TCP_TCPLEN(m) > 0 /\ p.state \in BeforeCloseWait THEN DataReceived(p, TrimFront(p, m))
    ELSE IF ~InReceiveWindow(p, m.seq) THEN tcp_ack_now(p) ELSE p

tcp_receive(p, m) == ReceiveData(IF m.isAck THEN AckReceived(p, m) ELSE p, m)

-----------------------------------------------------------------------------
(* The connection.                                                         *)

\* All queues of a PCB are freed.
tcp_pcb_purge(p) ==
    [p EXCEPT !.refused_data = <<>>, !.refused_fin = FALSE, !.ooseq = <<>>,
              !.unsent = <<>>, !.unacked = <<>>, !.rtime = FALSE]

\* The memory of the PCB goes back to the pool; what was sent is on its way.
Freed(p) == [NoPcb EXCEPT !.out = p.out]

\* The PCB leaves its list; a delayed acknowledgment is sent first.
tcp_pcb_remove(p) ==
    LET q == tcp_pcb_purge(p)
    IN  IF p.state # "TIME_WAIT" /\ "ACK_DELAY" \in p.flags THEN tcp_output(tcp_ack_now(q)) ELSE q

Reply(p, m) == [p EXCEPT !.out = @ \cup {tcp_rst(m.ackno, Plus(m.seq, TCP_TCPLEN(m)))}]
Reset(p) == [p EXCEPT !.out = @ \cup {tcp_rst(p.snd_nxt, p.rcv_nxt)}]

\* tcp_abandon with a reset.  Inside of tcp_input, tcp_output does nothing for
\* the PCB the input is for, so no delayed acknowledgment is sent first.
AbortInInput(p) == Freed(IF p.state = "TIME_WAIT" THEN p ELSE Reset(p))
tcp_abort(p) == AbortInInput(tcp_pcb_remove(p))

TimeWait(p) == [tcp_pcb_purge(p) EXCEPT !.state = "TIME_WAIT"]

\* SYN_SENT: the SYN of the peer, with the acknowledgment of ours.
SynAckReceived(p, m) ==
    LET rest == Tail(p.unacked)
    IN  tcp_ack_now(
          [p EXCEPT !.state = "ESTABLISHED", !.snd_buf = @ + 1, !.rcv_nxt = Plus(m.seq, 1),
                    !.rcv_ann_right_edge = Plus(m.seq, 1), !.lastack = m.ackno,
                    !.snd_wnd = m.wnd, !.snd_wnd_max = m.wnd, !.snd_wl1 = Minus(m.seq, 1),
                    !.ssthresh = Cap(p.mss * 10),
                    !.cwnd = Cap(IF @ = 1 THEN 2 * p.mss ELSE p.mss),
                    !.unacked = rest, !.rtime = rest # <<>>,
                    !.nrtx = IF rest = <<>> THEN @ ELSE 0])

\* SYN_RCVD: the handshake is complete; m may carry data or a FIN.
HandshakeDone(p, m) ==
    [tcp_receive([p EXCEPT !.state = "ESTABLISHED"], m) EXCEPT
        !.acked = IF @ # 0 THEN @ - 1 ELSE @,
        !.cwnd = Cap(IF p.cwnd = 1 THEN 2 * p.mss ELSE p.mss)]

GotFin(p) == "GOT_FIN" \in p.recv_flags

Acceptable(p, m) ==
    IF p.state = "SYN_SENT" THEN m.ackno = p.snd_nxt
    ELSE TCP_SEQ_BETWEEN(m.seq, p.rcv_nxt, Plus(p.rcv_nxt, p.rcv_wnd))

\* The FIN of the peer has arrived, in order.
OnFin(state, p, allAcked) ==
    CASE state \in {"ESTABLISHED", "CLOSE_WAIT"} -> [tcp_ack_now(p) EXCEPT !.state = "CLOSE_WAIT"]
      [] state = "FIN_WAIT_1" /\ ~allAcked -> [tcp_ack_now(p) EXCEPT !.state = "CLOSING"]
      [] OTHER -> TimeWait(tcp_ack_now(p))

\* Mutant: a simultaneous close is never completed.
OnAllAckedNotClosing(state, p) ==
    CASE state = "FIN_WAIT_1" -> [p EXCEPT !.state = "FIN_WAIT_2"]
      [] state = "LAST_ACK" -> [p EXCEPT !.recv_flags = @ \cup {"CLOSED"}]
      [] OTHER -> p

\* All that was sent is acknowledged.
OnAllAcked(state, p) ==
    CASE state = "FIN_WAIT_1" -> [p EXCEPT !.state = "FIN_WAIT_2"]
      [] state = "CLOSING" -> TimeWait(p)
      [] state = "LAST_ACK" -> [p EXCEPT !.recv_flags = @ \cup {"CLOSED"}]
      [] OTHER -> p

\* Where the connection goes from state after tcp_receive.
Transition(state, p, allAcked) ==
    IF GotFin(p) THEN OnFin(state, p, allAcked) ELSE IF allAcked THEN OnAllAcked(state, p) ELSE p

Process(p, r, m) == Transition(p.state, r, m.isAck /\ m.ackno = r.snd_nxt)

\* The inactivity timer starts again, unless the application has closed.
Refreshed(p) == IF "RXCLOSED" \in p.flags THEN p ELSE [p EXCEPT !.stale = FALSE]

\* The state machine of an active PCB.  accepts: what the accept callback says.
ByState(p, m, accepts) ==
    CASE p.state = "SYN_SENT" ->
            IF m.isAck /\ m.syn /\ m.ackno = Plus(Head(p.unacked).seq, 1) THEN SynAckReceived(p, m)
            ELSE IF m.isAck THEN Reply(p, m) ELSE p
      [] p.state = "SYN_RCVD" ->
            IF m.isAck
            THEN IF TCP_SEQ_BETWEEN(m.ackno, Plus(p.lastack, 1), p.snd_nxt)
                 THEN IF accepts THEN Transition("ESTABLISHED", HandshakeDone(p, m), FALSE)
                      ELSE [AbortInInput(p) EXCEPT !.recv_flags = {"ABRT"}]
                 ELSE Reply(p, m)
            ELSE IF m.syn /\ m.seq = Minus(p.rcv_nxt, 1) THEN tcp_rexmit(p) ELSE p
      [] OTHER -> Process(p, tcp_receive(p, m), m)

tcp_process(p, m, accepts) ==
    IF m.rst THEN IF Acceptable(p, m) THEN [p EXCEPT !.recv_flags = {"RESET"}] ELSE p
    ELSE IF m.syn /\ p.state \notin {"SYN_SENT", "SYN_RCVD"} THEN tcp_ack_now(p)
    ELSE ByState(Refreshed(p), m, accepts)

\* Only a FIN starts the 2 * TCP_MSL of TIME_WAIT again.
tcp_timewait_input(p, m) ==
    IF m.rst THEN p
    ELSE IF m.syn /\ TCP_SEQ_BETWEEN(m.seq, p.rcv_nxt, Plus(p.rcv_nxt, p.rcv_wnd)) THEN Reply(p, m)
    ELSE IF TCP_TCPLEN(m) > 0
    THEN tcp_output(tcp_ack_now([p EXCEPT !.stale = @ /\ (m.syn \/ ~m.fin)])) ELSE p

\* A listening PCB: a SYN makes a new PCB.
tcp_listen_input(p, m, iss, mss) ==
    IF m.rst THEN p
    ELSE IF m.isAck THEN Reply(p, m)
    ELSE IF ~m.syn THEN p
    ELSE tcp_output(tcp_enqueue_flags(
            [tcp_alloc(iss, mss) EXCEPT !.state = "SYN_RCVD", !.rcv_nxt = Plus(m.seq, 1),
                                   !.rcv_ann_right_edge = Plus(m.seq, 1),
                                   !.snd_wnd = m.wnd, !.snd_wnd_max = m.wnd,
                                   !.ssthresh = m.wnd, !.snd_wl1 = Minus(m.seq, 1)], TRUE, FALSE))

tcp_connect(iss, mss) ==
    tcp_output(tcp_enqueue_flags(
        [tcp_alloc(iss, mss) EXCEPT !.state = "SYN_SENT", !.lastack = Minus(iss, 1), !.snd_lbb = Minus(iss, 1),
                               !.snd_wnd = TCP_WND, !.ssthresh = Cap(mss * 10)], TRUE, FALSE))

\* A PCB with data the application has not taken is reset.
tcp_close_shutdown(p, rst_on_unacked_data) ==
    LET next == IF p.state = "CLOSE_WAIT" THEN "LAST_ACK" ELSE "FIN_WAIT_1"
    IN  CASE /\ rst_on_unacked_data /\ p.state \in {"ESTABLISHED", "CLOSE_WAIT"}
             /\ p.refused_data # <<>> \/ p.rcv_wnd # TCP_WND ->
                IF p.state = "ESTABLISHED" THEN TimeWait(Reset(p)) ELSE Freed(Reset(p))
          [] p.state = "SYN_SENT" -> Freed(tcp_pcb_remove(p))
          [] OTHER -> IF p.state \in {"SYN_RCVD", "ESTABLISHED", "CLOSE_WAIT"} /\ FinFits(p)
                      THEN tcp_output([tcp_send_fin(p) EXCEPT !.state = next]) ELSE p

tcp_close(p) == tcp_close_shutdown(Set(p, {"RXCLOSED"}), TRUE)

\* The sending side only.
tcp_shutdown_tx(p) ==
    IF p.state \in {"SYN_RCVD", "ESTABLISHED", "CLOSE_WAIT"} THEN tcp_close_shutdown(p, FALSE) ELSE p

-----------------------------------------------------------------------------
(* The timers.                                                             *)

\* An active PCB that has been retransmitted as often as it may.
GivesUp(p) ==
    \/ p.state = "SYN_SENT" /\ p.nrtx = TCP_SYNMAXRTX
    \/ p.state # "TIME_WAIT" /\ p.nrtx = TCP_MAXRTX

\* tmr is older than the state of the PCB allows: 20 s where idle says so, and
\* 2 * TCP_MSL, counted from when tmr was set and not from when the PCB came to
\* LAST_ACK or TIME_WAIT.
TooOld(p, idle) ==
    \/ idle /\ p.state = "FIN_WAIT_2" /\ "RXCLOSED" \in p.flags
    \/ idle /\ p.state = "SYN_RCVD"
    \/ p.stale /\ p.state \in {"LAST_ACK", "TIME_WAIT"}

\* The retransmission timer, or the persist timer instead of it.
Retransmit(p) ==
    IF p.persist THEN tcp_zero_window_probe(p)
    ELSE IF p.unacked # <<>> /\ p.rtime
    THEN tcp_rexmit_rto([p EXCEPT !.ssthresh = Ssthresh(p), !.cwnd = p.mss])
    ELSE p

\* due are the timers of the PCB that have expired.
tcp_slowtmr(p, due) ==
    LET q == IF "rexmit" \in due /\ p.state # "TIME_WAIT" THEN Retransmit(p) ELSE p
    IN  IF GivesUp(p) THEN Freed(p)
        ELSE IF TooOld(p, "idle" \in due) THEN Freed(q)
        ELSE IF p.state = "TIME_WAIT" THEN p
        ELSE tcp_output([q EXCEPT !.ooseq = IF "ooseq" \in due THEN <<>> ELSE @])

\* Delayed acknowledgments; data the application refused is modelled by the
\* caller.
tcp_fasttmr(p) ==
    IF "ACK_DELAY" \in p.flags
    THEN Clear(tcp_output(tcp_ack_now(p)), {"ACK_DELAY", "ACK_NOW"}) ELSE p
=============================================================================
