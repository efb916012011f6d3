------------------------------- MODULE MCTcp --------------------------------
\* Module Tcp with loads for TLC.
EXTENDS Tcp

\* n bytes to write; how and when the application ends the connection: at any
\* time, when all is written ("done"), or when also the peer has ended ("eof").
App(n, how, when, refuses) == [bytes |-> n, how |-> how, when |-> when, refuses |-> refuses]
From(iss, a) == [iss |-> iss] @@ a

\* The sequence numbers of the client wrap.
Load(open, breaks, mss, cap, client, server) ==
    [open |-> open, breaks |-> breaks, mss |-> mss, cap |-> cap, faults |-> 1,
     client |-> client @@ [iss |-> 30], server |-> server @@ [iss |-> 5]]

\* Three segments in flight: reordering, retransmission, partial acknowledgments.
DataLoad == Load(FALSE, FALSE, 2, 3, App(3, "shutdown", "done", FALSE), App(0, "shutdown", "eof", FALSE))
\* More data than the window: it closes and is opened again, probes.
WindowLoad == Load(FALSE, TRUE, 2, 2, App(5, "close", "done", FALSE), App(0, "close", "eof", FALSE))
\* Segments of one byte: enough duplicate acknowledgments for a fast retransmit.
FastLoad == Load(FALSE, FALSE, 1, 2, App(4, "shutdown", "done", FALSE), App(0, "shutdown", "eof", FALSE))
\* The handshake, data in both directions.
OpenLoad == Load(TRUE, TRUE, 2, 2, App(1, "close", "done", FALSE), App(1, "close", "eof", FALSE))
\* The server's recv callback refuses data.
RefuseLoad == Load(FALSE, TRUE, 2, 2, App(2, "shutdown", "done", FALSE), App(0, "close", "eof", TRUE))
\* Connections closed and aborted at any time.
AbortLoad == Load(TRUE, TRUE, 2, 2, App(1, "close", "any", FALSE), App(1, "abort", "any", FALSE))

\* Both sides close at the same time.
CloseLoad == Load(FALSE, FALSE, 2, 2, App(1, "shutdown", "done", FALSE), App(0, "shutdown", "done", FALSE))

\* The right edge of the window wraps while segments are out of sequence.
EdgeLoad ==
    Load(FALSE, TRUE, 1, 2, From(27, App(4, "shutdown", "done", FALSE)), App(0, "shutdown", "eof", FALSE))

MCLoads == {CloseLoad, DataLoad, WindowLoad, FastLoad, OpenLoad, RefuseLoad, AbortLoad, EdgeLoad}

\* The data and the FIN fill more than the window while segments are lost.
FullWindow == {Load(FALSE, TRUE, 2, 2, App(4, "close", "done", FALSE), App(0, "close", "eof", FALSE))}
=============================================================================
