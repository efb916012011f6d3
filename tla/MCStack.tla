------------------------------ MODULE MCStack -------------------------------
(* Instances of module Stack: loads of frames and calls, small tables.     *)
EXTENDS Stack

MCInterval == [h \in {"tcp", "reass", "arp"} |-> CASE h = "tcp" -> 1 [] h = "reass" -> 2 [] h = "arp" -> 3]

Arp(from, hw, to) ==
    [clen |-> 1, f |-> [type |-> "arp", sipaddr |-> from, shwaddr |-> hw, dipaddr |-> to]]
Ip(src, id, off, end, of, proto, port) ==
    [clen |-> 1, f |-> [type |-> "ip", src |-> src, dst |-> "me", id |-> id, off |-> off,
                        end |-> end, of |-> of, proto |-> proto, port |-> port, sum |-> TRUE]]
Udp(src, id, off, end, of) == Ip(src, id, off, end, of, "udp", "bound")
Wide(x) == [x EXCEPT !.clen = 2]
Unsummed(x) == [x EXCEPT !.f.sum = FALSE]
To(x, dst) == [x EXCEPT !.f.dst = dst]
Send(dst, parts, room) == [dst |-> dst, parts |-> parts, room |-> room]
Load(frames, dups, sends, opens, stall) ==
    [frames |-> frames, dups |-> dups, sends |-> sends, opens |-> opens, stall |-> stall]

\* Neighbours come, go, and come back with another address while packets for
\* them wait; the table has fewer entries than there are neighbours.
Neighbours ==
    Load({Arp("h1", "a", "me"), Arp("h1", "b", "h2"), Arp("h2", "b", "me"), Arp("h3", "c", "me")},
         0, <<Send("h1", 1, TRUE), Send("far", 1, FALSE), Send("h2", 2, TRUE)>>, 0, 2)

\* A host that is not on the local network claims an entry of the table.
Stranger ==
    Load({Arp("far", "d", "me"), Arp("h1", "a", "me"), Arp("h2", "b", "me")},
         0, <<Send("far", 1, TRUE), Send("h2", 1, TRUE)>>, 0, 2)

\* Fragments of two datagrams, out of order and twice.
Fragments ==
    Load({Udp("h2", 1, 0, 1, 3), Udp("h2", 1, 1, 2, 3), Wide(Udp("h2", 1, 2, 3, 3)),
          Udp("far", 7, 0, 1, 2)}, 1, <<>>, 0, 2)

\* Datagrams of two fragments that are complete, an echo request among them.
Pairs ==
    Load({Udp("h3", 9, 0, 1, 2), Udp("h3", 9, 1, 2, 2), Ip("h2", 5, 0, 1, 2, "icmp", "none"),
          Ip("h2", 5, 1, 2, 2, "icmp", "none")}, 1, <<>>, 0, 2)

\* Packets of all kinds, with the answers to them.
Kinds ==
    {Load({Ip("h2", 1, 0, 1, 1, "icmp", "none"), To(Ip("h2", 2, 0, 1, 1, "icmp", "none"), Broadcast),
           Ip("h2", 3, 0, 1, 1, "udp", "closed"), Udp("h3", 4, 0, 1, 1)}, 1, <<>>, 0, 2),
     Load({Ip("h3", 1, 0, 1, 1, "other", "none"), To(Udp("h3", 2, 0, 1, 1), Broadcast),
           To(Ip("h3", 3, 0, 1, 1, "udp", "closed"), Broadcast), To(Udp("h3", 4, 0, 1, 1), "h2"),
           [clen |-> 1, f |-> [type |-> "other"]]}, 0, <<Send(Broadcast, 1, TRUE)>>, 0, 2)}

\* Connections come and go while the main loop is late.
Connections == Load({}, 0, <<Send("h1", 1, TRUE)>>, 3, 4)

\* The second of four fragments is lost; the datagram has a checksum, or none.
Part(off, end) == Udp("h2", 1, off, end, 4)
Summed == Load({Part(0, 1), Part(2, 3), Part(3, 4)}, 0, <<>>, 0, 2)
Holes == {Load({Unsummed(Part(0, 1)), Unsummed(Part(2, 3)), Unsummed(Part(3, 4))}, 0, <<>>, 0, 2)}

MCLoads == {Neighbours, Stranger, Fragments, Pairs, Summed, Connections} \cup Kinds
=============================================================================
