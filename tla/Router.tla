------------------------------- MODULE Router -------------------------------
(***************************************************************************)
(* The router of tema1 (router.c, skel.c, queue.c).  One thread takes a    *)
(* frame from the first interface that has one and handles it: it looks    *)
(* the route up (one step for every comparison), lowers the TTL, and sends *)
(* the packet to the next hop, or lets it wait and asks for the address of *)
(* the next hop.  Every ARP reply releases the packet that has waited      *)
(* longest, whoever it waits for.                                          *)
(*                                                                         *)
(* The queue holds pointers, all to the one local variable m_copy of       *)
(* forward_packet(), which is always called at the same depth: waiting is  *)
(* the number of pointers, frame what is there.  The calls made meanwhile  *)
(* may have overwritten it: its checksum is then wrong, or its header all  *)
(* zeros, which the checksum accepts; its interface is any, or none; its   *)
(* length possibly 0, which no interface sends.                            *)
(***************************************************************************)
EXTENDS RouteTable

CONSTANTS
    Tables,     \* the routing tables that are tried, as sets of entries
    Arrivals,   \* bound: the sets of frames that may come, each at most once
    NoHop

Packet == [kind : {"ip", "icmp", "echo", "request", "other", "reply"}, id : Nat, dest : Address,
           ttl : 0 .. 255, good : BOOLEAN, interface : Interfaces, hop : Hops \cup {NoHop}]
Arrival == {p \in Packet : p.kind = "reply" => p.hop \in Hops}
Sent == [kind : {"forward", "exceeded", "unreachable", "local"}, id : Nat, dest : Address,
         ttl : 0 .. 255, interface : Interfaces, hop : Hops \cup {NoHop}]

ASSUME RouterAssumption ==
    /\ \A file \in Tables : file \subseteq Entry /\ IsFiniteSet(file)
    /\ UNION Arrivals \subseteq Arrival
    /\ \A arrivals \in Arrivals : \A p, q \in arrivals :     \* id tells one packet from another
          p.kind \in {"ip", "icmp"} /\ p.id = q.id => p = q
    /\ NoHop \notin Hops /\ 0 \in Interfaces
    /\ IsFiniteSet(Hops) /\ IsFiniteSet(Interfaces)

VARIABLES
    rtable, arp_table,
    waiting, frame,      \* the queue: how many pointers, and the packet they point to
    alive,               \* FALSE when DIE has ended the router
    pc, m, released,     \* "receive" or "search"; the packet; whether it had waited
    start, end,          \* the bounds of get_best_route()
    inbox,               \* interface -> frames not read yet
    pending,             \* the arrivals still to come
    asked,               \* requests on their way: <<hop, interface>> -> number
    silent,              \* the hops that never answer
    out                  \* everything sent but requests, oldest first

queue == <<waiting, frame>>
search == <<m, released, start, end>>
network == <<pending, asked, silent>>
vars == <<rtable, arp_table, queue, alive, pc, search, inbox, network, out>>

Links == Hops \X Interfaces

Nothing == [kind |-> "ip", id |-> 0, dest |-> <<0, 0>>, ttl |-> 0, good |-> FALSE,
            interface |-> 0, hop |-> NoHop]

Init ==
    /\ \E file \in Tables : rtable \in TablesOf(file)
    /\ arp_table = <<>>
    /\ waiting = 0 /\ frame = Nothing /\ alive = TRUE
    /\ pc = "receive" /\ m = Nothing /\ released = FALSE /\ start = 1 /\ end = 0
    /\ inbox = [i \in Interfaces |-> <<>>]
    /\ pending \in Arrivals /\ asked = [l \in Links |-> 0] /\ silent \in SUBSET Hops
    /\ out = <<>>

-----------------------------------------------------------------------------
(* The network.                                                              *)

Arrive ==
    \E p \in pending :
        /\ pending' = pending \ {p}
        /\ inbox' = [inbox EXCEPT ![p.interface] = Append(@, p)]
        /\ UNCHANGED <<rtable, arp_table, queue, alive, pc, search, asked, silent, out>>

Answer ==
    \E l \in Links :
        /\ asked[l] > 0 /\ l[1] \notin silent
        /\ asked' = [asked EXCEPT ![l] = @ - 1]
        /\ inbox' = [inbox EXCEPT ![l[2]] =
                Append(@, [Nothing EXCEPT !.kind = "reply", !.interface = l[2], !.hop = l[1]])]
        /\ UNCHANGED <<rtable, arp_table, queue, alive, pc, search, pending, silent, out>>

-----------------------------------------------------------------------------
(* main(), up to the call of get_best_route().                               *)

\* send_packet(): what goes out because of packet p.
Output(kind, p, i, hop) ==
    out' = Append(out, [kind |-> kind, id |-> p.id, dest |-> p.dest, ttl |-> p.ttl,
                        interface |-> i, hop |-> hop])

\* On the interface that is in the packet, if there is such an interface.
send_icmp_error(kind, p, waited) ==
    \/ /\ \E i \in Interfaces : (waited \/ i = p.interface) /\ Output(kind, p, i, NoHop)
       /\ UNCHANGED alive
    \/ waited /\ alive' = FALSE /\ UNCHANGED out

\* The answer to an echo request.
send_icmp(p) == Output("local", p, p.interface, NoHop)

\* get_packet(): the lowest interface that is readable.  The calls it stands for
\* may overwrite the packet that waits.
GetPacket(p) ==
    /\ alive /\ pc = "receive"
    /\ p = Head(inbox[p.interface])
    /\ \A j \in Interfaces : j < p.interface => inbox[j] = <<>>
    /\ inbox' = [inbox EXCEPT ![p.interface] = Tail(@)]
    /\ UNCHANGED <<rtable, network>>

Overwritten ==
    {frame, [frame EXCEPT !.good = FALSE], [frame EXCEPT !.good = TRUE, !.ttl = 0]}

\* Mutant of LivesOn: a packet that has one hop left is forwarded.
LivesOnAtOne(p) == p.ttl > 0

LivesOn(p) == p.ttl > 1

\* forward_packet() up to the search.
Check(p, waited) ==
    \/ ~p.good /\ UNCHANGED <<alive, pc, search, out>>
    \/ p.good /\ ~LivesOn(p) /\ send_icmp_error("exceeded", p, waited) /\ UNCHANGED <<pc, search>>
    \/ /\ p.good /\ LivesOn(p)
       /\ pc' = "search"
       /\ m' = p /\ released' = waited /\ start' = 1 /\ end' = Len(rtable)
       /\ UNCHANGED <<alive, out>>

HandleIP(p) ==
    /\ GetPacket(p) /\ p.kind \in {"ip", "icmp"}
    /\ Check(p, FALSE)
    /\ frame' \in Overwritten
    /\ UNCHANGED <<arp_table, waiting>>

\* An echo request for the router's own address.
HandleEcho(p) ==
    /\ GetPacket(p) /\ p.kind = "echo"
    /\ send_icmp(p)
    /\ frame' \in Overwritten
    /\ UNCHANGED <<arp_table, waiting, alive, pc, search>>

\* An ARP request for the router's own address.
HandleRequest(p) ==
    /\ GetPacket(p) /\ p.kind = "request"
    /\ Output("local", p, p.interface, NoHop)
    /\ frame' \in Overwritten
    /\ UNCHANGED <<arp_table, waiting, alive, pc, search>>

\* Another ICMP message for the router, or an ARP request for another's address.
Ignore(p) ==
    /\ GetPacket(p) /\ p.kind = "other"
    /\ frame' \in Overwritten
    /\ UNCHANGED <<arp_table, waiting, alive, pc, search, out>>

queue_enq(p) == waiting' = waiting + 1 /\ frame' = p
queue_empty == waiting = 0
queue_deq == waiting' = waiting - 1

\* Mutant of Release: a reply from a hop that is known releases nothing.
ReleaseOnNews(hop, packet) ==
    IF queue_empty \/ hop \in Range(arp_table)
    THEN UNCHANGED <<waiting, alive, pc, search, out>>
    ELSE queue_deq /\ Check(packet, TRUE)

\* One packet that waits, if any, is forwarded.
Release(hop, packet) ==
    IF queue_empty
    THEN UNCHANGED <<waiting, alive, pc, search, out>>
    ELSE queue_deq /\ Check(packet, TRUE)

HandleReply(p) ==
    /\ GetPacket(p) /\ p.kind = "reply"
    /\ arp_table' = Append(arp_table, p.hop)
    /\ frame' \in Overwritten
    /\ Release(p.hop, frame')

-----------------------------------------------------------------------------
(* get_best_route(), and the rest of forward_packet().                       *)

mid == (start + end) \div 2
best_route == rtable[mid]

Searching ==
    /\ alive /\ pc = "search"
    /\ UNCHANGED <<rtable, arp_table, m, released, inbox, pending, silent>>

Return == pc' = "receive" /\ UNCHANGED <<start, end>>

Unreachable ==
    /\ Searching /\ start > end
    /\ send_icmp_error("unreachable", m, released)
    /\ Return
    /\ UNCHANGED <<queue, asked>>

\* The greater words are on the left.
GoLeft ==
    /\ Searching /\ start <= end /\ And(m.dest, best_route.mask) > Key(best_route)
    /\ end' = mid - 1
    /\ UNCHANGED <<queue, alive, asked, pc, start, out>>

\* Mutant of GoRight: one route too many is left out.
GoRightTwo ==
    /\ Searching /\ start <= end /\ And(m.dest, best_route.mask) < Key(best_route)
    /\ start' = mid + 2
    /\ UNCHANGED <<queue, alive, asked, pc, end, out>>

GoRight ==
    /\ Searching /\ start <= end /\ And(m.dest, best_route.mask) < Key(best_route)
    /\ start' = mid + 1
    /\ UNCHANGED <<queue, alive, asked, pc, end, out>>

Lowered(p) == [p EXCEPT !.ttl = @ - 1]

\* Whether the address of a hop is known.
get_arp_entry(hop) == hop \in Range(arp_table)

\* A request for the address of a hop.
send_arp(link) == asked' = [asked EXCEPT ![link] = @ + 1]

Found ==
    /\ Searching /\ start <= end /\ Matches(m.dest, best_route)
    /\ Return

\* The next hop is known.  A packet that waited is changed where it is.
Forward ==
    /\ Found /\ get_arp_entry(best_route.next_hop)
    /\ Output("forward", Lowered(m), best_route.interface, best_route.next_hop)
    /\ frame' = IF released THEN Lowered(m) ELSE frame
    /\ UNCHANGED <<waiting, alive, asked>>

\* send_packet() of a packet whose length was overwritten.
WriteFails ==
    /\ Found /\ get_arp_entry(best_route.next_hop) /\ released
    /\ alive' = FALSE
    /\ UNCHANGED <<queue, asked, out>>

Wait ==
    /\ Found /\ ~get_arp_entry(best_route.next_hop)
    /\ queue_enq(Lowered(m))
    /\ send_arp(<<best_route.next_hop, best_route.interface>>)
    /\ UNCHANGED <<alive, out>>

get_best_route == GoLeft \/ GoRight \/ Unreachable \/ Forward \/ WriteFails \/ Wait

HandleFrame ==
    \E i \in Interfaces : \E p \in Range(inbox[i]) :
        HandleIP(p) \/ HandleEcho(p) \/ HandleRequest(p) \/ Ignore(p)
        \/ HandleReply(p)

RouterStep == HandleFrame \/ get_best_route

Next == Arrive \/ Answer \/ RouterStep

Spec == Init /\ [][Next]_vars

\* The router runs, and a neighbour that is not silent answers.
FairSpec == Spec /\ WF_vars(RouterStep) /\ WF_vars(Answer)

-----------------------------------------------------------------------------
(* Properties.                                                               *)

\* The variables keep their types; what is searched stays inside the table, so
\* that rtable[mid] is always an entry of it; nothing goes out with TTL 0.
TypeOK ==
    /\ Range(rtable) \subseteq Entry /\ arp_table \in Seq(Hops)
    /\ waiting \in Nat /\ frame \in Packet /\ alive \in BOOLEAN
    /\ pc \in {"receive", "search"} /\ m \in Packet /\ released \in BOOLEAN
    /\ start \in 1 .. Len(rtable) + 1 /\ end \in 0 .. Len(rtable)
    /\ pending \subseteq UNION Arrivals /\ silent \subseteq Hops
    /\ \A i \in Interfaces : Range(inbox[i]) \subseteq Packet
    /\ asked \in [Links -> Nat]
    /\ Range(out) \subseteq Sent
    /\ \A k \in DOMAIN out : out[k].kind = "forward" => out[k].ttl > 0

\* The masks of the table are all the same, and its words so small that no
\* difference of two of them overflows an int.
OneMask == \A i, j \in DOMAIN rtable : rtable[i].mask = rtable[j].mask
Narrow == \A i \in DOMAIN rtable : 2 * Key(rtable[i]) < WordSize

\* As long as get_best_route() goes on in such a table, a route that matches is
\* between start and end, if the table has one.
SearchKeepsRoute ==
    pc = "search" /\ OneMask /\ Narrow =>
        \A k \in DOMAIN rtable : Matches(m.dest, rtable[k]) => 
            \E j \in start .. end : Matches(m.dest, rtable[j])

\* A packet leaves towards the next hop, and on the interface, of a route that
\* matches its destination, even when the reply that released it was another's.
\* It is called unreachable only if no route of a table with one mask matches.
RoutedRightly ==
    \A k \in DOMAIN out :
        LET f == out[k]
        IN  /\ f.kind = "forward" =>
                \E r \in Range(rtable) : /\ Matches(f.dest, r)
                                         /\ r.next_hop = f.hop /\ r.interface = f.interface
            /\ f.kind = "unreachable" /\ OneMask /\ Narrow =>
                ~\E r \in Range(rtable) : Matches(f.dest, r)

\* The replies that are due, and those that are unread.
Due == UNION {{l} \X (1 .. asked[l]) : l \in Links}
Unread ==
    UNION {{i} \X {k \in 1 .. Len(inbox[i]) : inbox[i][k].kind = "reply"} : i \in Interfaces}

\* A packet waits only as long as a reply is due or unread for it: replies are
\* matched with packets by their number alone, and their number suffices.
NoneWaitsInVain == waiting <= Cardinality(Due) + Cardinality(Unread)

\* When every neighbour answers, the queue is empty in the end, however often a
\* reply sends the packet back to it.
Drains == silent = {} => <>[](waiting = 0 \/ ~alive)

\* router.c:17 "Returns a pointer (eg. &rtable[i]) to the best matching route for
\* the given dest_ip. Or NULL if there is no matching route."
FindsRoute ==
    pc = "search" /\ start > end => ~\E r \in Range(rtable) : Matches(m.dest, r)

\* tests.py:314-319: a packet that is sent with a TTL of 64 leaves with 63.
LoweredOnce ==
    \A k \in DOMAIN out : out[k].kind = "forward" =>
        \E p \in UNION Arrivals : p.id = out[k].id /\ out[k].ttl = p.ttl - 1

\* README:22-26: the original packet is put in the queue, and is forwarded when the
\* reply has come.  So one packet is forwarded once.
LeavesOnce ==
    \A j, k \in DOMAIN out :
        out[j].kind = "forward" /\ out[k].kind = "forward" /\ out[j].id = out[k].id => j = k
=============================================================================
