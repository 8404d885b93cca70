------------------------------ MODULE MCRouter ------------------------------
(* Routing tables and arrivals for Router.                                   *)
EXTENDS Router, TLC

CONSTANTS a, b

Route(o1, o2, mask, hop, interface) ==
    [prefix |-> <<o1, o2>>, mask |-> mask, next_hop |-> hop, interface |-> interface]

\* One mask: four networks behind two hops.  As in rtable0.txt: a route to a host
\* among routes to networks.  A default route.  Three routes to hosts, which compar
\* orders in a circle.
Network(o, hop, interface) == Route(o, 0, 1, hop, interface)
NetworkTable == {Network(0, b, 1), Network(1, a, 0), Network(3, b, 1), Network(4, a, 0)}
HostTable == {Route(0, 1, 2, a, 0), Network(0, b, 1), Network(1, a, 0), Network(2, b, 1),
              Network(3, b, 1)}
DefaultTable == {Route(0, 0, 0, a, 0), Network(3, b, 1)}
CircleTable == {Route(0, 3, 2, a, 0), Route(2, 1, 2, b, 1), Route(2, 0, 2, a, 0)}

Frame(kind, id, dest, ttl, interface, hop) ==
    [kind |-> kind, id |-> id, dest |-> dest, ttl |-> ttl, good |-> TRUE,
     interface |-> interface, hop |-> hop]

ForwardTables == {NetworkTable, DefaultTable, {}}
Waiters == {Frame("ip", 1, <<1, 2>>, 3, 1, NoHop), Frame("icmp", 2, <<3, 2>>, 4, 0, NoHop)}
Others == {Frame("ip", 3, <<2, 2>>, 2, 0, NoHop), Frame("reply", 4, <<0, 2>>, 0, 0, a)}
          \cup {Frame(kind, 5, <<0, 2>>, 3, 1, NoHop) : kind \in {"echo", "request", "other"}}
ForwardArrivals == {Waiters \cup {p, q} : p, q \in Others}

\* One packet that waits, and two.
LoneTables == {NetworkTable}
LoneArrivals == {{Frame("ip", 1, <<1, 2>>, 3, 1, NoHop)}}
WaitersAlone == {Waiters}

LookupTables == {HostTable, CircleTable, NetworkTable}
LookupArrivals ==
    {{Frame("ip", 1, <<3, 2>>, 4, 1, NoHop), Frame("ip", 2, <<2, 1>>, 4, 1, NoHop)}}
=============================================================================
