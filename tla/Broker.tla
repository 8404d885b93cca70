------------------------------- MODULE Broker -------------------------------
(***************************************************************************)
(* The publish/subscribe broker of tema2: the server (server.cpp,          *)
(* server_helper.cpp), its subscribers (subscriber.cpp,                    *)
(* subscriber_helper.cpp), the UDP publisher, and the sockets that join    *)
(* them.                                                                   *)
(*                                                                         *)
(* The server is one thread: select() fills tmp_fds, then the scan calls   *)
(* the handler of every ready descriptor in ascending order.  A handler    *)
(* is one step; subscribers, the publisher and the network interleave      *)
(* between handlers.  A subscriber process and its TCP connection are one  *)
(* record of conn.  One recv() returns one whole message.                  *)
(***************************************************************************)
EXTENDS Integers, Sequences, FiniteSets, Functions

CONSTANTS
    Ids,        \* client identifiers, argv[1] of the subscribers
    NoId,       \* the empty identifier: recv() of the identifier returned 0
    Topics,
    MaxConns,   \* bound: connections made in one behaviour
    MaxMsgs,    \* bound: datagrams published in one behaviour
    MaxReqs,    \* bound: requests sent by all the subscribers
    MayKill,    \* whether subscribers may be killed by a signal
    MayExit     \* whether "exit" may be typed at the broker

ASSUME BrokerAssumption ==
    /\ NoId \notin Ids
    /\ MaxConns \in Nat /\ MaxMsgs \in Nat /\ MaxReqs \in Nat
    /\ MayKill \in BOOLEAN /\ MayExit \in BOOLEAN

VARIABLES
    status,              \* "running", "exited", or "killed" (DIE or SIGPIPE)
    read_fds, tmp_fds, fd_max,
    active_clients,      \* descriptor -> tcp_client
    all_clients,         \* id -> tcp_client
    active_ids_sockets,  \* id -> descriptor
    topics_subs,         \* topic -> list of subscriptions
    store_and_forward,   \* id -> list of messages
    conn,                \* every connection made, with the subscriber behind it
    backlog,             \* connections waiting for accept(), oldest first
    sock,                \* the broker's descriptor table: descriptor -> connection
    udpq,                \* datagrams waiting in the UDP socket
    typed,               \* "exit" is waiting on the broker's standard input
    published,           \* datagrams sent so far
    requested            \* requests sent so far

maps == <<active_clients, all_clients, active_ids_sockets, topics_subs,
          store_and_forward>>
fdsets == <<read_fds, fd_max>>
env == <<typed, published, requested>>
vars == <<status, tmp_fds, fdsets, maps, conn, backlog, sock, udpq, env>>

STDIN == 0
SockTcp == 3
SockUdp == 4
ClientFds == 5 .. 4 + MaxConns
ConnIds == 1 .. MaxConns
AnyId == Ids \cup {NoId}

Message == [topic : Topics, seq : 1 .. MaxMsgs]
Request == [type : {"SUBSCRIBE"}, topic : Topics, sf : {"off", "on"}]
           \cup [type : {"UNSUBSCRIBE"}, topic : Topics, sf : {"none"}]
Client == [id : AnyId, socket : ClientFds]
Subscription == [client : Client, sf : {"off", "on"}]

\* client: the subscriber's end, "aborted" when its death reset the connection;
\* broken: a reset from the dead end is on its way to the broker, so that the
\* next send() may raise SIGPIPE; hello: the identifier was sent.
Connection == [id : Ids, hello : BOOLEAN, client : {"open", "closed", "aborted"},
               broker : {"open", "closed"}, broken : BOOLEAN,
               up : Seq(Request), down : Seq(Message)]

Lowest(x, S) == x \in S /\ \A y \in S : x <= y

\* unordered_map::insert leaves an existing key alone.
Insert(map, k, v) == [j \in DOMAIN map \cup {k} |-> IF j \in DOMAIN map THEN map[j] ELSE v]
Erase(map, k) == Restrict(map, DOMAIN map \ {k})

\* Mutant of InitialFds: FD_SET(sock_tcp, &read_fds) is missing.
InitialFdsButListening == {STDIN, SockUdp}

InitialFds == {STDIN, SockTcp, SockUdp}

Init ==
    /\ status = "running"
    /\ read_fds = InitialFds /\ fd_max = SockUdp /\ tmp_fds = {}
    /\ active_clients = <<>> /\ all_clients = <<>> /\ active_ids_sockets = <<>>
    /\ topics_subs = <<>> /\ store_and_forward = <<>>
    /\ conn = <<>> /\ backlog = <<>> /\ sock = <<>> /\ udpq = <<>>
    /\ typed = FALSE /\ published = 0 /\ requested = 0

-----------------------------------------------------------------------------
(* Sending.  out[c] is what was written to connection c: an open subscriber  *)
(* gets it, a dead one answers with a reset.                                 *)

Transmit(out) ==
    [c \in DOMAIN conn |->
        IF conn[c].client = "open"
        THEN [conn[c] EXCEPT !.down = @ \o out[c]]
        ELSE [conn[c] EXCEPT !.broken = @ \/ out[c] # <<>>]]

HangUpAll(cn) == [c \in DOMAIN cn |-> [cn[c] EXCEPT !.broker = "closed"]]

\* The broker dies while the next of its send() calls goes to connection c.
SigPipe(c, out) ==
    /\ Transmit(out)[c].broken /\ conn[c].client # "open"
    /\ status' = "killed"
    /\ conn' = HangUpAll(Transmit(out))
    /\ UNCHANGED <<maps, fdsets, sock>>

\* Mutant of Copies: the topic alone is copied into the message to send.
CopiesOfTopic(m, n) == [k \in 1 .. n |-> m.topic]

Copies(m, n) == [k \in 1 .. n |-> m]

-----------------------------------------------------------------------------
(* The broker's loop.                                                        *)

Readable(f) ==
    \/ f = STDIN /\ typed
    \/ f = SockTcp /\ backlog # <<>>
    \/ f = SockUdp /\ udpq # <<>>
    \/ f \in DOMAIN sock /\ (conn[sock[f]].up # <<>> \/ conn[sock[f]].client # "open")

\* Mutant of Select: the scan goes over read_fds instead of what select() left.
SelectEverything ==
    /\ status = "running" /\ tmp_fds = {}
    /\ \E f \in read_fds : f <= fd_max /\ Readable(f)
    /\ tmp_fds' = read_fds
    /\ UNCHANGED <<status, fdsets, maps, conn, backlog, sock, udpq, env>>

Select ==
    /\ status = "running" /\ tmp_fds = {}
    /\ tmp_fds' = {f \in read_fds : f <= fd_max /\ Readable(f)}
    /\ tmp_fds' # {}
    /\ UNCHANGED <<status, fdsets, maps, conn, backlog, sock, udpq, env>>

\* The scan has reached descriptor i.
Scan(i) ==
    /\ status = "running"
    /\ Lowest(i, tmp_fds)
    /\ tmp_fds' = tmp_fds \ {i}

HandleStdinMessage ==
    /\ Scan(STDIN) /\ typed
    /\ typed' = FALSE
    /\ status' = "exited"
    /\ conn' = HangUpAll(conn)
    /\ UNCHANGED <<fdsets, maps, backlog, sock, udpq, published, requested>>

\* accept() hands out the lowest free descriptor, then recv() blocks the whole
\* broker until the identifier or the end of the stream arrives.
Accepting(c, fd, id) ==
    /\ Scan(SockTcp)
    /\ backlog # <<>> /\ c = Head(backlog)
    /\ conn[c].hello \/ conn[c].client # "open"
    /\ Lowest(fd, ClientFds \ DOMAIN sock)
    /\ id = IF conn[c].hello THEN conn[c].id ELSE NoId
    /\ backlog' = Tail(backlog)
    /\ UNCHANGED <<udpq, env>>

RejectConnection(c, fd, id) ==
    /\ Accepting(c, fd, id)
    /\ id \in DOMAIN active_ids_sockets
    /\ conn' = [conn EXCEPT ![c].broker = "closed"]
    /\ UNCHANGED <<status, fdsets, maps, sock>>

\* Mutant of Watch: fd_max is not raised.
WatchBelowMax(fd) ==
    /\ read_fds' = read_fds \cup {fd}
    /\ UNCHANGED fd_max

Watch(fd) ==
    /\ read_fds' = read_fds \cup {fd}
    /\ fd_max' = IF fd > fd_max THEN fd ELSE fd_max

AddNewClient(c, fd, id) ==
    LET client == [id |-> id, socket |-> fd]
    IN  /\ Accepting(c, fd, id)
        /\ id \notin DOMAIN active_ids_sockets
        /\ id \notin DOMAIN all_clients
        /\ Watch(fd)
        /\ all_clients' = Insert(all_clients, id, client)
        /\ active_clients' = Insert(active_clients, fd, client)
        /\ active_ids_sockets' = Insert(active_ids_sockets, id, fd)
        /\ sock' = Insert(sock, fd, c)
        /\ UNCHANGED <<status, conn, topics_subs, store_and_forward>>

Stored(id) == IF id \in DOMAIN store_and_forward THEN store_and_forward[id] ELSE <<>>

\* Mutant of StoredTo: the loop stops before the last stored message.
StoredToButLast(sk, s, id, n) ==
    [c \in DOMAIN conn |-> IF s \in DOMAIN sk /\ sk[s] = c
                           THEN SubSeq(Stored(id), 1, n - 1) ELSE <<>>]

\* The first n stored messages of id, written to descriptor s of table sk.
StoredTo(sk, s, id, n) ==
    [c \in DOMAIN conn |-> IF s \in DOMAIN sk /\ sk[s] = c
                           THEN SubSeq(Stored(id), 1, n) ELSE <<>>]

\* reconnect() keeps the tcp_client of the first connection, its socket included,
\* and sends the stored messages to that socket.
Reconnect(c, fd, id) ==
    LET client == all_clients[id]
        table == Insert(sock, fd, c)
    IN  /\ Accepting(c, fd, id)
        /\ id \notin DOMAIN active_ids_sockets
        /\ id \in DOMAIN all_clients
        /\ \/ /\ Watch(fd)
              /\ active_clients' = Insert(active_clients, fd, client)
              /\ active_ids_sockets' = Insert(active_ids_sockets, client.id, fd)
              /\ all_clients' = Insert(Erase(all_clients, id), id, client)
              /\ store_and_forward' = Erase(store_and_forward, client.id)
              /\ sock' = table
              /\ conn' = Transmit(StoredTo(table, client.socket, client.id,
                                           Len(Stored(client.id))))
              /\ UNCHANGED <<status, topics_subs>>
           \/ \E k \in 1 .. Len(Stored(client.id)) :
                 /\ client.socket \in DOMAIN table
                 /\ SigPipe(table[client.socket],
                            StoredTo(table, client.socket, client.id, k - 1))

HandleConnectionRequest ==
    \E c \in ConnIds, fd \in ClientFds, id \in AnyId :
        \/ RejectConnection(c, fd, id)
        \/ AddNewClient(c, fd, id)
        \/ Reconnect(c, fd, id)

-----------------------------------------------------------------------------
(* A datagram.  send_to_subscribers() uses the socket the subscription was   *)
(* made with; a closed descriptor makes send() fail, which nobody checks.    *)

UnknownTopic(m) ==
    /\ m.topic \notin DOMAIN topics_subs
    /\ topics_subs' = Insert(topics_subs, m.topic, <<>>)
    /\ UNCHANGED <<status, fdsets, active_clients, all_clients, active_ids_sockets,
                   store_and_forward, conn, sock>>

\* Mutant of KeptFor: sf is not looked at.
KeptForAnySf(subs, id) ==
    {k \in DOMAIN subs : subs[k].client.id = id /\ id \notin DOMAIN active_ids_sockets}

\* The subscriptions of subs whose message is written to connection c / kept for id.
SentTo(subs, c) ==
    {k \in DOMAIN subs : /\ subs[k].client.id \in DOMAIN active_ids_sockets
                         /\ subs[k].client.socket \in DOMAIN sock
                         /\ sock[subs[k].client.socket] = c}
KeptFor(subs, id) ==
    {k \in DOMAIN subs : /\ subs[k].client.id = id
                         /\ id \notin DOMAIN active_ids_sockets
                         /\ subs[k].sf = "on"}

\* What the first n subscriptions write to every connection.
Forwarded(subs, m, n) ==
    [c \in DOMAIN conn |-> Copies(m, Cardinality(SentTo(subs, c) \cap 1 .. n))]

\* Mutant of Forward: the newest message is kept in front of the others.
ForwardNewestFirst(m) ==
    LET subs == topics_subs[m.topic]
        keepers == {id \in AnyId : KeptFor(subs, id) # {}}
    IN  /\ m.topic \in DOMAIN topics_subs
        /\ conn' = Transmit(Forwarded(subs, m, Len(subs)))
        /\ store_and_forward' =
              [id \in DOMAIN store_and_forward \cup keepers |->
                  Copies(m, Cardinality(KeptFor(subs, id))) \o Stored(id)]
        /\ UNCHANGED <<status, fdsets, active_clients, all_clients,
                       active_ids_sockets, topics_subs, sock>>

Forward(m) ==
    LET subs == topics_subs[m.topic]
        keepers == {id \in AnyId : KeptFor(subs, id) # {}}
    IN  /\ m.topic \in DOMAIN topics_subs
        /\ \/ /\ conn' = Transmit(Forwarded(subs, m, Len(subs)))
              /\ store_and_forward' =
                    [id \in DOMAIN store_and_forward \cup keepers |->
                        Stored(id) \o Copies(m, Cardinality(KeptFor(subs, id)))]
              /\ UNCHANGED <<status, fdsets, active_clients, all_clients,
                             active_ids_sockets, topics_subs, sock>>
           \/ \E c \in DOMAIN conn : \E k \in SentTo(subs, c) :
                 SigPipe(c, Forwarded(subs, m, k - 1))

HandleUdpMessage ==
    /\ Scan(SockUdp) /\ udpq # <<>>
    /\ udpq' = Tail(udpq)
    /\ UnknownTopic(Head(udpq)) \/ Forward(Head(udpq))
    /\ UNCHANGED <<backlog, env>>

-----------------------------------------------------------------------------
(* A readable client socket.                                                 *)

\* Mutants of Disconnect: one of the two tables keeps the session.
DisconnectKeepsId(i) ==
    /\ conn[sock[i]].up = <<>> /\ conn[sock[i]].client = "closed"
    /\ read_fds' = read_fds \ {i}
    /\ active_clients' = Erase(active_clients, i)
    /\ sock' = Erase(sock, i)
    /\ conn' = [conn EXCEPT ![sock[i]].broker = "closed"]
    /\ UNCHANGED <<status, fd_max, all_clients, active_ids_sockets, topics_subs,
                   store_and_forward>>

DisconnectKeepsClient(i) ==
    /\ conn[sock[i]].up = <<>> /\ conn[sock[i]].client = "closed"
    /\ read_fds' = read_fds \ {i}
    /\ active_ids_sockets' = Erase(active_ids_sockets, active_clients[i].id)
    /\ sock' = Erase(sock, i)
    /\ conn' = [conn EXCEPT ![sock[i]].broker = "closed"]
    /\ UNCHANGED <<status, fd_max, active_clients, all_clients, topics_subs,
                   store_and_forward>>

\* recv() returned 0.
Disconnect(i) ==
    /\ conn[sock[i]].up = <<>>
    /\ \/ conn[sock[i]].client = "closed"
       \/ conn[sock[i]].client = "aborted" /\ conn[sock[i]].broken
    /\ read_fds' = read_fds \ {i}
    /\ active_ids_sockets' = Erase(active_ids_sockets, active_clients[i].id)
    /\ active_clients' = Erase(active_clients, i)
    /\ sock' = Erase(sock, i)
    /\ conn' = [conn EXCEPT ![sock[i]].broker = "closed"]
    /\ UNCHANGED <<status, fd_max, all_clients, topics_subs, store_and_forward>>

\* recv() failed: the reset of a killed subscriber came first, and DIE ends the broker.
ReceiveError(i) ==
    /\ conn[sock[i]].up = <<>>
    /\ conn[sock[i]].client = "aborted" /\ ~conn[sock[i]].broken
    /\ status' = "killed"
    /\ conn' = HangUpAll(conn)
    /\ UNCHANGED <<fdsets, maps, sock>>

Take(i, req) ==
    /\ conn[sock[i]].up # <<>>
    /\ req = Head(conn[sock[i]].up)
    /\ conn' = [conn EXCEPT ![sock[i]].up = Tail(@)]
    /\ UNCHANGED <<status, fdsets, active_clients, all_clients, active_ids_sockets,
                   store_and_forward, sock>>

IgnoreRequest(i, req) ==
    /\ req.topic \notin DOMAIN topics_subs
    /\ Take(i, req)
    /\ UNCHANGED topics_subs

\* Mutant of PlacesOf: the list is not searched.
NoPlacesOf(topic, id) == {}

\* The places of client id in the list of a topic; the code acts on the first.
PlacesOf(topic, id) == {k \in DOMAIN topics_subs[topic] : topics_subs[topic][k].client.id = id}

Subscribe(i, req) ==
    LET client == active_clients[i]
        places == PlacesOf(req.topic, client.id)
    IN  /\ req.type = "SUBSCRIBE" /\ req.topic \in DOMAIN topics_subs
        /\ Take(i, req)
        /\ \/ \E p \in places :
                 /\ Lowest(p, places)
                 /\ topics_subs' = [topics_subs EXCEPT ![req.topic][p].sf = req.sf]
           \/ /\ places = {}
              /\ topics_subs' = [topics_subs EXCEPT ![req.topic] =
                                    Append(@, [client |-> client, sf |-> req.sf])]

RemoveAt(s, n) == SubSeq(s, 1, n - 1) \o SubSeq(s, n + 1, Len(s))

\* Mutant of Unsubscribe: the identifiers are not compared.
UnsubscribeFirst(i, req) ==
    /\ req.type = "UNSUBSCRIBE" /\ req.topic \in DOMAIN topics_subs
    /\ Take(i, req)
    /\ IF topics_subs[req.topic] # <<>>
       THEN topics_subs' = [topics_subs EXCEPT ![req.topic] = Tail(@)]
       ELSE UNCHANGED topics_subs

Unsubscribe(i, req) ==
    LET places == PlacesOf(req.topic, active_clients[i].id)
    IN  /\ req.type = "UNSUBSCRIBE" /\ req.topic \in DOMAIN topics_subs
        /\ Take(i, req)
        /\ \/ \E p \in places :
                 /\ Lowest(p, places)
                 /\ topics_subs' = [topics_subs EXCEPT ![req.topic] = RemoveAt(@, p)]
           \/ places = {} /\ UNCHANGED topics_subs

HandleTcpMessage(i) ==
    /\ Scan(i) /\ i \in DOMAIN sock
    /\ \/ Disconnect(i)
       \/ ReceiveError(i)
       \/ \E req \in Request : \/ IgnoreRequest(i, req)
                               \/ Subscribe(i, req)
                               \/ Unsubscribe(i, req)
    /\ UNCHANGED <<backlog, udpq, env>>

BrokerStep ==
    \/ Select
    \/ HandleStdinMessage
    \/ HandleConnectionRequest
    \/ HandleUdpMessage
    \/ \E i \in ClientFds : HandleTcpMessage(i)

-----------------------------------------------------------------------------
(* Subscribers.  Subscriber c is the process behind connection c; it runs    *)
(* while conn[c].client = "open".                                            *)

Running(c) == c \in DOMAIN conn /\ conn[c].client = "open"
broker == <<status, tmp_fds, fdsets, maps, sock>>

\* connect(): the kernel queues the connection before the broker accepts it.
Connect(id) ==
    /\ status = "running" /\ Len(conn) < MaxConns
    /\ conn' = Append(conn, [id |-> id, hello |-> FALSE, client |-> "open",
                             broker |-> "open", broken |-> FALSE,
                             up |-> <<>>, down |-> <<>>])
    /\ backlog' = Append(backlog, Len(conn) + 1)
    /\ UNCHANGED <<broker, udpq, env>>

SendId(c) ==
    /\ Running(c) /\ ~conn[c].hello
    /\ conn' = [conn EXCEPT ![c].hello = TRUE]
    /\ UNCHANGED <<broker, backlog, udpq, env>>

Queued(c) == \E k \in DOMAIN backlog : backlog[k] = c

\* subscribe() and unsubscribe(), typed once the broker has read the identifier.
\* A connection the broker closed swallows the request.
SendRequest(c, req) ==
    /\ Running(c) /\ conn[c].hello /\ ~Queued(c)
    /\ requested < MaxReqs
    /\ requested' = requested + 1
    /\ conn' = IF conn[c].broker = "open"
               THEN [conn EXCEPT ![c].up = Append(@, req)] ELSE conn
    /\ UNCHANGED <<broker, backlog, udpq, typed, published>>

Receive(c) ==
    /\ Running(c) /\ conn[c].hello /\ conn[c].down # <<>>
    /\ conn' = [conn EXCEPT ![c].down = Tail(@)]
    /\ UNCHANGED <<broker, backlog, udpq, env>>

\* recv() returned 0: the subscriber closes its socket and the next select() fails.
ReceiveEnd(c) ==
    /\ Running(c) /\ conn[c].hello /\ conn[c].down = <<>> /\ conn[c].broker = "closed"
    /\ conn' = [conn EXCEPT ![c].client = "closed"]
    /\ UNCHANGED <<broker, backlog, udpq, env>>

\* "exit": closing with unread messages also sends a reset.
Exit(c) ==
    /\ Running(c) /\ conn[c].hello
    /\ conn' = [conn EXCEPT ![c].client = "closed", ![c].down = <<>>,
                            ![c].broken = conn[c].down # <<>> /\ conn[c].broker = "open"]
    /\ UNCHANGED <<broker, backlog, udpq, env>>

\* Killed by a signal, at any point; unread messages turn the close into a reset.
Kill(c) ==
    /\ MayKill /\ Running(c)
    /\ conn' = [conn EXCEPT ![c].client = IF conn[c].down = <<>> THEN "closed" ELSE "aborted",
                            ![c].down = <<>>]
    /\ UNCHANGED <<broker, backlog, udpq, env>>

Subscriber(c) ==
    \/ SendId(c) \/ Receive(c) \/ ReceiveEnd(c) \/ Exit(c) \/ Kill(c)
    \/ \E req \in Request : SendRequest(c, req)

-----------------------------------------------------------------------------
Publish(topic) ==
    /\ status = "running" /\ published < MaxMsgs
    /\ published' = published + 1
    /\ udpq' = Append(udpq, [topic |-> topic, seq |-> published + 1])
    /\ UNCHANGED <<broker, conn, backlog, typed, requested>>

TypeExit ==
    /\ MayExit /\ status = "running" /\ ~typed
    /\ typed' = TRUE
    /\ UNCHANGED <<broker, conn, backlog, udpq, published, requested>>

Next ==
    \/ BrokerStep
    \/ \E id \in Ids : Connect(id)
    \/ \E c \in ConnIds : Subscriber(c)
    \/ \E topic \in Topics : Publish(topic)
    \/ TypeExit

Spec == Init /\ [][Next]_vars

\* The broker never stops scanning, and a subscriber that connected sends its
\* identifier and reads what arrives; nobody has to type or publish anything.
FairSpec ==
    /\ Spec /\ WF_vars(BrokerStep)
    /\ \A c \in ConnIds : WF_vars(SendId(c)) /\ WF_vars(Receive(c))

-----------------------------------------------------------------------------
(* Properties.                                                               *)

DescriptorsOK ==
    /\ status \in {"running", "exited", "killed"}
    /\ read_fds \in SUBSET (0 .. 4 + MaxConns) /\ tmp_fds \in SUBSET (0 .. 4 + MaxConns)
    /\ fd_max \in 0 .. 4 + MaxConns
SessionsOK ==
    /\ DOMAIN active_clients \subseteq ClientFds
    /\ active_clients \in [DOMAIN active_clients -> Client]
    /\ DOMAIN all_clients \subseteq AnyId
    /\ all_clients \in [DOMAIN all_clients -> Client]
    /\ DOMAIN active_ids_sockets \subseteq AnyId
    /\ active_ids_sockets \in [DOMAIN active_ids_sockets -> ClientFds]
TopicsOK ==
    /\ DOMAIN topics_subs \subseteq Topics
    /\ topics_subs \in [DOMAIN topics_subs -> Seq(Subscription)]
    /\ DOMAIN store_and_forward \subseteq AnyId
    /\ store_and_forward \in [DOMAIN store_and_forward -> Seq(Message)]
NetworkOK ==
    /\ conn \in Seq(Connection) /\ Len(conn) <= MaxConns
    /\ backlog \in Seq(DOMAIN conn)
    /\ DOMAIN sock \subseteq ClientFds /\ sock \in [DOMAIN sock -> DOMAIN conn]
    /\ udpq \in Seq(Message)

\* Every variable has the shape its C++ type gives it; tables are keyed by
\* known identifiers, topics and descriptors.
TypeOK ==
    /\ DescriptorsOK /\ SessionsOK /\ TopicsOK /\ NetworkOK
    /\ typed \in BOOLEAN /\ published \in 0 .. MaxMsgs /\ requested \in 0 .. MaxReqs

\* The three session tables and the select() set describe the same sessions: a
\* descriptor is watched exactly while active_clients knows it (so that
\* active_clients.at(i) of handle_tcp_message never throws), and
\* active_ids_sockets is its inverse on identifiers, so no identifier has two
\* sessions and none stays "already connected" after it left.
SessionTablesAgree ==
    /\ read_fds = {STDIN, SockTcp, SockUdp} \cup DOMAIN active_clients
    /\ DOMAIN sock = DOMAIN active_clients
    /\ \A f \in read_fds : f <= fd_max
    /\ \A i \in DOMAIN active_clients :
          /\ active_clients[i].id \in DOMAIN active_ids_sockets
          /\ active_ids_sockets[active_clients[i].id] = i
    /\ \A id \in DOMAIN active_ids_sockets :
          /\ active_ids_sockets[id] \in DOMAIN active_clients
          /\ active_clients[active_ids_sockets[id]].id = id
    /\ DOMAIN active_ids_sockets \subseteq DOMAIN all_clients
    /\ \A id \in DOMAIN all_clients : all_clients[id].id = id

\* Requests are booked on the right client: the identifier the broker keeps for
\* a descriptor is the one the subscriber at its other end was started with.
SocketIdentified ==
    \A i \in DOMAIN sock :
        LET c == sock[i]
        IN  /\ conn[c].broker = "open" \/ status # "running"
            /\ IF conn[c].hello THEN active_clients[i].id = conn[c].id
                                ELSE active_clients[i].id = NoId /\ conn[c].client # "open"
            /\ \A j \in DOMAIN sock : sock[j] = c => i = j
            /\ ~Queued(c)

\* A handler never waits for input that is not there: whatever the earlier
\* handlers of a scan did, every descriptor still to be visited is readable.
ScanNeverBlocks == status = "running" => \A f \in tmp_fds : Readable(f)

Increasing(msgs) == \A j, k \in DOMAIN msgs : j < k => msgs[j].seq < msgs[k].seq

\* Messages are kept only for a client that is away, on a topic it is
\* subscribed to with store-and-forward, in the order of publication; a client
\* that is connected has none left over from its absence.
KeptOnlyForAbsent ==
    \A id \in DOMAIN store_and_forward :
        /\ id \notin DOMAIN active_ids_sockets
        /\ store_and_forward[id] # <<>>
        /\ Increasing(store_and_forward[id])
        /\ \A k \in DOMAIN store_and_forward[id] :
              LET topic == store_and_forward[id][k].topic
              IN  /\ topic \in DOMAIN topics_subs
                  /\ \E p \in PlacesOf(topic, id) : topics_subs[topic][p].sf = "on"

\* A client is in the list of a topic at most once, whatever subscriptions,
\* departures and returns came before, so no message is sent to it twice.
OneSubscriptionPerClient ==
    \A topic \in DOMAIN topics_subs : \A j, k \in DOMAIN topics_subs[topic] :
        topics_subs[topic][j].client.id = topics_subs[topic][k].client.id => j = k

\* The sf of id in the list of topic, or "none".
SfOf(topic, id) ==
    IF topic \in DOMAIN topics_subs /\ PlacesOf(topic, id) # {}
    THEN topics_subs[topic][CHOOSE p \in PlacesOf(topic, id) : TRUE].sf ELSE "none"

\* A subscription is made, changed or dropped only by a request of its own
\* client for its own topic: disconnections, reconnections and the requests of
\* others leave it alone.
SubscriptionsChangeByRequest ==
    [][\A topic \in Topics, id \in AnyId : SfOf(topic, id)' # SfOf(topic, id) =>
          \E c \in DOMAIN conn :
              /\ conn[c].id = id /\ conn[c].up # <<>>
              /\ Head(conn[c].up).topic = topic
              /\ conn'[c].up = Tail(conn[c].up)]_vars

\* Every connection request is accepted or refused, even while clients keep
\* the broker busy: a pass of the scan serves each ready descriptor once.
EveryConnectionAnswered ==
    \A c \in ConnIds : Queued(c) ~> (status # "running" \/ ~Queued(c))

\* Every datagram and every request is handled, and a session whose subscriber
\* is gone is closed, unless the broker itself ended.
Unserved(c) ==
    /\ c \in DOMAIN conn /\ conn[c].broker = "open"
    /\ conn[c].up # <<>> \/ conn[c].client # "open"
EverythingHandled ==
    /\ (udpq # <<>>) ~> (status # "running" \/ udpq = <<>>)
    /\ \A c \in ConnIds : Unserved(c) ~> (status # "running" \/ ~Unserved(c))
=============================================================================
