-------------------------------- MODULE Chat --------------------------------
(***************************************************************************)
(* The chat of test_practic: server.cpp and its clients (client.cpp).      *)
(*                                                                         *)
(* The server is one thread: select() fills tmp_fds, then the scan calls   *)
(* the handler of every ready descriptor in ascending order, one step      *)
(* each.  A nickname gets a number at its first connection and keeps it.   *)
(* A client process and its connection are one record of conn.  A recv()   *)
(* returns all that has come: the server's takes BUFLEN bytes into the     *)
(* place of one request, where only the first of several is handled and    *)
(* the others are written behind it.                                       *)
(***************************************************************************)
EXTENDS Integers, Sequences, FiniteSets, Functions

CONSTANTS
    Nicks,
    NoNick,     \* the empty nickname: recv() of the nickname returned 0
    MaxConns,   \* bound: connections made in one behaviour
    MaxReqs     \* bound: requests sent by all the clients

ASSUME ChatAssumption ==
    IsFiniteSet(Nicks) /\ NoNick \notin Nicks /\ MaxConns \in Nat /\ MaxReqs \in Nat

VARIABLES
    status,                \* "running", "exited", or "killed" (DIE or SIGPIPE)
    read_fds, tmp_fds, fd_max,
    active_clients,        \* nickname -> client
    all_clients,           \* nickname -> client
    active_nrs_sockets,    \* number -> descriptor
    active_socket_client,  \* descriptor -> client
    curr_id,
    conn,                  \* every connection made, with the client behind it
    backlog,               \* connections waiting for accept(), oldest first
    sock,                  \* the server's descriptor table: descriptor -> connection
    requested              \* requests sent so far

fdsets == <<read_fds, fd_max>>
tables == <<active_clients, all_clients, active_nrs_sockets, active_socket_client, curr_id>>
server == <<status, tmp_fds, fdsets, tables, sock>>
vars == <<server, conn, backlog, requested>>

SockTcp == 3
ClientFds == 4 .. 3 + MaxConns
ConnIds == 1 .. MaxConns
LIST == -1   \* the destination that asks for the list of active clients
\* The numbers that are typed.
Destination == {LIST} \cup 1 .. Cardinality(Nicks)

\* client: "aborted" when unread data turned its end into a reset; broken: a reset
\* is on its way to the server, or has come: send() then fails or raises SIGPIPE.
Connection == [nick : Nicks, hello : BOOLEAN, client : {"open", "closed", "aborted"},
               server : {"open", "closed"}, broken : BOOLEAN,
               up : Seq(Destination), down : Seq(Destination)]

Lowest(x, S) == x \in S /\ \A y \in S : x <= y
Erase(map, k) == Restrict(map, DOMAIN map \ {k})

\* unordered_map::insert leaves an existing key alone.
Insert(map, k, v) == [j \in DOMAIN map \cup {k} |-> IF j \in DOMAIN map THEN map[j] ELSE v]

HangUp(cn) == [c \in DOMAIN cn |-> [cn[c] EXCEPT !.server = "closed"]]

Init ==
    /\ status = "running" /\ read_fds = {SockTcp} /\ tmp_fds = {} /\ fd_max = SockTcp
    /\ active_clients = <<>> /\ all_clients = <<>>
    /\ active_nrs_sockets = <<>> /\ active_socket_client = <<>> /\ curr_id = 1
    /\ conn = <<>> /\ backlog = <<>> /\ sock = <<>> /\ requested = 0

-----------------------------------------------------------------------------
(* The server.                                                               *)

Readable(f) ==
    \/ f = SockTcp /\ backlog # <<>>
    \/ f \in DOMAIN sock /\ (conn[sock[f]].up # <<>> \/ conn[sock[f]].client # "open")

Select ==
    /\ status = "running" /\ tmp_fds = {}
    /\ tmp_fds' = {f \in read_fds : f <= fd_max /\ Readable(f)}
    /\ tmp_fds' # {}
    /\ UNCHANGED <<status, fdsets, tables, sock, conn, backlog, requested>>

\* "exit" is typed; standard input is the first descriptor of a scan.
HandleStdinMessage ==
    /\ status = "running" /\ tmp_fds = {}
    /\ status' = "exited" /\ conn' = HangUp(conn)
    /\ UNCHANGED <<tmp_fds, fdsets, tables, sock, backlog, requested>>

Scan(i) ==
    /\ status = "running" /\ Lowest(i, tmp_fds)
    /\ tmp_fds' = tmp_fds \ {i}
    /\ UNCHANGED requested

\* accept() hands out the lowest free descriptor, then recv() blocks the server
\* until the nickname or the end of the stream arrives.
Accepting(c, fd, nick) ==
    /\ Scan(SockTcp)
    /\ backlog # <<>> /\ c = Head(backlog)
    /\ conn[c].hello \/ conn[c].client # "open"
    /\ Lowest(fd, ClientFds \ DOMAIN sock)
    /\ nick = IF conn[c].hello THEN conn[c].nick ELSE NoNick
    /\ backlog' = Tail(backlog)
    /\ UNCHANGED status

AlreadyConnected(c, fd, nick) ==
    /\ Accepting(c, fd, nick)
    /\ nick \in DOMAIN active_clients
    /\ conn' = [conn EXCEPT ![c].server = "closed"]
    /\ UNCHANGED <<fdsets, tables, sock>>

\* Mutant of Activate: active_clients is forgotten.
ActivateHalf(fd, nick, client) ==
    /\ active_nrs_sockets' = Insert(active_nrs_sockets, client.number, fd)
    /\ active_socket_client' = Insert(active_socket_client, fd, client)
    /\ UNCHANGED active_clients

Activate(fd, nick, client) ==
    /\ active_clients' = Insert(active_clients, nick, client)
    /\ active_nrs_sockets' = Insert(active_nrs_sockets, client.number, fd)
    /\ active_socket_client' = Insert(active_socket_client, fd, client)

\* Mutant of Watch: fd_max is not raised.
WatchBelowMax(fd) == read_fds' = read_fds \cup {fd} /\ UNCHANGED fd_max

Watch(fd) == read_fds' = read_fds \cup {fd} /\ fd_max' = IF fd > fd_max THEN fd ELSE fd_max

\* The descriptor of a client that returns is not watched.
Reconnect(c, fd, nick) ==
    /\ Accepting(c, fd, nick)
    /\ nick \notin DOMAIN active_clients /\ nick \in DOMAIN all_clients
    /\ Activate(fd, nick, all_clients[nick])
    /\ sock' = Insert(sock, fd, c)
    /\ UNCHANGED <<fdsets, all_clients, curr_id, conn>>

add_new_client(c, fd, nick) ==
    LET client == [number |-> curr_id, nickname |-> nick]
    IN  /\ Accepting(c, fd, nick)
        /\ nick \notin DOMAIN active_clients /\ nick \notin DOMAIN all_clients
        /\ Watch(fd)
        /\ Activate(fd, nick, client)
        /\ all_clients' = Insert(all_clients, nick, client)
        /\ curr_id' = curr_id + 1
        /\ sock' = Insert(sock, fd, c)
        /\ UNCHANGED conn

handle_connection_request ==
    \E c \in ConnIds, fd \in ClientFds, nick \in Nicks \cup {NoNick} :
        \/ AlreadyConnected(c, fd, nick)
        \/ Reconnect(c, fd, nick)
        \/ add_new_client(c, fd, nick)

\* Mutant of Disconnect: the descriptor stays in the set.
DisconnectWatched(i) ==
    LET client == active_socket_client[i]
    IN  /\ conn[sock[i]].up = <<>>
        /\ conn[sock[i]].client = "closed"
        /\ active_nrs_sockets' = Erase(active_nrs_sockets, client.number)
        /\ active_clients' = Erase(active_clients, client.nickname)
        /\ active_socket_client' = Erase(active_socket_client, i)
        /\ sock' = Erase(sock, i)
        /\ conn' = [conn EXCEPT ![sock[i]].server = "closed"]
        /\ UNCHANGED <<status, fdsets, all_clients, curr_id>>

\* recv() returned 0.
Disconnect(i) ==
    LET client == active_socket_client[i]
    IN  /\ conn[sock[i]].up = <<>>
        /\ conn[sock[i]].client = "closed"
        /\ read_fds' = read_fds \ {i}
        /\ active_nrs_sockets' = Erase(active_nrs_sockets, client.number)
        /\ active_clients' = Erase(active_clients, client.nickname)
        /\ active_socket_client' = Erase(active_socket_client, i)
        /\ sock' = Erase(sock, i)
        /\ conn' = [conn EXCEPT ![sock[i]].server = "closed"]
        /\ UNCHANGED <<status, fd_max, all_clients, curr_id>>

\* recv() failed: the reset of a killed client came first.
ReceiveError(i) ==
    /\ conn[sock[i]].up = <<>>
    /\ conn[sock[i]].client = "aborted"
    /\ status' = "killed" /\ conn' = HangUp(conn)
    /\ UNCHANGED <<fdsets, tables, sock>>

\* recv() takes the first n requests of descriptor i, of which nr_dest is read.
Takes(i, n, nr_dest) ==
    LET up == conn[sock[i]].up
    IN  n \in 1 .. Len(up) /\ nr_dest = up[1]
Taken(i, n) == [conn EXCEPT ![sock[i]].up = SubSeq(@, n + 1, Len(@))]

\* What n requests leave of the stack when there is room for one: a server that
\* goes on with the first, or one that ends.
Overrun(i, n) ==
    /\ n > 1
    /\ status' = "killed" /\ conn' = HangUp(Taken(i, n))

\* send() of x to connection c.
Send(cn, c, x) ==
    \/ /\ cn[c].client = "open"
       /\ conn' = [cn EXCEPT ![c].down = Append(@, x)] /\ UNCHANGED status
    \/ /\ cn[c].client # "open"
       /\ conn' = [cn EXCEPT ![c].broken = TRUE] /\ UNCHANGED status
    \/ /\ cn[c].client # "open" /\ cn[c].broken
       /\ status' = "killed" /\ conn' = HangUp(cn)

List(i, n) == Takes(i, n, LIST) /\ Send(Taken(i, n), sock[i], LIST)

\* Mutant of Message: it goes to the descriptor it came from.
MessageBack(i, n, nr_dest) ==
    /\ Takes(i, n, nr_dest) /\ nr_dest \in DOMAIN active_nrs_sockets
    /\ Send(Taken(i, n), sock[i], nr_dest)

Message(i, n, nr_dest) ==
    /\ Takes(i, n, nr_dest) /\ nr_dest \in DOMAIN active_nrs_sockets
    /\ Send(Taken(i, n), sock[active_nrs_sockets[nr_dest]], nr_dest)

\* Nobody has the number now.
MessageToNobody(i, n, nr_dest) ==
    /\ Takes(i, n, nr_dest) /\ nr_dest # LIST /\ nr_dest \notin DOMAIN active_nrs_sockets
    /\ conn' = Taken(i, n) /\ UNCHANGED status

\* recv() returned requests.
Request(i) ==
    /\ \E n \in 1 .. Len(conn[sock[i]].up), nr_dest \in Destination :
          \/ List(i, n) \/ Message(i, n, nr_dest) \/ MessageToNobody(i, n, nr_dest)
          \/ Overrun(i, n)
    /\ UNCHANGED <<fdsets, tables, sock>>

handle_tcp_message(i) ==
    /\ Scan(i) /\ i \in DOMAIN sock
    /\ Disconnect(i) \/ ReceiveError(i) \/ Request(i)
    /\ UNCHANGED backlog

ServerStep ==
    Select \/ handle_connection_request \/ \E i \in ClientFds : handle_tcp_message(i)

-----------------------------------------------------------------------------
(* The clients.  Client c is the process behind connection c.  They are      *)
(* followed as long as the server runs.                                      *)

Running(c) == status = "running" /\ c \in DOMAIN conn /\ conn[c].client = "open"
Queued(c) == \E k \in DOMAIN backlog : backlog[k] = c

Connect(nick) ==
    /\ status = "running" /\ Len(conn) < MaxConns
    /\ conn' = Append(conn, [nick |-> nick, hello |-> FALSE, client |-> "open",
                             server |-> "open", broken |-> FALSE, up |-> <<>>, down |-> <<>>])
    /\ backlog' = Append(backlog, Len(conn) + 1)
    /\ UNCHANGED <<server, requested>>

SendNick(c) ==
    /\ Running(c) /\ ~conn[c].hello
    /\ conn' = [conn EXCEPT ![c].hello = TRUE]
    /\ UNCHANGED <<server, backlog, requested>>

\* MSG or LIST, typed once the server has read the nickname.
SendRequest(c, nr_dest) ==
    /\ Running(c) /\ conn[c].hello /\ ~Queued(c) /\ requested < MaxReqs
    /\ requested' = requested + 1
    /\ conn' = IF conn[c].server = "open"
               THEN [conn EXCEPT ![c].up = Append(@, nr_dest)] ELSE conn
    /\ UNCHANGED <<server, backlog>>

handle_server_message(c) ==
    /\ Running(c) /\ conn[c].hello
    /\ \/ \E n \in 1 .. Len(conn[c].down) :     \* several may come at once
             conn' = [conn EXCEPT ![c].down = SubSeq(@, n + 1, Len(@))]
       \/ /\ conn[c].down = <<>> /\ conn[c].server = "closed"
          /\ conn' = [conn EXCEPT ![c].client = "closed"]
    /\ UNCHANGED <<server, backlog, requested>>

\* "exit": the shutdown comes first, then unread messages cause a reset.
Exit(c) ==
    /\ Running(c) /\ conn[c].hello
    /\ conn' = [conn EXCEPT ![c].client = "closed", ![c].down = <<>>,
                            ![c].broken = conn[c].down # <<>> /\ conn[c].server = "open"]
    /\ UNCHANGED <<server, backlog, requested>>

\* Killed by a signal: unread messages turn the close into a reset.
Kill(c) ==
    /\ Running(c)
    /\ conn' = [conn EXCEPT ![c].client = IF conn[c].down = <<>> THEN "closed" ELSE "aborted",
                            ![c].down = <<>>, ![c].broken = conn[c].down # <<>>]
    /\ UNCHANGED <<server, backlog, requested>>

Client(c) ==
    \/ SendNick(c) \/ handle_server_message(c) \/ Exit(c) \/ Kill(c)
    \/ \E nr_dest \in Destination : SendRequest(c, nr_dest)

Next ==
    \/ ServerStep \/ HandleStdinMessage
    \/ \E nick \in Nicks : Connect(nick)
    \/ \E c \in ConnIds : Client(c)

Spec == Init /\ [][Next]_vars

\* The server never stops scanning, and a client that connected sends its nickname.
FairSpec == Spec /\ WF_vars(ServerStep) /\ WF_vars(\E c \in ConnIds : SendNick(c))

-----------------------------------------------------------------------------
(* Properties.                                                               *)

\* README:10-12: all_clients keeps every client, the other tables the active ones.
\* They describe the same sessions, one to a nickname and to a number; every number
\* was given once, and belongs to its nickname for ever.
SessionTablesAgree ==
    /\ DOMAIN sock = DOMAIN active_socket_client
    /\ \A i \in DOMAIN active_socket_client :
          LET client == active_socket_client[i]
          IN  /\ client.nickname \in DOMAIN active_clients
              /\ active_clients[client.nickname] = client
              /\ client.number \in DOMAIN active_nrs_sockets
              /\ active_nrs_sockets[client.number] = i
    /\ Cardinality(DOMAIN active_clients) = Cardinality(DOMAIN active_socket_client)
    /\ Cardinality(DOMAIN active_nrs_sockets) = Cardinality(DOMAIN active_socket_client)
    /\ \A nick \in DOMAIN active_clients :
          nick \in DOMAIN all_clients /\ active_clients[nick] = all_clients[nick]
    /\ \A nick, other \in DOMAIN all_clients :
          /\ all_clients[nick].nickname = nick /\ all_clients[nick].number < curr_id
          /\ all_clients[nick].number = all_clients[other].number => nick = other

\* The nickname that the server reads from connection c.
NickOf(c) == IF conn[c].hello THEN conn[c].nick ELSE NoNick

\* Descriptors are closed in one handler and handed out again in another: the
\* connection at a descriptor is that of the client the tables have for it, and
\* what is watched or still to be scanned has a client, which
\* active_socket_client.at(i) relies on, and is within reach of the scan.
SocketIdentified ==
    /\ \A i \in DOMAIN sock : NickOf(sock[i]) = active_socket_client[i].nickname
    /\ read_fds \ {SockTcp} \subseteq DOMAIN sock /\ tmp_fds \subseteq read_fds
    /\ \A f \in read_fds : f <= fd_max

\* Descriptors are used again and numbers are kept: a message, other than an answer
\* to LIST, is sent to a client only if it is for the number of its own nickname.
DeliveredToNumber ==
    \A c \in DOMAIN conn : \A k \in DOMAIN conn[c].down :
        LET to == conn[c].down[k]
        IN  to # LIST => NickOf(c) \in DOMAIN all_clients /\ all_clients[NickOf(c)].number = to

\* What waits at the descriptor of an active client: requests, or the client's end.
Pending(i) == conn[sock[i]].up # <<>> \/ conn[sock[i]].client # "open"

\* A client that has connected is answered or turned away, and what comes on a
\* descriptor that is watched is read, be it requests or an end, unless the server
\* ends.
WatchedServed ==
    []<>(\/ status # "running"
         \/ backlog = <<>> /\ \A i \in read_fds \cap DOMAIN sock : ~Pending(i))

\* README:12-15: the tables hold the active clients, and the client that asks for the
\* list is sent it.  So what an active client asks is read, unless the server ends.
ActiveHeard ==
    []<>(\/ status # "running"
         \/ \A i \in DOMAIN sock : conn[sock[i]].client = "open" => conn[sock[i]].up = <<>>)

\* README:14 "Cand un client cere LIST, am scris toti clientii activi intr-un buffer si
\* l-am trimis catre clientul care a cerut": a server that goes on has sent as many
\* lists as it has taken requests for one.
Lists(q) == Cardinality({k \in DOMAIN q : q[k] = LIST})
ListsAnswered ==
    [][\A c \in DOMAIN conn :
          LET asked == Lists(conn[c].up) - Lists(conn'[c].up)
          IN  status' = "running" /\ conn[c].client = "open" /\ asked > 0 =>
                  Lists(conn'[c].down) - Lists(conn[c].down) = asked]_vars
=============================================================================
