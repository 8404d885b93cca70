----------------------------- MODULE ChatProofs -----------------------------
(***************************************************************************)
(* Proofs about Chat, for any nicknames, connections and requests.         *)
(***************************************************************************)
EXTENDS Chat, SequenceLemmas

\* unordered_map::erase, entry by entry.
LEMMA EraseEntries ==
    ASSUME NEW map, NEW k
    PROVE  /\ DOMAIN Erase(map, k) = DOMAIN map \ {k}
           /\ \A j \in DOMAIN map \ {k} : Erase(map, k)[j] = map[j]
BY DEF Erase, Restrict

-----------------------------------------------------------------------------
(* The tables of the server.                                                 *)

\* A session is at a descriptor, under its nickname and under its number.
Indexed ==
    \A i \in DOMAIN active_socket_client :
        LET client == active_socket_client[i]
        IN  /\ client.nickname \in DOMAIN active_clients
            /\ active_clients[client.nickname] = client
            /\ client.number \in DOMAIN active_nrs_sockets
            /\ active_nrs_sockets[client.number] = i

\* No nickname and no number is left in a table without its session.
NoneStale ==
    /\ \A nick \in DOMAIN active_clients :
          \E i \in DOMAIN active_socket_client : active_socket_client[i].nickname = nick
    /\ \A n \in DOMAIN active_nrs_sockets :
          /\ active_nrs_sockets[n] \in DOMAIN active_socket_client
          /\ active_socket_client[active_nrs_sockets[n]].number = n

\* Who is active has registered.
Registered ==
    \A nick \in DOMAIN active_clients :
        nick \in DOMAIN all_clients /\ active_clients[nick] = all_clients[nick]

\* A number is given once.
Register ==
    /\ curr_id \in Int
    /\ \A nick \in DOMAIN all_clients :
          /\ all_clients[nick].nickname = nick
          /\ all_clients[nick].number \in Int /\ all_clients[nick].number < curr_id
    /\ \A nick, other \in DOMAIN all_clients :
          all_clients[nick].number = all_clients[other].number => nick = other

Descriptors ==
    /\ DOMAIN sock = DOMAIN active_socket_client
    /\ DOMAIN sock \subseteq ClientFds

Tables == Descriptors /\ Indexed /\ NoneStale /\ Registered /\ Register

\* The client of a descriptor, in the table of all clients.
LEMMA SessionClient ==
    ASSUME Tables, NEW i \in DOMAIN active_socket_client
    PROVE  LET client == active_socket_client[i]
           IN  /\ client.nickname \in DOMAIN all_clients
               /\ all_clients[client.nickname] = client
               /\ client.number \in Int /\ client.number < curr_id
BY DEF Tables, Indexed, Registered, Register

\* A session of a client that is not active has no descriptor and no number.
LEMMA NotActive ==
    ASSUME Tables, NEW nick, nick \notin DOMAIN active_clients, NEW client,
           client.nickname = nick,
           \/ nick \in DOMAIN all_clients /\ client = all_clients[nick]
           \/ client.number = curr_id
    PROVE  client.number \notin DOMAIN active_nrs_sockets
<1> SUFFICES ASSUME client.number \in DOMAIN active_nrs_sockets PROVE FALSE
  OBVIOUS
<1> DEFINE i == active_nrs_sockets[client.number]
<1>1. i \in DOMAIN active_socket_client /\ active_socket_client[i].number = client.number
  BY DEF Tables, NoneStale
<1>2. /\ active_socket_client[i].nickname \in DOMAIN all_clients
      /\ all_clients[active_socket_client[i].nickname] = active_socket_client[i]
      /\ active_socket_client[i].number \in Int /\ active_socket_client[i].number < curr_id
  BY <1>1, SessionClient
<1>3. active_socket_client[i].nickname \in DOMAIN active_clients
  BY <1>1 DEF Tables, Indexed
<1> HIDE DEF i
<1>4. client.number # curr_id
  BY <1>1, <1>2 DEF Tables, Register
<1>5. active_socket_client[i].nickname = nick
  BY <1>1, <1>2, <1>4 DEF Tables, Register
<1> QED
  BY <1>3, <1>5

\* A session that opens.  Reconnect and add_new_client do this to the tables.
LEMMA ActivateKeeps ==
    ASSUME Tables, NEW fd \in ClientFds \ DOMAIN sock, NEW c, NEW nick, NEW client,
           nick \notin DOMAIN active_clients, client.nickname = nick,
           client.number \notin DOMAIN active_nrs_sockets,
           Activate(fd, nick, client), sock' = Insert(sock, fd, c),
           nick \in DOMAIN all_clients', all_clients'[nick] = client,
           \A other \in DOMAIN all_clients :
               other \in DOMAIN all_clients' /\ all_clients'[other] = all_clients[other],
           Register'
    PROVE  Tables'
<1>1. /\ DOMAIN active_socket_client' = DOMAIN active_socket_client \cup {fd}
      /\ fd \notin DOMAIN active_socket_client
      /\ active_socket_client'[fd] = client
      /\ \A i \in DOMAIN active_socket_client : active_socket_client'[i] = active_socket_client[i]
  BY DEF Activate, Insert, Tables, Descriptors
<1>2. /\ DOMAIN active_clients' = DOMAIN active_clients \cup {nick}
      /\ active_clients'[nick] = client
      /\ \A k \in DOMAIN active_clients : active_clients'[k] = active_clients[k]
  BY DEF Activate, Insert
<1>3. /\ DOMAIN active_nrs_sockets' = DOMAIN active_nrs_sockets \cup {client.number}
      /\ active_nrs_sockets'[client.number] = fd
      /\ \A k \in DOMAIN active_nrs_sockets : active_nrs_sockets'[k] = active_nrs_sockets[k]
  BY DEF Activate, Insert
<1>4. DOMAIN sock' = DOMAIN sock \cup {fd}
  BY DEF Insert
<1>5. Descriptors'
  BY <1>1, <1>4 DEF Tables, Descriptors
<1>6. Indexed'
  BY <1>1, <1>2, <1>3 DEF Tables, Indexed
<1>7. NoneStale'
  BY <1>1, <1>2, <1>3 DEF Tables, NoneStale
<1>8. Registered'
  BY <1>2 DEF Tables, Registered
<1> QED
  BY <1>5, <1>6, <1>7, <1>8 DEF Tables

LEMMA ReconnectTables ==
    ASSUME Tables, NEW c, NEW fd \in ClientFds, NEW nick, Reconnect(c, fd, nick)
    PROVE  Tables'
<1>1. /\ nick \notin DOMAIN active_clients /\ nick \in DOMAIN all_clients
      /\ Activate(fd, nick, all_clients[nick]) /\ sock' = Insert(sock, fd, c)
      /\ UNCHANGED <<all_clients, curr_id>> /\ fd \notin DOMAIN sock
  BY DEF Reconnect, Accepting, Lowest
<1>2. all_clients[nick].nickname = nick /\ Register'
  BY <1>1 DEF Tables, Register
<1>3. all_clients[nick].number \notin DOMAIN active_nrs_sockets
  BY <1>1, <1>2, NotActive
<1> QED
  BY <1>1, <1>2, <1>3, ActivateKeeps

LEMMA AddTables ==
    ASSUME Tables, NEW c, NEW fd \in ClientFds, NEW nick, add_new_client(c, fd, nick)
    PROVE  Tables'
<1> DEFINE client == [number |-> curr_id, nickname |-> nick]
<1>1. /\ nick \notin DOMAIN active_clients /\ nick \notin DOMAIN all_clients
      /\ Activate(fd, nick, client) /\ sock' = Insert(sock, fd, c)
      /\ all_clients' = Insert(all_clients, nick, client)
      /\ curr_id' = curr_id + 1 /\ fd \notin DOMAIN sock
  BY DEF add_new_client, Accepting, Lowest
<1>2. client.nickname = nick /\ client.number = curr_id
  OBVIOUS
<1> HIDE DEF client
<1>3. /\ DOMAIN all_clients' = DOMAIN all_clients \cup {nick}
      /\ all_clients'[nick] = client
      /\ \A k \in DOMAIN all_clients : all_clients'[k] = all_clients[k]
  BY <1>1 DEF Insert
<1>4. Register'
  <2>1. curr_id \in Int /\ curr_id' \in Int
    BY <1>1 DEF Tables, Register
  <2>2. \A k \in DOMAIN all_clients' :
            /\ all_clients'[k].nickname = k
            /\ all_clients'[k].number \in Int /\ all_clients'[k].number < curr_id'
    BY <1>1, <1>2, <1>3, <2>1 DEF Tables, Register
  <2>3. \A k, other \in DOMAIN all_clients' :
            all_clients'[k].number = all_clients'[other].number => k = other
    BY <1>2, <1>3, <2>1 DEF Tables, Register
  <2> QED
    BY <2>1, <2>2, <2>3 DEF Register
<1>5. client.number \notin DOMAIN active_nrs_sockets
  BY <1>1, <1>2, NotActive
<1> QED
  BY <1>1, <1>2, <1>3, <1>4, <1>5, ActivateKeeps

LEMMA DisconnectTables ==
    ASSUME Tables, NEW i \in DOMAIN sock, Disconnect(i)
    PROVE  Tables'
<1> DEFINE client == active_socket_client[i]
<1>1. /\ active_nrs_sockets' = Erase(active_nrs_sockets, client.number)
      /\ active_clients' = Erase(active_clients, client.nickname)
      /\ active_socket_client' = Erase(active_socket_client, i)
      /\ sock' = Erase(sock, i) /\ UNCHANGED <<all_clients, curr_id>>
  BY DEF Disconnect
<1>2. /\ DOMAIN active_socket_client' = DOMAIN active_socket_client \ {i}
      /\ \A j \in DOMAIN active_socket_client \ {i} :
            active_socket_client'[j] = active_socket_client[j]
  BY <1>1, EraseEntries
<1>3. /\ DOMAIN active_clients' = DOMAIN active_clients \ {client.nickname}
      /\ \A k \in DOMAIN active_clients \ {client.nickname} : active_clients'[k] = active_clients[k]
  BY <1>1, EraseEntries
<1>4. /\ DOMAIN active_nrs_sockets' = DOMAIN active_nrs_sockets \ {client.number}
      /\ \A k \in DOMAIN active_nrs_sockets \ {client.number} :
            active_nrs_sockets'[k] = active_nrs_sockets[k]
  BY <1>1, EraseEntries
<1>5. DOMAIN sock' = DOMAIN sock \ {i} /\ i \in DOMAIN active_socket_client
  BY <1>1, EraseEntries DEF Tables, Descriptors
<1>6. \A j \in DOMAIN active_socket_client \ {i} :
          /\ active_socket_client[j].nickname # client.nickname
          /\ active_socket_client[j].number # client.number
  BY <1>5 DEF Tables, Indexed
<1> HIDE DEF client
<1>7. Descriptors'
  BY <1>2, <1>5 DEF Tables, Descriptors
<1>8. Indexed'
  BY <1>2, <1>3, <1>4, <1>6 DEF Tables, Indexed
<1>9. NoneStale'
  BY <1>2, <1>3, <1>4, <1>5, <1>6, SMTT(30) DEF Tables, NoneStale, Indexed, client
<1>10. Registered' /\ Register'
  BY <1>1, <1>3 DEF Tables, Registered, Register
<1> QED
  BY <1>7, <1>8, <1>9, <1>10 DEF Tables

LEMMA SameTables == ASSUME Tables, UNCHANGED <<tables, sock>> PROVE Tables'
BY DEF tables, Tables, Descriptors, Indexed, NoneStale, Registered, Register

\* Every other step leaves the tables alone.
LEMMA NextTables == ASSUME Tables, [Next]_vars PROVE Tables'
<1>1. CASE Select \/ HandleStdinMessage \/ UNCHANGED vars
  BY <1>1, SameTables DEF Select, HandleStdinMessage, vars, server
<1>2. CASE handle_connection_request
  BY <1>2, ReconnectTables, AddTables, SameTables DEF handle_connection_request, AlreadyConnected
<1>3. ASSUME NEW i \in ClientFds, handle_tcp_message(i)
      PROVE  Tables'
  BY <1>3, DisconnectTables, SameTables
     DEF handle_tcp_message, ReceiveError, Request
<1>4. ASSUME NEW nick \in Nicks, Connect(nick)
      PROVE  Tables'
  BY <1>4, SameTables DEF Connect, server
<1>5. ASSUME NEW c \in ConnIds, Client(c)
      PROVE  Tables'
  BY <1>5, SameTables
     DEF Client, SendNick, SendRequest, handle_server_message, Exit, Kill, server
<1> QED
  BY <1>1, <1>2, <1>3, <1>4, <1>5 DEF Next, ServerStep

LEMMA InitTables == Init => Tables
BY DEF Init, Tables, Descriptors, Indexed, NoneStale, Registered, Register

\* As many nicknames and as many numbers are active as there are sessions.
LEMMA AsMany ==
    ASSUME Tables
    PROVE  /\ Cardinality(DOMAIN active_clients) = Cardinality(DOMAIN active_socket_client)
           /\ Cardinality(DOMAIN active_nrs_sockets) = Cardinality(DOMAIN active_socket_client)
<1> DEFINE S == DOMAIN active_socket_client
           byNick == [i \in S |-> active_socket_client[i].nickname]
           byNumber == [i \in S |-> active_socket_client[i].number]
<1>1. IsFiniteSet(S)
  <2>1. IsFiniteSet(ClientFds)
    BY ChatAssumption, FS_Interval DEF ClientFds
  <2> QED
    BY <2>1, FS_Subset DEF Tables, Descriptors
<1>2. byNick \in Bijection(S, DOMAIN active_clients)
  <2>1. byNick \in [S -> DOMAIN active_clients]
    BY DEF Tables, Indexed
  <2>2. \A i, j \in S : byNick[i] = byNick[j] => i = j
    BY DEF Tables, Indexed
  <2>3. \A nick \in DOMAIN active_clients : \E i \in S : byNick[i] = nick
    BY DEF Tables, NoneStale
  <2> QED
    BY <2>1, <2>2, <2>3 DEF Bijection, Injection, Surjection, IsInjective
<1>3. byNumber \in Bijection(S, DOMAIN active_nrs_sockets)
  <2>1. byNumber \in [S -> DOMAIN active_nrs_sockets]
    BY DEF Tables, Indexed
  <2>2. \A i, j \in S : byNumber[i] = byNumber[j] => i = j
    BY DEF Tables, Indexed
  <2>3. \A n \in DOMAIN active_nrs_sockets : \E i \in S : byNumber[i] = n
    BY DEF Tables, NoneStale
  <2> QED
    BY <2>1, <2>2, <2>3 DEF Bijection, Injection, Surjection, IsInjective
<1> HIDE DEF S, byNick, byNumber
<1>4. Cardinality(S) = Cardinality(DOMAIN active_clients)
  BY <1>1, <1>2, FS_Bijection DEF ExistsBijection
<1>5. Cardinality(S) = Cardinality(DOMAIN active_nrs_sockets)
  BY <1>1, <1>3, FS_Bijection DEF ExistsBijection
<1> QED
  BY <1>4, <1>5 DEF S

LEMMA TablesInvariant == Spec => []Tables
BY InitTables, NextTables, PTL DEF Spec

\* The four tables and the descriptors describe the same sessions, and a number
\* belongs to one nickname for ever.
THEOREM SessionsConsistent == Spec => []SessionTablesAgree
<1>1. Tables => SessionTablesAgree
  BY AsMany DEF Tables, Descriptors, Indexed, Registered, Register, SessionTablesAgree
<1> QED
  BY <1>1, TablesInvariant, PTL

-----------------------------------------------------------------------------
(* The connections.                                                          *)

\* The connections the server has accepted are the first ones.
Accepted == Len(conn) - Len(backlog)

\* What the server reads from connection c is decided.
Settled(c) == conn[c].hello \/ conn[c].client # "open"

TypeInv ==
    /\ conn \in Seq(Connection) /\ backlog \in Seq(Nat)
    /\ fd_max \in Int /\ read_fds \subseteq Int

\* Connections are accepted in the order in which they are made.
InOrder ==
    /\ Accepted >= 0
    /\ \A k \in 1 .. Len(backlog) : backlog[k] = Accepted + k

\* A nickname is registered exactly if it was read from a connection.
Read ==
    /\ \A c \in 1 .. Accepted : Settled(c) /\ NickOf(c) \in DOMAIN all_clients
    /\ \A nick \in DOMAIN all_clients : \E c \in 1 .. Accepted : NickOf(c) = nick

\* A descriptor is a connection that its client has made.
Identified ==
    \A i \in DOMAIN sock :
        sock[i] \in 1 .. Accepted /\ NickOf(sock[i]) = active_socket_client[i].nickname

\* Nothing is sent to a connection before it is accepted.
Silent == \A c \in 1 .. Len(conn) : c > Accepted => conn[c].down = <<>>

ConnInv == TypeInv /\ InOrder /\ Read /\ Identified /\ Silent

-----------------------------------------------------------------------------
(* What a step may do to a connection.                                       *)

\* The nickname that was read stays, and a client that has ended does not return.
Grows(v, w) ==
    /\ w \in Connection /\ w.nick = v.nick
    /\ v.hello => w.hello
    /\ w.hello => v.hello \/ v.client = "open"
    /\ v.client # "open" => w.client # "open"

\* No message comes, or none but x.
Keeps(v, w) == \A k \in 1 .. Len(w.down) : \E j \in 1 .. Len(v.down) : w.down[k] = v.down[j]
KeepsBut(v, w, x) ==
    \A k \in 1 .. Len(w.down) :
        w.down[k] = x \/ \E j \in 1 .. Len(v.down) : w.down[k] = v.down[j]

Later(cn, cn2) ==
    /\ cn2 \in Seq(Connection) /\ Len(cn2) = Len(cn)
    /\ \A c \in 1 .. Len(cn) : Grows(cn[c], cn2[c])
Quiet(cn, cn2) == \A c \in 1 .. Len(cn) : Keeps(cn[c], cn2[c])
QuietBut(cn, cn2, to, x) ==
    /\ \A c \in 1 .. Len(cn) : c # to => Keeps(cn[c], cn2[c])
    /\ KeepsBut(cn[to], cn2[to], x)

LEMMA ConnectionUpdate ==
    ASSUME NEW cn \in Seq(Connection), NEW c \in 1 .. Len(cn), NEW w \in Connection
    PROVE  /\ [cn EXCEPT ![c] = w] \in Seq(Connection)
           /\ Len([cn EXCEPT ![c] = w]) = Len(cn)
           /\ [cn EXCEPT ![c] = w][c] = w
           /\ \A d \in 1 .. Len(cn) : d # c => [cn EXCEPT ![c] = w][d] = cn[d]
OBVIOUS

LEMMA ConnectionFields ==
    ASSUME NEW v \in Connection
    PROVE  /\ v.nick \in Nicks /\ v.hello \in BOOLEAN /\ v.broken \in BOOLEAN
           /\ v.client \in {"open", "closed", "aborted"} /\ v.server \in {"open", "closed"}
           /\ v.up \in Seq(Destination) /\ v.down \in Seq(Destination)
           /\ v = [nick |-> v.nick, hello |-> v.hello, client |-> v.client,
                   server |-> v.server, broken |-> v.broken, up |-> v.up, down |-> v.down]
BY DEF Connection

LEMMA SameLater ==
    ASSUME NEW cn \in Seq(Connection)
    PROVE  Later(cn, cn) /\ Quiet(cn, cn)
<1>1. \A c \in 1 .. Len(cn) : cn[c] \in Connection
  OBVIOUS
<1> QED
  BY <1>1 DEF Later, Quiet, Grows, Keeps

LEMMA UpdateLater ==
    ASSUME NEW cn \in Seq(Connection), NEW c \in 1 .. Len(cn), NEW w, Grows(cn[c], w)
    PROVE  /\ Later(cn, [cn EXCEPT ![c] = w])
           /\ Keeps(cn[c], w) => Quiet(cn, [cn EXCEPT ![c] = w])
           /\ \A x : KeepsBut(cn[c], w, x) => QuietBut(cn, [cn EXCEPT ![c] = w], c, x)
<1> DEFINE new == [cn EXCEPT ![c] = w]
<1>1. /\ new \in Seq(Connection) /\ Len(new) = Len(cn) /\ new[c] = w
      /\ \A d \in 1 .. Len(cn) : d # c => new[d] = cn[d]
  BY ConnectionUpdate DEF Grows
<1>2. /\ \A d \in 1 .. Len(cn) : Grows(cn[d], cn[d]) /\ Keeps(cn[d], cn[d])
  BY SameLater DEF Later, Quiet
<1> HIDE DEF new
<1>3. Later(cn, new)
  BY <1>1, <1>2 DEF Later
<1>4. Keeps(cn[c], w) => Quiet(cn, new)
  BY <1>1, <1>2 DEF Quiet
<1>5. \A x : KeepsBut(cn[c], w, x) => QuietBut(cn, new, c, x)
  BY <1>1, <1>2 DEF QuietBut
<1> QED
  BY <1>3, <1>4, <1>5 DEF new

LEMMA KeepsTrans ==
    ASSUME NEW u, NEW v, NEW w, Keeps(u, v)
    PROVE  /\ Keeps(v, w) => Keeps(u, w)
           /\ \A x : KeepsBut(v, w, x) => KeepsBut(u, w, x)
<1>1. ASSUME NEW k \in 1 .. Len(w.down), NEW j \in 1 .. Len(v.down), w.down[k] = v.down[j]
      PROVE  \E i \in 1 .. Len(u.down) : w.down[k] = u.down[i]
  <2>1. PICK i \in 1 .. Len(u.down) : v.down[j] = u.down[i]
    BY DEF Keeps
  <2> QED
    BY <1>1, <2>1
<1>2. ASSUME Keeps(v, w) PROVE Keeps(u, w)
  BY <1>1, <1>2 DEF Keeps
<1>3. ASSUME NEW x, KeepsBut(v, w, x) PROVE KeepsBut(u, w, x)
  BY <1>1, <1>3 DEF KeepsBut
<1> QED
  BY <1>2, <1>3

LEMMA LaterTrans ==
    ASSUME NEW a, NEW b, NEW c, Later(a, b), Later(b, c)
    PROVE  /\ Later(a, c)
           /\ Quiet(a, b) /\ Quiet(b, c) => Quiet(a, c)
           /\ \A to \in 1 .. Len(a) : \A x :
                 Quiet(a, b) /\ QuietBut(b, c, to, x) => QuietBut(a, c, to, x)
<1>1. Len(b) = Len(a) /\ Len(c) = Len(a) /\ c \in Seq(Connection)
  BY DEF Later
<1>2. \A d \in 1 .. Len(a) : Grows(a[d], b[d]) /\ Grows(b[d], c[d])
  BY <1>1 DEF Later
<1>3. \A d \in 1 .. Len(a) : Grows(a[d], c[d])
  BY <1>2 DEF Grows
<1>4. ASSUME Quiet(a, b), Quiet(b, c) PROVE Quiet(a, c)
  BY <1>1, <1>4, KeepsTrans DEF Quiet
<1>5. ASSUME NEW to \in 1 .. Len(a), NEW x, Quiet(a, b), QuietBut(b, c, to, x)
      PROVE  QuietBut(a, c, to, x)
  <2>1. \A d \in 1 .. Len(a) : d # to => Keeps(a[d], c[d])
    BY <1>1, <1>5, KeepsTrans DEF Quiet, QuietBut
  <2>2. KeepsBut(a[to], c[to], x)
    BY <1>1, <1>5, KeepsTrans DEF Quiet, QuietBut
  <2> QED
    BY <2>1, <2>2 DEF QuietBut
<1> QED
  BY <1>1, <1>3, <1>4, <1>5 DEF Later

LEMMA HangUpLater ==
    ASSUME NEW cn \in Seq(Connection)
    PROVE  Later(cn, HangUp(cn)) /\ Quiet(cn, HangUp(cn))
<1> DEFINE new == HangUp(cn)
<1>1. \A c \in 1 .. Len(cn) : /\ new[c] = [cn[c] EXCEPT !.server = "closed"]
                              /\ cn[c] \in Connection
  BY DEF HangUp
<1>2. \A c \in 1 .. Len(cn) : Grows(cn[c], new[c]) /\ Keeps(cn[c], new[c])
  <2> SUFFICES ASSUME NEW c \in 1 .. Len(cn)
               PROVE  Grows(cn[c], new[c]) /\ Keeps(cn[c], new[c])
    OBVIOUS
  <2>1. [cn[c] EXCEPT !.server = "closed"] \in Connection
    BY <1>1 DEF Connection
  <2>2. /\ new[c].nick = cn[c].nick /\ new[c].hello = cn[c].hello
        /\ new[c].client = cn[c].client /\ new[c].down = cn[c].down
    BY <1>1 DEF Connection
  <2> HIDE DEF new
  <2> QED
    BY <1>1, <2>1, <2>2 DEF Grows, Keeps
<1>3. new \in [1 .. Len(cn) -> Connection]
  <2>1. DOMAIN cn = 1 .. Len(cn) /\ new = [c \in 1 .. Len(cn) |-> new[c]]
    BY DEF HangUp
  <2>2. \A c \in 1 .. Len(cn) : new[c] \in Connection
    BY <1>2 DEF Grows
  <2> HIDE DEF new
  <2> QED
    BY <2>1, <2>2
<1>4. new \in Seq(Connection) /\ Len(new) = Len(cn)
  BY <1>3, FunctionIsSeq
<1> QED
  BY <1>2, <1>4 DEF Later, Quiet

-----------------------------------------------------------------------------
(* What each step does to the connections.                                   *)

\* One field of a connection is set.
LEMMA FieldGrows ==
    ASSUME NEW v \in Connection
    PROVE  /\ v.client = "open" => Grows(v, [v EXCEPT !.hello = TRUE])
           /\ Grows(v, [v EXCEPT !.server = "closed"])
           /\ Grows(v, [v EXCEPT !.broken = TRUE])
           /\ \A q \in Seq(Destination) : Grows(v, [v EXCEPT !.up = q])
           /\ \A q \in Seq(Destination) : Grows(v, [v EXCEPT !.down = q])
           /\ Grows(v, [v EXCEPT !.client = "closed"])
<1>1. /\ v.nick \in Nicks /\ v.hello \in BOOLEAN /\ v.broken \in BOOLEAN
      /\ v.client \in {"open", "closed", "aborted"} /\ v.server \in {"open", "closed"}
      /\ v.up \in Seq(Destination) /\ v.down \in Seq(Destination)
  BY ConnectionFields
<1>2. v.client = "open" => Grows(v, [v EXCEPT !.hello = TRUE])
  BY <1>1 DEF Grows, Connection
<1>3. Grows(v, [v EXCEPT !.server = "closed"])
  BY <1>1 DEF Grows, Connection
<1>4. Grows(v, [v EXCEPT !.broken = TRUE])
  BY <1>1 DEF Grows, Connection
<1>5. \A q \in Seq(Destination) : Grows(v, [v EXCEPT !.up = q])
  BY <1>1 DEF Grows, Connection
<1>6. \A q \in Seq(Destination) : Grows(v, [v EXCEPT !.down = q])
  BY <1>1 DEF Grows, Connection
<1>7. Grows(v, [v EXCEPT !.client = "closed"])
  BY <1>1 DEF Grows, Connection
<1> QED
  BY <1>2, <1>3, <1>4, <1>5, <1>6, <1>7

\* What is left of a queue when n of its elements are taken.
LEMMA RestElements ==
    ASSUME NEW S, NEW q \in Seq(S), NEW n \in 1 .. Len(q)
    PROVE  LET rest == SubSeq(q, n + 1, Len(q))
           IN  /\ rest \in Seq(S) /\ Len(q) \in Nat /\ Len(rest) = Len(q) - n
               /\ \A k \in 1 .. Len(q) - n : rest[k] = q[k + n]
<1> DEFINE rest == SubSeq(q, n + 1, Len(q))
<1>1. Len(q) \in Nat /\ n \in Nat
  OBVIOUS
<1>2. n + 1 \in 1 .. Len(q) + 1 /\ Len(q) \in n .. Len(q)
  BY <1>1
<1>3. rest \in Seq(S) /\ Len(rest) = Len(q) - n
  BY <1>1, <1>2, SubSeqProperties
<1>4. \A k \in 1 .. Len(q) - n : rest[k] = q[k + n]
  BY <1>1, <1>2, SubSeqProperties
<1> QED
  BY <1>1, <1>3, <1>4

\* The messages that are left.
LEMMA FieldKeeps ==
    ASSUME NEW v, NEW w
    PROVE  /\ w.down = v.down => Keeps(v, w)
           /\ w.down = <<>> => Keeps(v, w)
           /\ \A n \in 1 .. Len(v.down) :
                 v.down \in Seq(Destination) /\ w.down = SubSeq(v.down, n + 1, Len(v.down))
                     => Keeps(v, w)
           /\ \A x \in Destination :
                 v.down \in Seq(Destination) /\ w.down = Append(v.down, x) => KeepsBut(v, w, x)
<1>1. w.down = v.down => Keeps(v, w)
  BY DEF Keeps
<1>2. w.down = <<>> => Keeps(v, w)
  BY DEF Keeps
<1>3. ASSUME NEW n \in 1 .. Len(v.down), v.down \in Seq(Destination),
             w.down = SubSeq(v.down, n + 1, Len(v.down))
      PROVE  Keeps(v, w)
  <2>1. /\ Len(v.down) \in Nat /\ Len(w.down) = Len(v.down) - n
        /\ \A k \in 1 .. Len(v.down) - n : w.down[k] = v.down[k + n]
    BY <1>3, RestElements
  <2> SUFFICES ASSUME NEW k \in 1 .. Len(w.down)
               PROVE  \E j \in 1 .. Len(v.down) : w.down[k] = v.down[j]
    BY DEF Keeps
  <2>2. k + n \in 1 .. Len(v.down) /\ w.down[k] = v.down[k + n]
    BY <2>1
  <2> QED
    BY <2>2
<1>4. ASSUME NEW x \in Destination, v.down \in Seq(Destination), w.down = Append(v.down, x)
      PROVE  KeepsBut(v, w, x)
  <2>1. /\ Len(v.down) \in Nat /\ Len(w.down) = Len(v.down) + 1
        /\ \A k \in 1 .. Len(v.down) : w.down[k] = v.down[k]
        /\ w.down[Len(v.down) + 1] = x
    BY <1>4, AppendElements
  <2> SUFFICES ASSUME NEW k \in 1 .. Len(w.down)
               PROVE  w.down[k] = x \/ \E j \in 1 .. Len(v.down) : w.down[k] = v.down[j]
    BY DEF KeepsBut
  <2>2. CASE k = Len(v.down) + 1
    BY <2>1, <2>2
  <2>3. CASE k # Len(v.down) + 1
    <3>1. k \in 1 .. Len(v.down)
      BY <2>1, <2>3
    <3> QED
      BY <2>1, <3>1
  <2> QED
    BY <2>2, <2>3
<1> QED
  BY <1>1, <1>2, <1>3, <1>4

\* send() adds its message to one connection at most.
LEMMA SendLater ==
    ASSUME NEW cn \in Seq(Connection), NEW c \in 1 .. Len(cn), NEW x \in Destination, Send(cn, c, x)
    PROVE  Later(cn, conn') /\ (Quiet(cn, conn') \/ QuietBut(cn, conn', c, x))
<1> DEFINE v == cn[c]
<1>1. v \in Connection /\ v.down \in Seq(Destination)
  BY ConnectionFields
<1>2. CASE conn' = [cn EXCEPT ![c].down = Append(@, x)]
  <2> DEFINE w == [v EXCEPT !.down = Append(v.down, x)]
  <2>1. conn' = [cn EXCEPT ![c] = w]
    BY <1>2
  <2>2. Append(v.down, x) \in Seq(Destination)
    BY <1>1
  <2>3. Grows(v, w) /\ w.down = Append(v.down, x)
    BY <1>1, <2>2, FieldGrows DEF Connection
  <2> HIDE DEF v, w
  <2>4. KeepsBut(v, w, x)
    BY <1>1, <2>3, FieldKeeps
  <2> QED
    BY <2>1, <2>3, <2>4, UpdateLater DEF v
<1>3. CASE conn' = [cn EXCEPT ![c].broken = TRUE]
  <2> DEFINE w == [v EXCEPT !.broken = TRUE]
  <2>1. conn' = [cn EXCEPT ![c] = w]
    BY <1>3
  <2>2. Grows(v, w) /\ w.down = v.down
    BY <1>1, FieldGrows DEF Connection
  <2> HIDE DEF v, w
  <2>3. Keeps(v, w)
    BY <2>2, FieldKeeps
  <2> QED
    BY <2>1, <2>2, <2>3, UpdateLater DEF v
<1>4. CASE conn' = HangUp(cn)
  BY <1>4, HangUpLater
<1> QED
  BY <1>2, <1>3, <1>4 DEF Send

\* Requests are taken.
LEMMA TakenLater ==
    ASSUME conn \in Seq(Connection), NEW i, sock[i] \in 1 .. Len(conn),
           NEW n \in 1 .. Len(conn[sock[i]].up)
    PROVE  Later(conn, Taken(i, n)) /\ Quiet(conn, Taken(i, n))
<1> DEFINE c == sock[i]
           v == conn[c]
           rest == SubSeq(v.up, n + 1, Len(v.up))
           w == [v EXCEPT !.up = rest]
<1>1. v \in Connection /\ v.up \in Seq(Destination)
  BY ConnectionFields
<1>2. Taken(i, n) = [conn EXCEPT ![c] = w]
  BY DEF Taken
<1>3. rest \in Seq(Destination)
  BY <1>1, RestElements
<1>4. Grows(v, w) /\ w.down = v.down
  BY <1>1, <1>3, FieldGrows DEF Connection
<1>5. c \in 1 .. Len(conn)
  OBVIOUS
<1> HIDE DEF c, v, w, rest
<1>6. Keeps(v, w)
  BY <1>4, FieldKeeps
<1>7. Grows(conn[c], w) /\ Keeps(conn[c], w)
  BY <1>4, <1>6 DEF v
<1>8. Later(conn, [conn EXCEPT ![c] = w]) /\ Quiet(conn, [conn EXCEPT ![c] = w])
  BY <1>5, <1>7, UpdateLater
<1> QED
  BY <1>2, <1>8, Zenon

\* The server closes its end.
LEMMA CloseLater ==
    ASSUME conn \in Seq(Connection), NEW c \in 1 .. Len(conn)
    PROVE  LET new == [conn EXCEPT ![c].server = "closed"]
           IN  Later(conn, new) /\ Quiet(conn, new)
<1> DEFINE v == conn[c]
           w == [v EXCEPT !.server = "closed"]
<1>1. v \in Connection
  OBVIOUS
<1>2. [conn EXCEPT ![c].server = "closed"] = [conn EXCEPT ![c] = w]
  OBVIOUS
<1>3. Grows(v, w) /\ w.down = v.down
  BY <1>1, FieldGrows DEF Connection
<1> HIDE DEF v, w
<1>4. Keeps(v, w)
  BY <1>3, FieldKeeps
<1> QED
  BY <1>2, <1>3, <1>4, UpdateLater DEF v

\* A client that ends drops what it has not read.
LEMMA EndTyped ==
    ASSUME NEW v \in Connection, NEW e \in {"closed", "aborted"}, NEW b \in BOOLEAN
    PROVE  [v EXCEPT !.client = e, !.down = <<>>, !.broken = b] \in Connection
<1>1. <<>> \in Seq(Destination) /\ e \in {"open", "closed", "aborted"}
  OBVIOUS
<1> QED
  BY <1>1 DEF Connection

\* A client that sends, reads, or ends.
LEMMA ClientLater ==
    ASSUME conn \in Seq(Connection), NEW c, Client(c)
    PROVE  Later(conn, conn') /\ Quiet(conn, conn')
<1> DEFINE v == conn[c]
<1>1. c \in 1 .. Len(conn) /\ v.client = "open"
  BY DEF Client, Running, SendNick, SendRequest, handle_server_message, Exit, Kill
<1>2. v \in Connection /\ v.up \in Seq(Destination) /\ v.down \in Seq(Destination)
  BY <1>1, ConnectionFields
<1>3. CASE SendNick(c)
  <2> DEFINE w == [v EXCEPT !.hello = TRUE]
  <2>1. conn' = [conn EXCEPT ![c] = w]
    BY <1>3 DEF SendNick
  <2>2. Grows(v, w) /\ w.down = v.down
    BY <1>1, <1>2, FieldGrows DEF Connection
  <2> HIDE DEF v, w
  <2>3. Keeps(v, w)
    BY <2>2, FieldKeeps
  <2> QED
    BY <1>1, <2>1, <2>2, <2>3, UpdateLater DEF v
<1>4. ASSUME NEW nr_dest \in Destination, SendRequest(c, nr_dest)
      PROVE  Later(conn, conn') /\ Quiet(conn, conn')
  <2> DEFINE w == [v EXCEPT !.up = Append(v.up, nr_dest)]
  <2>1. conn' = [conn EXCEPT ![c] = w] \/ conn' = conn
    BY <1>4 DEF SendRequest
  <2>2. Append(v.up, nr_dest) \in Seq(Destination)
    BY <1>2
  <2>3. Grows(v, w) /\ w.down = v.down
    BY <1>2, <2>2, FieldGrows DEF Connection
  <2> HIDE DEF v, w
  <2>4. Keeps(v, w)
    BY <2>3, FieldKeeps
  <2> QED
    BY <1>1, <2>1, <2>3, <2>4, UpdateLater, SameLater, SMTT(30) DEF v
<1>5. CASE handle_server_message(c)
  <2>1. ASSUME NEW n \in 1 .. Len(v.down),
               conn' = [conn EXCEPT ![c].down = SubSeq(@, n + 1, Len(@))]
        PROVE  Later(conn, conn') /\ Quiet(conn, conn')
    <3> DEFINE rest == SubSeq(v.down, n + 1, Len(v.down))
               w == [v EXCEPT !.down = rest]
    <3>1. conn' = [conn EXCEPT ![c] = w]
      BY <2>1
    <3>2. rest \in Seq(Destination)
      BY <1>2, RestElements
    <3>3. Grows(v, w) /\ w.down = rest
      BY <1>2, <3>2, FieldGrows DEF Connection
    <3> HIDE DEF v, w
    <3>4. Keeps(v, w)
      BY <1>2, <3>3, FieldKeeps
    <3> QED
      BY <1>1, <3>1, <3>3, <3>4, UpdateLater DEF v
  <2>2. CASE conn' = [conn EXCEPT ![c].client = "closed"]
    <3> DEFINE w == [v EXCEPT !.client = "closed"]
    <3>1. conn' = [conn EXCEPT ![c] = w]
      BY <2>2
    <3>2. Grows(v, w) /\ w.down = v.down
      BY <1>2, FieldGrows DEF Connection
    <3> HIDE DEF v, w
    <3>3. Keeps(v, w)
      BY <3>2, FieldKeeps
    <3> QED
      BY <1>1, <3>1, <3>2, <3>3, UpdateLater DEF v
  <2> QED
    BY <1>5, <2>1, <2>2 DEF handle_server_message
<1>6. CASE Exit(c)
  <2> DEFINE b == conn[c].down # <<>> /\ conn[c].server = "open"
             w == [v EXCEPT !.client = "closed", !.down = <<>>, !.broken = b]
  <2>1. conn' = [conn EXCEPT ![c] = w]
    BY <1>6 DEF Exit
  <2>2. b \in BOOLEAN
    OBVIOUS
  <2> HIDE DEF b
  <2>3. w \in Connection
    BY <1>2, <2>2, EndTyped
  <2>4. w.nick = v.nick /\ w.hello = v.hello /\ w.client = "closed" /\ w.down = <<>>
    BY <1>2 DEF Connection
  <2> HIDE DEF v, w
  <2>5. Grows(v, w)
    BY <2>3, <2>4 DEF Grows
  <2>6. Keeps(v, w)
    BY <2>4, FieldKeeps
  <2> QED
    BY <1>1, <2>1, <2>5, <2>6, UpdateLater DEF v
<1>7. CASE Kill(c)
  <2> DEFINE e == IF conn[c].down = <<>> THEN "closed" ELSE "aborted"
             b == conn[c].down # <<>>
             w == [v EXCEPT !.client = e, !.down = <<>>, !.broken = b]
  <2>1. conn' = [conn EXCEPT ![c] = w]
    BY <1>7 DEF Kill
  <2>2. e \in {"closed", "aborted"} /\ b \in BOOLEAN
    OBVIOUS
  <2> HIDE DEF e, b
  <2>3. w \in Connection
    BY <1>2, <2>2, EndTyped
  <2>4. w.nick = v.nick /\ w.hello = v.hello /\ w.client # "open" /\ w.down = <<>>
    BY <1>2, <2>2 DEF Connection
  <2> HIDE DEF v, w
  <2>5. Grows(v, w)
    BY <2>3, <2>4 DEF Grows
  <2>6. Keeps(v, w)
    BY <2>4, FieldKeeps
  <2> QED
    BY <1>1, <2>1, <2>5, <2>6, UpdateLater DEF v
<1> QED
  BY <1>3, <1>4, <1>5, <1>6, <1>7 DEF Client

-----------------------------------------------------------------------------
(* What is watched, and what is delivered.                                   *)

\* What is watched or still to be scanned is a descriptor of the server.
Watched ==
    /\ read_fds \ {SockTcp} \subseteq DOMAIN sock /\ tmp_fds \subseteq read_fds
    /\ \A f \in read_fds : f <= fd_max

ChatInv == Tables /\ ConnInv /\ Watched /\ DeliveredToNumber

\* A session that opens or ends, and what is left of a scan.
LEMMA WatchedKept ==
    ASSUME TypeInv, Tables, Watched, [Next]_vars
    PROVE  Watched'
<1>1. read_fds \subseteq Int /\ fd_max \in Int
  BY DEF TypeInv
<1>2. ASSUME UNCHANGED <<fdsets, sock>>, tmp_fds' \subseteq read_fds
      PROVE  Watched'
  BY <1>2 DEF Watched, fdsets
<1>3. CASE Select \/ HandleStdinMessage \/ UNCHANGED vars
  BY <1>2, <1>3 DEF Select, HandleStdinMessage, vars, server, fdsets, Watched
<1>4. ASSUME NEW c, NEW fd \in ClientFds, NEW nick, Accepting(c, fd, nick),
             AlreadyConnected(c, fd, nick) \/ Reconnect(c, fd, nick) \/ add_new_client(c, fd, nick)
      PROVE  Watched'
  <2>1. tmp_fds' \subseteq read_fds
    BY <1>4 DEF Accepting, Scan, Watched
  <2>2. CASE AlreadyConnected(c, fd, nick)
    BY <1>2, <2>1, <2>2 DEF AlreadyConnected
  <2>3. CASE sock' = Insert(sock, fd, c) /\ UNCHANGED fdsets
    <3>1. DOMAIN sock' = DOMAIN sock \cup {fd}
      BY <2>3 DEF Insert
    <3> QED
      BY <2>1, <2>3, <3>1 DEF Watched, fdsets
  <2>4. CASE sock' = Insert(sock, fd, c) /\ Watch(fd)
    <3>1. DOMAIN sock' = DOMAIN sock \cup {fd}
      BY <2>4 DEF Insert
    <3>2. read_fds' = read_fds \cup {fd} /\ fd_max' = IF fd > fd_max THEN fd ELSE fd_max
      BY <2>4 DEF Watch
    <3>3. fd \in Int
      BY ChatAssumption DEF ClientFds
    <3>4. fd <= fd_max' /\ fd_max <= fd_max' /\ fd_max' \in Int
      BY <1>1, <3>2, <3>3
    <3>5. \A f \in read_fds' : f <= fd_max'
      BY <1>1, <3>2, <3>3, <3>4 DEF Watched
    <3>6. read_fds' \ {SockTcp} \subseteq DOMAIN sock'
      BY <3>1, <3>2 DEF Watched
    <3> QED
      BY <2>1, <3>2, <3>5, <3>6 DEF Watched
  <2> QED
    BY <1>4, <2>2, <2>3, <2>4 DEF Reconnect, add_new_client
<1>5. CASE handle_connection_request
  BY <1>4, <1>5 DEF handle_connection_request, AlreadyConnected, Reconnect, add_new_client
<1>6. ASSUME NEW i \in ClientFds, handle_tcp_message(i)
      PROVE  Watched'
  <2>1. i \in DOMAIN sock /\ tmp_fds' = tmp_fds \ {i}
    BY <1>6 DEF handle_tcp_message, Scan
  <2>2. CASE Disconnect(i)
    <3>1. /\ read_fds' = read_fds \ {i} /\ fd_max' = fd_max
          /\ DOMAIN sock' = DOMAIN sock \ {i}
      BY <2>2, EraseEntries DEF Disconnect
    <3> QED
      BY <2>1, <3>1 DEF Watched
  <2>3. CASE ReceiveError(i) \/ Request(i)
    BY <1>2, <2>1, <2>3 DEF ReceiveError, Request, Watched
  <2> QED
    BY <1>6, <2>2, <2>3 DEF handle_tcp_message
<1>7. ASSUME NEW nick \in Nicks, Connect(nick)
      PROVE  Watched'
  BY <1>2, <1>7 DEF Connect, server, Watched
<1>8. ASSUME NEW c \in ConnIds, Client(c)
      PROVE  Watched'
  BY <1>2, <1>8
     DEF Client, SendNick, SendRequest, handle_server_message, Exit, Kill, server, Watched
<1> QED
  BY <1>3, <1>5, <1>6, <1>7, <1>8 DEF Next, ServerStep

LEMMA Settles ==
    ASSUME Later(conn, conn'), NEW c \in 1 .. Len(conn), Settled(c)
    PROVE  Settled(c)' /\ NickOf(c)' = NickOf(c)
<1>1. Grows(conn[c], conn'[c])
  BY DEF Later
<1> QED
  BY <1>1 DEF Settled, NickOf, Grows

LEMMA AcceptedTyped ==
    ASSUME ConnInv
    PROVE  /\ Len(conn) \in Nat /\ Len(backlog) \in Nat /\ Accepted \in Nat
           /\ Accepted <= Len(conn) /\ DOMAIN conn = 1 .. Len(conn)
BY DEF ConnInv, TypeInv, InOrder, Accepted

\* Nicknames that were read do not change.
LEMMA ReadKept ==
    ASSUME ConnInv, Later(conn, conn')
    PROVE  \A c \in 1 .. Accepted : Settled(c)' /\ NickOf(c)' = NickOf(c)
<1> SUFFICES ASSUME NEW c \in 1 .. Accepted PROVE Settled(c)' /\ NickOf(c)' = NickOf(c)
  OBVIOUS
<1>1. Settled(c) /\ c \in 1 .. Len(conn)
  BY AcceptedTyped DEF ConnInv, Read
<1> QED
  BY <1>1, Settles

\* x is the number of the client of connection c.
Owns(c, x) == NickOf(c) \in DOMAIN all_clients /\ all_clients[NickOf(c)].number = x

\* What the step adds to the queue of one connection at most.
Sends(to, x) == QuietBut(conn, conn', to, x) /\ (x # LIST => Owns(to, x))

LEMMA Delivered ==
    ASSUME ConnInv, DeliveredToNumber, Later(conn, conn'),
           Quiet(conn, conn') \/ \E to \in 1 .. Accepted, x \in Destination : Sends(to, x),
           \A nick \in DOMAIN all_clients :
               nick \in DOMAIN all_clients' /\ all_clients'[nick] = all_clients[nick]
    PROVE  /\ DeliveredToNumber'
           /\ \A c \in 1 .. Len(conn) : c > Accepted => conn'[c].down = <<>>
<1>1. Len(conn') = Len(conn) /\ DOMAIN conn' = 1 .. Len(conn) /\ DOMAIN conn = 1 .. Len(conn)
  BY AcceptedTyped DEF Later
<1>2. \A c \in 1 .. Len(conn) :
          /\ conn[c].down \in Seq(Destination) /\ conn'[c].down \in Seq(Destination)
          /\ DOMAIN conn[c].down = 1 .. Len(conn[c].down)
          /\ DOMAIN conn'[c].down = 1 .. Len(conn'[c].down)
  <2> SUFFICES ASSUME NEW c \in 1 .. Len(conn)
               PROVE  conn[c].down \in Seq(Destination) /\ conn'[c].down \in Seq(Destination)
    OBVIOUS
  <2>1. conn[c] \in Connection /\ conn'[c] \in Connection
    BY DEF ConnInv, TypeInv, Later, Grows
  <2> QED
    BY <2>1, ConnectionFields
<1>3. \A c \in 1 .. Accepted : NickOf(c)' = NickOf(c)
  BY ReadKept
<1>4. \A c \in 1 .. Accepted, x \in Destination : Owns(c, x) => Owns(c, x)'
  <2> SUFFICES ASSUME NEW c \in 1 .. Accepted, NEW x, Owns(c, x)
               PROVE  Owns(c, x)'
    OBVIOUS
  <2>1. NickOf(c)' = NickOf(c)
    BY <1>3
  <2>2. NickOf(c) \in DOMAIN all_clients' /\ all_clients'[NickOf(c)] = all_clients[NickOf(c)]
    BY DEF Owns
  <2> QED
    BY <2>1, <2>2 DEF Owns
<1>5. ASSUME NEW c \in 1 .. Len(conn), NEW j \in 1 .. Len(conn[c].down), NEW x,
             x = conn[c].down[j], x # LIST
      PROVE  Owns(c, x)'
  <2>1. c \in 1 .. Accepted
    <3>1. conn[c].down # <<>>
      BY <1>2, <1>5
    <3> QED
      BY <3>1, AcceptedTyped DEF ConnInv, Silent
  <2>2. Owns(c, x) /\ x \in Destination
    BY <1>1, <1>2, <1>5 DEF DeliveredToNumber, Owns
  <2> QED
    BY <1>4, <2>1, <2>2
<1>6. ASSUME NEW c \in 1 .. Len(conn), c > Accepted PROVE conn'[c].down = <<>>
  <2>1. Keeps(conn[c], conn'[c])
    BY <1>6, AcceptedTyped DEF Quiet, Sends, QuietBut
  <2>2. conn[c].down = <<>>
    BY <1>6 DEF ConnInv, Silent
  <2>3. Len(conn'[c].down) = 0
    <3>1. Len(conn[c].down) = 0
      BY <2>2
    <3>2. \A k \in 1 .. Len(conn'[c].down) : FALSE
      BY <2>1, <3>1 DEF Keeps
    <3>3. Len(conn'[c].down) \in Nat
      BY <1>2
    <3> QED
      BY <3>2, <3>3
  <2> QED
    BY <1>2, <2>3, EmptySeq
<1>7. ASSUME NEW c \in 1 .. Len(conn), NEW k \in 1 .. Len(conn'[c].down), NEW x,
             x = conn'[c].down[k], x # LIST
      PROVE  Owns(c, x)'
  <2>1. CASE \E j \in 1 .. Len(conn[c].down) : x = conn[c].down[j]
    BY <1>5, <1>7, <2>1
  <2>2. CASE ~\E j \in 1 .. Len(conn[c].down) : x = conn[c].down[j]
    <3>1. ~Keeps(conn[c], conn'[c])
      BY <1>7, <2>2 DEF Keeps
    <3>2. PICK to \in 1 .. Accepted, y \in Destination : Sends(to, y)
      BY <3>1 DEF Quiet
    <3>3. c = to /\ x = y
      BY <1>7, <2>2, <3>1, <3>2 DEF Sends, QuietBut, KeepsBut
    <3>4. Owns(c, x)
      BY <1>7, <3>2, <3>3 DEF Sends
    <3> QED
      BY <1>4, <3>2, <3>3, <3>4
  <2> QED
    BY <2>1, <2>2
<1>8. DeliveredToNumber'
  BY <1>1, <1>2, <1>7, ZenonT(40) DEF DeliveredToNumber, Owns
<1> QED
  BY <1>6, <1>8

\* A step that leaves everything but the queues and the ends of connections alone.
LEMMA QuietStep ==
    ASSUME ChatInv, Later(conn, conn'), UNCHANGED <<backlog, fdsets, tables, sock>>,
           Quiet(conn, conn') \/ \E to \in 1 .. Accepted, x \in Destination : Sends(to, x)
    PROVE  (ConnInv /\ DeliveredToNumber)'
<1>0. ConnInv /\ DeliveredToNumber
  BY DEF ChatInv
<1>1. /\ backlog' = backlog /\ read_fds' = read_fds /\ fd_max' = fd_max /\ sock' = sock
      /\ all_clients' = all_clients /\ active_socket_client' = active_socket_client
  BY DEF fdsets, tables
<1>2. Accepted' = Accepted /\ Len(conn') = Len(conn)
  BY <1>1 DEF Accepted, Later
<1>3. \A c \in 1 .. Accepted : Settled(c)' /\ NickOf(c)' = NickOf(c)
  BY <1>0, ReadKept
<1>4. TypeInv' /\ InOrder'
  BY <1>0, <1>1, <1>2 DEF ConnInv, TypeInv, InOrder, Later
<1>5. Read'
  BY <1>0, <1>1, <1>2, <1>3 DEF ConnInv, Read
<1>6. Identified'
  BY <1>0, <1>1, <1>2, <1>3 DEF ConnInv, Identified
<1>7. DeliveredToNumber' /\ \A c \in 1 .. Len(conn) : c > Accepted => conn'[c].down = <<>>
  BY <1>0, <1>1, Delivered
<1>8. Silent'
  BY <1>2, <1>7 DEF Silent
<1> QED
  BY <1>4, <1>5, <1>6, <1>7, <1>8 DEF ConnInv

LEMMA ConnectStep ==
    ASSUME ChatInv, NEW nick \in Nicks, Connect(nick)
    PROVE  (ConnInv /\ DeliveredToNumber)'
<1> DEFINE new == [nick |-> nick, hello |-> FALSE, client |-> "open",
                   server |-> "open", broken |-> FALSE, up |-> <<>>, down |-> <<>>]
<1>0. ConnInv /\ DeliveredToNumber
  BY DEF ChatInv
<1>1. /\ conn' = Append(conn, new) /\ backlog' = Append(backlog, Len(conn) + 1)
      /\ read_fds' = read_fds /\ fd_max' = fd_max /\ sock' = sock
      /\ all_clients' = all_clients /\ active_socket_client' = active_socket_client
  BY DEF Connect, server, fdsets, tables
<1>2. conn \in Seq(Connection) /\ backlog \in Seq(Nat)
  BY <1>0 DEF ConnInv, TypeInv
<1>3. new \in Connection /\ new.down = <<>>
  BY DEF Connection
<1> HIDE DEF new
<1>4. /\ conn' \in Seq(Connection) /\ Len(conn) \in Nat /\ Len(conn') = Len(conn) + 1
      /\ \A c \in 1 .. Len(conn) : conn'[c] = conn[c]
      /\ conn'[Len(conn) + 1] = new
  BY <1>1, <1>2, <1>3, AppendElements
<1>5. /\ backlog' \in Seq(Nat) /\ Len(backlog) \in Nat /\ Len(backlog') = Len(backlog) + 1
      /\ \A k \in 1 .. Len(backlog) : backlog'[k] = backlog[k]
      /\ backlog'[Len(backlog) + 1] = Len(conn) + 1
  BY <1>1, <1>2, <1>4, AppendElements
<1>6. Accepted' = Accepted /\ Accepted \in Nat /\ Accepted <= Len(conn)
  BY <1>0, <1>4, <1>5, AcceptedTyped DEF Accepted
<1>7. \A c \in 1 .. Len(conn) : (Settled(c)' <=> Settled(c)) /\ NickOf(c)' = NickOf(c)
  BY <1>4 DEF Settled, NickOf
<1>8. InOrder'
  <2>1. Accepted + Len(backlog') = Len(conn')
    BY <1>4, <1>5, <1>6 DEF Accepted
  <2>2. ASSUME NEW k \in 1 .. Len(backlog') PROVE backlog'[k] = Accepted + k
    <3>1. CASE k = Len(backlog) + 1
      <4>1. Accepted + k = Len(conn) + 1
        BY <1>4, <1>5, <3>1 DEF Accepted
      <4> QED
        BY <1>5, <3>1, <4>1
    <3>2. CASE k # Len(backlog) + 1
      <4>1. k \in 1 .. Len(backlog)
        BY <1>5, <2>2, <3>2
      <4> QED
        BY <1>0, <1>5, <4>1 DEF ConnInv, InOrder
    <3> QED
      BY <3>1, <3>2
  <2>3. Accepted' \in Nat
    BY <1>6
  <2> QED
    BY <1>0, <1>6, <2>1, <2>2, <2>3 DEF ConnInv, InOrder
<1>9. TypeInv'
  BY <1>0, <1>1, <1>4, <1>5 DEF ConnInv, TypeInv
<1>10. Read'
  BY <1>0, <1>1, <1>6, <1>7 DEF ConnInv, Read
<1>11. Identified'
  BY <1>0, <1>1, <1>6, <1>7 DEF ConnInv, Identified
<1>12. Silent'
  BY <1>0, <1>3, <1>4, <1>6 DEF ConnInv, Silent
<1>13. DeliveredToNumber'
  <2>1. DOMAIN conn' = 1 .. Len(conn) + 1 /\ DOMAIN conn = 1 .. Len(conn)
    BY <1>2, <1>4
  <2>2. DOMAIN conn'[Len(conn) + 1].down = {}
    BY <1>3, <1>4
  <2> SUFFICES ASSUME NEW c \in 1 .. Len(conn) + 1, NEW k \in DOMAIN conn'[c].down,
                      conn'[c].down[k] # LIST
               PROVE  /\ NickOf(c)' \in DOMAIN all_clients'
                      /\ all_clients'[NickOf(c)'].number = conn'[c].down[k]
    BY <2>1 DEF DeliveredToNumber
  <2>3. c \in 1 .. Len(conn)
    BY <1>4, <2>2
  <2> QED
    BY <1>0, <1>1, <1>4, <1>7, <2>1, <2>3 DEF DeliveredToNumber
<1> QED
  BY <1>8, <1>9, <1>10, <1>11, <1>12, <1>13 DEF ConnInv

\* A connection is accepted: it is the next one, and its nickname is read.
LEMMA AcceptFacts ==
    ASSUME ConnInv, NEW c, NEW fd, NEW nick, Accepting(c, fd, nick), Later(conn, conn')
    PROVE  /\ c = Accepted + 1 /\ c \in 1 .. Len(conn) /\ Accepted' = c
           /\ backlog' \in Seq(Nat) /\ InOrder'
           /\ NickOf(c) = nick
           /\ \A d \in 1 .. c : Settled(d)' /\ NickOf(d)' = NickOf(d)
<1>1. /\ backlog # <<>> /\ c = Head(backlog) /\ backlog' = Tail(backlog)
      /\ conn[c].hello \/ conn[c].client # "open"
      /\ nick = IF conn[c].hello THEN conn[c].nick ELSE NoNick
  BY DEF Accepting
<1>2. /\ Head(backlog) = backlog[1] /\ backlog' \in Seq(Nat)
      /\ Len(backlog) \in Nat \ {0} /\ Len(backlog') = Len(backlog) - 1
      /\ \A k \in 1 .. Len(backlog) - 1 : backlog'[k] = backlog[k + 1]
  BY <1>1, TailElements DEF ConnInv, TypeInv
<1>3. Len(conn) \in Nat /\ Accepted \in Nat /\ Len(conn') = Len(conn)
  BY AcceptedTyped DEF Later
<1>4. c = Accepted + 1 /\ \A k \in 1 .. Len(backlog) : backlog[k] = Accepted + k
  BY <1>1, <1>2 DEF ConnInv, InOrder
<1>5. c \in 1 .. Len(conn) /\ Accepted' = c
  BY <1>2, <1>3, <1>4 DEF Accepted
<1>6. InOrder'
  BY <1>2, <1>3, <1>4, <1>5 DEF InOrder
<1>7. NickOf(c) = nick /\ Settled(c)
  BY <1>1 DEF NickOf, Settled
<1>8. \A d \in 1 .. Accepted : Settled(d)' /\ NickOf(d)' = NickOf(d)
  BY ReadKept
<1>9. Settled(c)' /\ NickOf(c)' = NickOf(c)
  BY <1>5, <1>7, Settles
<1> QED
  BY <1>2, <1>3, <1>4, <1>5, <1>6, <1>7, <1>8, <1>9

LEMMA AlreadyConnectedStep ==
    ASSUME ChatInv, NEW c, NEW fd, NEW nick, AlreadyConnected(c, fd, nick)
    PROVE  (ConnInv /\ DeliveredToNumber)'
<1>0. Tables /\ ConnInv /\ DeliveredToNumber
  BY DEF ChatInv
<1>1. /\ Accepting(c, fd, nick) /\ nick \in DOMAIN active_clients
      /\ conn' = [conn EXCEPT ![c].server = "closed"]
      /\ read_fds' = read_fds /\ fd_max' = fd_max /\ sock' = sock
      /\ all_clients' = all_clients /\ active_socket_client' = active_socket_client
  BY DEF AlreadyConnected, fdsets, tables
<1>2. conn \in Seq(Connection) /\ c \in 1 .. Len(conn)
  <2>1. /\ backlog # <<>> /\ c = Head(backlog) /\ backlog \in Seq(Nat) /\ conn \in Seq(Connection)
    BY <1>0, <1>1 DEF Accepting, ConnInv, TypeInv
  <2>2. Head(backlog) = backlog[1] /\ Len(backlog) \in Nat \ {0}
    BY <2>1, TailElements
  <2>3. Accepted + 1 \in 1 .. Len(conn) /\ backlog[1] = Accepted + 1
    BY <1>0, <2>2, AcceptedTyped DEF ConnInv, InOrder, Accepted
  <2> QED
    BY <2>1, <2>2, <2>3
<1>3. Later(conn, conn') /\ Quiet(conn, conn')
  BY <1>1, <1>2, CloseLater
<1>4. /\ c = Accepted + 1 /\ c \in 1 .. Len(conn) /\ Accepted' = c
      /\ backlog' \in Seq(Nat) /\ InOrder' /\ NickOf(c) = nick
      /\ \A d \in 1 .. c : Settled(d)' /\ NickOf(d)' = NickOf(d)
  BY <1>0, <1>1, <1>3, AcceptFacts
<1>5. Accepted \in Nat /\ Len(conn') = Len(conn)
  BY <1>0, <1>3, AcceptedTyped DEF Later
<1>6. TypeInv'
  BY <1>0, <1>1, <1>3, <1>4 DEF ConnInv, TypeInv, Later
<1>7. Read'
  <2>1. nick \in DOMAIN all_clients
    BY <1>0, <1>1 DEF Tables, Registered
  <2>2. \A d \in 1 .. c : d \in 1 .. Accepted \/ d = c
    BY <1>4, <1>5
  <2>3. \A d \in 1 .. c : NickOf(d) \in DOMAIN all_clients
    BY <1>0, <1>4, <2>1, <2>2 DEF ConnInv, Read
  <2>4. \A d \in 1 .. Accepted : d \in 1 .. c
    BY <1>4, <1>5
  <2> QED
    BY <1>0, <1>1, <1>4, <2>3, <2>4 DEF ConnInv, Read
<1>8. Identified'
  BY <1>0, <1>1, <1>4, <1>5 DEF ConnInv, Identified
<1>9. DeliveredToNumber' /\ \A d \in 1 .. Len(conn) : d > Accepted => conn'[d].down = <<>>
  BY <1>0, <1>1, <1>3, Delivered
<1>10. Silent'
  BY <1>4, <1>5, <1>9 DEF Silent
<1> QED
  BY <1>4, <1>6, <1>7, <1>8, <1>9, <1>10 DEF ConnInv

\* A session that opens, of a client that returns or of a new one.
LEMMA SessionStep ==
    ASSUME ChatInv, NEW c, NEW fd \in ClientFds, NEW nick, Accepting(c, fd, nick), conn' = conn,
           sock' = Insert(sock, fd, c),
           DOMAIN active_socket_client' = DOMAIN active_socket_client \cup {fd},
           active_socket_client'[fd].nickname = nick,
           \A i \in DOMAIN active_socket_client : active_socket_client'[i] = active_socket_client[i],
           DOMAIN all_clients' = DOMAIN all_clients \cup {nick},
           \A k \in DOMAIN all_clients : all_clients'[k] = all_clients[k],
           (read_fds' = read_fds /\ fd_max' = fd_max) \/ Watch(fd)
    PROVE  (ConnInv /\ DeliveredToNumber)'
<1>0. Tables /\ ConnInv /\ DeliveredToNumber
  BY DEF ChatInv
<1>1. Later(conn, conn') /\ Quiet(conn, conn')
  BY <1>0, SameLater DEF ConnInv, TypeInv
<1>2. /\ c = Accepted + 1 /\ c \in 1 .. Len(conn) /\ Accepted' = c
      /\ backlog' \in Seq(Nat) /\ InOrder' /\ NickOf(c) = nick
      /\ \A d \in 1 .. c : Settled(d)' /\ NickOf(d)' = NickOf(d)
  BY <1>0, <1>1, AcceptFacts
<1>3. Accepted \in Nat /\ \A d \in 1 .. c : d \in 1 .. Accepted \/ d = c
  BY <1>0, <1>2, AcceptedTyped
<1>4. /\ fd \notin DOMAIN sock /\ fd \in Int /\ fd # SockTcp /\ MaxConns \in Nat
      /\ DOMAIN sock = DOMAIN active_socket_client /\ DOMAIN sock \subseteq ClientFds
  BY <1>0, ChatAssumption DEF Accepting, Lowest, ClientFds, SockTcp, Tables, Descriptors
<1>5. /\ DOMAIN sock' = DOMAIN sock \cup {fd} /\ sock'[fd] = c
      /\ \A i \in DOMAIN sock : sock'[i] = sock[i]
  BY <1>4 DEF Insert
<1>6. fd_max \in Int /\ read_fds \subseteq Int
  BY <1>0 DEF ConnInv, TypeInv
<1>7. fd_max' \in Int /\ read_fds' \subseteq Int
  BY <1>4, <1>6 DEF Watch
<1>8. TypeInv'
  BY <1>0, <1>1, <1>2, <1>7 DEF ConnInv, TypeInv, Later
<1>9. Read'
  <2>1. \A d \in 1 .. c : NickOf(d)' \in DOMAIN all_clients'
    BY <1>0, <1>2, <1>3 DEF ConnInv, Read
  <2>2. \A d \in 1 .. Accepted : d \in 1 .. c
    BY <1>2, <1>3
  <2>3. \A k \in DOMAIN all_clients' : \E d \in 1 .. c : NickOf(d)' = k
    <3> SUFFICES ASSUME NEW k \in DOMAIN all_clients' PROVE \E d \in 1 .. c : NickOf(d)' = k
      OBVIOUS
    <3>1. CASE k = nick
      BY <1>2, <3>1
    <3>2. CASE k \in DOMAIN all_clients
      BY <1>0, <1>2, <2>2, <3>2 DEF ConnInv, Read
    <3> QED
      BY <3>1, <3>2
  <2> QED
    BY <1>2, <2>1, <2>3 DEF Read
<1>10. Identified'
  BY <1>0, <1>2, <1>3, <1>4, <1>5 DEF ConnInv, Identified
<1>11. DeliveredToNumber' /\ \A d \in 1 .. Len(conn) : d > Accepted => conn'[d].down = <<>>
  BY <1>0, <1>1, Delivered
<1>12. Silent'
  BY <1>2, <1>3, <1>11 DEF Silent
<1> QED
  BY <1>2, <1>8, <1>9, <1>10, <1>11, <1>12 DEF ConnInv

LEMMA ReconnectStep ==
    ASSUME ChatInv, NEW c, NEW fd \in ClientFds, NEW nick, Reconnect(c, fd, nick)
    PROVE  (ConnInv /\ DeliveredToNumber)'
<1>1. /\ Accepting(c, fd, nick) /\ nick \in DOMAIN all_clients
      /\ Activate(fd, nick, all_clients[nick]) /\ sock' = Insert(sock, fd, c)
      /\ all_clients' = all_clients /\ conn' = conn
      /\ read_fds' = read_fds /\ fd_max' = fd_max
  BY DEF Reconnect, fdsets
<1>2. fd \notin DOMAIN active_socket_client /\ all_clients[nick].nickname = nick
  BY <1>1 DEF ChatInv, Tables, Descriptors, Register, Accepting, Lowest
<1>3. /\ DOMAIN active_socket_client' = DOMAIN active_socket_client \cup {fd}
      /\ active_socket_client'[fd].nickname = nick
      /\ \A i \in DOMAIN active_socket_client : active_socket_client'[i] = active_socket_client[i]
  BY <1>1, <1>2 DEF Activate, Insert
<1>4. DOMAIN all_clients' = DOMAIN all_clients \cup {nick}
  BY <1>1
<1> QED
  BY <1>1, <1>3, <1>4, SessionStep

LEMMA AddStep ==
    ASSUME ChatInv, NEW c, NEW fd \in ClientFds, NEW nick, add_new_client(c, fd, nick)
    PROVE  (ConnInv /\ DeliveredToNumber)'
<1> DEFINE client == [number |-> curr_id, nickname |-> nick]
<1>1. /\ Accepting(c, fd, nick) /\ nick \notin DOMAIN all_clients
      /\ Activate(fd, nick, client) /\ sock' = Insert(sock, fd, c)
      /\ all_clients' = Insert(all_clients, nick, client) /\ conn' = conn
      /\ Watch(fd)
  BY DEF add_new_client
<1>2. client.nickname = nick
  OBVIOUS
<1> HIDE DEF client
<1>3. fd \notin DOMAIN active_socket_client
  BY <1>1 DEF ChatInv, Tables, Descriptors, Accepting, Lowest
<1>4. /\ DOMAIN active_socket_client' = DOMAIN active_socket_client \cup {fd}
      /\ active_socket_client'[fd].nickname = nick
      /\ \A i \in DOMAIN active_socket_client : active_socket_client'[i] = active_socket_client[i]
  BY <1>1, <1>2, <1>3 DEF Activate, Insert
<1>5. /\ DOMAIN all_clients' = DOMAIN all_clients \cup {nick}
      /\ \A k \in DOMAIN all_clients : all_clients'[k] = all_clients[k]
  BY <1>1 DEF Insert
<1> QED
  BY <1>1, <1>4, <1>5, SessionStep

\* A session that ends.
LEMMA DisconnectStep ==
    ASSUME ChatInv, NEW i \in DOMAIN sock, Disconnect(i), UNCHANGED backlog
    PROVE  (ConnInv /\ DeliveredToNumber)'
<1>0. Tables /\ ConnInv /\ DeliveredToNumber
  BY DEF ChatInv
<1>1. /\ conn' = [conn EXCEPT ![sock[i]].server = "closed"]
      /\ active_socket_client' = Erase(active_socket_client, i) /\ sock' = Erase(sock, i)
      /\ read_fds' = read_fds \ {i} /\ fd_max' = fd_max
      /\ all_clients' = all_clients /\ backlog' = backlog
  BY DEF Disconnect
<1>2. sock[i] \in 1 .. Len(conn) /\ conn \in Seq(Connection)
  BY <1>0, AcceptedTyped DEF ConnInv, TypeInv, Identified
<1>3. Later(conn, conn') /\ Quiet(conn, conn')
  BY <1>1, <1>2, CloseLater
<1>4. Accepted' = Accepted /\ Len(conn') = Len(conn)
  BY <1>1, <1>3 DEF Accepted, Later
<1>5. \A c \in 1 .. Accepted : Settled(c)' /\ NickOf(c)' = NickOf(c)
  BY <1>0, <1>3, ReadKept
<1>6. /\ DOMAIN sock' = DOMAIN sock \ {i}
      /\ \A j \in DOMAIN sock \ {i} : sock'[j] = sock[j]
      /\ \A j \in DOMAIN active_socket_client \ {i} :
            active_socket_client'[j] = active_socket_client[j]
      /\ DOMAIN sock = DOMAIN active_socket_client
  BY <1>0, <1>1, EraseEntries DEF Tables, Descriptors
<1>7. TypeInv' /\ InOrder'
  BY <1>0, <1>1, <1>3, <1>4 DEF ConnInv, TypeInv, InOrder, Later
<1>8. Read'
  BY <1>0, <1>1, <1>4, <1>5 DEF ConnInv, Read
<1>9. Identified'
  BY <1>0, <1>4, <1>5, <1>6 DEF ConnInv, Identified
<1>10. DeliveredToNumber' /\ \A c \in 1 .. Len(conn) : c > Accepted => conn'[c].down = <<>>
  BY <1>0, <1>1, <1>3, Delivered
<1>11. Silent'
  BY <1>4, <1>10 DEF Silent
<1> QED
  BY <1>7, <1>8, <1>9, <1>10, <1>11 DEF ConnInv

\* A request that is handled: what is sent is LIST or goes to the owner of the number.
LEMMA RequestLater ==
    ASSUME ChatInv, NEW i \in DOMAIN sock, NEW n \in 1 .. Len(conn[sock[i]].up),
           NEW x \in Destination,
           \/ List(i, n) /\ x = LIST
           \/ Message(i, n, x) \/ MessageToNobody(i, n, x) \/ Overrun(i, n)
    PROVE  /\ Later(conn, conn')
           /\ Quiet(conn, conn') \/ \E to \in 1 .. Accepted : Sends(to, x)
<1>0. Tables /\ ConnInv /\ conn \in Seq(Connection)
  BY DEF ChatInv, ConnInv, TypeInv
<1>1. sock[i] \in 1 .. Accepted /\ sock[i] \in 1 .. Len(conn)
  BY <1>0, AcceptedTyped DEF ConnInv, Identified
<1> DEFINE cn == Taken(i, n)
<1>2. Later(conn, cn) /\ Quiet(conn, cn)
  BY <1>0, <1>1, TakenLater
<1>3. cn \in Seq(Connection) /\ Len(cn) = Len(conn)
  BY <1>2 DEF Later
<1>4. ASSUME NEW to \in 1 .. Accepted, Send(cn, to, x), x # LIST => Owns(to, x)
      PROVE  /\ Later(conn, conn')
             /\ Quiet(conn, conn') \/ \E d \in 1 .. Accepted : Sends(d, x)
  <2>1. to \in 1 .. Len(conn) /\ to \in 1 .. Len(cn)
    BY <1>0, <1>3, AcceptedTyped
  <2> HIDE DEF cn
  <2>2. Later(cn, conn') /\ (Quiet(cn, conn') \/ QuietBut(cn, conn', to, x))
    BY <1>3, <1>4, <2>1, SendLater
  <2>3. Later(conn, conn') /\ (Quiet(conn, conn') \/ QuietBut(conn, conn', to, x))
    BY <1>2, <2>1, <2>2, LaterTrans
  <2> QED
    BY <1>4, <2>3 DEF Sends
<1>5. CASE List(i, n) /\ x = LIST
  BY <1>1, <1>4, <1>5 DEF List
<1>6. CASE Message(i, n, x)
  <2> DEFINE j == active_nrs_sockets[x]
  <2>1. x \in DOMAIN active_nrs_sockets /\ Send(cn, sock[j], x)
    BY <1>6 DEF Message
  <2>2. j \in DOMAIN active_socket_client /\ active_socket_client[j].number = x
    BY <1>0, <2>1 DEF Tables, NoneStale
  <2> HIDE DEF j, cn
  <2>3. j \in DOMAIN sock /\ sock[j] \in 1 .. Accepted
        /\ NickOf(sock[j]) = active_socket_client[j].nickname
    BY <1>0, <2>2 DEF Tables, Descriptors, ConnInv, Identified
  <2>4. /\ active_socket_client[j].nickname \in DOMAIN all_clients
        /\ all_clients[active_socket_client[j].nickname] = active_socket_client[j]
    BY <1>0, <2>2, SessionClient
  <2>5. Owns(sock[j], x)
    BY <2>2, <2>3, <2>4 DEF Owns
  <2> QED
    BY <1>4, <2>1, <2>3, <2>5
<1>7. CASE MessageToNobody(i, n, x)
  BY <1>2, <1>7 DEF MessageToNobody
<1>8. CASE Overrun(i, n)
  <2>1. conn' = HangUp(cn)
    BY <1>8 DEF Overrun
  <2> HIDE DEF cn
  <2>2. Later(cn, conn') /\ Quiet(cn, conn')
    BY <1>3, <2>1, HangUpLater
  <2> QED
    BY <1>2, <2>2, LaterTrans
<1> QED
  BY <1>5, <1>6, <1>7, <1>8

LEMMA MessageStep ==
    ASSUME ChatInv, NEW i, handle_tcp_message(i)
    PROVE  (ConnInv /\ DeliveredToNumber)'
<1>1. i \in DOMAIN sock /\ backlog' = backlog
  BY DEF handle_tcp_message
<1>2. CASE Disconnect(i)
  BY <1>1, <1>2, DisconnectStep
<1>3. CASE ReceiveError(i)
  <2>1. conn' = HangUp(conn) /\ UNCHANGED <<fdsets, tables, sock>>
    BY <1>3 DEF ReceiveError
  <2>2. Later(conn, conn') /\ Quiet(conn, conn')
    BY <2>1, HangUpLater DEF ChatInv, ConnInv, TypeInv
  <2> QED
    BY <1>1, <2>1, <2>2, QuietStep
<1>4. ASSUME NEW n \in 1 .. Len(conn[sock[i]].up), NEW x \in Destination,
             \/ List(i, n) /\ x = LIST
             \/ Message(i, n, x) \/ MessageToNobody(i, n, x) \/ Overrun(i, n),
             UNCHANGED <<fdsets, tables, sock>>
      PROVE  (ConnInv /\ DeliveredToNumber)'
  <2>1. /\ Later(conn, conn')
        /\ Quiet(conn, conn') \/ \E to \in 1 .. Accepted : Sends(to, x)
    BY <1>1, <1>4, RequestLater
  <2> QED
    BY <1>1, <1>4, <2>1, QuietStep
<1>5. CASE Request(i)
  <2>1. LIST \in Destination
    BY DEF Destination
  <2> QED
    BY <1>4, <1>5, <2>1 DEF Request
<1> QED
  BY <1>2, <1>3, <1>5 DEF handle_tcp_message

LEMMA NextChat == ASSUME ChatInv, [Next]_vars PROVE ChatInv'
<1>1. Tables' /\ Watched'
  BY NextTables, WatchedKept DEF ChatInv, ConnInv
<1>2. conn \in Seq(Connection)
  BY DEF ChatInv, ConnInv, TypeInv
<1>3. CASE Select \/ UNCHANGED vars
  <2>1. conn' = conn /\ UNCHANGED <<backlog, fdsets, tables, sock>>
    BY <1>3 DEF Select, vars, server
  <2>2. Later(conn, conn') /\ Quiet(conn, conn')
    BY <1>2, <2>1, SameLater
  <2> QED
    BY <1>1, <2>1, <2>2, QuietStep DEF ChatInv
<1>4. CASE HandleStdinMessage
  <2>1. conn' = HangUp(conn) /\ UNCHANGED <<backlog, fdsets, tables, sock>>
    BY <1>4 DEF HandleStdinMessage
  <2>2. Later(conn, conn') /\ Quiet(conn, conn')
    BY <1>2, <2>1, HangUpLater
  <2> QED
    BY <1>1, <2>1, <2>2, QuietStep DEF ChatInv
<1>5. CASE handle_connection_request
  BY <1>1, <1>5, AlreadyConnectedStep, ReconnectStep, AddStep
     DEF handle_connection_request, ChatInv
<1>6. ASSUME NEW i \in ClientFds, handle_tcp_message(i) PROVE ChatInv'
  BY <1>1, <1>6, MessageStep DEF ChatInv
<1>7. ASSUME NEW nick \in Nicks, Connect(nick) PROVE ChatInv'
  BY <1>1, <1>7, ConnectStep DEF ChatInv
<1>8. ASSUME NEW c \in ConnIds, Client(c) PROVE ChatInv'
  <2>1. Later(conn, conn') /\ Quiet(conn, conn')
    BY <1>2, <1>8, ClientLater
  <2>2. UNCHANGED <<backlog, fdsets, tables, sock>>
    BY <1>8 DEF Client, SendNick, SendRequest, handle_server_message, Exit, Kill, server
  <2> QED
    BY <1>1, <2>1, <2>2, QuietStep DEF ChatInv
<1> QED
  BY <1>3, <1>4, <1>5, <1>6, <1>7, <1>8 DEF Next, ServerStep

LEMMA InitChat == Init => ChatInv
<1> SUFFICES ASSUME Init PROVE ChatInv
  OBVIOUS
<1>1. Tables
  BY InitTables
<1>2. conn = <<>> /\ backlog = <<>> /\ sock = <<>> /\ all_clients = <<>>
  BY DEF Init
<1>3. Accepted = 0 /\ Len(conn) = 0 /\ DOMAIN conn = {} /\ DOMAIN sock = {} /\ DOMAIN all_clients = {}
  BY <1>2 DEF Accepted
<1>4. TypeInv
  BY <1>2 DEF Init, TypeInv, SockTcp
<1>5. InOrder /\ Read /\ Identified /\ Silent
  BY <1>2, <1>3 DEF InOrder, Read, Identified, Silent
<1>6. Watched
  BY DEF Init, Watched, SockTcp
<1>7. DeliveredToNumber
  BY <1>3 DEF DeliveredToNumber
<1> QED
  BY <1>1, <1>4, <1>5, <1>6, <1>7 DEF ChatInv, ConnInv

LEMMA ChatInvariant == Spec => []ChatInv
<1>1. ChatInv /\ [Next]_vars => ChatInv'
  BY NextChat
<1> QED
  BY <1>1, InitChat, PTL DEF Spec

\* Whatever the number of nicknames and connections, a descriptor is that of the client
\* the tables have for it, and the scan finds a client at what is watched
\* (server.cpp: accept() hands a descriptor out again that a handler closed).
THEOREM SocketsIdentified == Spec => []SocketIdentified
<1>1. ChatInv => SocketIdentified
  BY DEF ChatInv, ConnInv, Identified, Watched, SocketIdentified
<1> QED
  BY <1>1, ChatInvariant, PTL

\* A message goes to the nickname its number was given to (server.cpp,
\* handle_tcp_message), although descriptors are used again by other clients.
THEOREM NumbersDeliver == Spec => []DeliveredToNumber
<1>1. ChatInv => DeliveredToNumber
  BY DEF ChatInv
<1> QED
  BY <1>1, ChatInvariant, PTL
=============================================================================
