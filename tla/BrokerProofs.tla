---------------------------- MODULE BrokerProofs ----------------------------
(***************************************************************************)
(* Proofs about Broker, for every value of its constants.                  *)
(***************************************************************************)
EXTENDS BrokerPubSub, SequenceLemmas

-----------------------------------------------------------------------------
(* Lemmas about the operators of the model.                                  *)

\* unordered_map::insert adds at most one key and one value.
LEMMA InsertType ==
    ASSUME NEW V, NEW m, m \in [DOMAIN m -> V], NEW k, NEW v \in V
    PROVE  /\ DOMAIN Insert(m, k, v) = DOMAIN m \cup {k}
           /\ Insert(m, k, v) \in [DOMAIN Insert(m, k, v) -> V]
           /\ \A j \in DOMAIN m : Insert(m, k, v)[j] = m[j]
           /\ k \notin DOMAIN m => Insert(m, k, v)[k] = v
BY DEF Insert

\* unordered_map::erase removes one key and leaves the other entries alone.
LEMMA EraseType ==
    ASSUME NEW V, NEW m, m \in [DOMAIN m -> V], NEW k
    PROVE  /\ DOMAIN Erase(m, k) = DOMAIN m \ {k}
           /\ Erase(m, k) \in [DOMAIN Erase(m, k) -> V]
           /\ \A j \in DOMAIN m \ {k} : Erase(m, k)[j] = m[j]
BY DEF Erase, Restrict

\* A message repeated n times is a list of messages.
LEMMA CopiesType ==
    ASSUME NEW m \in Message, NEW n \in Nat
    PROVE  Copies(m, n) \in Seq(Message)
BY DEF Copies

\* A field of a connection may be replaced by another value of its type.
LEMMA ConnectionUpdate ==
    ASSUME NEW r \in Connection
    PROVE  /\ \A v \in Seq(Message) : [r EXCEPT !.down = v] \in Connection
           /\ \A v \in Seq(Request) : [r EXCEPT !.up = v] \in Connection
           /\ [r EXCEPT !.hello = TRUE] \in Connection
           /\ [r EXCEPT !.broker = "closed"] \in Connection
           /\ \A v \in {"closed", "aborted"} : [r EXCEPT !.client = v] \in Connection
BY DEF Connection

\* Sending changes no number of connections and keeps each of them well formed.
LEMMA TransmitType ==
    ASSUME conn \in Seq(Connection), NEW out,
           \A c \in DOMAIN conn : out[c] \in Seq(Message)
    PROVE  /\ Transmit(out) \in Seq(Connection)
           /\ DOMAIN Transmit(out) = DOMAIN conn
           /\ Len(Transmit(out)) = Len(conn)
<1>1. \A c \in DOMAIN conn : conn[c] \in Connection /\ conn[c].down \in Seq(Message)
  <2>1. \A c \in DOMAIN conn : conn[c] \in Connection
    BY ElementOfSeq, LenProperties
  <2>2. \A r \in Connection : r.down \in Seq(Message)
    BY DEF Connection
  <2> QED
    BY <2>1, <2>2
<1>2. \A c \in DOMAIN conn : conn[c].down \o out[c] \in Seq(Message)
  BY <1>1, ConcatProperties
<1>3. \A c \in DOMAIN conn : (conn[c].broken \/ out[c] # <<>>) \in BOOLEAN
  OBVIOUS
<1>4. \A c \in DOMAIN conn : Transmit(out)[c] \in Connection
  <2> SUFFICES ASSUME NEW c \in DOMAIN conn PROVE Transmit(out)[c] \in Connection
    OBVIOUS
  <2>1. CASE conn[c].client = "open"
    <3>1. Transmit(out)[c] = [conn[c] EXCEPT !.down = conn[c].down \o out[c]]
      BY <2>1 DEF Transmit
    <3> QED
      BY <3>1, <1>1, <1>2, ConnectionUpdate, ZenonT(40)
  <2>2. CASE conn[c].client # "open"
    <3> DEFINE b == conn[c].broken \/ out[c] # <<>>
    <3>1. Transmit(out)[c] = [conn[c] EXCEPT !.broken = b]
      BY <2>2, Zenon DEF Transmit
    <3>2. b \in BOOLEAN
      BY <1>3
    <3> HIDE DEF b
    <3>3. [conn[c] EXCEPT !.broken = b] \in Connection
      BY <3>2, <1>1 DEF Connection
    <3> QED
      BY <3>1, <3>3
  <2> QED
    BY <2>1, <2>2
<1>5. Len(conn) \in Nat /\ DOMAIN conn = 1 .. Len(conn)
  BY LenProperties
<1>6. Transmit(out) \in [1 .. Len(conn) -> Connection]
  BY <1>4, <1>5 DEF Transmit
<1> QED
  BY <1>5, <1>6, FunctionIsSeq

\* The end of the broker keeps every connection well formed.
LEMMA HangUpType ==
    ASSUME NEW cn \in Seq(Connection)
    PROVE  /\ HangUpAll(cn) \in Seq(Connection)
           /\ DOMAIN HangUpAll(cn) = DOMAIN cn
           /\ Len(HangUpAll(cn)) = Len(cn)
<1>1. \A c \in DOMAIN cn : [cn[c] EXCEPT !.broker = "closed"] \in Connection
  BY ElementOfSeq, LenProperties, ConnectionUpdate
<1>2. Len(cn) \in Nat /\ DOMAIN cn = 1 .. Len(cn)
  BY LenProperties
<1>3. HangUpAll(cn) \in [1 .. Len(cn) -> Connection]
  BY <1>1, <1>2 DEF HangUpAll
<1> QED
  BY <1>2, <1>3, FunctionIsSeq

\* What the stored messages of a client write to a connection is a list of messages.
LEMMA StoredToType ==
    ASSUME TypeOK, NEW sk, NEW s, NEW id, NEW n \in 0 .. Len(Stored(id)),
           NEW c \in DOMAIN conn
    PROVE  StoredTo(sk, s, id, n)[c] \in Seq(Message)
<1>1. Stored(id) \in Seq(Message)
  BY DEF Stored, TypeOK, TopicsOK
<1>2. SubSeq(Stored(id), 1, n) \in Seq(Message)
  BY <1>1
<1> QED
  BY <1>2 DEF StoredTo

\* What a datagram writes to a connection is a list of messages.
LEMMA ForwardedType ==
    ASSUME NEW subs, NEW m \in Message, NEW n \in Nat, NEW c \in DOMAIN conn
    PROVE  Forwarded(subs, m, n)[c] \in Seq(Message)
<1>1. IsFiniteSet(1 .. n)
  BY FS_Interval
<1>2. Cardinality(SentTo(subs, c) \cap 1 .. n) \in Nat
  BY <1>1, FS_Subset, FS_CardinalityType
<1> QED
  BY <1>2, CopiesType DEF Forwarded

\* Erasing a list element leaves a list.
LEMMA RemoveAtType ==
    ASSUME NEW V, NEW s \in Seq(V), NEW p \in DOMAIN s
    PROVE  RemoveAt(s, p) \in Seq(V)
BY DEF RemoveAt

-----------------------------------------------------------------------------
(* Type correctness.                                                         *)

\* Replacing one connection keeps the network well formed.
LEMMA ReplaceConnection ==
    ASSUME NetworkOK, NEW c \in DOMAIN conn, NEW r \in Connection,
           conn' = [conn EXCEPT ![c] = r],
           UNCHANGED <<backlog, sock, udpq>>
    PROVE  NetworkOK'
<1>1. conn \in Seq(Connection) /\ c \in 1 .. Len(conn)
  BY LenProperties DEF NetworkOK
<1>2. conn' \in Seq(Connection) /\ Len(conn') = Len(conn)
  BY <1>1, ExceptSeq
<1>3. DOMAIN conn' = DOMAIN conn
  BY <1>1, <1>2, LenProperties
<1> QED
  BY <1>2, <1>3 DEF NetworkOK

\* Facts about the connections that the steps below share.
LEMMA ConnectionFacts ==
    ASSUME NetworkOK
    PROVE  /\ conn \in Seq(Connection) /\ Len(conn) \in Nat
           /\ DOMAIN conn = 1 .. Len(conn)
           /\ \A c \in DOMAIN conn : /\ conn[c] \in Connection
                                     /\ conn[c].up \in Seq(Request)
                                     /\ conn[c].down \in Seq(Message)
<1>1. conn \in Seq(Connection) /\ Len(conn) \in Nat /\ DOMAIN conn = 1 .. Len(conn)
  BY LenProperties DEF NetworkOK
<1>2. \A c \in DOMAIN conn : conn[c] \in Connection
  BY <1>1, ElementOfSeq
<1>3. \A r \in Connection : r.up \in Seq(Request) /\ r.down \in Seq(Message)
  BY DEF Connection
<1> QED
  BY <1>1, <1>2, <1>3

\* The initial state is well typed.
LEMMA InitType == Init => TypeOK
<1> SUFFICES ASSUME Init PROVE TypeOK
  OBVIOUS
<1> USE BrokerAssumption DEF Init
<1>1. DescriptorsOK
  BY DEF DescriptorsOK, InitialFds, STDIN, SockTcp, SockUdp
<1>2. SessionsOK
  BY DEF SessionsOK
<1>3. TopicsOK
  BY DEF TopicsOK
<1>4. NetworkOK
  BY EmptySeq DEF NetworkOK
<1>5. typed \in BOOLEAN
  OBVIOUS
<1>6. published \in 0 .. MaxMsgs /\ requested \in 0 .. MaxReqs
  OBVIOUS
<1> QED
  BY <1>1, <1>2, <1>3, <1>4, <1>5, <1>6, Zenon DEF TypeOK

\* Everything a subscriber, the publisher or the user does keeps the types.
LEMMA EnvironmentType ==
    ASSUME TypeOK,
           \/ \E id \in Ids : Connect(id)
           \/ \E c \in ConnIds : Subscriber(c)
           \/ \E topic \in Topics : Publish(topic)
           \/ TypeExit
    PROVE  TypeOK'
<1> USE BrokerAssumption
<1>0. /\ conn \in Seq(Connection) /\ Len(conn) \in Nat
      /\ DOMAIN conn = 1 .. Len(conn)
      /\ \A c \in DOMAIN conn : /\ conn[c] \in Connection
                                /\ conn[c].up \in Seq(Request)
                                /\ conn[c].down \in Seq(Message)
  BY ConnectionFacts DEF TypeOK
<1>1. ASSUME NEW id \in Ids, Connect(id) PROVE TypeOK'
  <2> DEFINE new == [id |-> id, hello |-> FALSE, client |-> "open", broker |-> "open",
                     broken |-> FALSE, up |-> <<>>, down |-> <<>>]
  <2>1. new \in Connection
    BY EmptySeq DEF Connection
  <2>2. conn' = Append(conn, new) /\ backlog' = Append(backlog, Len(conn) + 1)
    BY <1>1 DEF Connect
  <2> HIDE DEF new
  <2>3. /\ conn' \in Seq(Connection) /\ Len(conn') = Len(conn) + 1
        /\ Len(conn) \in Nat /\ DOMAIN conn = 1 .. Len(conn) /\ DOMAIN conn' = 1 .. Len(conn')
    BY <2>1, <2>2, LenProperties DEF TypeOK, NetworkOK
  <2>4. backlog \in Seq(DOMAIN conn') /\ Len(conn) + 1 \in DOMAIN conn'
    BY <2>3, SeqMonotonic DEF TypeOK, NetworkOK
  <2>5. backlog' \in Seq(DOMAIN conn')
    BY <2>2, <2>4
  <2>6. NetworkOK'
    BY <1>1, <2>3, <2>5 DEF TypeOK, NetworkOK, Connect, broker
  <2> QED
    BY <1>1, <2>6 DEF TypeOK, Connect, broker, maps, fdsets, env, DescriptorsOK, SessionsOK,
                      TopicsOK
<1>2. ASSUME NEW c \in ConnIds, Subscriber(c) PROVE TypeOK'
  <2>0. c \in DOMAIN conn
    BY <1>2 DEF Subscriber, SendId, Receive, ReceiveEnd, Exit, Kill, SendRequest, Running
  <2>1. /\ UNCHANGED <<status, tmp_fds, read_fds, fd_max, maps, sock, backlog, udpq, typed,
                       published>>
        /\ requested' \in 0 .. MaxReqs
    <3>1. UNCHANGED <<broker, backlog, udpq, typed, published>>
      BY <1>2, Zenon DEF Subscriber, SendId, Receive, ReceiveEnd, Exit, Kill, SendRequest, env
    <3>2. requested' = requested \/ (requested < MaxReqs /\ requested' = requested + 1)
      BY <1>2, Zenon DEF Subscriber, SendId, Receive, ReceiveEnd, Exit, Kill, SendRequest, env
    <3> QED
      BY <3>1, <3>2 DEF broker, fdsets, TypeOK
  <2>2. NetworkOK'
    <3>1. CASE SendId(c)
      <4>1. conn' = [conn EXCEPT ![c] = [conn[c] EXCEPT !.hello = TRUE]]
        BY <3>1 DEF SendId
      <4> QED
        BY <4>1, <1>0, <2>0, <2>1, ConnectionUpdate, ReplaceConnection DEF TypeOK
    <3>2. CASE Receive(c)
      <4>1. conn' = [conn EXCEPT ![c] = [conn[c] EXCEPT !.down = Tail(conn[c].down)]]
        BY <3>2 DEF Receive
      <4>2. Tail(conn[c].down) \in Seq(Message)
        BY <3>2, <1>0, <2>0 DEF Receive
      <4> QED
        BY <4>1, <4>2, <1>0, <2>0, <2>1, ConnectionUpdate, ReplaceConnection DEF TypeOK
    <3>3. CASE ReceiveEnd(c)
      <4>1. conn' = [conn EXCEPT ![c] = [conn[c] EXCEPT !.client = "closed"]]
        BY <3>3 DEF ReceiveEnd
      <4> QED
        BY <4>1, <1>0, <2>0, <2>1, ConnectionUpdate, ReplaceConnection DEF TypeOK
    <3>4. CASE Exit(c)
      <4> DEFINE b == conn[c].down # <<>> /\ conn[c].broker = "open"
      <4>1. conn' = [conn EXCEPT ![c] = [conn[c] EXCEPT !.client = "closed", !.down = <<>>,
                                                         !.broken = b]]
        BY <3>4, Zenon DEF Exit
      <4>2. b \in BOOLEAN
        OBVIOUS
      <4> HIDE DEF b
      <4>3. [conn[c] EXCEPT !.client = "closed", !.down = <<>>, !.broken = b] \in Connection
        BY <4>2, <1>0, <2>0, EmptySeq DEF Connection
      <4> QED
        BY <4>1, <4>3, <2>0, <2>1, ReplaceConnection DEF TypeOK
    <3>5. CASE Kill(c)
      <4> DEFINE k == IF conn[c].down = <<>> THEN "closed" ELSE "aborted"
      <4>1. conn' = [conn EXCEPT ![c] = [conn[c] EXCEPT !.client = k, !.down = <<>>]]
        BY <3>5, Zenon DEF Kill
      <4>2. k \in {"closed", "aborted"}
        OBVIOUS
      <4> HIDE DEF k
      <4>3. [conn[c] EXCEPT !.client = k, !.down = <<>>] \in Connection
        BY <4>2, <1>0, <2>0, EmptySeq DEF Connection
      <4> QED
        BY <4>1, <4>3, <2>0, <2>1, ReplaceConnection DEF TypeOK
    <3>6. ASSUME NEW req \in Request, SendRequest(c, req) PROVE NetworkOK'
      <4>1. CASE conn[c].broker = "open"
        <5>1. conn' = [conn EXCEPT ![c] = [conn[c] EXCEPT !.up = Append(conn[c].up, req)]]
          BY <3>6, <4>1 DEF SendRequest
        <5>2. Append(conn[c].up, req) \in Seq(Request)
          BY <1>0, <2>0
        <5> QED
          BY <5>1, <5>2, <1>0, <2>0, <2>1, ConnectionUpdate, ReplaceConnection DEF TypeOK
      <4>2. CASE conn[c].broker # "open"
        BY <3>6, <4>2, <2>1 DEF SendRequest, TypeOK, NetworkOK
      <4> QED
        BY <4>1, <4>2
    <3> QED
      BY <1>2, <3>1, <3>2, <3>3, <3>4, <3>5, <3>6 DEF Subscriber
  <2> QED
    BY <2>1, <2>2 DEF TypeOK, maps, DescriptorsOK, SessionsOK, TopicsOK
<1>3. ASSUME NEW topic \in Topics, Publish(topic) PROVE TypeOK'
  <2>1. udpq' \in Seq(Message)
    BY <1>3 DEF Publish, TypeOK, NetworkOK, Message
  <2>2. published' \in 0 .. MaxMsgs
    BY <1>3 DEF Publish, TypeOK
  <2>3. /\ UNCHANGED <<status, tmp_fds, read_fds, fd_max, maps, sock, conn, backlog>>
        /\ typed' = typed /\ requested' = requested
    BY <1>3 DEF Publish, broker, fdsets
  <2>4. DescriptorsOK' /\ SessionsOK' /\ TopicsOK'
    BY <2>3 DEF TypeOK, maps, DescriptorsOK, SessionsOK, TopicsOK
  <2>5. NetworkOK'
    BY <2>1, <2>3 DEF TypeOK, NetworkOK
  <2> QED
    BY <2>2, <2>3, <2>4, <2>5 DEF TypeOK
<1>4. ASSUME TypeExit PROVE TypeOK'
  BY <1>4 DEF TypeExit, TypeOK, broker, maps, fdsets, DescriptorsOK, SessionsOK,
              TopicsOK, NetworkOK
<1> QED
  BY <1>1, <1>2, <1>3, <1>4

\* A status change that ends the broker hangs up every connection and no more.
LEMMA EndType ==
    ASSUME TypeOK, NEW cn \in Seq(Connection), Len(cn) = Len(conn),
           conn' = HangUpAll(cn), status' \in {"exited", "killed"},
           tmp_fds' \subseteq tmp_fds, UNCHANGED <<maps, fdsets, sock>>,
           backlog' \in Seq(DOMAIN conn), udpq' \in Seq(Message),
           typed' \in BOOLEAN, UNCHANGED <<published, requested>>
    PROVE  TypeOK'
<1>1. /\ conn' \in Seq(Connection) /\ Len(conn') = Len(conn)
      /\ DOMAIN conn' = DOMAIN conn
  BY HangUpType, LenProperties DEF TypeOK, NetworkOK
<1>2. NetworkOK'
  BY <1>1 DEF TypeOK, NetworkOK
<1>3. DescriptorsOK' /\ SessionsOK' /\ TopicsOK'
  BY DEF TypeOK, maps, fdsets, DescriptorsOK, SessionsOK, TopicsOK
<1> QED
  BY <1>2, <1>3, Zenon DEF TypeOK

\* select() and "exit" keep the types.
LEMMA LoopType == ASSUME TypeOK, Select \/ HandleStdinMessage PROVE TypeOK'
<1>1. CASE Select
  <2>1. DescriptorsOK'
    BY <1>1 DEF Select, TypeOK, fdsets, DescriptorsOK
  <2> QED
    BY <1>1, <2>1 DEF Select, TypeOK, maps, fdsets, env, SessionsOK, TopicsOK, NetworkOK
<1>2. CASE HandleStdinMessage
  <2>1. typed' \in BOOLEAN
    BY <1>2 DEF HandleStdinMessage
  <2> QED
    BY <1>2, <2>1, EndType DEF HandleStdinMessage, Scan, TypeOK, NetworkOK
<1> QED
  BY <1>1, <1>2

\* What accept() and recv() of the identifier give the three cases below.
LEMMA AcceptingFacts ==
    ASSUME TypeOK, NEW c \in ConnIds, NEW fd \in ClientFds, NEW id \in AnyId,
           Accepting(c, fd, id)
    PROVE  /\ status = "running" /\ tmp_fds' \subseteq tmp_fds
           /\ c \in DOMAIN conn /\ backlog' \in Seq(DOMAIN conn)
           /\ fd \notin DOMAIN sock
           /\ UNCHANGED <<udpq, typed, published, requested>>
<1>1. backlog \in Seq(DOMAIN conn) /\ backlog # <<>>
  BY DEF Accepting, TypeOK, NetworkOK
<1>2. Head(backlog) \in DOMAIN conn /\ Tail(backlog) \in Seq(DOMAIN conn)
  BY <1>1, HeadTailProperties
<1> QED
  BY <1>2 DEF Accepting, Scan, Lowest, env

\* Watching a new client descriptor.
LEMMA WatchType ==
    ASSUME DescriptorsOK, NEW fd \in ClientFds, Watch(fd)
    PROVE  /\ read_fds' \in SUBSET (0 .. 4 + MaxConns)
           /\ fd_max' \in 0 .. 4 + MaxConns
BY BrokerAssumption DEF DescriptorsOK, Watch, ClientFds

\* Accepting, refusing or taking back a client keeps the types.
LEMMA ConnectionRequestType == ASSUME TypeOK, HandleConnectionRequest PROVE TypeOK'
<1> SUFFICES ASSUME NEW c \in ConnIds, NEW fd \in ClientFds, NEW id \in AnyId,
                    \/ RejectConnection(c, fd, id)
                    \/ AddNewClient(c, fd, id)
                    \/ Reconnect(c, fd, id)
             PROVE  TypeOK'
  BY DEF HandleConnectionRequest
<1>1. /\ status = "running" /\ tmp_fds' \subseteq tmp_fds
      /\ c \in DOMAIN conn /\ backlog' \in Seq(DOMAIN conn)
      /\ fd \notin DOMAIN sock
      /\ UNCHANGED <<udpq, typed, published, requested>>
  BY AcceptingFacts DEF RejectConnection, AddNewClient, Reconnect
<1>2. /\ conn \in Seq(Connection) /\ Len(conn) \in Nat
      /\ DOMAIN conn = 1 .. Len(conn)
      /\ \A d \in DOMAIN conn : conn[d] \in Connection
  BY ConnectionFacts DEF TypeOK
<1>3. CASE RejectConnection(c, fd, id)
  <2>1. conn' = [conn EXCEPT ![c] = [conn[c] EXCEPT !.broker = "closed"]]
    BY <1>3 DEF RejectConnection
  <2>2. conn' \in Seq(Connection) /\ Len(conn') = Len(conn)
    <3>1. [conn[c] EXCEPT !.broker = "closed"] \in Connection
      BY <1>1, <1>2, ConnectionUpdate
    <3> QED
      BY <2>1, <3>1, <1>1, <1>2, ExceptSeq
  <2>3. DOMAIN conn' = DOMAIN conn
    BY <2>2, <1>2, LenProperties
  <2>4. NetworkOK'
    BY <1>1, <1>3, <2>2, <2>3 DEF RejectConnection, TypeOK, NetworkOK
  <2>5. UNCHANGED <<status, read_fds, fd_max, maps>>
    BY <1>3 DEF RejectConnection, fdsets
  <2>6. DescriptorsOK'
    BY <1>1, <2>5 DEF TypeOK, DescriptorsOK
  <2>7. SessionsOK' /\ TopicsOK'
    BY <2>5 DEF TypeOK, maps, SessionsOK, TopicsOK
  <2> QED
    BY <1>1, <2>4, <2>6, <2>7 DEF TypeOK
<1>4. CASE AddNewClient(c, fd, id)
  <2> DEFINE client == [id |-> id, socket |-> fd]
  <2>1. client \in Client
    BY DEF Client
  <2>2. /\ all_clients' = Insert(all_clients, id, client)
        /\ active_clients' = Insert(active_clients, fd, client)
        /\ active_ids_sockets' = Insert(active_ids_sockets, id, fd)
        /\ sock' = Insert(sock, fd, c) /\ Watch(fd)
        /\ UNCHANGED <<status, conn, topics_subs, store_and_forward>>
    BY <1>4 DEF AddNewClient
  <2> HIDE DEF client
  <2>3. SessionsOK'
    <3>1. DOMAIN all_clients' \subseteq AnyId /\ all_clients' \in [DOMAIN all_clients' -> Client]
      BY <2>1, <2>2 DEF TypeOK, SessionsOK, Insert
    <3>2. /\ DOMAIN active_clients' \subseteq ClientFds
          /\ active_clients' \in [DOMAIN active_clients' -> Client]
      BY <2>1, <2>2 DEF TypeOK, SessionsOK, Insert
    <3>3. /\ DOMAIN active_ids_sockets' \subseteq AnyId
          /\ active_ids_sockets' \in [DOMAIN active_ids_sockets' -> ClientFds]
      BY <2>2 DEF TypeOK, SessionsOK, Insert
    <3> QED
      BY <3>1, <3>2, <3>3 DEF SessionsOK
  <2>4. DOMAIN sock' \subseteq ClientFds /\ sock' \in [DOMAIN sock' -> DOMAIN conn']
    BY <1>1, <2>2 DEF TypeOK, NetworkOK, Insert
  <2>5. NetworkOK'
    BY <1>1, <2>2, <2>4 DEF TypeOK, NetworkOK
  <2>6. DescriptorsOK' /\ TopicsOK'
    BY <1>1, <2>2, WatchType DEF TypeOK, DescriptorsOK, TopicsOK
  <2> QED
    BY <1>1, <2>3, <2>5, <2>6 DEF TypeOK
<1>5. CASE Reconnect(c, fd, id)
  <2> DEFINE client == all_clients[id]
             table == Insert(sock, fd, c)
             out(k) == StoredTo(table, client.socket, client.id, k)
  <2>1. id \in DOMAIN all_clients /\ client \in Client /\ client.id \in AnyId
    BY <1>5 DEF Reconnect, TypeOK, SessionsOK, Client
  <2>2. Stored(client.id) \in Seq(Message) /\ Len(Stored(client.id)) \in Nat
    BY EmptySeq, LenProperties DEF TypeOK, TopicsOK, Stored
  <2>3. ASSUME NEW k \in 0 .. Len(Stored(client.id))
        PROVE  Transmit(out(k)) \in Seq(Connection) /\ Len(Transmit(out(k))) = Len(conn)
               /\ DOMAIN Transmit(out(k)) = DOMAIN conn
    <3>1. \A d \in DOMAIN conn : out(k)[d] \in Seq(Message)
      BY <2>3, StoredToType
    <3> HIDE DEF out
    <3> QED
      BY <3>1, <1>2, TransmitType
  <2>4. CASE status' = "killed"
    <3>1. PICK k \in 1 .. Len(Stored(client.id)) :
             SigPipe(table[client.socket], out(k - 1))
      BY <1>1, <1>5, <2>4 DEF Reconnect
    <3>2. /\ conn' = HangUpAll(Transmit(out(k - 1))) /\ k - 1 \in 0 .. Len(Stored(client.id))
          /\ UNCHANGED <<maps, fdsets, sock>>
      BY <2>2, <3>1 DEF SigPipe
    <3>3. Transmit(out(k - 1)) \in Seq(Connection) /\ Len(Transmit(out(k - 1))) = Len(conn)
      BY <2>3, <3>2
    <3> HIDE DEF out
    <3> QED
      BY <1>1, <2>4, <3>2, <3>3, EndType DEF TypeOK, NetworkOK
  <2>5. CASE status' # "killed"
    <3>1. /\ Watch(fd)
          /\ active_clients' = Insert(active_clients, fd, client)
          /\ active_ids_sockets' = Insert(active_ids_sockets, client.id, fd)
          /\ all_clients' = Insert(Erase(all_clients, id), id, client)
          /\ store_and_forward' = Erase(store_and_forward, client.id)
          /\ sock' = table
          /\ conn' = Transmit(out(Len(Stored(client.id))))
          /\ UNCHANGED <<status, topics_subs>>
      BY <1>5, <2>5 DEF Reconnect, SigPipe
    <3>2. /\ conn' \in Seq(Connection) /\ Len(conn') = Len(conn)
          /\ DOMAIN conn' = DOMAIN conn
      BY <2>2, <2>3, <3>1
    <3> HIDE DEF out, client, table
    <3>3. DOMAIN all_clients' \subseteq AnyId /\ all_clients' \in [DOMAIN all_clients' -> Client]
      <4>1. /\ DOMAIN Erase(all_clients, id) \subseteq AnyId
            /\ Erase(all_clients, id) \in [DOMAIN Erase(all_clients, id) -> Client]
        BY DEF TypeOK, SessionsOK, Erase, Restrict
      <4> QED
        BY <2>1, <3>1, <4>1 DEF Insert
    <3>4. /\ DOMAIN active_clients' \subseteq ClientFds
          /\ active_clients' \in [DOMAIN active_clients' -> Client]
      BY <2>1, <3>1 DEF TypeOK, SessionsOK, Insert
    <3>5. /\ DOMAIN active_ids_sockets' \subseteq AnyId
          /\ active_ids_sockets' \in [DOMAIN active_ids_sockets' -> ClientFds]
      BY <2>1, <3>1 DEF TypeOK, SessionsOK, Insert
    <3>6. TopicsOK'
      BY <3>1 DEF TypeOK, TopicsOK, Erase, Restrict
    <3>7. DOMAIN sock' \subseteq ClientFds /\ sock' \in [DOMAIN sock' -> DOMAIN conn']
      BY <1>1, <3>1, <3>2 DEF TypeOK, NetworkOK, table, Insert
    <3>8. NetworkOK'
      BY <1>1, <3>2, <3>7 DEF TypeOK, NetworkOK
    <3>9. DescriptorsOK'
      BY <1>1, <3>1, WatchType DEF TypeOK, DescriptorsOK
    <3> QED
      BY <1>1, <3>3, <3>4, <3>5, <3>6, <3>8, <3>9 DEF TypeOK, SessionsOK
  <2> QED
    BY <2>4, <2>5
<1> QED
  BY <1>3, <1>4, <1>5

\* A datagram keeps the types.
LEMMA UdpMessageType == ASSUME TypeOK, HandleUdpMessage PROVE TypeOK'
<1> DEFINE m == Head(udpq)
           subs == topics_subs[m.topic]
           out(k) == Forwarded(subs, m, k)
<1>1. udpq \in Seq(Message) /\ udpq # <<>>
  BY DEF HandleUdpMessage, TypeOK, NetworkOK
<1>2. m \in Message /\ m.topic \in Topics /\ udpq' \in Seq(Message)
  <2>1. m \in Message /\ Tail(udpq) \in Seq(Message)
    BY <1>1, HeadTailProperties
  <2>2. \A v \in Message : v.topic \in Topics
    BY DEF Message
  <2> QED
    BY <2>1, <2>2 DEF HandleUdpMessage
<1>3. /\ status = "running" /\ tmp_fds' \subseteq tmp_fds
      /\ UNCHANGED <<backlog, typed, published, requested>>
      /\ UnknownTopic(m) \/ Forward(m)
  BY DEF HandleUdpMessage, Scan, env
<1>4. /\ conn \in Seq(Connection) /\ Len(conn) \in Nat
      /\ DOMAIN conn = 1 .. Len(conn)
  BY ConnectionFacts DEF TypeOK
<1>5. CASE UnknownTopic(m)
  <2>1. TopicsOK'
    BY <1>2, <1>5, EmptySeq DEF UnknownTopic, TypeOK, TopicsOK, Insert
  <2>2. /\ UNCHANGED <<status, read_fds, fd_max, active_clients, all_clients,
                       active_ids_sockets, conn, sock>>
    BY <1>5 DEF UnknownTopic, fdsets
  <2>3. NetworkOK'
    BY <1>2, <1>3, <2>2 DEF TypeOK, NetworkOK
  <2>4. DescriptorsOK' /\ SessionsOK'
    BY <1>3, <2>2 DEF TypeOK, DescriptorsOK, SessionsOK
  <2> QED
    BY <1>3, <2>1, <2>3, <2>4 DEF TypeOK
<1>6. CASE Forward(m)
  <2>1. m.topic \in DOMAIN topics_subs /\ subs \in Seq(Subscription) /\ Len(subs) \in Nat
        /\ DOMAIN subs = 1 .. Len(subs)
    BY <1>6, LenProperties DEF Forward, TypeOK, TopicsOK
  <2>2. ASSUME NEW k \in Nat
        PROVE  Transmit(out(k)) \in Seq(Connection) /\ Len(Transmit(out(k))) = Len(conn)
               /\ DOMAIN Transmit(out(k)) = DOMAIN conn
    <3>1. \A d \in DOMAIN conn : out(k)[d] \in Seq(Message)
      BY <1>2, <2>2, ForwardedType
    <3> HIDE DEF out
    <3> QED
      BY <3>1, <1>4, TransmitType
  <2>3. CASE status' = "killed"
    <3>0. PICK c \in DOMAIN conn : \E k \in SentTo(subs, c) : SigPipe(c, out(k - 1))
      BY <1>3, <1>6, <2>3 DEF Forward
    <3>1. PICK k \in SentTo(subs, c) : SigPipe(c, out(k - 1))
      BY <3>0
    <3>2. /\ conn' = HangUpAll(Transmit(out(k - 1))) /\ k - 1 \in Nat
          /\ UNCHANGED <<maps, fdsets, sock>>
      BY <2>1, <3>1 DEF SigPipe, SentTo
    <3>3. Transmit(out(k - 1)) \in Seq(Connection) /\ Len(Transmit(out(k - 1))) = Len(conn)
      BY <2>2, <3>2
    <3> HIDE DEF out
    <3> QED
      BY <1>2, <1>3, <2>3, <3>2, <3>3, EndType DEF TypeOK, NetworkOK
  <2>4. CASE status' # "killed"
    <3> DEFINE keepers == {id \in AnyId : KeptFor(subs, id) # {}}
               kept(id) == Copies(m, Cardinality(KeptFor(subs, id)))
    <3>1. /\ conn' = Transmit(out(Len(subs)))
          /\ store_and_forward' =
                [id \in DOMAIN store_and_forward \cup keepers |-> Stored(id) \o kept(id)]
          /\ UNCHANGED <<status, read_fds, fd_max, active_clients, all_clients,
                         active_ids_sockets, topics_subs, sock>>
      BY <1>6, <2>4 DEF Forward, SigPipe, fdsets
    <3>2. /\ conn' \in Seq(Connection) /\ Len(conn') = Len(conn)
          /\ DOMAIN conn' = DOMAIN conn
      BY <2>1, <2>2, <3>1
    <3>3. ASSUME NEW id \in AnyId PROVE Stored(id) \o kept(id) \in Seq(Message)
      <4>1. Stored(id) \in Seq(Message)
        BY EmptySeq DEF Stored, TypeOK, TopicsOK
      <4>2. Cardinality(KeptFor(subs, id)) \in Nat
        <5>1. KeptFor(subs, id) \subseteq 1 .. Len(subs)
          BY <2>1 DEF KeptFor
        <5>2. IsFiniteSet(1 .. Len(subs))
          BY <2>1, FS_Interval
        <5> QED
          BY <5>1, <5>2, FS_Subset, FS_CardinalityType
      <4>3. kept(id) \in Seq(Message)
        BY <1>2, <4>2, CopiesType
      <4> HIDE DEF kept
      <4> QED
        BY <4>1, <4>3
    <3> HIDE DEF kept, out
    <3>4. keepers \subseteq AnyId
      OBVIOUS
    <3> HIDE DEF keepers
    <3>5. TopicsOK'
      BY <3>1, <3>3, <3>4 DEF TypeOK, TopicsOK
    <3>6. NetworkOK'
      BY <1>2, <1>3, <3>1, <3>2 DEF TypeOK, NetworkOK
    <3>7. DescriptorsOK' /\ SessionsOK'
      BY <1>3, <3>1 DEF TypeOK, DescriptorsOK, SessionsOK
    <3> QED
      BY <1>3, <3>5, <3>6, <3>7 DEF TypeOK
  <2> QED
    BY <2>3, <2>4
<1> QED
  BY <1>3, <1>5, <1>6

\* A client's request, departure or failure keeps the types.
LEMMA TcpMessageType ==
    ASSUME TypeOK, SessionTablesAgree, NEW i \in ClientFds, HandleTcpMessage(i)
    PROVE  TypeOK'
<1> DEFINE c == sock[i]
<1>1. /\ status = "running" /\ tmp_fds' \subseteq tmp_fds
      /\ i \in DOMAIN sock /\ i \in DOMAIN active_clients /\ c \in DOMAIN conn
      /\ UNCHANGED <<backlog, udpq, typed, published, requested>>
  BY DEF HandleTcpMessage, Scan, env, TypeOK, NetworkOK, SessionTablesAgree
<1>2. /\ conn \in Seq(Connection) /\ Len(conn) \in Nat
      /\ DOMAIN conn = 1 .. Len(conn)
      /\ conn[c] \in Connection /\ conn[c].up \in Seq(Request)
  BY <1>1, ConnectionFacts DEF TypeOK
<1>3. CASE Disconnect(i)
  <2>1. /\ conn' = [conn EXCEPT ![c] = [conn[c] EXCEPT !.broker = "closed"]]
        /\ read_fds' = read_fds \ {i} /\ sock' = Erase(sock, i)
        /\ active_ids_sockets' = Erase(active_ids_sockets, active_clients[i].id)
        /\ active_clients' = Erase(active_clients, i)
        /\ UNCHANGED <<status, fd_max, all_clients, topics_subs, store_and_forward>>
    BY <1>3 DEF Disconnect
  <2>2. [conn[c] EXCEPT !.broker = "closed"] \in Connection
    BY <1>2, ConnectionUpdate
  <2>3. conn' \in Seq(Connection) /\ Len(conn') = Len(conn)
    BY <1>1, <1>2, <2>1, <2>2, ExceptSeq
  <2>4. DOMAIN conn' = DOMAIN conn
    BY <1>2, <2>3, LenProperties
  <2>5. NetworkOK'
    BY <1>1, <2>1, <2>3, <2>4 DEF TypeOK, NetworkOK, Erase, Restrict
  <2>6. SessionsOK'
    BY <2>1 DEF TypeOK, SessionsOK, Erase, Restrict
  <2>7. DescriptorsOK' /\ TopicsOK'
    BY <1>1, <2>1 DEF TypeOK, DescriptorsOK, TopicsOK
  <2> QED
    BY <1>1, <2>5, <2>6, <2>7 DEF TypeOK
<1>4. CASE ReceiveError(i)
  BY <1>1, <1>2, <1>4, EndType DEF ReceiveError, TypeOK, NetworkOK
<1>5. ASSUME NEW req \in Request, Take(i, req), TopicsOK' PROVE TypeOK'
  <2>1. /\ conn' = [conn EXCEPT ![c] = [conn[c] EXCEPT !.up = Tail(conn[c].up)]]
        /\ conn[c].up # <<>>
        /\ UNCHANGED <<status, read_fds, fd_max, active_clients, all_clients,
                       active_ids_sockets, sock>>
    BY <1>5 DEF Take, fdsets
  <2>2. Tail(conn[c].up) \in Seq(Request)
    BY <1>2, <2>1, HeadTailProperties
  <2>3. NetworkOK'
    BY <1>1, <1>2, <2>1, <2>2, ConnectionUpdate, ReplaceConnection DEF TypeOK
  <2>4. DescriptorsOK' /\ SessionsOK'
    BY <1>1, <2>1 DEF TypeOK, DescriptorsOK, SessionsOK
  <2> QED
    BY <1>1, <1>5, <2>3, <2>4 DEF TypeOK
<1>6. ASSUME NEW req \in Request, IgnoreRequest(i, req) PROVE TypeOK'
  <2>1. TopicsOK'
    BY <1>6 DEF IgnoreRequest, Take, TypeOK, TopicsOK
  <2> QED
    BY <1>5, <1>6, <2>1 DEF IgnoreRequest
<1>7. ASSUME NEW req \in Request, Subscribe(i, req) PROVE TypeOK'
  <2> DEFINE t == req.topic
             new == [client |-> active_clients[i], sf |-> req.sf]
  <2>1. /\ t \in DOMAIN topics_subs /\ topics_subs[t] \in Seq(Subscription)
        /\ store_and_forward' = store_and_forward /\ req.sf \in {"off", "on"}
    BY <1>7 DEF Subscribe, Take, TypeOK, TopicsOK, Request
  <2>2. new \in Subscription
    BY <1>1, <2>1 DEF TypeOK, SessionsOK, Subscription
  <2>3. \E list \in Seq(Subscription) : topics_subs' = [topics_subs EXCEPT ![t] = list]
    <3>1. CASE topics_subs' = [topics_subs EXCEPT ![t] = Append(topics_subs[t], new)]
      <4> HIDE DEF new
      <4>1. Append(topics_subs[t], new) \in Seq(Subscription)
        BY <2>1, <2>2
      <4> QED
        BY <3>1, <4>1
    <3>2. ASSUME NEW p \in PlacesOf(t, active_clients[i].id),
                 topics_subs' = [topics_subs EXCEPT ![t][p].sf = req.sf]
          PROVE  \E list \in Seq(Subscription) :
                    topics_subs' = [topics_subs EXCEPT ![t] = list]
      <4> DEFINE s == [topics_subs[t][p] EXCEPT !.sf = req.sf]
      <4>1. p \in 1 .. Len(topics_subs[t])
        BY <2>1, LenProperties DEF PlacesOf
      <4>2. topics_subs[t][p] \in Subscription
        BY <2>1, <4>1, ElementOfSeq
      <4>3. s \in Subscription
        BY <2>1, <4>2 DEF Subscription
      <4>4. topics_subs' = [topics_subs EXCEPT ![t] = [topics_subs[t] EXCEPT ![p] = s]]
        BY <3>2
      <4> HIDE DEF s
      <4>5. [topics_subs[t] EXCEPT ![p] = s] \in Seq(Subscription)
        BY <2>1, <4>1, <4>3, ExceptSeq
      <4> QED
        BY <4>4, <4>5
    <3> QED
      BY <1>7, <3>1, <3>2 DEF Subscribe
  <2>4. TopicsOK'
    BY <2>1, <2>3 DEF TypeOK, TopicsOK
  <2> QED
    BY <1>5, <1>7, <2>4 DEF Subscribe
<1>8. ASSUME NEW req \in Request, Unsubscribe(i, req) PROVE TypeOK'
  <2> DEFINE t == req.topic
  <2>1. /\ t \in DOMAIN topics_subs /\ topics_subs[t] \in Seq(Subscription)
        /\ store_and_forward' = store_and_forward
    BY <1>8 DEF Unsubscribe, Take, TypeOK, TopicsOK
  <2>2. \A p \in PlacesOf(t, active_clients[i].id) :
          RemoveAt(topics_subs[t], p) \in Seq(Subscription)
    BY <2>1, RemoveAtType DEF PlacesOf
  <2>3. TopicsOK'
    BY <1>8, <2>1, <2>2 DEF Unsubscribe, TypeOK, TopicsOK
  <2> QED
    BY <1>5, <1>8, <2>3 DEF Unsubscribe
<1> QED
  BY <1>3, <1>4, <1>6, <1>7, <1>8 DEF HandleTcpMessage

-----------------------------------------------------------------------------
(* The session tables.                                                       *)

\* No client is connected at the start.
LEMMA InitSessions == Init => SessionTablesAgree
<1> SUFFICES ASSUME Init PROVE SessionTablesAgree
  OBVIOUS
<1>1. DOMAIN active_clients = {} /\ DOMAIN all_clients = {} /\ DOMAIN sock = {}
      /\ DOMAIN active_ids_sockets = {}
  BY DEF Init
<1> QED
  BY <1>1 DEF Init, InitialFds, SessionTablesAgree, STDIN, SockTcp, SockUdp

\* A step that leaves the tables alone keeps them in agreement.
LEMMA SameSessions ==
    ASSUME SessionTablesAgree,
           UNCHANGED <<read_fds, fd_max, active_clients, all_clients, active_ids_sockets, sock>>
    PROVE  SessionTablesAgree'
BY DEF SessionTablesAgree

\* A first connection enters every table under one descriptor.
LEMMA AddSession ==
    ASSUME TypeOK, SessionTablesAgree,
           NEW c \in ConnIds, NEW fd \in ClientFds, NEW id \in AnyId,
           AddNewClient(c, fd, id)
    PROVE  SessionTablesAgree'
<1> DEFINE client == [id |-> id, socket |-> fd]
<1>1. /\ fd \notin DOMAIN active_clients
      /\ id \notin DOMAIN active_ids_sockets /\ id \notin DOMAIN all_clients
      /\ read_fds' = read_fds \cup {fd}
      /\ fd_max' = IF fd > fd_max THEN fd ELSE fd_max
      /\ all_clients' = Insert(all_clients, id, client)
      /\ active_clients' = Insert(active_clients, fd, client)
      /\ active_ids_sockets' = Insert(active_ids_sockets, id, fd)
      /\ sock' = Insert(sock, fd, c)
  BY DEF AddNewClient, Accepting, Watch, Lowest, SessionTablesAgree
<1>2. fd \in Int /\ fd_max \in Int /\ \A f \in read_fds : f \in Int /\ f <= fd_max
  BY BrokerAssumption DEF ClientFds, TypeOK, DescriptorsOK, SessionTablesAgree
<1>3. \A f \in read_fds' : f <= fd_max'
  BY <1>1, <1>2
<1>4. client.id = id
  OBVIOUS
<1> HIDE DEF client
<1> QED
  BY <1>1, <1>3, <1>4 DEF SessionTablesAgree, Insert

\* A client that comes back enters the two session tables under its new descriptor.
LEMMA ReturnSession ==
    ASSUME TypeOK, SessionTablesAgree,
           NEW c \in ConnIds, NEW fd \in ClientFds, NEW id \in AnyId,
           Reconnect(c, fd, id), status' # "killed"
    PROVE  SessionTablesAgree'
<1> DEFINE client == all_clients[id]
<1>1. /\ fd \notin DOMAIN active_clients
      /\ id \notin DOMAIN active_ids_sockets /\ id \in DOMAIN all_clients
      /\ read_fds' = read_fds \cup {fd}
      /\ fd_max' = IF fd > fd_max THEN fd ELSE fd_max
      /\ all_clients' = Insert(Erase(all_clients, id), id, client)
      /\ active_clients' = Insert(active_clients, fd, client)
      /\ active_ids_sockets' = Insert(active_ids_sockets, client.id, fd)
      /\ sock' = Insert(sock, fd, c)
  BY DEF Reconnect, SigPipe, Accepting, Watch, Lowest, SessionTablesAgree
<1>2. fd \in Int /\ fd_max \in Int /\ \A f \in read_fds : f \in Int /\ f <= fd_max
  BY BrokerAssumption DEF ClientFds, TypeOK, DescriptorsOK, SessionTablesAgree
<1>3. \A f \in read_fds' : f <= fd_max'
  BY <1>1, <1>2
<1>4. client.id = id
  BY <1>1 DEF SessionTablesAgree
<1> HIDE DEF client
<1>5. DOMAIN all_clients' = DOMAIN all_clients /\ all_clients'[id] = client
      /\ \A j \in DOMAIN all_clients \ {id} : all_clients'[j] = all_clients[j]
  BY <1>1 DEF Insert, Erase, Restrict
<1>6. \A j \in DOMAIN all_clients' : all_clients'[j].id = j
  BY <1>4, <1>5 DEF SessionTablesAgree
<1> QED
  BY <1>1, <1>3, <1>4, <1>5, <1>6 DEF SessionTablesAgree, Insert

\* A departure leaves every session table at once.
LEMMA DropSession ==
    ASSUME TypeOK, SessionTablesAgree, NEW i \in ClientFds, i \in DOMAIN sock, Disconnect(i)
    PROVE  SessionTablesAgree'
<1>1. /\ read_fds' = read_fds \ {i} /\ fd_max' = fd_max
      /\ active_ids_sockets' = Erase(active_ids_sockets, active_clients[i].id)
      /\ active_clients' = Erase(active_clients, i)
      /\ sock' = Erase(sock, i) /\ all_clients' = all_clients
  BY DEF Disconnect
<1>2. i \notin {STDIN, SockTcp, SockUdp}
  BY BrokerAssumption DEF ClientFds, STDIN, SockTcp, SockUdp
<1> QED
  BY <1>1, <1>2 DEF SessionTablesAgree, Erase, Restrict

\* Every step of the system keeps the types and the agreement of the tables.
LEMMA StepInvariant ==
    ASSUME TypeOK, SessionTablesAgree, [Next]_vars
    PROVE  TypeOK' /\ SessionTablesAgree'
<1>1. CASE Select \/ HandleStdinMessage
  <2>1. UNCHANGED <<read_fds, fd_max, active_clients, all_clients, active_ids_sockets, sock>>
    BY <1>1 DEF Select, HandleStdinMessage, fdsets, maps
  <2> QED
    BY <1>1, <2>1, LoopType, SameSessions
<1>2. CASE HandleConnectionRequest
  <2>1. PICK c \in ConnIds, fd \in ClientFds, id \in AnyId :
           RejectConnection(c, fd, id) \/ AddNewClient(c, fd, id) \/ Reconnect(c, fd, id)
    BY <1>2 DEF HandleConnectionRequest
  <2>2. CASE RejectConnection(c, fd, id)
    <3>1. UNCHANGED <<read_fds, fd_max, active_clients, all_clients, active_ids_sockets, sock>>
      BY <2>2 DEF RejectConnection, fdsets, maps
    <3> QED
      BY <1>2, <3>1, ConnectionRequestType, SameSessions
  <2>3. CASE Reconnect(c, fd, id) /\ status' = "killed"
    <3>1. status = "running"
      BY <2>3 DEF Reconnect, Accepting, Scan
    <3>2. UNCHANGED <<read_fds, fd_max, active_clients, all_clients, active_ids_sockets, sock>>
      BY <2>3, <3>1 DEF Reconnect, SigPipe, fdsets, maps
    <3> QED
      BY <1>2, <3>2, ConnectionRequestType, SameSessions
  <2> QED
    BY <1>2, <2>1, <2>2, <2>3, ConnectionRequestType, AddSession, ReturnSession
<1>3. CASE HandleUdpMessage
  <2>0. UnknownTopic(Head(udpq)) \/ Forward(Head(udpq))
    BY <1>3 DEF HandleUdpMessage
  <2>1. UNCHANGED <<read_fds, fd_max, active_clients, all_clients, active_ids_sockets, sock>>
    BY <2>0, Zenon DEF UnknownTopic, Forward, SigPipe, fdsets, maps
  <2> QED
    BY <1>3, <2>1, UdpMessageType, SameSessions
<1>4. ASSUME NEW i \in ClientFds, HandleTcpMessage(i) PROVE TypeOK' /\ SessionTablesAgree'
  <2>1. i \in DOMAIN sock
    BY <1>4 DEF HandleTcpMessage
  <2>2. CASE ~Disconnect(i)
    <3>1. UNCHANGED <<read_fds, fd_max, active_clients, all_clients, active_ids_sockets, sock>>
      BY <1>4, <2>2, Zenon DEF HandleTcpMessage, ReceiveError, IgnoreRequest, Subscribe,
                        Unsubscribe, Take, fdsets, maps
    <3> QED
      BY <1>4, <3>1, TcpMessageType, SameSessions
  <2> QED
    BY <1>4, <2>1, <2>2, TcpMessageType, DropSession
<1>5. CASE \/ \E id \in Ids : Connect(id)
           \/ \E c \in ConnIds : Subscriber(c)
           \/ \E topic \in Topics : Publish(topic)
           \/ TypeExit
  <2>1. UNCHANGED broker
    BY <1>5 DEF Connect, Subscriber, SendId, Receive, ReceiveEnd, Exit, Kill, SendRequest,
                Publish, TypeExit
  <2> QED
    BY <1>5, <2>1, EnvironmentType, SameSessions DEF broker, fdsets, maps
<1>6. CASE UNCHANGED vars
  BY <1>6 DEF vars, maps, fdsets, env, TypeOK, DescriptorsOK, SessionsOK, TopicsOK, NetworkOK,
              SessionTablesAgree
<1> QED
  BY <1>1, <1>2, <1>3, <1>4, <1>5, <1>6 DEF Next, BrokerStep

\* Type correctness: the tables of the broker, the descriptors and the queues of
\* its sockets keep their types, whatever clients, publishers and signals do.
THEOREM TypeCorrect == Spec => []TypeOK
<1>1. Init => TypeOK /\ SessionTablesAgree
  BY InitType, InitSessions
<1>2. TypeOK /\ SessionTablesAgree /\ [Next]_vars => TypeOK' /\ SessionTablesAgree'
  BY StepInvariant
<1> QED
  BY <1>1, <1>2, PTL DEF Spec

\* Session consistency: in every reachable state, for any number of clients,
\* connections, messages and topics, the select() set, active_clients and
\* active_ids_sockets describe the same sessions, so active_clients.at(i) of
\* handle_tcp_message() is always defined and no identifier has two sessions.
THEOREM SessionsConsistent == Spec => []SessionTablesAgree
<1>1. Init => TypeOK /\ SessionTablesAgree
  BY InitType, InitSessions
<1>2. TypeOK /\ SessionTablesAgree /\ [Next]_vars => TypeOK' /\ SessionTablesAgree'
  BY StepInvariant
<1> QED
  BY <1>1, <1>2, PTL DEF Spec

-----------------------------------------------------------------------------
(* Connections, and the subscribers at their other ends.                     *)

\* The connections the broker has accepted are the first ones.
Accepted == Len(conn) - Len(backlog)

\* Connections are accepted in the order in which they are made.
InOrder ==
    /\ Accepted >= 0
    /\ \A k \in 1 .. Len(backlog) : backlog[k] = Accepted + k
    /\ \A i \in DOMAIN sock : sock[i] <= Accepted

\* No connection has two descriptors.
Apart == \A i, j \in DOMAIN sock : sock[i] = sock[j] => i = j

\* The broker closes its end only of what it refuses or drops.
OpenEnds ==
    status = "running" =>
        \A c \in DOMAIN conn :
            c > Accepted \/ (\E i \in DOMAIN sock : sock[i] = c) => conn[c].broker = "open"

\* The identifier the broker read is the one the subscriber was started with.
Identified ==
    \A i \in DOMAIN sock :
        /\ conn[sock[i]].hello => active_clients[i].id = conn[sock[i]].id
        /\ ~conn[sock[i]].hello => active_clients[i].id = NoId /\ conn[sock[i]].client # "open"

\* A subscriber sends its identifier before its requests.
HelloFirst == \A c \in DOMAIN conn : conn[c].up # <<>> => conn[c].hello

Sessions == InOrder /\ Apart /\ OpenEnds /\ Identified /\ HelloFirst

\* What a step may do to the subscriber behind a connection: a subscriber that has
\* ended neither returns nor sends.
Evolves(v, w) ==
    /\ w.id = v.id
    /\ v.hello => w.hello
    /\ v.client # "open" => w.client # "open" /\ w.hello = v.hello
    /\ w.up # <<>> => v.up # <<>> \/ w.hello

Evolve(cn, cn2) == DOMAIN cn2 = DOMAIN cn /\ \A c \in DOMAIN cn : Evolves(cn[c], cn2[c])

\* Sending writes to the queues and ends of connections only.
LEMMA TransmitFields ==
    ASSUME TypeOK, NEW out, NEW c \in DOMAIN conn
    PROVE  LET v == conn[c]
               w == Transmit(out)[c]
           IN  /\ w.id = v.id /\ w.hello = v.hello /\ w.client = v.client /\ w.up = v.up
               /\ w.broker = v.broker
               /\ v.client = "open" => w.down = v.down \o out[c]
               /\ v.client # "open" => w.down = v.down
<1>1. conn[c] \in Connection
  BY ConnectionFacts DEF TypeOK
<1>2. CASE conn[c].client = "open"
  <2>1. Transmit(out)[c] = [conn[c] EXCEPT !.down = conn[c].down \o out[c]]
    BY <1>2 DEF Transmit
  <2> QED
    BY <1>1, <1>2, <2>1 DEF Connection
<1>3. CASE conn[c].client # "open"
  <2> DEFINE b == conn[c].broken \/ out[c] # <<>>
  <2>1. Transmit(out)[c] = [conn[c] EXCEPT !.broken = b]
    BY <1>3, Zenon DEF Transmit
  <2> HIDE DEF b
  <2> QED
    BY <1>1, <1>3, <2>1 DEF Connection
<1> QED
  BY <1>2, <1>3

LEMMA TransmitEvolves ==
    ASSUME TypeOK, NEW out
    PROVE  Evolve(conn, Transmit(out))
<1>1. DOMAIN Transmit(out) = DOMAIN conn
  BY DEF Transmit
<1>2. \A c \in DOMAIN conn : Evolves(conn[c], Transmit(out)[c])
  <2> SUFFICES ASSUME NEW c \in DOMAIN conn PROVE Evolves(conn[c], Transmit(out)[c])
    OBVIOUS
  <2>1. LET v == conn[c]
            w == Transmit(out)[c]
        IN  w.id = v.id /\ w.hello = v.hello /\ w.client = v.client /\ w.up = v.up
    BY TransmitFields
  <2> QED
    BY <2>1 DEF Evolves
<1> QED
  BY <1>1, <1>2 DEF Evolve

LEMMA HangUpFields ==
    ASSUME NEW cn \in Seq(Connection), NEW c \in DOMAIN cn
    PROVE  LET v == cn[c]
               w == HangUpAll(cn)[c]
           IN  w.id = v.id /\ w.hello = v.hello /\ w.client = v.client /\ w.up = v.up
               /\ w.down = v.down
<1>1. cn[c] \in Connection
  BY ElementOfSeq, LenProperties
<1>2. HangUpAll(cn)[c] = [cn[c] EXCEPT !.broker = "closed"]
  BY DEF HangUpAll
<1> QED
  BY <1>1, <1>2 DEF Connection

LEMMA HangUpEvolves ==
    ASSUME NEW cn \in Seq(Connection)
    PROVE  Evolve(cn, HangUpAll(cn))
<1>1. DOMAIN HangUpAll(cn) = DOMAIN cn
  BY DEF HangUpAll
<1>2. \A c \in DOMAIN cn : Evolves(cn[c], HangUpAll(cn)[c])
  <2> SUFFICES ASSUME NEW c \in DOMAIN cn PROVE Evolves(cn[c], HangUpAll(cn)[c])
    OBVIOUS
  <2>1. LET v == cn[c]
            w == HangUpAll(cn)[c]
        IN  w.id = v.id /\ w.hello = v.hello /\ w.client = v.client /\ w.up = v.up
    BY HangUpFields
  <2> QED
    BY <2>1 DEF Evolves
<1> QED
  BY <1>1, <1>2 DEF Evolve

LEMMA EvolveTrans ==
    ASSUME NEW a, NEW b, NEW d, Evolve(a, b), Evolve(b, d)
    PROVE  Evolve(a, d)
BY DEF Evolve, Evolves

\* The death of the broker in the middle of its sends.
LEMMA SigPipeEvolves ==
    ASSUME TypeOK, NEW c, NEW out, \A d \in DOMAIN conn : out[d] \in Seq(Message), SigPipe(c, out)
    PROVE  Evolve(conn, conn') /\ status' = "killed"
<1>1. conn' = HangUpAll(Transmit(out)) /\ status' = "killed"
  BY DEF SigPipe
<1>2. Transmit(out) \in Seq(Connection)
  BY TransmitType DEF TypeOK, NetworkOK
<1> QED
  BY <1>1, <1>2, TransmitEvolves, HangUpEvolves, EvolveTrans

\* Replacing one connection by one that has evolved.
LEMMA UpdateEvolves ==
    ASSUME NEW cn, NEW c \in DOMAIN cn, NEW w, Evolves(cn[c], w)
    PROVE  Evolve(cn, [cn EXCEPT ![c] = w])
BY DEF Evolve, Evolves

LEMMA SameEvolves == ASSUME NEW cn PROVE Evolve(cn, cn)
BY DEF Evolve, Evolves

\* A subscriber evolves, and leaves the broker's ends alone.
LEMMA SubscriberEvolves ==
    ASSUME TypeOK, NEW c, Subscriber(c)
    PROVE  /\ Evolve(conn, conn')
           /\ \A d \in DOMAIN conn : conn'[d].broker = conn[d].broker
<1>1. c \in DOMAIN conn /\ conn[c].client = "open"
  BY DEF Subscriber, Running, SendId, Receive, ReceiveEnd, Exit, Kill, SendRequest
<1> DEFINE v == conn[c]
<1>2. v \in Connection
  BY <1>1, ConnectionFacts DEF TypeOK
<1>3. ASSUME NEW w, conn' = [conn EXCEPT ![c] = w], Evolves(v, w), w.broker = v.broker
      PROVE  /\ Evolve(conn, conn')
             /\ \A d \in DOMAIN conn : conn'[d].broker = conn[d].broker
  <2>1. Evolve(conn, conn')
    BY <1>1, <1>3, UpdateEvolves
  <2> QED
    BY <1>1, <1>3, <2>1
<1>4. CASE SendId(c)
  <2> DEFINE w == [v EXCEPT !.hello = TRUE]
  <2>1. conn' = [conn EXCEPT ![c] = w]
    BY <1>4 DEF SendId
  <2>2. Evolves(v, w) /\ w.broker = v.broker
    BY <1>1, <1>2 DEF Evolves, Connection
  <2> HIDE DEF v, w
  <2> QED
    BY <1>3, <2>1, <2>2
<1>5. CASE Receive(c)
  <2> DEFINE w == [v EXCEPT !.down = Tail(v.down)]
  <2>1. conn' = [conn EXCEPT ![c] = w]
    BY <1>5 DEF Receive
  <2>2. Evolves(v, w) /\ w.broker = v.broker
    BY <1>1, <1>2 DEF Evolves, Connection
  <2> HIDE DEF v, w
  <2> QED
    BY <1>3, <2>1, <2>2
<1>6. CASE ReceiveEnd(c)
  <2> DEFINE w == [v EXCEPT !.client = "closed"]
  <2>1. conn' = [conn EXCEPT ![c] = w]
    BY <1>6 DEF ReceiveEnd
  <2>2. Evolves(v, w) /\ w.broker = v.broker
    BY <1>1, <1>2 DEF Evolves, Connection
  <2> HIDE DEF v, w
  <2> QED
    BY <1>3, <2>1, <2>2
<1>7. CASE Exit(c)
  <2> DEFINE b == conn[c].down # <<>> /\ conn[c].broker = "open"
             w == [v EXCEPT !.client = "closed", !.down = <<>>, !.broken = b]
  <2>1. conn' = [conn EXCEPT ![c] = w]
    BY <1>7 DEF Exit
  <2> HIDE DEF b
  <2>2. Evolves(v, w) /\ w.broker = v.broker
    BY <1>1, <1>2 DEF Evolves, Connection
  <2> HIDE DEF v, w
  <2> QED
    BY <1>3, <2>1, <2>2
<1>8. CASE Kill(c)
  <2> DEFINE e == IF conn[c].down = <<>> THEN "closed" ELSE "aborted"
             w == [v EXCEPT !.client = e, !.down = <<>>]
  <2>1. conn' = [conn EXCEPT ![c] = w]
    BY <1>8 DEF Kill
  <2>2. e # "open"
    OBVIOUS
  <2> HIDE DEF e
  <2>3. Evolves(v, w) /\ w.broker = v.broker
    BY <1>1, <1>2, <2>2 DEF Evolves, Connection
  <2> HIDE DEF v, w
  <2> QED
    BY <1>3, <2>1, <2>3
<1>9. ASSUME NEW req \in Request, SendRequest(c, req)
      PROVE  /\ Evolve(conn, conn')
             /\ \A d \in DOMAIN conn : conn'[d].broker = conn[d].broker
  <2> DEFINE w == [v EXCEPT !.up = Append(v.up, req)]
  <2>1. conn' = conn \/ conn' = [conn EXCEPT ![c] = w]
    BY <1>9 DEF SendRequest
  <2>2. v.hello
    BY <1>9 DEF SendRequest
  <2>3. Evolves(v, w) /\ w.broker = v.broker
    BY <1>1, <1>2, <2>2 DEF Evolves, Connection
  <2> HIDE DEF v, w
  <2> QED
    BY <1>3, <2>1, <2>3, SameEvolves
<1> QED
  BY <1>4, <1>5, <1>6, <1>7, <1>8, <1>9 DEF Subscriber

\* The counts that InOrder compares.
LEMMA CountsTyped ==
    ASSUME TypeOK, InOrder
    PROVE  /\ Len(conn) \in Nat /\ Len(backlog) \in Nat /\ Accepted \in Nat
           /\ DOMAIN conn = 1 .. Len(conn) /\ DOMAIN backlog = 1 .. Len(backlog)
           /\ \A i \in DOMAIN sock : sock[i] \in DOMAIN conn /\ sock[i] \in 1 .. Accepted
           /\ conn \in Seq(Connection) /\ backlog \in Seq(DOMAIN conn)
<1>1. conn \in Seq(Connection) /\ backlog \in Seq(DOMAIN conn)
  BY DEF TypeOK, NetworkOK
<1>2. \A i \in DOMAIN sock : sock[i] \in DOMAIN conn
  BY DEF TypeOK, NetworkOK
<1>3. Len(conn) \in Nat /\ Len(backlog) \in Nat /\ DOMAIN conn = 1 .. Len(conn)
      /\ DOMAIN backlog = 1 .. Len(backlog)
  BY <1>1
<1>4. Accepted \in Nat
  BY <1>3 DEF InOrder, Accepted
<1>5. \A i \in DOMAIN sock : sock[i] \in 1 .. Accepted
  BY <1>2, <1>3, <1>4 DEF InOrder
<1> QED
  BY <1>1, <1>2, <1>3, <1>4, <1>5

\* The connection at the head of the queue is the next one.
LEMMA NextAccepted ==
    ASSUME TypeOK, InOrder, backlog # <<>>, Len(conn') = Len(conn), backlog' = Tail(backlog)
    PROVE  /\ Head(backlog) = Accepted + 1 /\ Accepted' = Accepted + 1
           /\ Accepted + 1 \in DOMAIN conn
           /\ \A k \in 1 .. Len(backlog') : backlog'[k] = Accepted' + k
<1>1. /\ Head(backlog) = backlog[1] /\ Len(backlog) \in Nat \ {0}
      /\ Len(backlog') = Len(backlog) - 1
      /\ \A k \in 1 .. Len(backlog) - 1 : backlog'[k] = backlog[k + 1]
  BY TailElements DEF TypeOK, NetworkOK
<1>2. Head(backlog) = Accepted + 1
  BY <1>1 DEF InOrder
<1>3. Accepted' = Accepted + 1 /\ Accepted \in Nat /\ Len(conn) \in Nat
  BY <1>1, CountsTyped DEF Accepted
<1>4. Accepted + 1 \in DOMAIN conn
  BY <1>1, <1>3, CountsTyped DEF Accepted
<1>5. ASSUME NEW k \in 1 .. Len(backlog') PROVE backlog'[k] = Accepted' + k
  <2>1. k + 1 \in 1 .. Len(backlog) /\ k \in 1 .. Len(backlog) - 1
    BY <1>1
  <2>2. backlog'[k] = Accepted + (k + 1)
    BY <1>1, <2>1 DEF InOrder
  <2> QED
    BY <1>3, <2>2
<1> QED
  BY <1>2, <1>3, <1>4, <1>5

\* A step that opens no session.  It may refuse a connection or end a session.
LEMMA KeepSessions ==
    ASSUME TypeOK, TypeOK', SessionTablesAgree, Sessions, Evolve(conn, conn'), Len(conn') = Len(conn),
           backlog' = backlog \/ (backlog # <<>> /\ backlog' = Tail(backlog)),
           DOMAIN sock' \subseteq DOMAIN sock,
           \A i \in DOMAIN sock' :
               sock'[i] = sock[i] /\ active_clients'[i] = active_clients[i],
           status' = "running" =>
               /\ status = "running"
               /\ \A c \in DOMAIN conn :
                     c > Accepted' \/ (\E i \in DOMAIN sock' : sock[i] = c)
                     => conn'[c].broker = conn[c].broker
    PROVE  Sessions'
<1>1. /\ Len(conn) \in Nat /\ Len(backlog) \in Nat /\ Accepted \in Nat
      /\ DOMAIN conn = 1 .. Len(conn) /\ DOMAIN conn' = DOMAIN conn
      /\ \A i \in DOMAIN sock : sock[i] \in DOMAIN conn /\ sock[i] \in 1 .. Accepted
  BY CountsTyped DEF Sessions, Evolve
<1>2. /\ Accepted' \in Nat /\ Accepted' >= Accepted
      /\ \A k \in 1 .. Len(backlog') : backlog'[k] = Accepted' + k
  <2>1. CASE backlog' = backlog
    <3>1. Accepted' = Accepted
      BY <2>1 DEF Accepted
    <3> QED
      BY <1>1, <2>1, <3>1 DEF Sessions, InOrder
  <2>2. CASE backlog # <<>> /\ backlog' = Tail(backlog)
    <3>1. Accepted' = Accepted + 1 /\ \A k \in 1 .. Len(backlog') : backlog'[k] = Accepted' + k
      BY <2>2, NextAccepted DEF Sessions
    <3> QED
      BY <1>1, <3>1
  <2> QED
    BY <2>1, <2>2
<1>3. InOrder'
  <2>1. \A i \in DOMAIN sock' : sock'[i] <= Accepted'
    BY <1>1, <1>2
  <2> QED
    BY <1>2, <2>1 DEF InOrder
<1>4. Apart'
  BY DEF Sessions, Apart
<1>5. OpenEnds'
  BY <1>1, <1>2 DEF Sessions, OpenEnds
<1>6. Identified'
  <2> SUFFICES ASSUME NEW i \in DOMAIN sock'
               PROVE  /\ conn'[sock'[i]].hello => active_clients'[i].id = conn'[sock'[i]].id
                      /\ ~conn'[sock'[i]].hello =>
                            active_clients'[i].id = NoId /\ conn'[sock'[i]].client # "open"
    BY DEF Identified
  <2>1. Evolves(conn[sock[i]], conn'[sock[i]])
    BY <1>1 DEF Evolve
  <2>2. /\ conn[sock[i]].hello => active_clients[i].id = conn[sock[i]].id
        /\ ~conn[sock[i]].hello => active_clients[i].id = NoId /\ conn[sock[i]].client # "open"
    BY DEF Sessions, Identified
  <2> QED
    BY <2>1, <2>2 DEF Evolves
<1>7. HelloFirst'
  <2> SUFFICES ASSUME NEW c \in DOMAIN conn, conn'[c].up # <<>> PROVE conn'[c].hello
    BY <1>1 DEF HelloFirst
  <2>1. Evolves(conn[c], conn'[c])
    BY DEF Evolve
  <2> QED
    BY <2>1 DEF Sessions, HelloFirst, Evolves
<1> QED
  BY <1>3, <1>4, <1>5, <1>6, <1>7 DEF Sessions

\* A session that opens is that of the next connection in the queue.
LEMMA NewSession ==
    ASSUME TypeOK, TypeOK', SessionTablesAgree, Sessions, Evolve(conn, conn'), Len(conn') = Len(conn),
           NEW c \in ConnIds, NEW fd \in ClientFds, NEW id \in AnyId, Accepting(c, fd, id),
           sock' = Insert(sock, fd, c),
           active_clients'[fd].id = id,
           \A i \in DOMAIN sock : active_clients'[i] = active_clients[i],
           \A d \in DOMAIN conn : conn'[d].broker = conn[d].broker,
           conn'[c].hello = conn[c].hello
    PROVE  Sessions'
<1>1. /\ Len(conn) \in Nat /\ Len(backlog) \in Nat /\ Accepted \in Nat
      /\ DOMAIN conn = 1 .. Len(conn) /\ DOMAIN conn' = DOMAIN conn
      /\ \A i \in DOMAIN sock : sock[i] \in DOMAIN conn /\ sock[i] \in 1 .. Accepted
  BY CountsTyped DEF Sessions, Evolve
<1>2. /\ backlog # <<>> /\ c = Head(backlog) /\ backlog' = Tail(backlog)
      /\ conn[c].hello \/ conn[c].client # "open"
      /\ id = IF conn[c].hello THEN conn[c].id ELSE NoId
      /\ status = "running" /\ fd \notin DOMAIN sock
  BY DEF Accepting, Scan, Lowest
<1>3. /\ c = Accepted + 1 /\ Accepted' = c /\ c \in DOMAIN conn
      /\ \A k \in 1 .. Len(backlog') : backlog'[k] = Accepted' + k
  BY <1>2, NextAccepted DEF Sessions
<1>4. /\ DOMAIN sock' = DOMAIN sock \cup {fd} /\ sock'[fd] = c
      /\ \A i \in DOMAIN sock : sock'[i] = sock[i]
  BY <1>2 DEF Insert
<1>5. InOrder'
  <2>1. \A i \in DOMAIN sock' : sock'[i] <= Accepted'
    BY <1>1, <1>3, <1>4
  <2> QED
    BY <1>1, <1>3, <2>1 DEF InOrder
<1>6. Apart'
  <2>1. \A i \in DOMAIN sock : sock[i] # c
    BY <1>1, <1>3
  <2> QED
    BY <1>4, <2>1 DEF Sessions, Apart
<1>7. OpenEnds'
  <2> SUFFICES ASSUME NEW d \in DOMAIN conn, d > Accepted' \/ \E i \in DOMAIN sock' : sock'[i] = d
               PROVE  conn[d].broker = "open"
    BY <1>1 DEF OpenEnds
  <2>1. d > Accepted \/ \E i \in DOMAIN sock : sock[i] = d
    BY <1>1, <1>3, <1>4
  <2> QED
    BY <1>2, <2>1 DEF Sessions, OpenEnds
<1>8. Identified'
  <2> SUFFICES ASSUME NEW i \in DOMAIN sock'
               PROVE  /\ conn'[sock'[i]].hello => active_clients'[i].id = conn'[sock'[i]].id
                      /\ ~conn'[sock'[i]].hello =>
                            active_clients'[i].id = NoId /\ conn'[sock'[i]].client # "open"
    BY DEF Identified
  <2>1. CASE i = fd
    <3>1. Evolves(conn[c], conn'[c])
      BY <1>3 DEF Evolve
    <3> QED
      BY <1>2, <1>4, <2>1, <3>1 DEF Evolves
  <2>2. CASE i \in DOMAIN sock
    <3>1. Evolves(conn[sock[i]], conn'[sock[i]])
      BY <1>1, <2>2 DEF Evolve
    <3>2. /\ conn[sock[i]].hello => active_clients[i].id = conn[sock[i]].id
          /\ ~conn[sock[i]].hello => active_clients[i].id = NoId /\ conn[sock[i]].client # "open"
      BY <2>2 DEF Sessions, Identified
    <3> QED
      BY <1>4, <2>2, <3>1, <3>2 DEF Evolves
  <2> QED
    BY <1>4, <2>1, <2>2
<1>9. HelloFirst'
  <2> SUFFICES ASSUME NEW d \in DOMAIN conn, conn'[d].up # <<>> PROVE conn'[d].hello
    BY <1>1 DEF HelloFirst
  <2>1. Evolves(conn[d], conn'[d])
    BY DEF Evolve
  <2> QED
    BY <2>1 DEF Sessions, HelloFirst, Evolves
<1> QED
  BY <1>5, <1>6, <1>7, <1>8, <1>9 DEF Sessions

\* What a step leaves in the queues of requests.
Waiting(cn, cn2) == \A c \in DOMAIN cn : cn[c].up # <<>> => cn2[c].up # <<>>

\* A subscriber takes nothing back of what it has sent.
LEMMA SubscriberWaits == ASSUME TypeOK, NEW c, Subscriber(c) PROVE Waiting(conn, conn')
<1>1. c \in DOMAIN conn
  BY DEF Subscriber, Running, SendId, Receive, ReceiveEnd, Exit, Kill, SendRequest
<1>2. conn[c] \in Connection /\ conn[c].up \in Seq(Request)
  BY <1>1, ConnectionFacts DEF TypeOK
<1>3. ASSUME NEW w, conn' = [conn EXCEPT ![c] = w], conn[c].up # <<>> => w.up # <<>>
      PROVE  Waiting(conn, conn')
  <2>1. conn'[c] = w /\ \A d \in DOMAIN conn : d # c => conn'[d] = conn[d]
    BY <1>1, <1>3
  <2> QED
    BY <1>3, <2>1 DEF Waiting
<1>4. CASE SendId(c) \/ Receive(c) \/ ReceiveEnd(c) \/ Exit(c) \/ Kill(c)
  <2>1. PICK w : conn' = [conn EXCEPT ![c] = w] /\ w.up = conn[c].up
    BY <1>2, <1>4 DEF SendId, Receive, ReceiveEnd, Exit, Kill, Connection
  <2> QED
    BY <1>3, <2>1
<1>5. ASSUME NEW req \in Request, SendRequest(c, req) PROVE Waiting(conn, conn')
  <2> DEFINE w == [conn[c] EXCEPT !.up = Append(conn[c].up, req)]
  <2>1. conn' = conn \/ conn' = [conn EXCEPT ![c] = w]
    BY <1>5 DEF SendRequest
  <2>2. Append(conn[c].up, req) # <<>>
    BY <1>2
  <2>3. w.up = Append(conn[c].up, req)
    BY <1>2 DEF Connection
  <2> HIDE DEF w
  <2>4. CASE conn' = conn
    BY <2>4 DEF Waiting
  <2> QED
    BY <1>3, <2>1, <2>2, <2>3, <2>4
<1> QED
  BY <1>4, <1>5 DEF Subscriber

\* A step that does not consume what the rest of the scan is going to read.
LEMMA ScanStep ==
    ASSUME TypeOK, ScanNeverBlocks, Evolve(conn, conn'),
           status' = "running" =>
               /\ status = "running" /\ tmp_fds' \subseteq tmp_fds
               /\ STDIN \in tmp_fds' => typed' = typed
               /\ SockTcp \in tmp_fds' => backlog' = backlog
               /\ SockUdp \in tmp_fds' => udpq' = udpq \/ udpq' # <<>>
               /\ \A f \in tmp_fds' \cap DOMAIN sock :
                     /\ f \in DOMAIN sock' /\ sock'[f] = sock[f]
                     /\ conn[sock[f]].up # <<>> => conn'[sock[f]].up # <<>>
    PROVE  ScanNeverBlocks'
<1> SUFFICES ASSUME status' = "running", NEW f \in tmp_fds' PROVE Readable(f)'
  BY DEF ScanNeverBlocks
<1>1. Readable(f)
  BY DEF ScanNeverBlocks
<1>2. CASE f = STDIN /\ typed
  BY <1>2 DEF Readable
<1>3. CASE f = SockTcp /\ backlog # <<>>
  BY <1>3 DEF Readable
<1>4. CASE f = SockUdp /\ udpq # <<>>
  BY <1>4 DEF Readable
<1>5. CASE f \in DOMAIN sock /\ (conn[sock[f]].up # <<>> \/ conn[sock[f]].client # "open")
  <2>1. sock[f] \in DOMAIN conn
    BY <1>5 DEF TypeOK, NetworkOK
  <2>2. Evolves(conn[sock[f]], conn'[sock[f]])
    BY <2>1 DEF Evolve
  <2> QED
    BY <1>5, <2>2 DEF Readable, Evolves
<1> QED
  BY <1>1, <1>2, <1>3, <1>4, <1>5 DEF Readable

\* The broker closes its end of one connection.
LEMMA CloseEvolves ==
    ASSUME TypeOK, NEW c \in DOMAIN conn, conn' = [conn EXCEPT ![c].broker = "closed"]
    PROVE  /\ Evolve(conn, conn') /\ Waiting(conn, conn') /\ Len(conn') = Len(conn)
           /\ \A d \in DOMAIN conn : d # c => conn'[d].broker = conn[d].broker
<1> DEFINE v == conn[c]
           w == [v EXCEPT !.broker = "closed"]
<1>1. conn \in Seq(Connection) /\ DOMAIN conn = 1 .. Len(conn) /\ v \in Connection
  BY ConnectionFacts DEF TypeOK
<1>2. conn' = [conn EXCEPT ![c] = w]
  OBVIOUS
<1>3. w \in Connection
  BY <1>1, ConnectionUpdate
<1>4. Evolves(v, w) /\ w.up = v.up
  BY <1>1 DEF Evolves, Connection
<1> HIDE DEF v, w
<1>5. Evolve(conn, conn')
  <2>1. Evolves(conn[c], w)
    BY <1>4 DEF v
  <2>2. Evolve(conn, [conn EXCEPT ![c] = w])
    BY <2>1, UpdateEvolves
  <2> QED
    BY <1>2, <2>2, Zenon
<1>6. Len(conn') = Len(conn)
  BY <1>1, <1>2, <1>3, ExceptSeq
<1>7. Waiting(conn, conn')
  <2>1. conn'[c] = w /\ \A d \in DOMAIN conn : d # c => conn'[d] = conn[d]
    BY <1>2
  <2>2. conn'[c].up = conn[c].up
    BY <1>4, <2>1 DEF v
  <2> QED
    BY <2>1, <2>2, Zenon DEF Waiting
<1> QED
  BY <1>2, <1>5, <1>6, <1>7

\* The broker's loop.
LEMMA LoopSessions ==
    ASSUME TypeOK, TypeOK', SessionTablesAgree, Sessions, ScanNeverBlocks,
           Select \/ HandleStdinMessage
    PROVE  Sessions' /\ ScanNeverBlocks'
<1>0. conn \in Seq(Connection) /\ \A i \in DOMAIN sock : i \in ClientFds
  BY DEF TypeOK, NetworkOK
<1>1. CASE Select
  <2>1. /\ conn' = conn /\ backlog' = backlog /\ sock' = sock /\ status' = status
        /\ active_clients' = active_clients /\ udpq' = udpq /\ typed' = typed
        /\ tmp_fds' = {f \in read_fds : f <= fd_max /\ Readable(f)}
    BY <1>1 DEF Select, maps, env
  <2>2. Sessions'
    BY <2>1, SameEvolves, KeepSessions
  <2>3. \A f \in tmp_fds' : Readable(f)'
    BY <2>1 DEF Readable
  <2> QED
    BY <2>2, <2>3 DEF ScanNeverBlocks
<1>2. CASE HandleStdinMessage
  <2>1. /\ conn' = HangUpAll(conn) /\ backlog' = backlog /\ sock' = sock /\ status' = "exited"
        /\ active_clients' = active_clients
    BY <1>2 DEF HandleStdinMessage, maps
  <2>2. Evolve(conn, conn') /\ Len(conn') = Len(conn)
    BY <1>0, <2>1, HangUpEvolves, HangUpType
  <2>3. Sessions'
    BY <2>1, <2>2, KeepSessions
  <2> QED
    BY <2>1, <2>3 DEF ScanNeverBlocks
<1> QED
  BY <1>1, <1>2

\* A connection that is refused, a first one, or one of a client that comes back.
LEMMA ConnectionSessions ==
    ASSUME TypeOK, TypeOK', SessionTablesAgree, Sessions, ScanNeverBlocks,
           HandleConnectionRequest
    PROVE  Sessions' /\ ScanNeverBlocks'
<1>1. PICK c \in ConnIds, fd \in ClientFds, id \in AnyId :
         RejectConnection(c, fd, id) \/ AddNewClient(c, fd, id) \/ Reconnect(c, fd, id)
  BY DEF HandleConnectionRequest
<1>2. Accepting(c, fd, id)
  BY <1>1 DEF RejectConnection, AddNewClient, Reconnect
<1>3. /\ status = "running" /\ tmp_fds' = tmp_fds \ {SockTcp}
      /\ backlog # <<>> /\ c = Head(backlog) /\ backlog' = Tail(backlog)
      /\ udpq' = udpq /\ typed' = typed
      /\ fd \notin DOMAIN sock /\ fd \notin DOMAIN active_clients
  BY <1>2 DEF Accepting, Scan, Lowest, env, SessionTablesAgree
<1>4. conn \in Seq(Connection) /\ DOMAIN conn = 1 .. Len(conn)
  BY ConnectionFacts DEF TypeOK
<1>5. c = Accepted + 1 /\ Accepted \in Nat /\ c \in DOMAIN conn
      /\ \A i \in DOMAIN sock : sock[i] \in DOMAIN conn /\ sock[i] \in 1 .. Accepted
  <2>1. Head(backlog) \in DOMAIN conn /\ Head(backlog) = backlog[1] /\ Len(backlog) \in Nat \ {0}
    BY <1>3, TailElements DEF TypeOK, NetworkOK
  <2> QED
    BY <1>3, <2>1, CountsTyped DEF Sessions, InOrder
<1>6. ASSUME Evolve(conn, conn'), Waiting(conn, conn'),
             \A i \in DOMAIN sock : i \in DOMAIN sock' /\ sock'[i] = sock[i]
      PROVE  ScanNeverBlocks'
  BY <1>3, <1>5, <1>6, ScanStep DEF Waiting
<1>7. CASE RejectConnection(c, fd, id)
  <2>1. /\ conn' = [conn EXCEPT ![c].broker = "closed"] /\ status' = status /\ sock' = sock
        /\ active_clients' = active_clients
    BY <1>7 DEF RejectConnection, maps
  <2>3. /\ Evolve(conn, conn') /\ Waiting(conn, conn') /\ Len(conn') = Len(conn)
        /\ \A d \in DOMAIN conn : d # c => conn'[d].broker = conn[d].broker
    BY <1>5, <2>1, CloseEvolves
  <2>5. Accepted' = c
    BY <1>3, <1>5, <2>3, NextAccepted DEF Sessions
  <2>6. \A d \in DOMAIN conn : d > Accepted' \/ (\E i \in DOMAIN sock' : sock[i] = d) => d # c
    BY <1>5, <2>1, <2>5
  <2>7. Sessions'
    BY <1>3, <2>1, <2>3, <2>6, KeepSessions
  <2> QED
    BY <1>6, <2>1, <2>3, <2>7
<1>8. ASSUME NEW client, client.id = id, sock' = Insert(sock, fd, c),
             active_clients' = Insert(active_clients, fd, client),
             Evolve(conn, conn'), Waiting(conn, conn'), Len(conn') = Len(conn),
             \A d \in DOMAIN conn : conn'[d].broker = conn[d].broker,
             conn'[c].hello = conn[c].hello
      PROVE  Sessions' /\ ScanNeverBlocks'
  <2>1. \A i \in DOMAIN sock : i \in DOMAIN active_clients
    BY DEF SessionTablesAgree
  <2>2. active_clients'[fd].id = id /\ \A i \in DOMAIN sock : active_clients'[i] = active_clients[i]
    BY <1>3, <1>8, <2>1 DEF Insert
  <2>3. Sessions'
    BY <1>2, <1>8, <2>2, NewSession
  <2>4. \A i \in DOMAIN sock : i \in DOMAIN sock' /\ sock'[i] = sock[i]
    BY <1>8 DEF Insert
  <2> QED
    BY <1>6, <1>8, <2>3, <2>4
<1>9. CASE AddNewClient(c, fd, id)
  <2> DEFINE client == [id |-> id, socket |-> fd]
  <2>1. /\ conn' = conn /\ sock' = Insert(sock, fd, c)
        /\ active_clients' = Insert(active_clients, fd, client)
    BY <1>9 DEF AddNewClient
  <2>2. client.id = id
    OBVIOUS
  <2> HIDE DEF client
  <2>3. Evolve(conn, conn') /\ Waiting(conn, conn')
    BY <2>1, SameEvolves DEF Waiting
  <2> QED
    BY <1>8, <2>1, <2>2, <2>3
<1>10. CASE Reconnect(c, fd, id) /\ status' # "killed"
  <2> DEFINE client == all_clients[id]
             out == StoredTo(sock', client.socket, client.id, Len(Stored(client.id)))
  <2>1. /\ id \in DOMAIN all_clients /\ conn' = Transmit(out)
        /\ sock' = Insert(sock, fd, c)
        /\ active_clients' = Insert(active_clients, fd, client)
    BY <1>10 DEF Reconnect, SigPipe
  <2>2. client.id = id
    BY <2>1 DEF SessionTablesAgree
  <2> HIDE DEF client, out
  <2>3. Evolve(conn, conn') /\ DOMAIN conn' = DOMAIN conn
    BY <2>1, TransmitEvolves DEF Transmit
  <2>4. \A d \in DOMAIN conn : /\ conn'[d].up = conn[d].up /\ conn'[d].hello = conn[d].hello
                               /\ conn'[d].broker = conn[d].broker
    BY <2>1, TransmitFields
  <2>5. Waiting(conn, conn')
    BY <2>4 DEF Waiting
  <2>6. Len(conn') = Len(conn)
    BY <2>3, LenProperties DEF TypeOK, NetworkOK
  <2> QED
    BY <1>5, <1>8, <2>1, <2>2, <2>3, <2>4, <2>5, <2>6
<1>11. CASE Reconnect(c, fd, id) /\ status' = "killed"
  <2> DEFINE client == all_clients[id]
             table == Insert(sock, fd, c)
             out(k) == StoredTo(table, client.socket, client.id, k)
  <2>1. PICK k \in 1 .. Len(Stored(client.id)) : SigPipe(table[client.socket], out(k - 1))
    BY <1>3, <1>11 DEF Reconnect
  <2>2. Stored(client.id) \in Seq(Message)
    BY DEF Stored, TypeOK, TopicsOK
  <2>3. k - 1 \in 0 .. Len(Stored(client.id))
    BY <2>1, <2>2
  <2>4. \A d \in DOMAIN conn : out(k - 1)[d] \in Seq(Message)
    BY <2>3, StoredToType
  <2>5. sock' = sock /\ active_clients' = active_clients /\ conn' = HangUpAll(Transmit(out(k - 1)))
    BY <2>1 DEF SigPipe, maps
  <2> HIDE DEF out, table, client
  <2>6. Evolve(conn, conn')
    BY <2>1, <2>4, SigPipeEvolves
  <2>7. Len(conn') = Len(conn)
    BY <2>6, LenProperties DEF Evolve, TypeOK, NetworkOK
  <2>8. Sessions'
    BY <1>3, <1>11, <2>5, <2>6, <2>7, KeepSessions
  <2> QED
    BY <1>11, <2>8 DEF ScanNeverBlocks
<1> QED
  BY <1>1, <1>7, <1>9, <1>10, <1>11

\* A datagram.
LEMMA UdpSessions ==
    ASSUME TypeOK, TypeOK', SessionTablesAgree, Sessions, ScanNeverBlocks, HandleUdpMessage
    PROVE  Sessions' /\ ScanNeverBlocks'
<1>1. /\ status = "running" /\ tmp_fds' = tmp_fds \ {SockUdp} /\ udpq # <<>>
      /\ UnknownTopic(Head(udpq)) \/ Forward(Head(udpq))
      /\ backlog' = backlog /\ typed' = typed
  BY DEF HandleUdpMessage, Scan, env
<1>2. sock' = sock /\ active_clients' = active_clients
  BY <1>1, Zenon DEF UnknownTopic, Forward, SigPipe, maps
<1>3. Head(udpq) \in Message
  BY <1>1, HeadTailProperties DEF TypeOK, NetworkOK
<1>4. ASSUME Evolve(conn, conn'), Waiting(conn, conn'), status' = status,
             \A d \in DOMAIN conn : conn'[d].broker = conn[d].broker
      PROVE  Sessions' /\ ScanNeverBlocks'
  <2>1. Len(conn') = Len(conn)
    BY <1>4, LenProperties DEF Evolve, TypeOK, NetworkOK
  <2>2. Sessions'
    BY <1>1, <1>2, <1>4, <2>1, KeepSessions
  <2>3. \A f \in tmp_fds' \cap DOMAIN sock : sock[f] \in DOMAIN conn
    BY DEF TypeOK, NetworkOK
  <2>4. ScanNeverBlocks'
    BY <1>1, <1>2, <1>4, <2>3, ScanStep DEF Waiting
  <2> QED
    BY <2>2, <2>4
<1>5. CASE UnknownTopic(Head(udpq))
  <2>1. conn' = conn /\ status' = status
    BY <1>5 DEF UnknownTopic
  <2> QED
    BY <1>4, <2>1, SameEvolves DEF Waiting
<1> DEFINE m == Head(udpq)
           subs == topics_subs[m.topic]
           out(n) == Forwarded(subs, m, n)
<1>6. CASE status' = status /\ conn' = Transmit(out(Len(subs)))
  <2> HIDE DEF out, subs
  <2>1. \A d \in DOMAIN conn : conn'[d].up = conn[d].up /\ conn'[d].broker = conn[d].broker
    BY <1>6, TransmitFields
  <2>2. Waiting(conn, conn')
    BY <2>1 DEF Waiting
  <2> QED
    BY <1>4, <1>6, <2>1, <2>2, TransmitEvolves
<1>7. ASSUME m.topic \in DOMAIN topics_subs,
             NEW c \in DOMAIN conn, NEW k \in SentTo(subs, c), SigPipe(c, out(k - 1))
      PROVE  Sessions' /\ ScanNeverBlocks'
  <2>1. subs \in Seq(Subscription) /\ k \in DOMAIN subs
    BY <1>7 DEF SentTo, TypeOK, TopicsOK
  <2>2. k - 1 \in Nat
    BY <2>1
  <2>3. \A d \in DOMAIN conn : out(k - 1)[d] \in Seq(Message)
    BY <1>3, <2>2, ForwardedType
  <2> HIDE DEF out, subs
  <2>4. Evolve(conn, conn') /\ status' = "killed"
    BY <1>7, <2>3, SigPipeEvolves
  <2>5. Len(conn') = Len(conn)
    BY <2>4, LenProperties DEF Evolve, TypeOK, NetworkOK
  <2>6. Sessions'
    BY <1>1, <1>2, <2>4, <2>5, KeepSessions
  <2> QED
    BY <2>4, <2>6 DEF ScanNeverBlocks
<1>8. CASE Forward(m)
  <2>1. m.topic \in DOMAIN topics_subs
    BY <1>8 DEF Forward
  <2>2. \/ status' = status /\ conn' = Transmit(out(Len(subs)))
        \/ \E c \in DOMAIN conn : \E k \in SentTo(subs, c) : SigPipe(c, out(k - 1))
    BY <1>8, Zenon DEF Forward
  <2> QED
    BY <1>6, <1>7, <2>1, <2>2
<1> QED
  BY <1>1, <1>5, <1>8

\* A readable client socket.
LEMMA TcpSessions ==
    ASSUME TypeOK, TypeOK', SessionTablesAgree, Sessions, ScanNeverBlocks,
           NEW i \in ClientFds, HandleTcpMessage(i)
    PROVE  Sessions' /\ ScanNeverBlocks'
<1> DEFINE c == sock[i]
<1>1. /\ status = "running" /\ tmp_fds' = tmp_fds \ {i} /\ i \in DOMAIN sock
      /\ backlog' = backlog /\ typed' = typed /\ udpq' = udpq
  BY DEF HandleTcpMessage, Scan, env
<1>2. /\ conn \in Seq(Connection) /\ DOMAIN conn = 1 .. Len(conn)
      /\ \A j \in DOMAIN sock : sock[j] \in DOMAIN conn
      /\ conn[c] \in Connection /\ conn[c].up \in Seq(Request)
  BY <1>1, ConnectionFacts DEF TypeOK, NetworkOK
<1>3. \A j \in DOMAIN sock : j # i => sock[j] # c
  BY <1>1 DEF Sessions, Apart
<1>4. CASE Disconnect(i)
  <2>1. /\ conn' = [conn EXCEPT ![c].broker = "closed"] /\ status' = status
        /\ active_clients' = Erase(active_clients, i) /\ sock' = Erase(sock, i)
    BY <1>4 DEF Disconnect
  <2>2. /\ Evolve(conn, conn') /\ Waiting(conn, conn') /\ Len(conn') = Len(conn)
        /\ \A d \in DOMAIN conn : d # c => conn'[d].broker = conn[d].broker
    BY <1>1, <1>2, <2>1, CloseEvolves
  <2>3. /\ DOMAIN sock' = DOMAIN sock \ {i}
        /\ \A j \in DOMAIN sock' : sock'[j] = sock[j] /\ active_clients'[j] = active_clients[j]
    BY <2>1 DEF Erase, Restrict, SessionTablesAgree
  <2>4. Accepted' = Accepted /\ c \in 1 .. Accepted /\ Accepted \in Nat
    BY <1>1, <2>2, CountsTyped DEF Sessions, Accepted
  <2>5. \A d \in DOMAIN conn : d > Accepted' \/ (\E j \in DOMAIN sock' : sock[j] = d) => d # c
    BY <1>3, <2>3, <2>4
  <2>6. Sessions'
    BY <1>1, <2>1, <2>2, <2>3, <2>5, KeepSessions
  <2>7. ScanNeverBlocks'
    BY <1>1, <1>2, <2>2, <2>3, ScanStep DEF Waiting
  <2> QED
    BY <2>6, <2>7
<1>5. CASE ReceiveError(i)
  <2>1. /\ conn' = HangUpAll(conn) /\ status' = "killed" /\ sock' = sock
        /\ active_clients' = active_clients
    BY <1>5 DEF ReceiveError, maps
  <2>2. Evolve(conn, conn') /\ Len(conn') = Len(conn)
    BY <1>2, <2>1, HangUpEvolves, HangUpType
  <2>3. Sessions'
    BY <1>1, <2>1, <2>2, KeepSessions
  <2> QED
    BY <2>1, <2>3 DEF ScanNeverBlocks
<1>6. ASSUME NEW req \in Request, Take(i, req) PROVE Sessions' /\ ScanNeverBlocks'
  <2> DEFINE v == conn[c]
             w == [v EXCEPT !.up = Tail(v.up)]
  <2>1. /\ conn' = [conn EXCEPT ![c] = w] /\ v.up # <<>> /\ status' = status
        /\ sock' = sock /\ active_clients' = active_clients
    BY <1>6 DEF Take
  <2>2. Tail(v.up) \in Seq(Request)
    BY <1>2, <2>1, HeadTailProperties
  <2>3. w \in Connection
    BY <1>2, <2>2, ConnectionUpdate
  <2>4. Evolves(v, w) /\ w.broker = v.broker
    BY <1>2, <2>1 DEF Evolves, Connection
  <2> HIDE DEF v, w
  <2>5. Evolve(conn, conn')
    BY <1>1, <1>2, <2>1, <2>4, UpdateEvolves DEF v
  <2>6. Len(conn') = Len(conn)
    BY <1>1, <1>2, <2>1, <2>3, ExceptSeq
  <2>7. \A d \in DOMAIN conn : /\ conn'[d].broker = conn[d].broker
                               /\ d # c => conn'[d] = conn[d]
    BY <1>1, <1>2, <2>1, <2>4 DEF v
  <2>8. Sessions'
    BY <1>1, <2>1, <2>5, <2>6, <2>7, KeepSessions
  <2>9. ScanNeverBlocks'
    BY <1>1, <1>2, <1>3, <2>1, <2>5, <2>7, ScanStep
  <2> QED
    BY <2>8, <2>9
<1> QED
  BY <1>4, <1>5, <1>6 DEF HandleTcpMessage, IgnoreRequest, Subscribe, Unsubscribe

\* A new connection joins the queue.
LEMMA ConnectSessions ==
    ASSUME TypeOK, TypeOK', SessionTablesAgree, Sessions, ScanNeverBlocks,
           NEW id \in Ids, Connect(id)
    PROVE  Sessions' /\ ScanNeverBlocks'
<1> DEFINE new == [id |-> id, hello |-> FALSE, client |-> "open",
                   broker |-> "open", broken |-> FALSE, up |-> <<>>, down |-> <<>>]
<1>1. /\ conn' = Append(conn, new) /\ backlog' = Append(backlog, Len(conn) + 1)
      /\ status' = status /\ tmp_fds' = tmp_fds /\ sock' = sock
      /\ active_clients' = active_clients /\ udpq' = udpq /\ typed' = typed
  BY DEF Connect, broker, maps, env
<1>2. new \in Connection /\ new.up = <<>> /\ new.broker = "open"
  BY EmptySeq DEF Connection
<1> HIDE DEF new
<1>3. /\ Len(conn) \in Nat /\ Len(backlog) \in Nat /\ Accepted \in Nat
      /\ DOMAIN conn = 1 .. Len(conn) /\ conn \in Seq(Connection) /\ backlog \in Seq(DOMAIN conn)
      /\ \A i \in DOMAIN sock : sock[i] \in DOMAIN conn /\ sock[i] \in 1 .. Accepted
  BY CountsTyped DEF Sessions
<1>4. /\ Len(conn') = Len(conn) + 1 /\ conn' \in Seq(Connection)
      /\ \A c \in 1 .. Len(conn) : conn'[c] = conn[c]
      /\ conn'[Len(conn) + 1] = new
  BY <1>1, <1>2, <1>3, AppendElements
<1>5. /\ Len(backlog') = Len(backlog) + 1
      /\ \A k \in 1 .. Len(backlog) : backlog'[k] = backlog[k]
      /\ backlog'[Len(backlog) + 1] = Len(conn) + 1
  <2>1. backlog \in Seq(Nat) /\ Len(conn) + 1 \in Nat
    BY <1>3
  <2> QED
    BY <1>1, <2>1, AppendElements
<1>6. Accepted' = Accepted /\ Accepted + Len(backlog) = Len(conn)
  BY <1>3, <1>4, <1>5 DEF Accepted
<1>7. DOMAIN conn' = 1 .. Len(conn) + 1
  BY <1>3, <1>4
<1>8. InOrder'
  <2>1. ASSUME NEW k \in 1 .. Len(backlog') PROVE backlog'[k] = Accepted + k
    <3>1. CASE k = Len(backlog) + 1
      BY <1>3, <1>5, <1>6, <3>1
    <3>2. CASE k # Len(backlog) + 1
      <4>1. k \in 1 .. Len(backlog)
        BY <1>3, <1>5, <2>1, <3>2
      <4> QED
        BY <1>5, <4>1 DEF Sessions, InOrder
    <3> QED
      BY <3>1, <3>2
  <2> QED
    BY <1>1, <1>3, <1>6, <2>1 DEF InOrder
<1>9. Apart'
  BY <1>1 DEF Sessions, Apart
<1>10. OpenEnds'
  BY <1>1, <1>2, <1>3, <1>4, <1>6, <1>7 DEF Sessions, OpenEnds
<1>11. Identified'
  BY <1>1, <1>3, <1>4 DEF Sessions, Identified
<1>12. HelloFirst'
  BY <1>2, <1>3, <1>4, <1>7 DEF Sessions, HelloFirst
<1>13. ScanNeverBlocks'
  <2> SUFFICES ASSUME status' = "running", NEW f \in tmp_fds' PROVE Readable(f)'
    BY DEF ScanNeverBlocks
  <2>1. Readable(f)
    BY <1>1 DEF ScanNeverBlocks
  <2>2. backlog' # <<>>
    BY <1>1, <1>3, <1>5
  <2>3. \A j \in DOMAIN sock : conn'[sock[j]] = conn[sock[j]]
    BY <1>3, <1>4
  <2> QED
    BY <1>1, <2>1, <2>2, <2>3 DEF Readable
<1> QED
  BY <1>8, <1>9, <1>10, <1>11, <1>12, <1>13 DEF Sessions

LEMMA InitSocket == Init => Sessions /\ ScanNeverBlocks
<1> SUFFICES ASSUME Init PROVE Sessions /\ ScanNeverBlocks
  OBVIOUS
<1>1. conn = <<>> /\ backlog = <<>> /\ sock = <<>> /\ tmp_fds = {}
  BY DEF Init
<1>2. Accepted = 0 /\ Len(backlog) = 0 /\ DOMAIN conn = {} /\ DOMAIN sock = {}
  BY <1>1 DEF Accepted
<1> QED
  BY <1>1, <1>2 DEF Sessions, InOrder, Apart, OpenEnds, Identified, HelloFirst, ScanNeverBlocks

LEMMA StepSessions ==
    ASSUME TypeOK, TypeOK', SessionTablesAgree, Sessions, ScanNeverBlocks, [Next]_vars
    PROVE  Sessions' /\ ScanNeverBlocks'
<1>0. /\ conn \in Seq(Connection)
      /\ \A f \in tmp_fds' \cap DOMAIN sock : sock[f] \in DOMAIN conn
  BY DEF TypeOK, NetworkOK
<1>1. ASSUME conn' = conn, UNCHANGED <<broker, backlog>>,
             typed' = typed \/ STDIN \notin tmp_fds \/ typed' = TRUE,
             udpq' = udpq \/ udpq' # <<>>
      PROVE  Sessions' /\ ScanNeverBlocks'
  <2>1. /\ status' = status /\ sock' = sock /\ active_clients' = active_clients
        /\ tmp_fds' = tmp_fds /\ backlog' = backlog
    BY <1>1 DEF broker, maps
  <2>2. Sessions'
    BY <1>1, <2>1, SameEvolves, KeepSessions
  <2>3. ASSUME NEW f \in tmp_fds, Readable(f) PROVE Readable(f)'
    BY <1>1, <2>1, <2>3 DEF Readable
  <2> QED
    BY <2>1, <2>2, <2>3 DEF ScanNeverBlocks
<1>2. ASSUME NEW topic \in Topics, Publish(topic) PROVE Sessions' /\ ScanNeverBlocks'
  <2>1. udpq' = Append(udpq, [topic |-> topic, seq |-> published + 1])
    BY <1>2 DEF Publish
  <2>2. udpq \in Seq(Message)
    BY DEF TypeOK, NetworkOK
  <2>3. udpq' # <<>>
    BY <2>1, <2>2
  <2> QED
    BY <1>1, <1>2, <2>3 DEF Publish
<1>3. CASE TypeExit
  BY <1>1, <1>3 DEF TypeExit
<1>4. CASE UNCHANGED vars
  BY <1>1, <1>4 DEF vars, broker, env
<1>5. ASSUME NEW c \in ConnIds, Subscriber(c) PROVE Sessions' /\ ScanNeverBlocks'
  <2>1. /\ Evolve(conn, conn')
        /\ \A d \in DOMAIN conn : conn'[d].broker = conn[d].broker
    BY <1>5, SubscriberEvolves
  <2>2. UNCHANGED <<broker, backlog, udpq, typed>>
    BY <1>5 DEF Subscriber, SendId, Receive, ReceiveEnd, Exit, Kill, SendRequest, env
  <2>3. /\ status' = status /\ sock' = sock /\ active_clients' = active_clients
        /\ tmp_fds' = tmp_fds /\ backlog' = backlog /\ udpq' = udpq /\ typed' = typed
    BY <2>2 DEF broker, maps
  <2>4. Len(conn') = Len(conn)
    BY <2>1, LenProperties DEF Evolve, TypeOK, NetworkOK
  <2>5. Sessions'
    BY <2>1, <2>3, <2>4, KeepSessions
  <2>6. Waiting(conn, conn')
    BY <1>5, SubscriberWaits
  <2>7. ScanNeverBlocks'
    <3>1. CASE status = "running"
      BY <1>0, <2>1, <2>3, <2>6, <3>1, ScanStep DEF Waiting
    <3>2. CASE status # "running"
      BY <2>3, <3>2 DEF ScanNeverBlocks
    <3> QED
      BY <3>1, <3>2
  <2> QED
    BY <2>5, <2>7
<1> QED
  BY <1>2, <1>3, <1>4, <1>5, LoopSessions, ConnectionSessions, UdpSessions, TcpSessions,
     ConnectSessions DEF Next, BrokerStep

\* What the broker knows about sockets, sessions and the rest of a scan.
SocketInv == TypeOK /\ SessionTablesAgree /\ Sessions /\ ScanNeverBlocks

LEMMA SocketInvariant == Spec => []SocketInv
<1>1. Init => SocketInv
  BY InitType, InitSessions, InitSocket DEF SocketInv
<1>2. SocketInv /\ [Next]_vars => SocketInv'
  BY StepInvariant, StepSessions DEF SocketInv
<1> QED
  BY <1>1, <1>2, PTL DEF Spec

\* Requests are booked on the right client: the identifier that server.cpp keeps for a
\* descriptor is the one of the subscriber at its other end, for any number of
\* connections, departures and refusals.
THEOREM SocketsIdentified == Spec => []SocketIdentified
<1>1. SocketInv => SocketIdentified
  <2> SUFFICES ASSUME SocketInv, NEW i \in DOMAIN sock, NEW c, c = sock[i]
               PROVE  /\ conn[c].broker = "open" \/ status # "running"
                      /\ IF conn[c].hello THEN active_clients[i].id = conn[c].id
                         ELSE active_clients[i].id = NoId /\ conn[c].client # "open"
                      /\ \A j \in DOMAIN sock : sock[j] = c => i = j
                      /\ ~Queued(c)
    BY DEF SocketIdentified
  <2>1. /\ c \in DOMAIN conn /\ c \in 1 .. Accepted /\ Accepted \in Nat
        /\ DOMAIN backlog = 1 .. Len(backlog)
    BY CountsTyped DEF SocketInv, Sessions
  <2>2. conn[c].broker = "open" \/ status # "running"
    BY <2>1 DEF SocketInv, Sessions, OpenEnds
  <2>3. IF conn[c].hello THEN active_clients[i].id = conn[c].id
        ELSE active_clients[i].id = NoId /\ conn[c].client # "open"
    BY DEF SocketInv, Sessions, Identified
  <2>4. \A j \in DOMAIN sock : sock[j] = c => i = j
    BY DEF SocketInv, Sessions, Apart
  <2>5. ~Queued(c)
    BY <2>1 DEF SocketInv, Sessions, InOrder, Queued
  <2> QED
    BY <2>2, <2>3, <2>4, <2>5
<1> QED
  BY <1>1, SocketInvariant, PTL

\* The loop of server.cpp never blocks in the middle of a scan: whatever the handlers
\* that came before did, each descriptor still to be visited has something to read.
THEOREM ScansNeverBlock == Spec => []ScanNeverBlocks
<1>1. SocketInv => ScanNeverBlocks
  BY DEF SocketInv
<1> QED
  BY <1>1, SocketInvariant, PTL

-----------------------------------------------------------------------------
(* Subscriptions.  ts is topics_subs before or after a step.                 *)

TopicTable(ts) == ts \in [DOMAIN ts -> Seq(Subscription)]

\* Client id has subscription s in the list of topic t.
Holds(ts, t, id, s) ==
    t \in DOMAIN ts /\ \E p \in DOMAIN ts[t] : ts[t][p].client.id = id /\ ts[t][p].sf = s

Once(ts) ==
    \A t \in DOMAIN ts : \A j, k \in DOMAIN ts[t] :
        ts[t][j].client.id = ts[t][k].client.id => j = k

PlacesFor(ts, t, id) == {k \in DOMAIN ts[t] : ts[t][k].client.id = id}

SfIn(ts, t, id) ==
    IF t \in DOMAIN ts /\ PlacesFor(ts, t, id) # {}
    THEN ts[t][CHOOSE p \in PlacesFor(ts, t, id) : TRUE].sf ELSE "none"

\* The entries of a list.
LEMMA EntryFacts ==
    ASSUME NEW ts, TopicTable(ts), NEW t \in DOMAIN ts
    PROVE  /\ ts[t] \in Seq(Subscription) /\ Len(ts[t]) \in Nat
           /\ DOMAIN ts[t] = 1 .. Len(ts[t])
           /\ \A k \in DOMAIN ts[t] : /\ ts[t][k] \in Subscription
                                      /\ ts[t][k].client \in Client
                                      /\ ts[t][k].sf \in {"off", "on"}
<1>1. ts[t] \in Seq(Subscription)
  BY DEF TopicTable
<1>2. \A e \in Subscription : e.client \in Client /\ e.sf \in {"off", "on"}
  BY DEF Subscription
<1> QED
  BY <1>1, <1>2

\* SfOf finds the one subscription of a client, if there is one.
LEMMA SfHolds ==
    ASSUME NEW ts, TopicTable(ts), Once(ts), NEW t, NEW id
    PROVE  /\ SfIn(ts, t, id) \in {"none", "off", "on"}
           /\ \A s \in {"off", "on"} : SfIn(ts, t, id) = s <=> Holds(ts, t, id, s)
<1>1. CASE t \in DOMAIN ts /\ PlacesFor(ts, t, id) # {}
  <2> DEFINE p == CHOOSE k \in PlacesFor(ts, t, id) : TRUE
  <2>1. p \in PlacesFor(ts, t, id)
    BY <1>1
  <2>2. SfIn(ts, t, id) = ts[t][p].sf
    BY <1>1 DEF SfIn
  <2> HIDE DEF p
  <2>3. p \in DOMAIN ts[t] /\ ts[t][p].client.id = id /\ ts[t][p].sf \in {"off", "on"}
    BY <1>1, <2>1, EntryFacts DEF PlacesFor
  <2>4. \A k \in DOMAIN ts[t] : ts[t][k].client.id = id => k = p
    BY <1>1, <2>3 DEF Once
  <2> QED
    BY <1>1, <2>2, <2>3, <2>4 DEF Holds
<1>2. CASE ~(t \in DOMAIN ts /\ PlacesFor(ts, t, id) # {})
  BY <1>2 DEF SfIn, Holds, PlacesFor
<1> QED
  BY <1>1, <1>2

LEMMA SfSame ==
    ASSUME NEW ts, TopicTable(ts), Once(ts), NEW ts2, TopicTable(ts2), Once(ts2), NEW t, NEW id,
           \A s \in {"off", "on"} : Holds(ts2, t, id, s) <=> Holds(ts, t, id, s)
    PROVE  SfIn(ts2, t, id) = SfIn(ts, t, id)
<1>1. /\ SfIn(ts, t, id) \in {"none", "off", "on"} /\ SfIn(ts2, t, id) \in {"none", "off", "on"}
      /\ \A s \in {"off", "on"} : SfIn(ts, t, id) = s <=> SfIn(ts2, t, id) = s
  BY SfHolds
<1> QED
  BY <1>1

\* What a step may do to the lists: only the entry of id under t may change, to sf s
\* or, if s is "none", to no entry.
Books(ts, ts2, t, id, s) ==
    /\ Once(ts2)
    /\ \A u, j, r : u # t \/ j # id => (Holds(ts2, u, j, r) <=> Holds(ts, u, j, r))
    /\ \A r : Holds(ts2, t, id, r) <=> r = s /\ s # "none"

\* sf of an entry is set.
SetEntry(ts, t, p, s) == [ts EXCEPT ![t][p].sf = s]

LEMMA SetBooks ==
    ASSUME NEW ts, TopicTable(ts), Once(ts), NEW t \in DOMAIN ts, NEW p \in DOMAIN ts[t],
           NEW s \in {"off", "on"}, NEW id, id = ts[t][p].client.id
    PROVE  Books(ts, SetEntry(ts, t, p, s), t, id, s)
<1> DEFINE e == [ts[t][p] EXCEPT !.sf = s]
           list == [ts[t] EXCEPT ![p] = e]
           ts2 == [ts EXCEPT ![t] = list]
<1>1. SetEntry(ts, t, p, s) = ts2
  BY DEF SetEntry
<1>2. ts[t][p] \in Subscription /\ \A u \in DOMAIN ts : DOMAIN ts[u] = 1 .. Len(ts[u])
  BY EntryFacts
<1>3. e.sf = s /\ e.client = ts[t][p].client
  BY <1>2 DEF Subscription
<1> HIDE DEF e
<1>4. /\ DOMAIN list = DOMAIN ts[t] /\ list[p] = e
      /\ \A k \in DOMAIN ts[t] : k # p => list[k] = ts[t][k]
  OBVIOUS
<1> HIDE DEF list
<1>5. /\ DOMAIN ts2 = DOMAIN ts /\ ts2[t] = list
      /\ \A u \in DOMAIN ts : u # t => ts2[u] = ts[u]
  OBVIOUS
<1> HIDE DEF ts2
<1>6. \A u \in DOMAIN ts : /\ DOMAIN ts2[u] = DOMAIN ts[u]
                           /\ \A k \in DOMAIN ts[u] : ts2[u][k].client = ts[u][k].client
  BY <1>3, <1>4, <1>5
<1>7. \A u \in DOMAIN ts : \A k \in DOMAIN ts[u] : u # t \/ k # p => ts2[u][k].sf = ts[u][k].sf
  BY <1>4, <1>5
<1>8. ts2[t][p].sf = s
  BY <1>3, <1>4, <1>5
<1>9. Once(ts2)
  BY <1>5, <1>6 DEF Once
<1>10. ASSUME NEW u, NEW j, NEW r, u # t \/ j # id
       PROVE  Holds(ts2, u, j, r) <=> Holds(ts, u, j, r)
  BY <1>5, <1>6, <1>7, <1>10 DEF Holds
<1>11. ASSUME NEW r PROVE Holds(ts2, t, id, r) <=> r = s
  <2>1. \A k \in DOMAIN ts[t] : ts[t][k].client.id = id => k = p
    BY DEF Once
  <2> QED
    BY <1>5, <1>6, <1>8, <2>1 DEF Holds
<1> QED
  BY <1>1, <1>9, <1>10, <1>11 DEF Books

\* An entry is appended.
LEMMA AppendBooks ==
    ASSUME NEW ts, TopicTable(ts), Once(ts), NEW t \in DOMAIN ts, NEW e \in Subscription,
           PlacesFor(ts, t, e.client.id) = {}
    PROVE  Books(ts, [ts EXCEPT ![t] = Append(@, e)], t, e.client.id, e.sf)
<1> DEFINE list == Append(ts[t], e)
           ts2 == [ts EXCEPT ![t] = list]
           id == e.client.id
<1>1. [ts EXCEPT ![t] = Append(@, e)] = ts2
  OBVIOUS
<1>2. /\ ts[t] \in Seq(Subscription) /\ Len(ts[t]) \in Nat
      /\ DOMAIN ts[t] = 1 .. Len(ts[t])
      /\ \A k \in DOMAIN ts[t] : ts[t][k].client.id # id
  BY EntryFacts DEF PlacesFor
<1>3. /\ DOMAIN list = DOMAIN ts[t] \cup {Len(ts[t]) + 1}
      /\ \A k \in DOMAIN ts[t] : list[k] = ts[t][k]
      /\ list[Len(ts[t]) + 1] = e
  BY <1>2, AppendElements
<1> HIDE DEF list
<1>4. /\ DOMAIN ts2 = DOMAIN ts /\ ts2[t] = list
      /\ \A u \in DOMAIN ts : u # t => ts2[u] = ts[u]
  OBVIOUS
<1> HIDE DEF ts2, id
<1>5. e.client.id = id /\ e.sf # "none"
  BY DEF id, Subscription
<1>6. Once(ts2)
  <2>1. \A u \in DOMAIN ts : u # t =>
            \A j, k \in DOMAIN ts2[u] : ts2[u][j].client.id = ts2[u][k].client.id => j = k
    BY <1>4 DEF Once
  <2>2. \A j, k \in DOMAIN list : list[j].client.id = list[k].client.id => j = k
    BY <1>2, <1>3, <1>5 DEF Once
  <2> QED
    BY <1>4, <2>1, <2>2 DEF Once
<1>7. ASSUME NEW u, NEW j, NEW r, u # t \/ j # id
      PROVE  Holds(ts2, u, j, r) <=> Holds(ts, u, j, r)
  <2>1. CASE u # t
    BY <1>4, <2>1 DEF Holds
  <2>2. CASE u = t
    BY <1>3, <1>4, <1>5, <1>7, <2>2 DEF Holds
  <2> QED
    BY <2>1, <2>2
<1>8. ASSUME NEW r PROVE Holds(ts2, t, id, r) <=> r = e.sf
  BY <1>2, <1>3, <1>4, <1>5 DEF Holds
<1> QED
  BY <1>1, <1>5, <1>6, <1>7, <1>8 DEF Books, id

\* An entry is erased.
LEMMA RemoveElements ==
    ASSUME NEW S, NEW list \in Seq(S), NEW p \in 1 .. Len(list)
    PROVE  /\ RemoveAt(list, p) \in Seq(S) /\ Len(list) \in Nat
           /\ Len(RemoveAt(list, p)) = Len(list) - 1
           /\ \A k \in 1 .. Len(list) - 1 :
                 RemoveAt(list, p)[k] = IF k < p THEN list[k] ELSE list[k + 1]
<1> DEFINE before == SubSeq(list, 1, p - 1)
           after == SubSeq(list, p + 1, Len(list))
<1>1. Len(list) \in Nat /\ p \in Nat
  OBVIOUS
<1>2. /\ before \in Seq(S) /\ Len(before) = p - 1
      /\ \A k \in 1 .. p - 1 : before[k] = list[k]
  BY <1>1
<1>3. after \in Seq(S) /\ Len(after) = Len(list) - p
  BY <1>1
<1>4. \A k \in 1 .. Len(list) - p : after[k] = list[k + p]
  BY <1>1
<1>5. RemoveAt(list, p) = before \o after
  BY DEF RemoveAt
<1> HIDE DEF before, after
<1>6. /\ RemoveAt(list, p) \in Seq(S)
      /\ Len(RemoveAt(list, p)) = Len(before) + Len(after)
      /\ \A k \in 1 .. Len(before) + Len(after) :
            RemoveAt(list, p)[k] = IF k <= Len(before) THEN before[k] ELSE after[k - Len(before)]
  <2>1. before \in Seq(S) /\ after \in Seq(S)
    BY <1>2, <1>3
  <2> QED
    BY <1>5, <2>1
<1>7. Len(before) + Len(after) = Len(list) - 1
  BY <1>1, <1>2, <1>3
<1>8. ASSUME NEW k \in 1 .. Len(list) - 1
      PROVE  RemoveAt(list, p)[k] = IF k < p THEN list[k] ELSE list[k + 1]
  <2>1. k \in Nat /\ k \in 1 .. Len(before) + Len(after)
    BY <1>7
  <2>2. CASE k < p
    BY <1>1, <1>2, <1>6, <2>1, <2>2
  <2>3. CASE ~(k < p)
    <3>1. /\ RemoveAt(list, p)[k] = after[k - (p - 1)] /\ k - (p - 1) \in 1 .. Len(list) - p
          /\ (k - (p - 1)) + p = k + 1
      BY <1>1, <1>2, <1>6, <2>1, <2>3
    <3> QED
      BY <1>4, <2>3, <3>1
  <2> QED
    BY <2>2, <2>3
<1> QED
  BY <1>1, <1>6, <1>7, <1>8

LEMMA RemoveBooks ==
    ASSUME NEW ts, TopicTable(ts), Once(ts), NEW t \in DOMAIN ts, NEW p \in DOMAIN ts[t],
           NEW id, id = ts[t][p].client.id
    PROVE  Books(ts, [ts EXCEPT ![t] = RemoveAt(@, p)], t, id, "none")
<1> DEFINE old == ts[t]
           list == RemoveAt(old, p)
           ts2 == [ts EXCEPT ![t] = list]
<1>1. [ts EXCEPT ![t] = RemoveAt(@, p)] = ts2
  OBVIOUS
<1>2. old \in Seq(Subscription) /\ Len(old) \in Nat /\ DOMAIN old = 1 .. Len(old)
  BY EntryFacts
<1>3. p \in 1 .. Len(old) /\ \A k \in 1 .. Len(old) : old[k].client.id = id => k = p
  BY <1>2 DEF Once
<1>4. /\ list \in Seq(Subscription) /\ Len(list) = Len(old) - 1
      /\ \A k \in 1 .. Len(old) - 1 : list[k] = IF k < p THEN old[k] ELSE old[k + 1]
  BY <1>2, <1>3, RemoveElements
<1>5. DOMAIN list = 1 .. Len(old) - 1
  BY <1>4
<1> HIDE DEF list
<1>6. /\ DOMAIN ts2 = DOMAIN ts /\ ts2[t] = list
      /\ \A u \in DOMAIN ts : u # t => ts2[u] = ts[u]
  OBVIOUS
<1> HIDE DEF ts2
<1>7. \A j, k \in 1 .. Len(old) : old[j].client.id = old[k].client.id => j = k
  BY <1>2 DEF Once
<1> HIDE DEF old
\* Every entry but the erased one is found one place earlier at most.
<1>8. \A k \in DOMAIN list : \E j \in 1 .. Len(old) : j # p /\ list[k] = old[j]
  <2> SUFFICES ASSUME NEW k \in DOMAIN list PROVE \E j \in 1 .. Len(old) : j # p /\ list[k] = old[j]
    OBVIOUS
  <2>1. CASE k < p
    BY <1>2, <1>3, <1>4, <1>5, <2>1
  <2>2. CASE ~(k < p)
    <3>1. k + 1 \in 1 .. Len(old) /\ k + 1 # p
      BY <1>2, <1>3, <1>5, <2>2
    <3> QED
      BY <1>4, <1>5, <2>2, <3>1
  <2> QED
    BY <2>1, <2>2
<1>9. \A j \in 1 .. Len(old) : j # p => \E k \in DOMAIN list : list[k] = old[j]
  <2> SUFFICES ASSUME NEW j \in 1 .. Len(old), j # p PROVE \E k \in DOMAIN list : list[k] = old[j]
    OBVIOUS
  <2>1. CASE j < p
    BY <1>2, <1>3, <1>4, <1>5, <2>1
  <2>2. CASE ~(j < p)
    <3>1. j - 1 \in 1 .. Len(old) - 1 /\ ~(j - 1 < p) /\ (j - 1) + 1 = j
      BY <1>2, <1>3, <2>2
    <3> QED
      BY <1>4, <1>5, <3>1
  <2> QED
    BY <2>1, <2>2
<1>10. Once(ts2)
  <2>1. \A j, k \in DOMAIN list : list[j].client.id = list[k].client.id => j = k
    <3> SUFFICES ASSUME NEW j \in 1 .. Len(old) - 1, NEW k \in 1 .. Len(old) - 1,
                        list[j].client.id = list[k].client.id
                 PROVE  j = k
      BY <1>5
    <3> DEFINE place(n) == IF n < p THEN n ELSE n + 1
    <3>1. /\ place(j) \in 1 .. Len(old) /\ place(k) \in 1 .. Len(old)
          /\ list[j] = old[place(j)] /\ list[k] = old[place(k)]
      BY <1>2, <1>3, <1>4
    <3>2. place(j) = place(k)
      BY <1>7, <3>1
    <3> QED
      BY <1>2, <1>3, <3>2
  <2> QED
    BY <1>6, <2>1 DEF Once
<1>11. ASSUME NEW u, NEW j, NEW r, u # t \/ j # id
       PROVE  Holds(ts2, u, j, r) <=> Holds(ts, u, j, r)
  <2>1. CASE u # t
    BY <1>6, <2>1 DEF Holds
  <2>2. CASE u = t
    <3>1. old[p].client.id # j
      BY <1>11, <2>2 DEF old
    <3>2. Holds(ts, u, j, r) <=> \E k \in 1 .. Len(old) : old[k].client.id = j /\ old[k].sf = r
      BY <1>2, <2>2 DEF Holds, old
    <3>3. Holds(ts2, u, j, r) <=> \E k \in DOMAIN list : list[k].client.id = j /\ list[k].sf = r
      BY <1>6, <2>2 DEF Holds
    <3> QED
      BY <1>8, <1>9, <3>1, <3>2, <3>3
  <2> QED
    BY <2>1, <2>2
<1>12. ASSUME NEW r PROVE ~Holds(ts2, t, id, r)
  BY <1>3, <1>6, <1>8 DEF Holds
<1> QED
  BY <1>1, <1>10, <1>11, <1>12 DEF Books

\* The subscriptions are the same.
SameBooks(ts, ts2) == Once(ts2) /\ \A u, j, r : Holds(ts2, u, j, r) <=> Holds(ts, u, j, r)

\* A request books its own client, on its own topic, with its own sf.
LEMMA RequestBooks ==
    ASSUME TypeOK, SessionTablesAgree, Once(topics_subs), NEW i \in DOMAIN sock,
           NEW req \in Request, Subscribe(i, req) \/ Unsubscribe(i, req)
    PROVE  Books(topics_subs, topics_subs', req.topic, active_clients[i].id, req.sf)
<1> DEFINE ts == topics_subs
           t == req.topic
           id == active_clients[i].id
<1>1. TopicTable(ts) /\ Once(ts) /\ t \in DOMAIN ts /\ active_clients[i] \in Client
  BY DEF TypeOK, TopicsOK, TopicTable, SessionsOK, SessionTablesAgree, Subscribe, Unsubscribe
<1>2. PlacesOf(t, id) = PlacesFor(ts, t, id)
  BY DEF PlacesOf, PlacesFor
<1>3. CASE Subscribe(i, req)
  <2>1. req.sf \in {"off", "on"}
    BY <1>3 DEF Subscribe, Request
  <2>2. ASSUME NEW p \in PlacesFor(ts, t, id), topics_subs' = [ts EXCEPT ![t][p].sf = req.sf]
        PROVE  Books(ts, topics_subs', t, id, req.sf)
    <3>1. p \in DOMAIN ts[t] /\ id = ts[t][p].client.id
      BY <2>2 DEF PlacesFor
    <3> HIDE DEF ts, t, id
    <3>2. Books(ts, SetEntry(ts, t, p, req.sf), t, id, req.sf)
      BY <1>1, <2>1, <3>1, SetBooks
    <3> QED
      BY <2>2, <3>2, Zenon DEF SetEntry
  <2>3. ASSUME PlacesFor(ts, t, id) = {},
               topics_subs' = [ts EXCEPT ![t] = Append(@, [client |-> active_clients[i], sf |-> req.sf])]
        PROVE  Books(ts, topics_subs', t, id, req.sf)
    <3> DEFINE e == [client |-> active_clients[i], sf |-> req.sf]
    <3>1. e \in Subscription /\ e.client.id = id /\ e.sf = req.sf
      BY <1>1, <2>1 DEF Subscription
    <3>2. topics_subs' = [ts EXCEPT ![t] = Append(@, e)]
      BY <2>3
    <3> HIDE DEF ts, t, id, e
    <3>3. Books(ts, [ts EXCEPT ![t] = Append(@, e)], t, e.client.id, e.sf)
      BY <1>1, <2>3, <3>1, AppendBooks
    <3> QED
      BY <3>1, <3>2, <3>3, Zenon
  <2> QED
    BY <1>2, <1>3, <2>2, <2>3, Zenon DEF Subscribe
<1>4. CASE Unsubscribe(i, req)
  <2>1. req.sf = "none"
    BY <1>4 DEF Unsubscribe, Request
  <2>2. ASSUME NEW p \in PlacesFor(ts, t, id), topics_subs' = [ts EXCEPT ![t] = RemoveAt(@, p)]
        PROVE  Books(ts, topics_subs', t, id, "none")
    <3>1. p \in DOMAIN ts[t] /\ id = ts[t][p].client.id
      BY <2>2 DEF PlacesFor
    <3> HIDE DEF ts, t, id
    <3>2. Books(ts, [ts EXCEPT ![t] = RemoveAt(@, p)], t, id, "none")
      BY <1>1, <3>1, RemoveBooks
    <3> QED
      BY <2>2, <3>2, Zenon
  <2>3. CASE PlacesFor(ts, t, id) = {} /\ topics_subs' = ts
    BY <2>1, <2>3 DEF Books, Holds, PlacesFor
  <2> QED
    BY <1>2, <1>4, <2>1, <2>2, <2>3, Zenon DEF Unsubscribe
<1> QED
  BY <1>3, <1>4

\* A new topic has no subscriber.
LEMMA TopicBooks ==
    ASSUME Once(topics_subs), NEW m, UnknownTopic(m)
    PROVE  SameBooks(topics_subs, topics_subs')
<1>1. /\ DOMAIN topics_subs' = DOMAIN topics_subs \cup {m.topic}
      /\ \A t \in DOMAIN topics_subs : topics_subs'[t] = topics_subs[t]
      /\ m.topic \notin DOMAIN topics_subs /\ topics_subs'[m.topic] = <<>>
  BY DEF UnknownTopic, Insert
<1>2. DOMAIN topics_subs'[m.topic] = {}
  BY <1>1
<1> QED
  BY <1>1, <1>2 DEF SameBooks, Once, Holds

\* The subscriptions after a step.
LEMMA StepBooks ==
    ASSUME TypeOK, SessionTablesAgree, Once(topics_subs), [Next]_vars
    PROVE  \/ SameBooks(topics_subs, topics_subs')
           \/ \E i \in DOMAIN sock, req \in Request :
                 /\ Subscribe(i, req) \/ Unsubscribe(i, req)
                 /\ Books(topics_subs, topics_subs', req.topic, active_clients[i].id, req.sf)
<1>1. topics_subs' = topics_subs => SameBooks(topics_subs, topics_subs')
  BY DEF SameBooks
<1>2. CASE Select \/ HandleStdinMessage \/ UNCHANGED vars
  BY <1>1, <1>2 DEF Select, HandleStdinMessage, vars, maps
<1>3. CASE HandleConnectionRequest
  <2>1. topics_subs' = topics_subs
    <3>1. ASSUME NEW c \in ConnIds, NEW fd \in ClientFds, NEW id \in AnyId,
                 RejectConnection(c, fd, id) \/ AddNewClient(c, fd, id)
          PROVE  topics_subs' = topics_subs
      BY <3>1 DEF RejectConnection, AddNewClient, maps
    <3>2. ASSUME NEW c \in ConnIds, NEW fd \in ClientFds, NEW id \in AnyId, Reconnect(c, fd, id)
          PROVE  topics_subs' = topics_subs
      BY <3>2 DEF Reconnect, SigPipe, maps
    <3> QED
      BY <1>3, <3>1, <3>2 DEF HandleConnectionRequest
  <2> QED
    BY <1>1, <2>1
<1>4. CASE HandleUdpMessage
  <2>1. UnknownTopic(Head(udpq)) \/ Forward(Head(udpq))
    BY <1>4 DEF HandleUdpMessage
  <2>2. Forward(Head(udpq)) => topics_subs' = topics_subs
    BY Zenon DEF Forward, SigPipe, maps
  <2> QED
    BY <1>1, <2>1, <2>2, TopicBooks
<1>5. ASSUME NEW i \in ClientFds, HandleTcpMessage(i)
      PROVE  \/ SameBooks(topics_subs, topics_subs')
             \/ \E j \in DOMAIN sock, req \in Request :
                   /\ Subscribe(j, req) \/ Unsubscribe(j, req)
                   /\ Books(topics_subs, topics_subs', req.topic, active_clients[j].id, req.sf)
  <2>1. i \in DOMAIN sock
    BY <1>5 DEF HandleTcpMessage
  <2>2. CASE Disconnect(i) \/ ReceiveError(i) \/ \E req \in Request : IgnoreRequest(i, req)
    BY <1>1, <2>2 DEF Disconnect, ReceiveError, IgnoreRequest, maps
  <2>3. ASSUME NEW req \in Request, Subscribe(i, req) \/ Unsubscribe(i, req)
        PROVE  Books(topics_subs, topics_subs', req.topic, active_clients[i].id, req.sf)
    BY <2>1, <2>3, RequestBooks
  <2> QED
    BY <1>5, <2>1, <2>2, <2>3 DEF HandleTcpMessage
<1>6. CASE \/ \E id \in Ids : Connect(id)
           \/ \E c \in ConnIds : Subscriber(c)
           \/ \E topic \in Topics : Publish(topic)
           \/ TypeExit
  <2>1. UNCHANGED broker
    BY <1>6 DEF Connect, Subscriber, SendId, Receive, ReceiveEnd, Exit, Kill, SendRequest,
                Publish, TypeExit
  <2> QED
    BY <1>1, <2>1 DEF broker, maps
<1> QED
  BY <1>2, <1>3, <1>4, <1>5, <1>6 DEF Next, BrokerStep

LEMMA OnceInvariant == Spec => [](SocketInv /\ Once(topics_subs))
<1>1. Init => Once(topics_subs)
  BY DEF Init, Once
<1>2. SocketInv /\ Once(topics_subs) /\ [Next]_vars => Once(topics_subs)'
  BY StepBooks DEF SocketInv, SameBooks, Books
<1> QED
  BY <1>1, <1>2, SocketInvariant, PTL DEF Spec

\* No client is in a list twice, so no message is sent to it twice (server_helper.cpp,
\* subscribe), whatever subscriptions, departures and returns came before.
THEOREM SubscribedOnce == Spec => []OneSubscriptionPerClient
<1>1. Once(topics_subs) => OneSubscriptionPerClient
  BY DEF Once, OneSubscriptionPerClient
<1> QED
  BY <1>1, OnceInvariant, PTL

\* A subscription changes only by a request of its own client for its own topic
\* (server.cpp, handle_tcp_message): whatever the others do, it stays.
THEOREM OwnRequestsOnly == Spec => SubscriptionsChangeByRequest
<1> DEFINE Change == \A topic \in Topics, id \in AnyId : SfOf(topic, id)' # SfOf(topic, id) =>
                        \E c \in DOMAIN conn :
                            /\ conn[c].id = id /\ conn[c].up # <<>>
                            /\ Head(conn[c].up).topic = topic
                            /\ conn'[c].up = Tail(conn[c].up)
<1>1. ASSUME SocketInv, Once(topics_subs), TypeOK', [Next]_vars PROVE Change
  <2> SUFFICES ASSUME NEW topic \in Topics, NEW id \in AnyId, SfOf(topic, id)' # SfOf(topic, id)
               PROVE  \E c \in DOMAIN conn : /\ conn[c].id = id /\ conn[c].up # <<>>
                                             /\ Head(conn[c].up).topic = topic
                                             /\ conn'[c].up = Tail(conn[c].up)
    OBVIOUS
  <2>1. SfOf(topic, id) = SfIn(topics_subs, topic, id)
    BY DEF SfOf, SfIn, PlacesOf, PlacesFor
  <2>2. SfOf(topic, id)' = SfIn(topics_subs', topic, id)
    BY DEF SfOf, SfIn, PlacesOf, PlacesFor
  <2>3. TopicTable(topics_subs) /\ TopicTable(topics_subs')
    BY <1>1 DEF SocketInv, TypeOK, TopicsOK, TopicTable
  <2>4. ~SameBooks(topics_subs, topics_subs')
    BY <1>1, <2>1, <2>2, <2>3, SfSame DEF SameBooks
  <2>5. PICK i \in DOMAIN sock, req \in Request :
           /\ Subscribe(i, req) \/ Unsubscribe(i, req)
           /\ Books(topics_subs, topics_subs', req.topic, active_clients[i].id, req.sf)
    BY <1>1, <2>4, StepBooks DEF SocketInv
  <2>6. topic = req.topic /\ id = active_clients[i].id
    BY <1>1, <2>1, <2>2, <2>3, <2>5, SfSame DEF Books
  <2> DEFINE c == sock[i]
  <2>7. /\ conn[c].up # <<>> /\ req = Head(conn[c].up)
        /\ conn' = [conn EXCEPT ![c].up = Tail(@)]
    BY <2>5 DEF Subscribe, Unsubscribe, Take
  <2>8. c \in DOMAIN conn /\ conn[c] \in Connection
    BY <1>1, ConnectionFacts DEF SocketInv, TypeOK, NetworkOK
  <2>9. conn[c].hello
    BY <1>1, <2>7, <2>8 DEF SocketInv, Sessions, HelloFirst
  <2>10. conn[c].id = id
    BY <1>1, <2>6, <2>9 DEF SocketInv, Sessions, Identified
  <2>11. conn'[c].up = Tail(conn[c].up)
    BY <2>7, <2>8 DEF Connection
  <2> QED
    BY <2>6, <2>7, <2>8, <2>10, <2>11
<1>2. SocketInv /\ Once(topics_subs) /\ TypeOK' /\ [Next]_vars => [Change]_vars
  BY <1>1
<1>3. SocketInv => TypeOK
  BY DEF SocketInv
<1> QED
  BY <1>2, <1>3, OnceInvariant, PTL DEF Spec, SubscriptionsChangeByRequest

-----------------------------------------------------------------------------
(* Messages that are kept.                                                   *)

\* The number of the last datagram the broker has handled.
Handled == published - Len(udpq)

\* Datagrams wait in the order of publication.
Numbered ==
    /\ Handled >= 0
    /\ \A k \in 1 .. Len(udpq) : udpq[k].seq = Handled + k

\* Who is subscribed has connected once.
Subscribers == \A t, id, s : Holds(topics_subs, t, id, s) => id \in DOMAIN all_clients

\* A list of messages that may be kept for id, when n datagrams are handled.
KeptList(ts, n, list, id) ==
    /\ list # <<>> /\ Increasing(list)
    /\ \A k \in DOMAIN list : list[k].seq <= n /\ Holds(ts, list[k].topic, id, "on")

Kept ==
    \A id \in DOMAIN store_and_forward :
        /\ id \notin DOMAIN active_ids_sockets
        /\ KeptList(topics_subs, Handled, store_and_forward[id], id)

KeptInv == Numbered /\ Subscribers /\ Kept

LEMMA MessagesNumbered ==
    ASSUME NEW list \in Seq(Message)
    PROVE  DOMAIN list = 1 .. Len(list) /\ \A k \in DOMAIN list : list[k].seq \in Nat
<1>1. \A m \in Message : m.seq \in Nat
  BY BrokerAssumption DEF Message
<1>2. DOMAIN list = 1 .. Len(list) /\ \A k \in DOMAIN list : list[k] \in Message
  OBVIOUS
<1> QED
  BY <1>1, <1>2

LEMMA StoreTyped ==
    ASSUME TypeOK
    PROVE  /\ udpq \in Seq(Message) /\ Len(udpq) \in Nat /\ published \in Nat /\ Handled \in Int
           /\ \A id \in DOMAIN store_and_forward :
                 /\ store_and_forward[id] \in Seq(Message)
                 /\ DOMAIN store_and_forward[id] = 1 .. Len(store_and_forward[id])
                 /\ \A k \in DOMAIN store_and_forward[id] : store_and_forward[id][k].seq \in Nat
           /\ \A id : Stored(id) \in Seq(Message)
<1>1. udpq \in Seq(Message) /\ published \in 0 .. MaxMsgs
  BY DEF TypeOK, NetworkOK
<1>2. Len(udpq) \in Nat /\ published \in Nat
  BY <1>1, BrokerAssumption
<1>3. \A id \in DOMAIN store_and_forward : store_and_forward[id] \in Seq(Message)
  BY DEF TypeOK, TopicsOK
<1>5. \A id : Stored(id) \in Seq(Message)
  BY <1>3 DEF Stored
<1>6. \A list \in Seq(Message) : /\ DOMAIN list = 1 .. Len(list)
                                 /\ \A k \in DOMAIN list : list[k].seq \in Nat
  BY MessagesNumbered
<1> QED
  BY <1>1, <1>2, <1>3, <1>5, <1>6 DEF Handled

\* What is kept stays kept while the subscription lasts.
LEMMA KeptLater ==
    ASSUME NEW ts, NEW ts2, NEW n \in Int, NEW n2 \in Int, NEW list \in Seq(Message), NEW id,
           KeptList(ts, n, list, id), n <= n2,
           \A t : Holds(ts, t, id, "on") => Holds(ts2, t, id, "on")
    PROVE  KeptList(ts2, n2, list, id)
<1>1. \A k \in DOMAIN list : list[k].seq \in Nat
  BY MessagesNumbered
<1>2. \A k \in DOMAIN list : list[k].seq <= n2
  BY <1>1 DEF KeptList
<1> QED
  BY <1>2 DEF KeptList

\* The next message is kept behind the others.
LEMMA KeptAppend ==
    ASSUME NEW ts, NEW n \in Int, NEW list \in Seq(Message), NEW id, NEW m \in Message,
           list = <<>> \/ KeptList(ts, n, list, id),
           m.seq = n + 1, Holds(ts, m.topic, id, "on")
    PROVE  KeptList(ts, n + 1, Append(list, m), id)
<1> DEFINE new == Append(list, m)
<1>1. /\ Len(list) \in Nat /\ Len(new) = Len(list) + 1 /\ new \in Seq(Message)
      /\ \A k \in 1 .. Len(list) : new[k] = list[k]
      /\ new[Len(list) + 1] = m
  BY AppendElements
<1>2. /\ DOMAIN list = 1 .. Len(list) /\ DOMAIN new = 1 .. Len(list) + 1 /\ new # <<>>
  BY <1>1
<1>3. \A k \in 1 .. Len(list) :
          /\ list[k].seq \in Nat /\ list[k].seq <= n /\ Holds(ts, list[k].topic, id, "on")
  <2>1. \A k \in 1 .. Len(list) : list[k].seq \in Nat
    BY <1>2, MessagesNumbered
  <2> QED
    BY <1>2, <2>1 DEF KeptList
<1> HIDE DEF new
<1>4. \A k \in DOMAIN new : k \in 1 .. Len(list) \/ k = Len(list) + 1
  BY <1>1, <1>2
<1>5. \A k \in DOMAIN new : new[k].seq <= n + 1 /\ Holds(ts, new[k].topic, id, "on")
  BY <1>1, <1>3, <1>4
<1>6. ASSUME NEW j \in DOMAIN new, NEW k \in DOMAIN new, j < k PROVE new[j].seq < new[k].seq
  <2>1. j \in 1 .. Len(list)
    BY <1>1, <1>2, <1>6
  <2>2. CASE k = Len(list) + 1
    BY <1>1, <1>3, <2>1, <2>2
  <2>3. CASE k \in 1 .. Len(list)
    <3>1. list # <<>>
      BY <2>3
    <3>2. list[j].seq < list[k].seq
      BY <1>2, <1>6, <2>1, <2>3, <3>1 DEF KeptList, Increasing
    <3> QED
      BY <1>1, <2>1, <2>3, <3>2
  <2> QED
    BY <1>4, <2>2, <2>3
<1> QED
  BY <1>2, <1>5, <1>6 DEF KeptList, Increasing, new

\* A message is kept once at most for a client.
LEMMA KeptForOnce ==
    ASSUME Once(topics_subs), NEW t \in DOMAIN topics_subs, NEW id
    PROVE  /\ KeptFor(topics_subs[t], id) = {} => Cardinality(KeptFor(topics_subs[t], id)) = 0
           /\ KeptFor(topics_subs[t], id) # {} => Cardinality(KeptFor(topics_subs[t], id)) = 1
<1> DEFINE S == KeptFor(topics_subs[t], id)
<1>1. S = {} => Cardinality(S) = 0
  BY FS_EmptySet
<1>2. ASSUME NEW p \in S PROVE Cardinality(S) = 1
  <2>1. \A k \in S : k \in DOMAIN topics_subs[t] /\ topics_subs[t][k].client.id = id
    BY DEF KeptFor
  <2>2. S = {p}
    BY <1>2, <2>1 DEF Once
  <2> HIDE DEF S
  <2> QED
    BY <2>2, FS_Singleton
<1>3. S # {} => \E p : p \in S
  BY Zenon
<1> HIDE DEF S
<1>4. /\ S = {} => Cardinality(S) = 0
      /\ S # {} => Cardinality(S) = 1
  BY <1>1, <1>2, <1>3
<1> QED
  BY <1>4 DEF S

\* A message copied once, or not at all.
LEMMA CopiesOnce ==
    ASSUME NEW list \in Seq(Message), NEW m \in Message
    PROVE  list \o Copies(m, 0) = list /\ list \o Copies(m, 1) = Append(list, m)
<1>1. Copies(m, 0) = <<>> /\ Copies(m, 1) = <<m>>
  BY DEF Copies
<1>2. list \o <<>> = list
  BY ConcatEmptySeq
<1>3. list \o <<m>> = Append(list, m)
  BY AppendIsConcat
<1> QED
  BY <1>1, <1>2, <1>3

\* A step that keeps nothing new: what is kept is for those who are away.
LEMMA KeepsKept ==
    ASSUME TypeOK, KeptInv, Handled' \in Int, Handled <= Handled',
           DOMAIN store_and_forward' \subseteq DOMAIN store_and_forward,
           \A id \in DOMAIN store_and_forward' :
               /\ store_and_forward'[id] = store_and_forward[id]
               /\ id \notin DOMAIN active_ids_sockets'
               /\ \A t : Holds(topics_subs, t, id, "on") => Holds(topics_subs', t, id, "on")
    PROVE  Kept'
<1> SUFFICES ASSUME NEW id \in DOMAIN store_and_forward', NEW list, list = store_and_forward'[id]
             PROVE  /\ id \notin DOMAIN active_ids_sockets'
                    /\ KeptList(topics_subs', Handled', list, id)
  BY DEF Kept
<1>1. list \in Seq(Message) /\ Handled \in Int /\ KeptList(topics_subs, Handled, list, id)
  BY StoreTyped DEF KeptInv, Kept
<1>2. KeptList(topics_subs', Handled', list, id)
  BY <1>1, KeptLater
<1> QED
  BY <1>2

\* Taking the first datagram off the queue.
LEMMA NextHandled ==
    ASSUME TypeOK, Numbered, udpq # <<>>, udpq' = Tail(udpq), published' = published
    PROVE  /\ Numbered' /\ Handled' = Handled + 1 /\ Handled \in Int
           /\ Head(udpq) \in Message /\ Head(udpq).seq = Handled + 1
<1>1. /\ Head(udpq) \in Message /\ Head(udpq) = udpq[1] /\ Len(udpq) \in Nat \ {0}
      /\ Len(udpq') = Len(udpq) - 1
      /\ \A k \in 1 .. Len(udpq) - 1 : udpq'[k] = udpq[k + 1]
  BY StoreTyped, TailElements
<1>2. Handled' = Handled + 1 /\ Handled \in Int /\ published \in Nat
  BY <1>1, StoreTyped DEF Handled
<1>3. ASSUME NEW k \in 1 .. Len(udpq') PROVE udpq'[k].seq = Handled' + k
  <2>1. k \in 1 .. Len(udpq) - 1 /\ k + 1 \in 1 .. Len(udpq)
    BY <1>1
  <2>2. udpq'[k].seq = Handled + (k + 1)
    BY <1>1, <2>1 DEF Numbered
  <2> QED
    BY <1>2, <2>1, <2>2
<1>4. Handled' >= 0
  BY <1>2 DEF Numbered
<1>5. Head(udpq).seq = Handled + 1
  BY <1>1 DEF Numbered
<1> QED
  BY <1>1, <1>2, <1>3, <1>4, <1>5 DEF Numbered

\* A datagram that is kept for the absent subscribers that asked for it.
LEMMA ForwardKept ==
    ASSUME TypeOK, SessionTablesAgree, Once(topics_subs), KeptInv, NEW m \in Message,
           m.seq = Handled + 1, Handled' = Handled + 1, Forward(m)
    PROVE  Kept'
<1> DEFINE subs == topics_subs[m.topic]
           keepers == {id \in AnyId : KeptFor(subs, id) # {}}
<1>1. m.topic \in DOMAIN topics_subs /\ topics_subs' = topics_subs
      /\ active_ids_sockets' = active_ids_sockets
  BY Zenon DEF Forward, SigPipe, maps
<1>2. Handled \in Int /\ Handled' \in Int /\ Handled <= Handled'
  BY StoreTyped
<1>3. CASE store_and_forward' = store_and_forward
  BY <1>1, <1>2, <1>3, KeepsKept DEF KeptInv, Kept
<1>4. CASE store_and_forward' =
              [id \in DOMAIN store_and_forward \cup keepers |->
                  Stored(id) \o Copies(m, Cardinality(KeptFor(subs, id)))]
  <2> SUFFICES ASSUME NEW id \in DOMAIN store_and_forward \cup keepers,
                      NEW list, list = Stored(id) \o Copies(m, Cardinality(KeptFor(subs, id)))
               PROVE  /\ id \notin DOMAIN active_ids_sockets
                      /\ KeptList(topics_subs, Handled + 1, list, id)
    BY <1>1, <1>4 DEF Kept
  <2>1. Stored(id) \in Seq(Message)
    BY StoreTyped
  <2>3. /\ KeptFor(subs, id) = {} => Cardinality(KeptFor(subs, id)) = 0
        /\ KeptFor(subs, id) # {} => Cardinality(KeptFor(subs, id)) = 1
    BY <1>1, KeptForOnce
  <2>4. CASE KeptFor(subs, id) = {}
    <3>1. id \in DOMAIN store_and_forward /\ list = Stored(id)
      BY <2>1, <2>3, <2>4, StoreTyped, CopiesOnce
    <3>2. id \notin DOMAIN active_ids_sockets /\ KeptList(topics_subs, Handled, list, id)
          /\ list \in Seq(Message)
      BY <3>1, StoreTyped DEF KeptInv, Kept, Stored
    <3> QED
      BY <1>2, <3>2, KeptLater
  <2>5. CASE KeptFor(subs, id) # {}
    <3>1. PICK k \in DOMAIN subs : /\ subs[k].client.id = id /\ subs[k].sf = "on"
                                   /\ id \notin DOMAIN active_ids_sockets
      BY <2>5 DEF KeptFor
    <3>2. Holds(topics_subs, m.topic, id, "on")
      BY <1>1, <3>1 DEF Holds
    <3>3. Stored(id) \in Seq(Message)
      BY StoreTyped
    <3>4. list = Append(Stored(id), m)
      BY <2>3, <2>5, <3>3, CopiesOnce
    <3>5. Stored(id) = <<>> \/ KeptList(topics_subs, Handled, Stored(id), id)
      BY DEF KeptInv, Kept, Stored
    <3>6. KeptList(topics_subs, Handled + 1, list, id)
      BY <1>2, <3>2, <3>3, <3>4, <3>5, KeptAppend
    <3> QED
      BY <3>1, <3>6
  <2> QED
    BY <2>4, <2>5
<1> QED
  BY <1>3, <1>4, Zenon DEF Forward, SigPipe, maps

\* The client of a session is known.
LEMMA SessionKnown ==
    ASSUME TypeOK, SessionTablesAgree, NEW i \in DOMAIN sock
    PROVE  active_clients[i].id \in DOMAIN active_ids_sockets
           /\ active_clients[i].id \in DOMAIN all_clients
BY DEF SessionTablesAgree

\* A new subscription is that of a client that is connected.
LEMMA StepSubscribers ==
    ASSUME TypeOK, SessionTablesAgree, Once(topics_subs), Subscribers, [Next]_vars,
           DOMAIN all_clients \subseteq DOMAIN all_clients'
    PROVE  Subscribers'
<1> SUFFICES ASSUME NEW t, NEW id, NEW s, Holds(topics_subs', t, id, s)
             PROVE  id \in DOMAIN all_clients
  BY DEF Subscribers
<1>1. CASE Holds(topics_subs, t, id, s)
  BY <1>1 DEF Subscribers
<1>2. CASE ~Holds(topics_subs, t, id, s)
  <2>1. PICK i \in DOMAIN sock, req \in Request :
           Books(topics_subs, topics_subs', req.topic, active_clients[i].id, req.sf)
    BY <1>2, StepBooks DEF SameBooks
  <2>2. id = active_clients[i].id
    BY <1>2, <2>1 DEF Books
  <2> QED
    BY <2>2, SessionKnown
<1> QED
  BY <1>1, <1>2

\* A step that handles no datagram.
LEMMA StillNumbered ==
    ASSUME TypeOK, Numbered, udpq' = udpq, published' = published
    PROVE  Numbered' /\ Handled' = Handled /\ Handled \in Int
BY StoreTyped DEF Numbered, Handled

LEMMA PublishNumbered ==
    ASSUME TypeOK, Numbered, NEW topic \in Topics, Publish(topic)
    PROVE  Numbered' /\ Handled' = Handled /\ Handled \in Int
<1> DEFINE m == [topic |-> topic, seq |-> published + 1]
<1>1. published' = published + 1 /\ udpq' = Append(udpq, m) /\ published < MaxMsgs
  BY DEF Publish
<1>2. published \in Nat /\ Len(udpq) \in Nat /\ udpq \in Seq(Message) /\ Handled \in Int
  BY StoreTyped
<1>3. m \in Message /\ m.seq = published + 1
  BY <1>1, <1>2, BrokerAssumption DEF Message
<1> HIDE DEF m
<1>4. /\ Len(udpq') = Len(udpq) + 1
      /\ \A k \in 1 .. Len(udpq) : udpq'[k] = udpq[k]
      /\ udpq'[Len(udpq) + 1] = m
  BY <1>1, <1>2, <1>3, AppendElements
<1>5. Handled' = Handled
  BY <1>1, <1>2, <1>4 DEF Handled
<1>6. ASSUME NEW k \in 1 .. Len(udpq') PROVE udpq'[k].seq = Handled + k
  <2>1. CASE k \in 1 .. Len(udpq)
    BY <1>4, <2>1 DEF Numbered
  <2>2. CASE k = Len(udpq) + 1
    BY <1>2, <1>3, <1>4, <2>2 DEF Handled
  <2> QED
    BY <1>2, <1>4, <1>6, <2>1, <2>2
<1> QED
  BY <1>2, <1>5, <1>6 DEF Numbered

\* A connection: who comes back is given what was kept, who is new had nothing kept.
LEMMA ConnectionKept ==
    ASSUME TypeOK, SessionTablesAgree, KeptInv, HandleConnectionRequest
    PROVE  Kept' /\ DOMAIN all_clients \subseteq DOMAIN all_clients' /\ Numbered'
<1>1. udpq' = udpq /\ published' = published
  BY DEF HandleConnectionRequest, RejectConnection, AddNewClient, Reconnect, Accepting, env
<1>2. Numbered' /\ Handled' = Handled /\ Handled \in Int
  BY <1>1, StillNumbered DEF KeptInv
<1>3. Handled' \in Int /\ Handled <= Handled'
  BY <1>2
<1>4. CASE UNCHANGED maps
  <2>1. UNCHANGED <<all_clients, active_ids_sockets, topics_subs, store_and_forward>>
    BY <1>4 DEF maps
  <2> QED
    BY <1>2, <1>3, <2>1, KeepsKept DEF KeptInv, Kept
<1>5. ASSUME NEW c \in ConnIds, NEW fd \in ClientFds, NEW id \in AnyId, AddNewClient(c, fd, id)
      PROVE  Kept' /\ DOMAIN all_clients \subseteq DOMAIN all_clients'
  <2>1. /\ id \notin DOMAIN all_clients
        /\ topics_subs' = topics_subs /\ store_and_forward' = store_and_forward
    BY <1>5 DEF AddNewClient
  <2>2. /\ DOMAIN all_clients' = DOMAIN all_clients \cup {id}
        /\ DOMAIN active_ids_sockets' = DOMAIN active_ids_sockets \cup {id}
    BY <1>5 DEF AddNewClient, Insert
  <2>3. ASSUME NEW j \in DOMAIN store_and_forward PROVE j \in DOMAIN all_clients
    <3> DEFINE list == store_and_forward[j]
    <3>1. KeptList(topics_subs, Handled, list, j) /\ list \in Seq(Message)
      BY <2>3, StoreTyped DEF KeptInv, Kept
    <3> HIDE DEF list
    <3>2. 1 \in DOMAIN list
      BY <3>1 DEF KeptList
    <3>3. Holds(topics_subs, list[1].topic, j, "on")
      BY <3>1, <3>2 DEF KeptList
    <3> QED
      BY <3>3 DEF KeptInv, Subscribers
  <2>4. \A j \in DOMAIN store_and_forward : j \notin DOMAIN active_ids_sockets'
    BY <2>1, <2>2, <2>3 DEF KeptInv, Kept
  <2> QED
    BY <1>3, <2>1, <2>2, <2>4, KeepsKept
<1>6. ASSUME NEW c \in ConnIds, NEW fd \in ClientFds, NEW id \in AnyId, Reconnect(c, fd, id),
             ~UNCHANGED maps
      PROVE  Kept' /\ DOMAIN all_clients \subseteq DOMAIN all_clients'
  <2>1. /\ id \in DOMAIN all_clients /\ all_clients[id].id = id
        /\ topics_subs' = topics_subs
        /\ all_clients' = Insert(Erase(all_clients, id), id, all_clients[id])
        /\ active_ids_sockets' = Insert(active_ids_sockets, id, fd)
        /\ store_and_forward' = Erase(store_and_forward, id)
    BY <1>6 DEF Reconnect, SigPipe, SessionTablesAgree
  <2>2. /\ DOMAIN all_clients' = DOMAIN all_clients
        /\ DOMAIN active_ids_sockets' = DOMAIN active_ids_sockets \cup {id}
        /\ DOMAIN store_and_forward' = DOMAIN store_and_forward \ {id}
        /\ \A j \in DOMAIN store_and_forward' : store_and_forward'[j] = store_and_forward[j]
    BY <2>1 DEF Insert, Erase, Restrict
  <2>3. \A j \in DOMAIN store_and_forward' : j \notin DOMAIN active_ids_sockets'
    BY <2>2 DEF KeptInv, Kept
  <2> QED
    BY <1>3, <2>1, <2>2, <2>3, KeepsKept
<1>7. ASSUME NEW c \in ConnIds, NEW fd \in ClientFds, NEW id \in AnyId,
             RejectConnection(c, fd, id)
      PROVE  UNCHANGED maps
  BY <1>7 DEF RejectConnection
<1>8. UNCHANGED maps => DOMAIN all_clients \subseteq DOMAIN all_clients'
  BY DEF maps
<1>9. Kept' /\ DOMAIN all_clients \subseteq DOMAIN all_clients'
  BY <1>4, <1>5, <1>6, <1>7, <1>8 DEF HandleConnectionRequest
<1> QED
  BY <1>2, <1>9

\* A datagram.
LEMMA UdpKept ==
    ASSUME TypeOK, SessionTablesAgree, Once(topics_subs), KeptInv, HandleUdpMessage
    PROVE  Kept' /\ all_clients' = all_clients /\ Numbered'
<1> DEFINE m == Head(udpq)
<1>1. /\ udpq # <<>> /\ udpq' = Tail(udpq) /\ published' = published
      /\ UnknownTopic(m) \/ Forward(m)
  BY DEF HandleUdpMessage, env
<1>2. Numbered' /\ Handled' = Handled + 1 /\ Handled \in Int /\ m \in Message
      /\ m.seq = Handled + 1
  BY <1>1, NextHandled DEF KeptInv
<1> HIDE DEF m
<1>3. CASE UnknownTopic(m)
  <2>1. /\ SameBooks(topics_subs, topics_subs')
        /\ UNCHANGED <<all_clients, active_ids_sockets, store_and_forward>>
    BY <1>3, TopicBooks DEF UnknownTopic
  <2>2. Handled' \in Int /\ Handled <= Handled'
    BY <1>2
  <2>3. Kept'
    BY <2>1, <2>2, KeepsKept DEF KeptInv, Kept, SameBooks
  <2> QED
    BY <1>2, <2>1, <2>3
<1>4. CASE Forward(m)
  <2>1. all_clients' = all_clients
    BY <1>4, Zenon DEF Forward, SigPipe, maps
  <2> QED
    BY <1>2, <1>4, <2>1, ForwardKept
<1> QED
  BY <1>1, <1>3, <1>4

\* A client's end or its requests: they concern a client that is connected, for whom
\* nothing is kept.
LEMMA TcpKept ==
    ASSUME TypeOK, SessionTablesAgree, Once(topics_subs), KeptInv, [Next]_vars,
           NEW i \in ClientFds, HandleTcpMessage(i)
    PROVE  Kept' /\ all_clients' = all_clients /\ Numbered'
<1>1. udpq' = udpq /\ published' = published /\ i \in DOMAIN sock
  BY DEF HandleTcpMessage, env
<1>2. Numbered' /\ Handled' = Handled /\ Handled \in Int
  BY <1>1, StillNumbered DEF KeptInv
<1>3. Handled' \in Int /\ Handled <= Handled'
  BY <1>2
<1>4. CASE Disconnect(i) \/ ReceiveError(i) \/ \E req \in Request : IgnoreRequest(i, req)
  <2>1. /\ UNCHANGED <<all_clients, topics_subs, store_and_forward>>
        /\ DOMAIN active_ids_sockets' \subseteq DOMAIN active_ids_sockets
    BY <1>4 DEF Disconnect, ReceiveError, IgnoreRequest, Take, maps, Erase, Restrict
  <2> QED
    BY <1>2, <1>3, <2>1, KeepsKept DEF KeptInv, Kept
<1>5. ASSUME NEW req \in Request, Subscribe(i, req) \/ Unsubscribe(i, req)
      PROVE  Kept' /\ all_clients' = all_clients
  <2>1. UNCHANGED <<all_clients, active_ids_sockets, store_and_forward>>
    BY <1>5 DEF Subscribe, Unsubscribe, Take
  <2>2. Books(topics_subs, topics_subs', req.topic, active_clients[i].id, req.sf)
    BY <1>1, <1>5, RequestBooks
  <2>3. \A id \in DOMAIN store_and_forward :
            id \notin DOMAIN active_ids_sockets /\ id # active_clients[i].id
    BY <1>1, SessionKnown DEF KeptInv, Kept
  <2>4. \A id \in DOMAIN store_and_forward :
            \A t : Holds(topics_subs, t, id, "on") => Holds(topics_subs', t, id, "on")
    BY <2>2, <2>3 DEF Books
  <2> QED
    BY <1>3, <2>1, <2>3, <2>4, KeepsKept
<1> QED
  BY <1>2, <1>4, <1>5 DEF HandleTcpMessage

LEMMA StepKept ==
    ASSUME TypeOK, SessionTablesAgree, Once(topics_subs), KeptInv, [Next]_vars
    PROVE  KeptInv'
<1>1. CASE Select \/ HandleStdinMessage \/ UNCHANGED vars
  <2>1. UNCHANGED <<maps, udpq, published>>
    BY <1>1 DEF Select, HandleStdinMessage, vars, env
  <2> QED
    BY <2>1, StillNumbered DEF KeptInv, Subscribers, Kept, maps
<1>2. ASSUME Kept', DOMAIN all_clients \subseteq DOMAIN all_clients', Numbered'
      PROVE  KeptInv'
  <2>1. Subscribers'
    BY <1>2, StepSubscribers DEF KeptInv
  <2> QED
    BY <1>2, <2>1 DEF KeptInv
<1>3. CASE HandleConnectionRequest
  BY <1>2, <1>3, ConnectionKept
<1>4. CASE HandleUdpMessage
  BY <1>2, <1>4, UdpKept
<1>5. ASSUME NEW i \in ClientFds, HandleTcpMessage(i) PROVE KeptInv'
  BY <1>2, <1>5, TcpKept
<1>6. CASE (\E id \in Ids : Connect(id)) \/ (\E c \in ConnIds : Subscriber(c)) \/ TypeExit
  <2>1. UNCHANGED <<broker, udpq, published>>
    BY <1>6 DEF Connect, Subscriber, SendId, Receive, ReceiveEnd, Exit, Kill, SendRequest,
                TypeExit, env
  <2> QED
    BY <2>1, StillNumbered DEF KeptInv, Subscribers, Kept, broker, maps
<1>7. ASSUME NEW topic \in Topics, Publish(topic) PROVE KeptInv'
  <2>1. UNCHANGED broker
    BY <1>7 DEF Publish
  <2> QED
    BY <1>7, <2>1, PublishNumbered DEF KeptInv, Subscribers, Kept, broker, maps
<1> QED
  BY <1>1, <1>3, <1>4, <1>5, <1>6, <1>7 DEF Next, BrokerStep

LEMMA InitKept == Init => KeptInv
BY DEF Init, KeptInv, Numbered, Handled, Subscribers, Holds, Kept

\* Messages are kept only for a client that is away, on a topic it subscribed to with
\* store-and-forward, in the order of publication (server_helper.cpp,
\* send_to_subscribers and reconnect): no request, departure or return of another
\* client disturbs what is kept for it, and its own return takes all of it.
THEOREM KeptForAbsent == Spec => []KeptOnlyForAbsent
<1>1. KeptInv => KeptOnlyForAbsent
  BY DEF KeptInv, Kept, KeptList, KeptOnlyForAbsent, Holds, PlacesOf
<1>2. SocketInv /\ Once(topics_subs) /\ KeptInv /\ [Next]_vars => KeptInv'
  BY StepKept DEF SocketInv
<1> QED
  BY <1>1, <1>2, InitKept, OnceInvariant, PTL DEF Spec
-----------------------------------------------------------------------------
(* The broker and PubSub.  First what is on the way to subscribers that are  *)
(* not there, or that the broker has not met.                                *)

\* Nothing is on its way to a connection that was not accepted, nor to a subscriber
\* that has ended.
Silent ==
    \A c \in DOMAIN conn :
        c > Accepted \/ conn[c].client # "open" => conn[c].down = <<>>

\* What a step may do to the messages for a connection, when n are accepted.
Hushes(v, w, c, n) ==
    \/ w.down = <<>>
    \/ w.client = v.client /\ w.down = v.down
    \/ v.client = "open" /\ w.client = "open" /\ c <= n

LEMMA StillSilent ==
    ASSUME TypeOK, InOrder, Silent, DOMAIN conn' = DOMAIN conn,
           Accepted' \in Int, Accepted <= Accepted',
           \A c \in DOMAIN conn : Hushes(conn[c], conn'[c], c, Accepted')
    PROVE  Silent'
<1> SUFFICES ASSUME NEW c \in DOMAIN conn, c > Accepted' \/ conn'[c].client # "open"
             PROVE  conn'[c].down = <<>>
  BY DEF Silent
<1>1. Accepted \in Int /\ c \in Int
  BY CountsTyped
<1>2. Hushes(conn[c], conn'[c], c, Accepted')
  OBVIOUS
<1>3. c > Accepted' => c > Accepted /\ ~(c <= Accepted')
  BY <1>1
<1> QED
  BY <1>2, <1>3 DEF Hushes, Silent

\* A step that accepts nothing.
LEMMA SameAccepted ==
    ASSUME TypeOK, InOrder, backlog' = backlog, DOMAIN conn' = DOMAIN conn, TypeOK'
    PROVE  Accepted' = Accepted /\ Accepted' \in Int /\ Accepted <= Accepted'
<1>1. Len(conn') = Len(conn)
  <2>1. conn \in Seq(Connection) /\ conn' \in Seq(Connection)
    BY DEF TypeOK, NetworkOK
  <2>2. /\ Len(conn) \in Nat /\ Len(conn') \in Nat
        /\ DOMAIN conn = 1 .. Len(conn) /\ DOMAIN conn' = 1 .. Len(conn')
    BY <2>1
  <2> QED
    BY <2>2
<1>2. Accepted' = Accepted
  BY <1>1 DEF Accepted
<1> QED
  BY <1>2, CountsTyped

\* What was written to the connections has reached those whose subscriber is there.
Sends(cn, cn2, out) ==
    /\ DOMAIN cn2 = DOMAIN cn
    /\ \A d \in DOMAIN cn :
          /\ cn2[d].client = cn[d].client
          /\ cn[d].client = "open" => cn2[d].down = cn[d].down \o out[d]
          /\ cn[d].client # "open" => cn2[d].down = cn[d].down

LEMMA TransmitSends == ASSUME TypeOK, NEW out PROVE Sends(conn, Transmit(out), out)
<1>1. DOMAIN Transmit(out) = DOMAIN conn
  BY DEF Transmit
<1>2. \A d \in DOMAIN conn :
          /\ Transmit(out)[d].client = conn[d].client
          /\ conn[d].client = "open" => Transmit(out)[d].down = conn[d].down \o out[d]
          /\ conn[d].client # "open" => Transmit(out)[d].down = conn[d].down
  BY TransmitFields
<1> QED
  BY <1>1, <1>2 DEF Sends

LEMMA SigPipeSends ==
    ASSUME TypeOK, NEW c, NEW out, \A d \in DOMAIN conn : out[d] \in Seq(Message), SigPipe(c, out)
    PROVE  Sends(conn, conn', out)
<1> DEFINE cn == Transmit(out)
<1>1. conn' = HangUpAll(cn) /\ cn \in Seq(Connection)
  BY TransmitType DEF SigPipe, TypeOK, NetworkOK
<1>2. Sends(conn, cn, out)
  BY TransmitSends
<1> HIDE DEF cn
<1>3. \A d \in DOMAIN cn : conn'[d].client = cn[d].client /\ conn'[d].down = cn[d].down
  BY <1>1, HangUpFields
<1>4. DOMAIN conn' = DOMAIN cn
  BY <1>1 DEF HangUpAll
<1> QED
  BY <1>2, <1>3, <1>4 DEF Sends

\* Nothing changes where nothing was written.
LEMMA SendsNothing ==
    ASSUME TypeOK, NEW cn2, NEW out, Sends(conn, cn2, out), NEW d \in DOMAIN conn, out[d] = <<>>
    PROVE  cn2[d].client = conn[d].client /\ cn2[d].down = conn[d].down
<1>1. conn[d].down \in Seq(Message)
  BY ConnectionFacts DEF TypeOK
<1>2. conn[d].down \o <<>> = conn[d].down
  BY <1>1, ConcatEmptySeq
<1> QED
  BY <1>2 DEF Sends

\* Sending what is for accepted connections only.
LEMMA SendsSilent ==
    ASSUME TypeOK, InOrder, Silent, NEW out, Sends(conn, conn', out),
           Accepted' \in Int, Accepted <= Accepted',
           \A d \in DOMAIN conn : d > Accepted' => out[d] = <<>>
    PROVE  Silent'
<1>1. ASSUME NEW d \in DOMAIN conn PROVE Hushes(conn[d], conn'[d], d, Accepted')
  <2>1. CASE conn[d].client # "open"
    BY <2>1 DEF Hushes, Sends
  <2>2. CASE d > Accepted'
    <3>1. out[d] = <<>>
      BY <2>2
    <3> QED
      BY <3>1, SendsNothing DEF Hushes
  <2>3. CASE conn[d].client = "open" /\ ~(d > Accepted')
    <3>1. d <= Accepted'
      BY <2>3, CountsTyped
    <3> QED
      BY <2>3, <3>1 DEF Hushes, Sends
  <2> QED
    BY <2>1, <2>2, <2>3
<1>2. DOMAIN conn' = DOMAIN conn
  BY DEF Sends
<1> QED
  BY <1>1, <1>2, StillSilent

\* What a subscriber does: nothing that the broker's promises are about, or it reads a
\* message, or it ends.
Reads(v, w) == w.client = "open" /\ v.down # <<>> /\ w.down = Tail(v.down)
Ends(w) == w.client # "open" /\ w.down = <<>>
Like(v, w) == w.client = v.client /\ w.down = v.down

LEMMA SubscriberEffects ==
    ASSUME TypeOK, NEW c, Subscriber(c)
    PROVE  /\ c \in DOMAIN conn /\ conn[c].client = "open" /\ DOMAIN conn' = DOMAIN conn
           /\ \A d \in DOMAIN conn : d # c => conn'[d] = conn[d]
           /\ Like(conn[c], conn'[c]) \/ Reads(conn[c], conn'[c]) \/ Ends(conn'[c])
           /\ UNCHANGED <<broker, backlog, udpq, published>>
<1>1. /\ c \in DOMAIN conn /\ conn[c].client = "open"
      /\ UNCHANGED <<broker, backlog, udpq, published>>
  BY DEF Subscriber, SendId, Receive, ReceiveEnd, Exit, Kill, SendRequest, env, Running
<1>2. conn[c] \in Connection
  BY <1>1, ConnectionFacts DEF TypeOK
<1> DEFINE v == conn[c]
<1>3. ASSUME NEW w, conn' = [conn EXCEPT ![c] = w], Like(v, w) \/ Reads(v, w) \/ Ends(w)
      PROVE  /\ DOMAIN conn' = DOMAIN conn
             /\ \A d \in DOMAIN conn : d # c => conn'[d] = conn[d]
             /\ Like(v, conn'[c]) \/ Reads(v, conn'[c]) \/ Ends(conn'[c])
  BY <1>1, <1>3
<1>4. CASE SendId(c)
  <2> DEFINE w == [v EXCEPT !.hello = TRUE]
  <2>1. conn' = [conn EXCEPT ![c] = w]
    BY <1>4 DEF SendId
  <2>2. Like(v, w)
    BY <1>2 DEF Like, Connection
  <2> HIDE DEF w, v
  <2> QED
    BY <1>1, <1>3, <2>1, <2>2 DEF v
<1>5. CASE Receive(c)
  <2> DEFINE w == [v EXCEPT !.down = Tail(v.down)]
  <2>1. conn' = [conn EXCEPT ![c] = w] /\ v.down # <<>>
    BY <1>5 DEF Receive
  <2>2. Reads(v, w)
    BY <1>1, <1>2, <2>1 DEF Reads, Connection
  <2> HIDE DEF w, v
  <2> QED
    BY <1>1, <1>3, <2>1, <2>2 DEF v
<1>6. CASE ReceiveEnd(c)
  <2> DEFINE w == [v EXCEPT !.client = "closed"]
  <2>1. conn' = [conn EXCEPT ![c] = w] /\ v.down = <<>>
    BY <1>6 DEF ReceiveEnd
  <2>2. Ends(w)
    BY <1>1, <1>2, <2>1 DEF Ends, Connection
  <2> HIDE DEF w, v
  <2> QED
    BY <1>1, <1>3, <2>1, <2>2 DEF v
<1>7. CASE Exit(c)
  <2> DEFINE b == v.down # <<>> /\ v.broker = "open"
             w == [v EXCEPT !.client = "closed", !.down = <<>>, !.broken = b]
  <2>1. conn' = [conn EXCEPT ![c] = w]
    BY <1>7 DEF Exit
  <2> HIDE DEF b
  <2>2. Ends(w)
    BY <1>2 DEF Ends, Connection
  <2> HIDE DEF w, v
  <2> QED
    BY <1>1, <1>3, <2>1, <2>2 DEF v
<1>8. CASE Kill(c)
  <2> DEFINE e == IF v.down = <<>> THEN "closed" ELSE "aborted"
             w == [v EXCEPT !.client = e, !.down = <<>>]
  <2>1. conn' = [conn EXCEPT ![c] = w]
    BY <1>8 DEF Kill
  <2>2. e # "open"
    OBVIOUS
  <2> HIDE DEF e
  <2>3. Ends(w)
    BY <1>2, <2>2 DEF Ends, Connection
  <2> HIDE DEF w, v
  <2> QED
    BY <1>1, <1>3, <2>1, <2>3 DEF v
<1>9. ASSUME NEW req \in Request, SendRequest(c, req)
      PROVE  /\ DOMAIN conn' = DOMAIN conn
             /\ \A d \in DOMAIN conn : d # c => conn'[d] = conn[d]
             /\ Like(v, conn'[c]) \/ Reads(v, conn'[c]) \/ Ends(conn'[c])
  <2> DEFINE w == [v EXCEPT !.up = Append(v.up, req)]
  <2>1. conn' = [conn EXCEPT ![c] = w] \/ conn' = conn
    BY <1>9 DEF SendRequest
  <2>2. Like(v, w) /\ Like(v, v)
    BY <1>2 DEF Like, Connection
  <2> HIDE DEF w
  <2> QED
    BY <1>1, <1>3, <2>1, <2>2
<1> QED
  BY <1>1, <1>4, <1>5, <1>6, <1>7, <1>8, <1>9 DEF Subscriber

\* The next connection is taken from the queue, whatever becomes of it.
LEMMA TakeConnection ==
    ASSUME TypeOK, SessionTablesAgree, InOrder, NEW c, NEW fd, NEW id, Accepting(c, fd, id),
           DOMAIN conn' = DOMAIN conn, TypeOK'
    PROVE  /\ status = "running" /\ udpq' = udpq /\ published' = published
           /\ fd \notin DOMAIN sock /\ fd \in ClientFds
           /\ c = Accepted + 1 /\ Accepted' = c /\ Accepted \in Int /\ c \in DOMAIN conn
           /\ Accepted' \in Int /\ Accepted <= Accepted'
<1>1. /\ status = "running" /\ backlog # <<>> /\ c = Head(backlog) /\ backlog' = Tail(backlog)
      /\ udpq' = udpq /\ published' = published /\ fd \notin DOMAIN sock /\ fd \in ClientFds
  BY DEF Accepting, Scan, Lowest, env
<1>2. Len(conn') = Len(conn)
  BY LenProperties DEF TypeOK, NetworkOK
<1>3. Head(backlog) = Accepted + 1 /\ Accepted' = Accepted + 1 /\ Accepted + 1 \in DOMAIN conn
  BY <1>1, <1>2, NextAccepted
<1>4. Accepted \in Int
  BY CountsTyped
<1> QED
  BY <1>1, <1>3, <1>4

\* What reconnect() sends goes to a descriptor, that of the new connection or another.
LEMMA StoredToFd ==
    ASSUME TypeOK, InOrder, NEW c \in DOMAIN conn, NEW fd, c = Accepted + 1, NEW s, NEW id, NEW n,
           NEW d \in DOMAIN conn, d > c
    PROVE  StoredTo(Insert(sock, fd, c), s, id, n)[d] = <<>>
<1> DEFINE sk == Insert(sock, fd, c)
<1>1. \A i \in DOMAIN sk : sk[i] = c \/ (i \in DOMAIN sock /\ sk[i] = sock[i])
  BY DEF Insert
<1>2. c \in Int /\ d \in Int /\ \A i \in DOMAIN sock : sock[i] \in Int /\ sock[i] < c
  BY CountsTyped
<1>3. \A i \in DOMAIN sk : sk[i] # d
  BY <1>1, <1>2
<1> HIDE DEF sk
<1>4. ~(s \in DOMAIN sk /\ sk[s] = d)
  BY <1>3
<1> QED
  BY <1>4 DEF StoredTo, sk

\* What the three outcomes of a connection request do to the connections.
LEMMA RejectEffects ==
    ASSUME TypeOK, NEW c \in DOMAIN conn, NEW fd, NEW id, RejectConnection(c, fd, id)
    PROVE  /\ DOMAIN conn' = DOMAIN conn /\ \A d \in DOMAIN conn : Like(conn[d], conn'[d])
           /\ UNCHANGED <<status, topics_subs, active_ids_sockets, store_and_forward, sock>>
<1>1. /\ conn' = [conn EXCEPT ![c].broker = "closed"]
      /\ UNCHANGED <<status, topics_subs, active_ids_sockets, store_and_forward, sock>>
  BY DEF RejectConnection, maps
<1>2. conn[c] \in Connection
  BY ConnectionFacts DEF TypeOK
<1> DEFINE w == [conn[c] EXCEPT !.broker = "closed"]
<1>3. Like(conn[c], w)
  BY <1>2 DEF Like, Connection
<1>4. conn' = [conn EXCEPT ![c] = w]
  BY <1>1
<1> HIDE DEF w
<1>5. \A d \in DOMAIN conn : Like(conn[d], conn'[d])
  BY <1>3, <1>4 DEF Like
<1> QED
  BY <1>1, <1>4, <1>5

\* A client comes back, or the broker dies over what it had kept for it.
Returns(c, fd, id) ==
    LET s == all_clients[id].socket
        out == StoredTo(Insert(sock, fd, c), s, id, Len(Stored(id)))
    IN  /\ Sends(conn, conn', out)
        /\ status' = status /\ topics_subs' = topics_subs
        /\ active_ids_sockets' = Insert(active_ids_sockets, id, fd)
        /\ store_and_forward' = Erase(store_and_forward, id)
        /\ sock' = Insert(sock, fd, c)
        /\ all_clients'[id].socket = s

DiesOver(c, fd, id) ==
    \E k \in Nat :
        LET s == all_clients[id].socket
            sk == Insert(sock, fd, c)
            out == StoredTo(sk, s, id, k)
        IN  /\ Sends(conn, conn', out)
            /\ s \in DOMAIN sk /\ conn[sk[s]].client # "open"
            /\ status' = "killed"
            /\ UNCHANGED <<topics_subs, active_ids_sockets, store_and_forward, sock>>

LEMMA ReconnectEffects ==
    ASSUME TypeOK, SessionTablesAgree, NEW c, NEW fd, NEW id, Reconnect(c, fd, id)
    PROVE  Returns(c, fd, id) \/ DiesOver(c, fd, id)
<1> DEFINE client == all_clients[id]
           sk == Insert(sock, fd, c)
           s == all_clients[id].socket
           out(k) == StoredTo(sk, s, id, k)
<1>1. id \in DOMAIN all_clients /\ client.id = id
  BY DEF Reconnect, SessionTablesAgree
<1>2. CASE /\ active_ids_sockets' = Insert(active_ids_sockets, client.id, fd)
           /\ all_clients' = Insert(Erase(all_clients, id), id, client)
           /\ store_and_forward' = Erase(store_and_forward, client.id)
           /\ sock' = sk
           /\ conn' = Transmit(StoredTo(sk, client.socket, client.id, Len(Stored(client.id))))
           /\ UNCHANGED <<status, topics_subs>>
  <2>1. Sends(conn, conn', out(Len(Stored(id))))
    BY <1>1, <1>2, TransmitSends
  <2>2. all_clients'[id] = client
    BY <1>2 DEF Insert, Erase, Restrict
  <2> QED
    BY <1>1, <1>2, <2>1, <2>2 DEF Returns
<1>3. ASSUME NEW k \in 1 .. Len(Stored(client.id)), client.socket \in DOMAIN sk,
             SigPipe(sk[client.socket], StoredTo(sk, client.socket, client.id, k - 1))
      PROVE  DiesOver(c, fd, id)
  <2>1. Stored(id) \in Seq(Message) /\ k \in 1 .. Len(Stored(id))
    BY <1>1, <1>3, StoreTyped
  <2>2. k - 1 \in 0 .. Len(Stored(id)) /\ k - 1 \in Nat
    BY <2>1
  <2>3. \A d \in DOMAIN conn : out(k - 1)[d] \in Seq(Message)
    BY <2>2, StoredToType
  <2>4. SigPipe(sk[s], out(k - 1))
    BY <1>1, <1>3
  <2> HIDE DEF out
  <2>5. Sends(conn, conn', out(k - 1))
    BY <2>3, <2>4, SigPipeSends
  <2>6. /\ status' = "killed" /\ conn[sk[s]].client # "open"
        /\ UNCHANGED <<topics_subs, active_ids_sockets, store_and_forward, sock>>
    BY <2>4 DEF SigPipe, maps
  <2> QED
    BY <1>3, <2>2, <2>5, <2>6 DEF DiesOver, out
<1> QED
  BY <1>2, <1>3, Zenon DEF Reconnect

\* A datagram is forwarded to the first n of the topic's subscriptions, and then kept
\* for the absent ones, or the broker dies over the next.
Forwards(m, n) ==
    /\ Sends(conn, conn', Forwarded(topics_subs[m.topic], m, n))
    /\ UNCHANGED <<topics_subs, active_ids_sockets, sock>>

KeepsFor(m) ==
    LET subs == topics_subs[m.topic]
        keepers == {id \in AnyId : KeptFor(subs, id) # {}}
    IN  /\ status' = status
        /\ store_and_forward' = [id \in DOMAIN store_and_forward \cup keepers |->
                                    Stored(id) \o Copies(m, Cardinality(KeptFor(subs, id)))]

LEMMA ForwardEffects ==
    ASSUME TypeOK, NEW m \in Message, Forward(m)
    PROVE  /\ m.topic \in DOMAIN topics_subs
           /\ \/ Forwards(m, Len(topics_subs[m.topic])) /\ KeepsFor(m)
              \/ \E n \in Nat : /\ Forwards(m, n) /\ status' = "killed"
                                /\ store_and_forward' = store_and_forward
<1> DEFINE subs == topics_subs[m.topic]
           out(n) == Forwarded(subs, m, n)
<1>1. m.topic \in DOMAIN topics_subs
  BY DEF Forward
<1>2. ASSUME conn' = Transmit(out(Len(subs))), UNCHANGED <<active_ids_sockets, topics_subs, sock>>
      PROVE  Forwards(m, Len(subs))
  <2>1. Sends(conn, conn', out(Len(subs)))
    BY <1>2, TransmitSends
  <2> QED
    BY <1>2, <2>1 DEF Forwards
<1>3. ASSUME NEW c \in DOMAIN conn, NEW k \in SentTo(subs, c), SigPipe(c, out(k - 1))
      PROVE  \E n \in Nat : /\ Forwards(m, n) /\ status' = "killed"
                            /\ store_and_forward' = store_and_forward
  <2>1. k \in DOMAIN subs /\ subs \in Seq(Subscription)
    BY <1>1, <1>3 DEF SentTo, TypeOK, TopicsOK
  <2>2. k - 1 \in Nat
    BY <2>1
  <2>3. \A d \in DOMAIN conn : out(k - 1)[d] \in Seq(Message)
    BY <2>2, ForwardedType
  <2>4. /\ status' = "killed" /\ UNCHANGED <<topics_subs, active_ids_sockets, sock>>
        /\ store_and_forward' = store_and_forward
    BY <1>3 DEF SigPipe, maps
  <2> HIDE DEF out
  <2>5. Sends(conn, conn', out(k - 1))
    BY <1>3, <2>3, SigPipeSends
  <2>6. Forwards(m, k - 1)
    BY <2>4, <2>5 DEF Forwards, out
  <2> QED
    BY <2>2, <2>4, <2>6
<1>4. \/ /\ conn' = Transmit(out(Len(subs))) /\ KeepsFor(m)
         /\ UNCHANGED <<active_ids_sockets, topics_subs, sock>>
      \/ \E c \in DOMAIN conn : \E k \in SentTo(subs, c) : SigPipe(c, out(k - 1))
  BY Zenon DEF Forward, KeepsFor
<1> QED
  BY <1>1, <1>2, <1>3, <1>4

\* The requests and the end of a client: no message is added or lost.
LEMMA TcpEffects ==
    ASSUME TypeOK, NEW i, HandleTcpMessage(i)
    PROVE  /\ i \in DOMAIN sock /\ DOMAIN conn' = DOMAIN conn
           /\ \A d \in DOMAIN conn : Like(conn[d], conn'[d])
           /\ UNCHANGED <<backlog, udpq, published, store_and_forward>>
<1>1. /\ i \in DOMAIN sock /\ sock[i] \in DOMAIN conn
      /\ UNCHANGED <<backlog, udpq, published, store_and_forward>>
  BY DEF HandleTcpMessage, Disconnect, ReceiveError, IgnoreRequest, Subscribe, Unsubscribe,
         Take, env, maps, TypeOK, NetworkOK
<1> DEFINE c == sock[i]
<1>2. conn[c] \in Connection /\ conn \in Seq(Connection)
  BY <1>1, ConnectionFacts DEF TypeOK
<1>3. ASSUME NEW w, Like(conn[c], w), conn' = [conn EXCEPT ![c] = w]
      PROVE  DOMAIN conn' = DOMAIN conn /\ \A d \in DOMAIN conn : Like(conn[d], conn'[d])
  BY <1>1, <1>3 DEF Like
<1>4. CASE Disconnect(i)
  <2> DEFINE w == [conn[c] EXCEPT !.broker = "closed"]
  <2>1. conn' = [conn EXCEPT ![c] = w]
    BY <1>4 DEF Disconnect
  <2>2. Like(conn[c], w)
    BY <1>2 DEF Like, Connection
  <2> HIDE DEF w
  <2> QED
    BY <1>1, <1>3, <2>1, <2>2
<1>5. CASE ReceiveError(i)
  <2>1. conn' = HangUpAll(conn)
    BY <1>5 DEF ReceiveError
  <2>2. DOMAIN conn' = DOMAIN conn
    BY <2>1 DEF HangUpAll
  <2>3. \A d \in DOMAIN conn : Like(conn[d], conn'[d])
    BY <1>2, <2>1, HangUpFields DEF Like
  <2> QED
    BY <1>1, <2>2, <2>3
<1>6. ASSUME NEW req, Take(i, req)
      PROVE  DOMAIN conn' = DOMAIN conn /\ \A d \in DOMAIN conn : Like(conn[d], conn'[d])
  <2> DEFINE w == [conn[c] EXCEPT !.up = Tail(conn[c].up)]
  <2>1. conn' = [conn EXCEPT ![c] = w]
    BY <1>6 DEF Take
  <2>2. Like(conn[c], w)
    BY <1>2 DEF Like, Connection
  <2> HIDE DEF w
  <2> QED
    BY <1>1, <1>3, <2>1, <2>2
<1>7. \/ Disconnect(i) \/ ReceiveError(i) \/ \E req \in Request : Take(i, req)
  BY DEF HandleTcpMessage, IgnoreRequest, Subscribe, Unsubscribe
<1> QED
  BY <1>1, <1>4, <1>5, <1>6, <1>7

\* A message is written to connections with a descriptor only.
LEMMA ForwardedElsewhere ==
    ASSUME NEW subs, NEW m, NEW n \in Nat, NEW d \in DOMAIN conn, SentTo(subs, d) \cap 1 .. n = {}
    PROVE  Forwarded(subs, m, n)[d] = <<>>
<1>1. Cardinality(SentTo(subs, d) \cap 1 .. n) = 0
  BY FS_EmptySet
<1>2. Copies(m, 0) = <<>>
  BY DEF Copies
<1> QED
  BY <1>1, <1>2 DEF Forwarded

LEMMA StepSilent ==
    ASSUME TypeOK, SessionTablesAgree, InOrder, Silent, TypeOK', [Next]_vars
    PROVE  Silent'
<1>1. CASE UNCHANGED <<conn, backlog>>
  BY <1>1 DEF Silent, Accepted
<1>2. CASE HandleStdinMessage
  <2>1. conn' = HangUpAll(conn) /\ backlog' = backlog /\ conn \in Seq(Connection)
    BY <1>2 DEF HandleStdinMessage, TypeOK, NetworkOK
  <2>2. DOMAIN conn' = DOMAIN conn
    BY <2>1 DEF HangUpAll
  <2>3. \A d \in DOMAIN conn : conn'[d].client = conn[d].client /\ conn'[d].down = conn[d].down
    BY <2>1, HangUpFields
  <2>4. Accepted' \in Int /\ Accepted <= Accepted'
    BY <2>1, <2>2, SameAccepted
  <2>5. \A d \in DOMAIN conn : Hushes(conn[d], conn'[d], d, Accepted')
    BY <2>3 DEF Hushes
  <2> QED
    BY <2>2, <2>4, <2>5, StillSilent
<1>3. CASE HandleConnectionRequest
  <2>1. PICK c \in ConnIds, fd \in ClientFds, id \in AnyId :
           RejectConnection(c, fd, id) \/ AddNewClient(c, fd, id) \/ Reconnect(c, fd, id)
    BY <1>3 DEF HandleConnectionRequest
  <2>2. Accepting(c, fd, id)
    BY <2>1 DEF RejectConnection, AddNewClient, Reconnect
  <2>3. c \in DOMAIN conn
    BY <2>2, TailElements DEF Accepting, TypeOK, NetworkOK
  <2>4. CASE \A d \in DOMAIN conn : Like(conn[d], conn'[d])
    <3>1. CASE DOMAIN conn' = DOMAIN conn
      <4>1. Accepted' \in Int /\ Accepted <= Accepted'
        BY <2>2, <3>1, TakeConnection
      <4>2. \A d \in DOMAIN conn : Hushes(conn[d], conn'[d], d, Accepted')
        BY <2>4 DEF Hushes, Like
      <4> QED
        BY <3>1, <4>1, <4>2, StillSilent
    <3>2. CASE AddNewClient(c, fd, id)
      BY <3>1, <3>2 DEF AddNewClient
    <3>3. CASE RejectConnection(c, fd, id)
      BY <2>3, <3>1, <3>3, RejectEffects
    <3>4. CASE Reconnect(c, fd, id)
      <4>1. DOMAIN conn' = DOMAIN conn
        BY <3>4, ReconnectEffects DEF Returns, DiesOver, Sends
      <4> QED
        BY <3>1, <4>1
    <3> QED
      BY <2>1, <3>2, <3>3, <3>4
  <2>5. CASE Reconnect(c, fd, id)
    <3>1. PICK k : Sends(conn, conn', StoredTo(Insert(sock, fd, c), all_clients[id].socket, id, k))
      BY <2>5, ReconnectEffects DEF Returns, DiesOver
    <3> DEFINE out == StoredTo(Insert(sock, fd, c), all_clients[id].socket, id, k)
    <3>2. DOMAIN conn' = DOMAIN conn
      BY <3>1 DEF Sends
    <3>3. c = Accepted + 1 /\ Accepted' = c /\ Accepted' \in Int /\ Accepted <= Accepted'
      BY <2>2, <3>2, TakeConnection
    <3>4. \A d \in DOMAIN conn : d > Accepted' => out[d] = <<>>
      BY <2>3, <3>3, StoredToFd
    <3> HIDE DEF out
    <3> QED
      BY <3>1, <3>3, <3>4, SendsSilent DEF out
  <2>6. CASE RejectConnection(c, fd, id)
    BY <2>3, <2>4, <2>6, RejectEffects
  <2>7. CASE AddNewClient(c, fd, id)
    BY <2>4, <2>7 DEF AddNewClient, Like
  <2> QED
    BY <2>1, <2>5, <2>6, <2>7
<1>4. CASE HandleUdpMessage
  <2>1. /\ Head(udpq) \in Message /\ backlog' = backlog
        /\ UnknownTopic(Head(udpq)) \/ Forward(Head(udpq))
    BY <1>4, StoreTyped, TailElements DEF HandleUdpMessage
  <2>2. PICK m \in Message : UnknownTopic(m) \/ Forward(m)
    BY <2>1
  <2>3. CASE UnknownTopic(m)
    BY <1>1, <2>1, <2>3 DEF UnknownTopic
  <2>4. CASE Forward(m)
    <3>1. m.topic \in DOMAIN topics_subs /\ \E n \in Nat : Forwards(m, n)
      <4>1. m.topic \in DOMAIN topics_subs
        BY <2>4, ForwardEffects
      <4>2. Len(topics_subs[m.topic]) \in Nat
        BY <4>1, LenProperties DEF TypeOK, TopicsOK
      <4> QED
        BY <2>4, <4>1, <4>2, ForwardEffects
    <3>2. PICK n \in Nat : Forwards(m, n)
      BY <3>1
    <3> DEFINE subs == topics_subs[m.topic]
               out == Forwarded(subs, m, n)
    <3>3. Sends(conn, conn', out) /\ DOMAIN conn' = DOMAIN conn
      BY <3>2 DEF Forwards, Sends
    <3>4. Accepted' = Accepted /\ Accepted' \in Int /\ Accepted <= Accepted'
      BY <2>1, <3>3, SameAccepted
    <3>5. ASSUME NEW d \in DOMAIN conn, d > Accepted PROVE out[d] = <<>>
      <4>1. \A i \in DOMAIN sock : sock[i] # d
        BY <3>5, CountsTyped
      <4>2. SentTo(subs, d) = {}
        BY <4>1 DEF SentTo
      <4> QED
        BY <4>2, ForwardedElsewhere
    <3> HIDE DEF out
    <3> QED
      BY <3>3, <3>4, <3>5, SendsSilent
  <2> QED
    BY <2>2, <2>3, <2>4
<1>5. ASSUME NEW i \in ClientFds, HandleTcpMessage(i) PROVE Silent'
  <2>1. /\ DOMAIN conn' = DOMAIN conn /\ backlog' = backlog
        /\ \A d \in DOMAIN conn : Like(conn[d], conn'[d])
    BY <1>5, TcpEffects
  <2>2. Accepted' \in Int /\ Accepted <= Accepted'
    BY <2>1, SameAccepted
  <2>3. \A d \in DOMAIN conn : Hushes(conn[d], conn'[d], d, Accepted')
    BY <2>1 DEF Hushes, Like
  <2> QED
    BY <2>1, <2>2, <2>3, StillSilent
<1>6. ASSUME NEW id \in Ids, Connect(id) PROVE Silent'
  <2> DEFINE new == [id |-> id, hello |-> FALSE, client |-> "open",
                     broker |-> "open", broken |-> FALSE, up |-> <<>>, down |-> <<>>]
  <2>1. conn' = Append(conn, new) /\ backlog' = Append(backlog, Len(conn) + 1)
    BY <1>6 DEF Connect
  <2>2. new \in Connection /\ new.down = <<>>
    BY EmptySeq DEF Connection
  <2> HIDE DEF new
  <2>3. /\ Len(conn) \in Nat /\ Len(backlog) \in Nat /\ Accepted \in Nat
        /\ DOMAIN conn = 1 .. Len(conn) /\ conn \in Seq(Connection) /\ backlog \in Seq(DOMAIN conn)
    BY CountsTyped
  <2>4. /\ Len(conn') = Len(conn) + 1 /\ conn' \in Seq(Connection)
        /\ \A c \in 1 .. Len(conn) : conn'[c] = conn[c]
        /\ conn'[Len(conn) + 1] = new
    BY <2>1, <2>2, <2>3, AppendElements
  <2>5. Len(backlog') = Len(backlog) + 1
    <3>1. backlog \in Seq(Nat) /\ Len(conn) + 1 \in Nat
      BY <2>3
    <3> QED
      BY <2>1, <3>1, AppendElements
  <2>6. Accepted' = Accepted /\ DOMAIN conn' = 1 .. Len(conn) + 1
    BY <2>3, <2>4, <2>5 DEF Accepted
  <2> QED
    BY <2>2, <2>3, <2>4, <2>6 DEF Silent
<1>7. ASSUME NEW c \in ConnIds, Subscriber(c) PROVE Silent'
  <2>1. /\ c \in DOMAIN conn /\ conn[c].client = "open" /\ DOMAIN conn' = DOMAIN conn
        /\ \A d \in DOMAIN conn : d # c => conn'[d] = conn[d]
        /\ Like(conn[c], conn'[c]) \/ Reads(conn[c], conn'[c]) \/ Ends(conn'[c])
        /\ backlog' = backlog
    BY <1>7, SubscriberEffects
  <2>2. Accepted' = Accepted /\ Accepted' \in Int /\ Accepted <= Accepted'
    BY <2>1, SameAccepted
  <2>3. Reads(conn[c], conn'[c]) => c <= Accepted
    BY <2>1, CountsTyped DEF Reads, Silent
  <2>4. Hushes(conn[c], conn'[c], c, Accepted')
    BY <2>1, <2>2, <2>3 DEF Hushes, Like, Reads, Ends
  <2>5. \A d \in DOMAIN conn : Hushes(conn[d], conn'[d], d, Accepted')
    BY <2>1, <2>4 DEF Hushes
  <2> QED
    BY <2>1, <2>2, <2>5, StillSilent
<1>8. CASE Select \/ UNCHANGED vars \/ (\E topic \in Topics : Publish(topic)) \/ TypeExit
  BY <1>1, <1>8 DEF Select, vars, Publish, TypeExit
<1> QED
  BY <1>2, <1>3, <1>4, <1>5, <1>6, <1>7, <1>8 DEF Next, BrokerStep

\* Everything the steps below rest on.
RefinementInv == SocketInv /\ Once(topics_subs) /\ KeptInv /\ Silent

LEMMA RefinementInvariant == Spec => []RefinementInv
<1>1. Init => RefinementInv
  <2>1. Init => SocketInv
    BY InitType, InitSessions, InitSocket DEF SocketInv
  <2>2. Init => Once(topics_subs) /\ Silent
    BY DEF Init, Once, Silent
  <2> QED
    BY <2>1, <2>2, InitKept DEF RefinementInv
<1>2. RefinementInv /\ [Next]_vars => RefinementInv'
  <2> SUFFICES ASSUME RefinementInv, [Next]_vars PROVE RefinementInv'
    OBVIOUS
  <2>1. SocketInv'
    BY StepInvariant, StepSessions DEF SocketInv, RefinementInv
  <2>2. Once(topics_subs)'
    BY StepBooks DEF RefinementInv, SocketInv, SameBooks, Books
  <2>3. KeptInv'
    BY StepKept DEF RefinementInv, SocketInv
  <2>4. Silent'
    BY <2>1, StepSilent DEF RefinementInv, SocketInv, Sessions
  <2> QED
    BY <2>1, <2>2, <2>3, <2>4 DEF RefinementInv
<1> QED
  BY <1>1, <1>2, PTL DEF Spec

-----------------------------------------------------------------------------
(* Each step of the broker, of a subscriber and of the publisher, as a step  *)
(* of PubSub.                                                                *)

\* The session of id and what it is owed, in the tables before or after a step.
SessionIn(ais, sk, cn, id) ==
    IF id \notin DOMAIN ais THEN "away"
    ELSE IF cn[sk[ais[id]]].client = "open" THEN "here" ELSE "gone"
OwedIn(ais, sk, cn, store, id) ==
    IF id \in DOMAIN ais THEN cn[sk[ais[id]]].down
    ELSE IF id \in DOMAIN store THEN store[id] ELSE <<>>

LEMMA Views ==
    /\ session = [id \in Ids |-> SessionIn(active_ids_sockets, sock, conn, id)]
    /\ session' = [id \in Ids |-> SessionIn(active_ids_sockets', sock', conn', id)]
    /\ owed = [id \in Ids |-> OwedIn(active_ids_sockets, sock, conn, store_and_forward, id)]
    /\ owed' = [id \in Ids |-> OwedIn(active_ids_sockets', sock', conn', store_and_forward', id)]
<1>1. session = [id \in Ids |-> SessionIn(active_ids_sockets, sock, conn, id)]
  BY DEF session, SessionOf, SessionIn
<1>2. session' = [id \in Ids |-> SessionIn(active_ids_sockets', sock', conn', id)]
  BY DEF session, SessionOf, SessionIn
<1>3. owed = [id \in Ids |-> OwedIn(active_ids_sockets, sock, conn, store_and_forward, id)]
  BY DEF owed, SessionOf, OwedIn, Stored
<1>4. owed' = [id \in Ids |-> OwedIn(active_ids_sockets', sock', conn', store_and_forward', id)]
  BY DEF owed, SessionOf, OwedIn, Stored
<1> QED
  BY <1>1, <1>2, <1>3, <1>4

\* Nothing changes for id.
SameFor(id) ==
    /\ SessionIn(active_ids_sockets', sock', conn', id) =
            SessionIn(active_ids_sockets, sock, conn, id)
    /\ OwedIn(active_ids_sockets', sock', conn', store_and_forward', id) =
            OwedIn(active_ids_sockets, sock, conn, store_and_forward, id)

\* Its session is now s and it is owed w.
NowFor(id, s, w) ==
    /\ SessionIn(active_ids_sockets', sock', conn', id) = s
    /\ OwedIn(active_ids_sockets', sock', conn', store_and_forward', id) = w

LEMMA NobodyMoves ==
    ASSUME \A id \in Ids : SameFor(id)
    PROVE  session' = session /\ owed' = owed
BY Views DEF SameFor

LEMMA OneMoves ==
    ASSUME NEW id \in Ids, NEW s, NEW w, NowFor(id, s, w), \A j \in Ids : j # id => SameFor(j)
    PROVE  session' = [session EXCEPT ![id] = s] /\ owed' = [owed EXCEPT ![id] = w]
<1>1. session' = [session EXCEPT ![id] = s]
  BY Views DEF SameFor, NowFor
<1>2. owed' = [owed EXCEPT ![id] = w]
  BY Views DEF SameFor, NowFor
<1> QED
  BY <1>1, <1>2

\* What session and owed say of one client.
LEMMA ViewOf ==
    ASSUME NEW id \in Ids
    PROVE  /\ session[id] = SessionIn(active_ids_sockets, sock, conn, id)
           /\ owed[id] = OwedIn(active_ids_sockets, sock, conn, store_and_forward, id)
BY Views

\* The descriptor of a session is in the kernel's table.
LEMMA SessionPlaces ==
    ASSUME TypeOK, SessionTablesAgree, NEW id \in DOMAIN active_ids_sockets
    PROVE  /\ active_ids_sockets[id] \in DOMAIN sock
           /\ sock[active_ids_sockets[id]] \in DOMAIN conn
           /\ active_clients[active_ids_sockets[id]].id = id
BY DEF TypeOK, NetworkOK, SessionTablesAgree

\* A client whose tables and whose connection stay.
LEMMA StaysSame ==
    ASSUME TypeOK, SessionTablesAgree, NEW id,
           id \in DOMAIN active_ids_sockets' <=> id \in DOMAIN active_ids_sockets,
           id \in DOMAIN active_ids_sockets =>
               LET f == active_ids_sockets[id]
               IN  /\ active_ids_sockets'[id] = f /\ sock'[f] = sock[f]
                   /\ Like(conn[sock[f]], conn'[sock[f]]),
           id \notin DOMAIN active_ids_sockets =>
               /\ id \in DOMAIN store_and_forward' <=> id \in DOMAIN store_and_forward
               /\ id \in DOMAIN store_and_forward => store_and_forward'[id] = store_and_forward[id]
    PROVE  SameFor(id)
BY DEF SameFor, SessionIn, OwedIn, Like

LEMMA ConnectionsStay ==
    ASSUME TypeOK, SessionTablesAgree,
           UNCHANGED <<active_ids_sockets, sock, store_and_forward>>,
           \A i \in DOMAIN sock : Like(conn[sock[i]], conn'[sock[i]])
    PROVE  session' = session /\ owed' = owed
<1>1. ASSUME NEW id \in Ids PROVE SameFor(id)
  BY SessionPlaces, StaysSame
<1> QED
  BY <1>1, NobodyMoves

\* The other four variables of PubSub.
SfMap == [t \in Topics |-> [id \in Ids |-> SfOf(t, id)]]
Rest ==
    /\ (status' = "running") = (status = "running")
    /\ DOMAIN topics_subs' = DOMAIN topics_subs
    /\ SfMap' = SfMap
    /\ Handled' = Handled

LEMMA SfMaps ==
    /\ SfMap = [t \in Topics |-> [id \in Ids |-> SfIn(topics_subs, t, id)]]
    /\ SfMap' = [t \in Topics |-> [id \in Ids |-> SfIn(topics_subs', t, id)]]
<1>1. \A t, id : SfOf(t, id) = SfIn(topics_subs, t, id)
  BY DEF SfOf, SfIn, PlacesOf, PlacesFor
<1>2. SfMap' = [t \in Topics |-> [id \in Ids |-> SfIn(topics_subs', t, id)]]
  BY DEF SfMap, SfOf, SfIn, PlacesOf, PlacesFor
<1> QED
  BY <1>1, <1>2 DEF SfMap

LEMMA SameBooksSame ==
    ASSUME TypeOK, TypeOK', Once(topics_subs), SameBooks(topics_subs, topics_subs')
    PROVE  SfMap' = SfMap
<1>1. TopicTable(topics_subs) /\ TopicTable(topics_subs') /\ Once(topics_subs')
  BY DEF TypeOK, TopicsOK, TopicTable, SameBooks
<1>2. \A t, id : SfIn(topics_subs', t, id) = SfIn(topics_subs, t, id)
  BY <1>1, SfSame DEF SameBooks
<1> QED
  BY <1>2, SfMaps

LEMMA RestStays ==
    ASSUME TypeOK, UNCHANGED <<status, topics_subs>>, published' = published, udpq' = udpq
    PROVE  Rest
<1>1. SfMap' = SfMap
  BY SfMaps
<1>2. Handled' = Handled
  BY DEF Handled
<1> QED
  BY <1>1, <1>2 DEF Rest

LEMMA Stutters == ASSUME Rest, session' = session, owed' = owed PROVE UNCHANGED PS!vars
BY DEF Rest, SfMap, Handled, PS!vars

\* A client of PubSub behind the connection of a session.
LEMMA RunningClient ==
    ASSUME RefinementInv, NEW i \in DOMAIN sock, NEW id, id = active_clients[i].id,
           conn[sock[i]].client = "open" \/ conn[sock[i]].up # <<>>
    PROVE  id \in Ids /\ id \in DOMAIN active_ids_sockets /\ active_ids_sockets[id] = i
<1>1. sock[i] \in DOMAIN conn
  BY DEF RefinementInv, SocketInv, TypeOK, NetworkOK
<1>2. conn[sock[i]].hello
  BY <1>1 DEF RefinementInv, SocketInv, Sessions, Identified, HelloFirst
<1>3. conn[sock[i]] \in Connection
  BY <1>1, ConnectionFacts DEF RefinementInv, SocketInv, TypeOK
<1>4. id = conn[sock[i]].id
  BY <1>2 DEF RefinementInv, SocketInv, Sessions, Identified
<1>5. id \in Ids
  BY <1>3, <1>4 DEF Connection
<1> QED
  BY <1>5 DEF RefinementInv, SocketInv, SessionTablesAgree

\* A subscriber reads, leaves, or does nothing PubSub is about.
LEMMA SubscriberRefines ==
    ASSUME RefinementInv, NEW c, Subscriber(c)
    PROVE  \/ \E id \in Ids : PS!Read(id) \/ PS!Leave(id)
           \/ UNCHANGED PS!vars
<1>0. TypeOK /\ SessionTablesAgree /\ Apart
  BY DEF RefinementInv, SocketInv, Sessions
<1>1. /\ c \in DOMAIN conn /\ conn[c].client = "open"
      /\ \A d \in DOMAIN conn : d # c => conn'[d] = conn[d]
      /\ Like(conn[c], conn'[c]) \/ Reads(conn[c], conn'[c]) \/ Ends(conn'[c])
      /\ UNCHANGED <<status, topics_subs, active_ids_sockets, sock, store_and_forward>>
      /\ udpq' = udpq /\ published' = published
  BY <1>0, SubscriberEffects DEF broker, maps
<1>2. Rest
  BY <1>0, <1>1, RestStays
<1>3. \A i \in DOMAIN sock : sock[i] \in DOMAIN conn
  BY <1>0 DEF TypeOK, NetworkOK
<1>4. CASE \A i \in DOMAIN sock : sock[i] # c
  <2>1. \A i \in DOMAIN sock : Like(conn[sock[i]], conn'[sock[i]])
    BY <1>1, <1>3, <1>4 DEF Like
  <2> QED
    BY <1>0, <1>1, <1>2, <2>1, ConnectionsStay, Stutters
<1>5. CASE Like(conn[c], conn'[c])
  <2>1. \A i \in DOMAIN sock : Like(conn[sock[i]], conn'[sock[i]])
    BY <1>1, <1>3, <1>5 DEF Like
  <2> QED
    BY <1>0, <1>1, <1>2, <2>1, ConnectionsStay, Stutters
<1>6. ASSUME NEW i \in DOMAIN sock, sock[i] = c, Reads(conn[c], conn'[c]) \/ Ends(conn'[c])
      PROVE  \E id \in Ids : PS!Read(id) \/ PS!Leave(id)
  <2> DEFINE id == active_clients[i].id
  <2>1. id \in Ids /\ id \in DOMAIN active_ids_sockets /\ active_ids_sockets[id] = i
    BY <1>1, <1>6, RunningClient
  <2> HIDE DEF id
  <2>2. session[id] = "here" /\ owed[id] = conn[c].down
    BY <1>1, <1>6, <2>1, ViewOf DEF SessionIn, OwedIn
  <2>3. ASSUME NEW j \in Ids, j # id PROVE SameFor(j)
    <3>1. j \in DOMAIN active_ids_sockets =>
             /\ active_ids_sockets[j] \in DOMAIN sock /\ active_ids_sockets[j] # i
             /\ sock[active_ids_sockets[j]] \in DOMAIN conn
      <4>1. active_clients[i].id = id
        BY <1>0, <2>1, SessionPlaces
      <4> QED
        BY <1>0, <2>3, <4>1, SessionPlaces
    <3>2. j \in DOMAIN active_ids_sockets => sock[active_ids_sockets[j]] # c
      BY <1>0, <1>6, <3>1 DEF Apart
    <3> QED
      BY <1>0, <1>1, <3>1, <3>2, StaysSame DEF Like
  <2>4. CASE Reads(conn[c], conn'[c])
    <3>1. NowFor(id, "here", Tail(conn[c].down))
      BY <1>1, <1>6, <2>1, <2>4 DEF NowFor, SessionIn, OwedIn, Reads
    <3>2. /\ session' = [session EXCEPT ![id] = "here"]
          /\ owed' = [owed EXCEPT ![id] = Tail(conn[c].down)]
      BY <2>1, <2>3, <3>1, OneMoves
    <3>3. session' = session
      BY <2>1, <2>2, <3>2, Views
    <3>4. PS!Read(id)
      BY <1>2, <2>2, <2>4, <3>2, <3>3 DEF Rest, SfMap, Handled, Reads, PS!Read
    <3> QED
      BY <2>1, <3>4
  <2>5. CASE Ends(conn'[c])
    <3>1. NowFor(id, "gone", <<>>)
      BY <1>1, <1>6, <2>1, <2>5 DEF NowFor, SessionIn, OwedIn, Ends
    <3>2. session' = [session EXCEPT ![id] = "gone"] /\ owed' = [owed EXCEPT ![id] = <<>>]
      BY <2>1, <2>3, <3>1, OneMoves
    <3>3. PS!Leave(id)
      BY <1>2, <2>2, <3>2 DEF Rest, SfMap, Handled, PS!Leave
    <3> QED
      BY <2>1, <3>3
  <2> QED
    BY <1>6, <2>4, <2>5
<1> QED
  BY <1>1, <1>4, <1>5, <1>6

\* A connection is refused, or the broker has met the client that made it.
LEMMA NewcomerRefines ==
    ASSUME RefinementInv, NEW c \in DOMAIN conn, NEW fd, fd \notin DOMAIN sock, NEW id,
           id \notin DOMAIN active_ids_sockets, status = "running", Rest,
           active_ids_sockets' = Insert(active_ids_sockets, id, fd),
           sock' = Insert(sock, fd, c),
           \A i \in DOMAIN sock : Like(conn[sock[i]], conn'[sock[i]]),
           \A j : j # id =>
               /\ j \in DOMAIN store_and_forward' <=> j \in DOMAIN store_and_forward
               /\ j \in DOMAIN store_and_forward => store_and_forward'[j] = store_and_forward[j],
           conn'[c].client = "open" => conn'[c].down = Stored(id),
           conn'[c].client # "open" => conn'[c].down = <<>>
    PROVE  (\E j \in Ids : PS!Arrive(j)) \/ UNCHANGED PS!vars
<1>0. TypeOK /\ SessionTablesAgree
  BY DEF RefinementInv, SocketInv
<1>1. /\ DOMAIN active_ids_sockets' = DOMAIN active_ids_sockets \cup {id}
      /\ active_ids_sockets'[id] = fd
      /\ \A j \in DOMAIN active_ids_sockets : active_ids_sockets'[j] = active_ids_sockets[j]
  BY DEF Insert
<1>2. /\ sock'[fd] = c /\ \A i \in DOMAIN sock : sock'[i] = sock[i]
  BY DEF Insert
<1>3. ASSUME NEW j, j # id PROVE SameFor(j)
  BY <1>0, <1>1, <1>2, <1>3, SessionPlaces, StaysSame
<1>4. CASE id \notin Ids
  <2>1. session' = session /\ owed' = owed
    BY <1>3, <1>4, NobodyMoves
  <2> QED
    BY <2>1, Stutters
<1>5. CASE id \in Ids
  <2>1. session[id] = "away" /\ owed[id] = Stored(id)
    BY <1>5, ViewOf DEF SessionIn, OwedIn, Stored
  <2>2. CASE conn'[c].client = "open"
    <3>1. NowFor(id, "here", Stored(id))
      BY <1>1, <1>2, <2>2 DEF NowFor, SessionIn, OwedIn
    <3>2. /\ session' = [session EXCEPT ![id] = "here"]
          /\ owed' = [owed EXCEPT ![id] = Stored(id)]
      BY <1>3, <1>5, <3>1, OneMoves
    <3>3. owed' = owed
      BY <1>5, <2>1, <3>2, Views
    <3>4. PS!Arrive(id)
      BY <2>1, <3>2, <3>3 DEF Rest, SfMap, Handled, PS!Arrive
    <3> QED
      BY <1>5, <3>4
  <2>3. CASE conn'[c].client # "open"
    <3>1. NowFor(id, "gone", <<>>)
      BY <1>1, <1>2, <2>3 DEF NowFor, SessionIn, OwedIn
    <3>2. session' = [session EXCEPT ![id] = "gone"] /\ owed' = [owed EXCEPT ![id] = <<>>]
      BY <1>3, <1>5, <3>1, OneMoves
    <3>3. PS!Arrive(id)
      BY <2>1, <3>2 DEF Rest, SfMap, Handled, PS!Arrive
    <3> QED
      BY <1>5, <3>3
  <2> QED
    BY <2>2, <2>3
<1> QED
  BY <1>4, <1>5

\* The broker ends without taking a datagram.
LEMMA StopRefines ==
    ASSUME RefinementInv, status = "running", status' # "running",
           UNCHANGED <<topics_subs, active_ids_sockets, sock, store_and_forward>>,
           published' = published, udpq' = udpq,
           \A i \in DOMAIN sock : Like(conn[sock[i]], conn'[sock[i]])
    PROVE  PS!Stop
<1>1. session' = session /\ owed' = owed
  BY ConnectionsStay DEF RefinementInv, SocketInv
<1>2. SfMap' = SfMap
  BY SfMaps
<1>3. Handled' = Handled
  BY DEF Handled
<1> QED
  BY <1>1, <1>2, <1>3 DEF SfMap, Handled, PS!Stop

\* What is sent over a dead connection reaches nobody.
LEMMA DeadTakesNothing ==
    ASSUME TypeOK, NEW s, NEW sk, NEW id, NEW n, NEW cn2,
           Sends(conn, cn2, StoredTo(sk, s, id, n)), s \in DOMAIN sk, conn[sk[s]].client # "open",
           NEW d \in DOMAIN conn
    PROVE  Like(conn[d], cn2[d])
<1>1. CASE sk[s] = d
  BY <1>1 DEF Sends, Like
<1>2. CASE sk[s] # d
  <2>1. StoredTo(sk, s, id, n)[d] = <<>>
    BY <1>2 DEF StoredTo
  <2> QED
    BY <2>1, SendsNothing DEF Like
<1> QED
  BY <1>1, <1>2

\* All of a list.
LEMMA SubSeqAll ==
    ASSUME NEW S, NEW list \in Seq(S)
    PROVE  SubSeq(list, 1, Len(list)) = list
<1>1. Len(list) \in Nat /\ \A k \in 1 .. Len(list) : list[k] \in S
  OBVIOUS
<1> DEFINE all == SubSeq(list, 1, Len(list))
<1>2. /\ all \in Seq(S) /\ Len(all) = Len(list)
      /\ \A k \in 1 .. Len(list) : all[k] = list[k]
  BY <1>1
<1> HIDE DEF all
<1> QED
  BY <1>2, SeqEqual DEF all

\* A client that has never been connected has nothing kept.
LEMMA NothingKept ==
    ASSUME RefinementInv, NEW id, id \notin DOMAIN all_clients
    PROVE  Stored(id) = <<>>
<1> SUFFICES ASSUME id \in DOMAIN store_and_forward PROVE FALSE
  BY DEF Stored
<1> DEFINE list == store_and_forward[id]
<1>1. KeptList(topics_subs, Handled, list, id) /\ list \in Seq(Message)
  BY StoreTyped DEF RefinementInv, SocketInv, KeptInv, Kept
<1> HIDE DEF list
<1>2. 1 \in DOMAIN list
  BY <1>1 DEF KeptList
<1>3. Holds(topics_subs, list[1].topic, id, "on")
  BY <1>1, <1>2 DEF KeptList
<1> QED
  BY <1>3 DEF RefinementInv, KeptInv, Subscribers

\* A connection request, when the socket the broker keeps for the client is that of its
\* new session.
LEMMA ConnectionRefines ==
    ASSUME RefinementInv, TypeOK', HandleConnectionRequest, CurrentSockets'
    PROVE  (\E j \in Ids : PS!Arrive(j)) \/ PS!Stop \/ UNCHANGED PS!vars
<1>0. TypeOK /\ SessionTablesAgree /\ InOrder /\ Silent
  BY DEF RefinementInv, SocketInv, Sessions
<1>1. PICK c \in ConnIds, fd \in ClientFds, id \in AnyId :
         RejectConnection(c, fd, id) \/ AddNewClient(c, fd, id) \/ Reconnect(c, fd, id)
  BY DEF HandleConnectionRequest
<1>2. Accepting(c, fd, id)
  BY <1>1 DEF RejectConnection, AddNewClient, Reconnect
<1>3. c \in DOMAIN conn
  BY <1>0, <1>2, TailElements DEF Accepting, TypeOK, NetworkOK
<1>4. DOMAIN conn' = DOMAIN conn
  BY <1>0, <1>1, <1>3, RejectEffects, ReconnectEffects
     DEF AddNewClient, Returns, DiesOver, Sends
<1>5. /\ status = "running" /\ udpq' = udpq /\ published' = published
      /\ fd \notin DOMAIN sock /\ c = Accepted + 1 /\ Accepted \in Int
  BY <1>0, <1>2, <1>4, TakeConnection
<1>6. \A i \in DOMAIN sock : sock[i] \in DOMAIN conn /\ sock[i] # c
  <2>1. \A i \in DOMAIN sock : sock[i] \in DOMAIN conn /\ sock[i] \in 1 .. Accepted
    BY <1>0, CountsTyped
  <2> QED
    BY <1>5, <2>1
<1>7. conn[c].down = <<>>
  <2>1. c > Accepted
    BY <1>5
  <2> QED
    BY <1>0, <1>3, <2>1 DEF Silent
<1>8. CASE RejectConnection(c, fd, id)
  <2>1. /\ \A d \in DOMAIN conn : Like(conn[d], conn'[d])
        /\ UNCHANGED <<status, topics_subs, active_ids_sockets, store_and_forward, sock>>
    BY <1>0, <1>3, <1>8, RejectEffects
  <2>2. session' = session /\ owed' = owed
    BY <1>0, <1>6, <2>1, ConnectionsStay
  <2>3. Rest
    BY <1>0, <1>5, <2>1, RestStays
  <2> QED
    BY <2>2, <2>3, Stutters
<1>9. CASE AddNewClient(c, fd, id)
  <2>1. /\ id \notin DOMAIN active_ids_sockets /\ id \notin DOMAIN all_clients
        /\ active_ids_sockets' = Insert(active_ids_sockets, id, fd)
        /\ sock' = Insert(sock, fd, c)
        /\ UNCHANGED <<status, conn, topics_subs, store_and_forward>>
    BY <1>9 DEF AddNewClient
  <2>2. Stored(id) = <<>>
    BY <2>1, NothingKept
  <2>3. Rest
    BY <1>0, <1>5, <2>1, RestStays
  <2>4. \A i \in DOMAIN sock : Like(conn[sock[i]], conn'[sock[i]])
    BY <2>1 DEF Like
  <2> QED
    BY <1>3, <1>5, <1>7, <2>1, <2>2, <2>3, <2>4, NewcomerRefines
<1>10. CASE Reconnect(c, fd, id) /\ Returns(c, fd, id)
  <2> DEFINE s == all_clients[id].socket
             sk == Insert(sock, fd, c)
             n == Len(Stored(id))
             out == StoredTo(sk, s, id, n)
  <2>1. id \notin DOMAIN active_ids_sockets
    BY <1>10 DEF Reconnect
  <2>2. /\ Sends(conn, conn', out) /\ status' = status /\ topics_subs' = topics_subs
        /\ active_ids_sockets' = Insert(active_ids_sockets, id, fd)
        /\ store_and_forward' = Erase(store_and_forward, id)
        /\ sock' = sk /\ all_clients'[id].socket = s
    BY <1>10 DEF Returns
  <2>3. id \in DOMAIN active_ids_sockets' /\ active_ids_sockets'[id] = fd
    BY <2>1, <2>2 DEF Insert
  <2>4. s = fd
    BY <2>2, <2>3 DEF CurrentSockets
  <2>5. sk[fd] = c /\ fd \in DOMAIN sk
    BY <1>5 DEF Insert
  <2>6. out[c] = Stored(id)
    <3>1. Stored(id) \in Seq(Message)
      BY <1>0, StoreTyped
    <3>2. out[c] = SubSeq(Stored(id), 1, Len(Stored(id)))
      BY <1>3, <2>4, <2>5 DEF StoredTo
    <3> QED
      BY <3>1, <3>2, SubSeqAll
  <2>7. \A d \in DOMAIN conn : d # c => out[d] = <<>>
    BY <2>4, <2>5 DEF StoredTo
  <2> HIDE DEF out, sk
  <2>8. \A i \in DOMAIN sock : Like(conn[sock[i]], conn'[sock[i]])
    BY <1>0, <1>6, <2>2, <2>7, SendsNothing DEF Like
  <2>9. /\ conn'[c].client = "open" => conn'[c].down = Stored(id)
        /\ conn'[c].client # "open" => conn'[c].down = <<>>
    <3>1. Stored(id) \in Seq(Message)
      BY <1>0, StoreTyped
    <3>2. <<>> \o Stored(id) = Stored(id)
      BY <3>1, ConcatEmptySeq
    <3> QED
      BY <1>3, <1>7, <2>2, <2>6, <3>2 DEF Sends
  <2>10. \A j : j # id =>
             /\ j \in DOMAIN store_and_forward' <=> j \in DOMAIN store_and_forward
             /\ j \in DOMAIN store_and_forward => store_and_forward'[j] = store_and_forward[j]
    BY <2>2 DEF Erase, Restrict
  <2>11. Rest
    BY <1>0, <1>5, <2>2, RestStays
  <2> QED
    BY <1>3, <1>5, <2>1, <2>2, <2>8, <2>9, <2>10, <2>11, NewcomerRefines DEF sk
<1>11. CASE DiesOver(c, fd, id)
  <2> DEFINE s == all_clients[id].socket
             sk == Insert(sock, fd, c)
  <2>1. PICK k \in Nat :
           /\ Sends(conn, conn', StoredTo(sk, s, id, k))
           /\ s \in DOMAIN sk /\ conn[sk[s]].client # "open"
           /\ status' = "killed"
           /\ UNCHANGED <<topics_subs, active_ids_sockets, store_and_forward, sock>>
    BY <1>11 DEF DiesOver
  <2> HIDE DEF s, sk
  <2>2. \A d \in DOMAIN conn : Like(conn[d], conn'[d])
    BY <1>0, <2>1, DeadTakesNothing
  <2>3. \A i \in DOMAIN sock : Like(conn[sock[i]], conn'[sock[i]])
    BY <1>6, <2>2
  <2>4. status' # "running"
    BY <2>1
  <2> QED
    BY <1>5, <2>1, <2>3, <2>4, StopRefines
<1>12. CASE Reconnect(c, fd, id)
  BY <1>0, <1>10, <1>11, <1>12, ReconnectEffects
<1> QED
  BY <1>1, <1>8, <1>9, <1>12

\* A subscription is looked up in SfMap as in the lists.
LEMMA SfMapAt ==
    ASSUME NEW t \in Topics, NEW id \in Ids
    PROVE  SfMap[t][id] = SfIn(topics_subs, t, id)
BY SfMaps

LEMMA EntitledIs ==
    ASSUME NEW t \in Topics, NEW id \in Ids
    PROVE  PS!Entitled(id, t) <=>
              \/ session[id] = "here" /\ SfIn(topics_subs, t, id) # "none"
              \/ session[id] = "away" /\ SfIn(topics_subs, t, id) = "on"
<1>1. SfMap[t][id] = SfIn(topics_subs, t, id)
  BY SfMapAt
<1>2. [u \in Topics |-> [j \in Ids |-> SfOf(u, j)]][t][id] = SfIn(topics_subs, t, id)
  BY <1>1 DEF SfMap
<1> QED
  BY <1>2 DEF PS!Entitled

\* A client is subscribed when it is in the list.
LEMMA SubscribedIs ==
    ASSUME TypeOK, Once(topics_subs), NEW t \in DOMAIN topics_subs, NEW id
    PROVE  SfIn(topics_subs, t, id) # "none" <=> PlacesFor(topics_subs, t, id) # {}
<1>1. TopicTable(topics_subs)
  BY DEF TypeOK, TopicsOK, TopicTable
<1>2. ASSUME NEW p \in PlacesFor(topics_subs, t, id)
      PROVE  SfIn(topics_subs, t, id) # "none"
  <2>1. p \in DOMAIN topics_subs[t] /\ topics_subs[t][p].client.id = id
    BY DEF PlacesFor
  <2>2. topics_subs[t][p].sf \in {"off", "on"}
    BY <1>1, <2>1, EntryFacts
  <2>3. Holds(topics_subs, t, id, topics_subs[t][p].sf)
    BY <2>1 DEF Holds
  <2> QED
    BY <1>1, <2>2, <2>3, SfHolds
<1> QED
  BY <1>2 DEF SfIn

\* With current sockets, what is written to a session's connection is what its client
\* subscribed to.
LEMMA SentToSession ==
    ASSUME RefinementInv, CurrentSockets, NEW t \in DOMAIN topics_subs,
           NEW id \in DOMAIN active_ids_sockets
    PROVE  SentTo(topics_subs[t], sock[active_ids_sockets[id]]) = PlacesFor(topics_subs, t, id)
<1>0. TypeOK /\ SessionTablesAgree /\ Apart
  BY DEF RefinementInv, SocketInv, Sessions
<1> DEFINE subs == topics_subs[t]
           c == sock[active_ids_sockets[id]]
<1>1. ASSUME NEW k \in DOMAIN subs, NEW j, j = subs[k].client.id, j \in DOMAIN active_ids_sockets
      PROVE  subs[k].client.socket = active_ids_sockets[j]
  BY <1>1 DEF CurrentSockets, PlacesOf
<1>2. ASSUME NEW k \in SentTo(subs, c) PROVE k \in PlacesFor(topics_subs, t, id)
  <2>1. PICK j : /\ k \in DOMAIN subs /\ j = subs[k].client.id /\ j \in DOMAIN active_ids_sockets
                 /\ sock[subs[k].client.socket] = c
    BY DEF SentTo
  <2>2. sock[active_ids_sockets[j]] = sock[active_ids_sockets[id]]
    BY <1>1, <2>1
  <2>3. active_ids_sockets[j] = active_ids_sockets[id]
    BY <1>0, <2>1, <2>2, SessionPlaces DEF Apart
  <2>4. j = id
    BY <1>0, <2>1, <2>3, SessionPlaces
  <2> QED
    BY <2>1, <2>4 DEF PlacesFor
<1>3. ASSUME NEW k \in PlacesFor(topics_subs, t, id) PROVE k \in SentTo(subs, c)
  <2>1. k \in DOMAIN subs /\ subs[k].client.id = id
    BY DEF PlacesFor
  <2>2. subs[k].client.socket = active_ids_sockets[id]
    BY <1>1, <2>1
  <2>3. active_ids_sockets[id] \in DOMAIN sock
    BY <1>0, SessionPlaces
  <2> QED
    BY <2>1, <2>2, <2>3 DEF SentTo
<1> QED
  BY <1>2, <1>3

\* A client is in a list once, so that it is sent one copy.
LEMMA PlacesOnce ==
    ASSUME Once(topics_subs), NEW t \in DOMAIN topics_subs, NEW id, NEW S,
           S \subseteq PlacesFor(topics_subs, t, id), S # {}
    PROVE  Cardinality(S) = 1
<1>1. PICK p : p \in S
  OBVIOUS
<1>2. \A k \in S : k = p
  BY <1>1 DEF Once, PlacesFor
<1>3. S = {p}
  BY <1>1, <1>2
<1> QED
  BY <1>3, FS_Singleton

\* What a session is owed after the first n subscriptions of a topic were served.
LEMMA ServedSession ==
    ASSUME RefinementInv, CurrentSockets, NEW m \in Message, m.topic \in DOMAIN topics_subs,
           NEW n \in Nat, Forwards(m, n), NEW id \in DOMAIN active_ids_sockets,
           NEW got,
           got <=> /\ conn[sock[active_ids_sockets[id]]].client = "open"
                   /\ PlacesFor(topics_subs, m.topic, id) \cap 1 .. n # {}
    PROVE  NowFor(id, SessionIn(active_ids_sockets, sock, conn, id),
                  LET w == OwedIn(active_ids_sockets, sock, conn, store_and_forward, id)
                  IN  IF got THEN Append(w, m) ELSE w)
<1>0. TypeOK /\ SessionTablesAgree /\ Once(topics_subs)
  BY DEF RefinementInv, SocketInv
<1> DEFINE t == m.topic
           c == sock[active_ids_sockets[id]]
           out == Forwarded(topics_subs[t], m, n)
           S == PlacesFor(topics_subs, t, id) \cap 1 .. n
<1>1. /\ Sends(conn, conn', out) /\ active_ids_sockets' = active_ids_sockets /\ sock' = sock
  BY DEF Forwards
<1>2. c \in DOMAIN conn /\ conn[c].down \in Seq(Message)
  BY <1>0, SessionPlaces, ConnectionFacts DEF TypeOK
<1>3. SentTo(topics_subs[t], c) \cap 1 .. n = S
  BY SentToSession
<1>4. conn'[c].client = conn[c].client
  BY <1>1, <1>2 DEF Sends
<1>5. conn'[c].down = IF got THEN Append(conn[c].down, m) ELSE conn[c].down
  <2>1. CASE S = {}
    <3>1. out[c] = <<>>
      BY <1>2, <1>3, <2>1, ForwardedElsewhere
    <3>2. conn'[c].down = conn[c].down
      BY <1>0, <1>1, <1>2, <3>1, SendsNothing
    <3> QED
      BY <2>1, <3>2
  <2>2. CASE S # {} /\ conn[c].client = "open"
    <3>1. Cardinality(S) = 1
      BY <1>0, <2>2, PlacesOnce
    <3>2. out[c] = Copies(m, Cardinality(SentTo(topics_subs[t], c) \cap 1 .. n))
      BY <1>2 DEF Forwarded
    <3>3. out[c] = Copies(m, 1)
      BY <1>3, <3>1, <3>2
    <3>4. conn'[c].down = conn[c].down \o Copies(m, 1)
      BY <1>1, <1>2, <2>2, <3>3 DEF Sends
    <3>5. conn'[c].down = Append(conn[c].down, m)
      BY <1>2, <3>4, CopiesOnce
    <3> QED
      BY <2>2, <3>5
  <2>3. CASE conn[c].client # "open"
    BY <1>1, <1>2, <2>3 DEF Sends
  <2> QED
    BY <2>1, <2>2, <2>3
<1> QED
  BY <1>1, <1>4, <1>5 DEF NowFor, SessionIn, OwedIn

\* Message m is owed to the clients of S, and sessions stay.
OwedTo(S, m) ==
    \A id \in Ids :
        NowFor(id, SessionIn(active_ids_sockets, sock, conn, id),
               LET w == OwedIn(active_ids_sockets, sock, conn, store_and_forward, id)
               IN  IF id \in S THEN Append(w, m) ELSE w)

LEMMA SomeOwed ==
    ASSUME NEW m, NEW S, OwedTo(S, m)
    PROVE  /\ session' = session
           /\ owed' = [id \in Ids |-> IF id \in S THEN Append(owed[id], m) ELSE owed[id]]
<1>1. session' = session
  BY Views DEF OwedTo, NowFor
<1>2. \A id \in Ids : owed'[id] = IF id \in S THEN Append(owed[id], m) ELSE owed[id]
  BY Views DEF OwedTo, NowFor
<1>3. owed' = [id \in Ids |-> owed'[id]]
  BY Views
<1> QED
  BY <1>1, <1>2, <1>3

\* The steps of PubSub that dispatch a message.
LEMMA DispatchStep ==
    ASSUME NEW m \in Message, m.seq = Handled + 1, Handled' = Handled + 1,
           status = "running", status' = status,
           DOMAIN topics_subs' = DOMAIN topics_subs \cup {m.topic}, SfMap' = SfMap,
           session' = session,
           NEW S, S = {id \in Ids : m.topic \in DOMAIN topics_subs /\ PS!Entitled(id, m.topic)},
           owed' = [id \in Ids |-> IF id \in S THEN Append(owed[id], m) ELSE owed[id]]
    PROVE  \E p \in PS!Message : PS!Dispatch(p)
<1>1. PS!Dispatch(m)
  BY DEF PS!Dispatch, PS!Owe, SfMap, Handled
<1>2. m \in PS!Message
  BY DEF Message, PS!Message
<1> QED
  BY <1>1, <1>2

LEMMA StopStep ==
    ASSUME NEW m \in Message, m.seq = Handled + 1, Handled' = Handled + 1,
           status = "running", status' = "killed",
           DOMAIN topics_subs' = DOMAIN topics_subs, SfMap' = SfMap, session' = session,
           NEW S \in SUBSET Ids,
           \A id \in S : m.topic \in DOMAIN topics_subs /\ PS!Entitled(id, m.topic),
           owed' = [id \in Ids |-> IF id \in S THEN Append(owed[id], m) ELSE owed[id]]
    PROVE  PS!Stop
<1>1. m \in PS!Message
  BY DEF Message, PS!Message
<1>2. \E p \in PS!Message, R \in SUBSET Ids :
         /\ p.seq = Handled + 1 /\ Handled' = p.seq
         /\ \A id \in R : p.topic \in DOMAIN topics_subs /\ PS!Entitled(id, p.topic)
         /\ PS!Owe(R, p)
  BY <1>1 DEF PS!Owe
<1> QED
  BY <1>2 DEF PS!Stop, SfMap, Handled

\* What a client that is away is owed after a datagram was forwarded and kept.
LEMMA AbsentServed ==
    ASSUME TypeOK, Once(topics_subs), NEW m \in Message, m.topic \in DOMAIN topics_subs,
           NEW n, Forwards(m, n), KeepsFor(m),
           NEW id \in Ids, id \notin DOMAIN active_ids_sockets,
           NEW got, got <=> SfIn(topics_subs, m.topic, id) = "on"
    PROVE  NowFor(id, SessionIn(active_ids_sockets, sock, conn, id),
                  LET w == OwedIn(active_ids_sockets, sock, conn, store_and_forward, id)
                  IN  IF got THEN Append(w, m) ELSE w)
<1> DEFINE subs == topics_subs[m.topic]
           S == KeptFor(subs, id)
           w == Stored(id)
<1>1. w \in Seq(Message) /\ OwedIn(active_ids_sockets, sock, conn, store_and_forward, id) = w
  BY StoreTyped DEF OwedIn, Stored
<1>2. S # {} <=> got
  <2>1. S # {} <=> Holds(topics_subs, m.topic, id, "on")
    BY DEF KeptFor, Holds
  <2>2. TopicTable(topics_subs)
    BY DEF TypeOK, TopicsOK, TopicTable
  <2> HIDE DEF S
  <2> QED
    BY <2>1, <2>2, SfHolds
<1>3. /\ active_ids_sockets' = active_ids_sockets
      /\ store_and_forward' = [j \in DOMAIN store_and_forward \cup
                                        {k \in AnyId : KeptFor(subs, k) # {}} |->
                                  Stored(j) \o Copies(m, Cardinality(KeptFor(subs, j)))]
  BY DEF Forwards, KeepsFor
<1>4. /\ id \in DOMAIN store_and_forward' <=> id \in DOMAIN store_and_forward \/ S # {}
      /\ id \in DOMAIN store_and_forward' =>
             store_and_forward'[id] = w \o Copies(m, Cardinality(S))
  BY <1>3 DEF AnyId
<1>5. /\ S = {} => Cardinality(S) = 0
      /\ S # {} => Cardinality(S) = 1
  BY KeptForOnce
<1>6. w \o Copies(m, 0) = w /\ w \o Copies(m, 1) = Append(w, m)
  BY <1>1, CopiesOnce
<1>7. id \notin DOMAIN store_and_forward => w = <<>>
  BY DEF Stored
<1> HIDE DEF S, w
<1>8. OwedIn(active_ids_sockets', sock', conn', store_and_forward', id) =
         IF got THEN Append(w, m) ELSE w
  <2>1. CASE S = {}
    BY <1>2, <1>3, <1>4, <1>5, <1>6, <1>7, <2>1 DEF OwedIn
  <2>2. CASE S # {}
    BY <1>2, <1>3, <1>4, <1>5, <1>6, <2>2 DEF OwedIn
  <2> QED
    BY <2>1, <2>2
<1> QED
  BY <1>1, <1>3, <1>8 DEF NowFor, SessionIn

\* What it is owed when the broker died over the datagram.
LEMMA AbsentUnserved ==
    ASSUME NEW m, NEW n, Forwards(m, n), store_and_forward' = store_and_forward,
           NEW id, id \notin DOMAIN active_ids_sockets
    PROVE  NowFor(id, SessionIn(active_ids_sockets, sock, conn, id),
                  OwedIn(active_ids_sockets, sock, conn, store_and_forward, id))
BY DEF Forwards, NowFor, SessionIn, OwedIn

\* A datagram, when the recorded sockets are those of the sessions.
LEMMA UdpRefines ==
    ASSUME RefinementInv, TypeOK', HandleUdpMessage, CurrentSockets
    PROVE  (\E p \in PS!Message : PS!Dispatch(p)) \/ PS!Stop
<1>0. TypeOK /\ SessionTablesAgree /\ Once(topics_subs) /\ Numbered /\ TopicTable(topics_subs)
  BY DEF RefinementInv, SocketInv, KeptInv, TypeOK, TopicsOK, TopicTable
<1> DEFINE m == Head(udpq)
           t == m.topic
           S == {id \in Ids : t \in DOMAIN topics_subs /\ PS!Entitled(id, t)}
<1>1. /\ status = "running" /\ udpq # <<>> /\ udpq' = Tail(udpq) /\ published' = published
      /\ UnknownTopic(m) \/ Forward(m)
  BY DEF HandleUdpMessage, Scan, env
<1>2. Handled' = Handled + 1 /\ m \in Message /\ m.seq = Handled + 1
  BY <1>0, <1>1, NextHandled
<1>3. t \in Topics
  BY <1>2 DEF Message
<1> HIDE DEF m
<1>4. CASE UnknownTopic(m)
  <2>1. /\ t \notin DOMAIN topics_subs /\ status' = status
        /\ DOMAIN topics_subs' = DOMAIN topics_subs \cup {t}
        /\ UNCHANGED <<active_ids_sockets, sock, store_and_forward, conn>>
    BY <1>4 DEF UnknownTopic, Insert
  <2>2. SfMap' = SfMap
    BY <1>0, <1>4, TopicBooks, SameBooksSame
  <2>3. session' = session /\ owed' = owed
    BY <1>0, <2>1, ConnectionsStay DEF Like
  <2>4. S = {}
    BY <2>1
  <2>5. owed' = [id \in Ids |-> IF id \in S THEN Append(owed[id], m) ELSE owed[id]]
    BY <2>3, <2>4, Views
  <2> QED
    BY <1>1, <1>2, <2>1, <2>2, <2>3, <2>5, DispatchStep
<1>5. CASE Forward(m)
  <2>1. /\ t \in DOMAIN topics_subs
        /\ \/ Forwards(m, Len(topics_subs[t])) /\ KeepsFor(m)
           \/ \E n \in Nat : /\ Forwards(m, n) /\ status' = "killed"
                             /\ store_and_forward' = store_and_forward
    BY <1>0, <1>2, <1>5, ForwardEffects
  <2>2. ASSUME NEW n, Forwards(m, n) PROVE topics_subs' = topics_subs /\ SfMap' = SfMap
    BY <2>2, SfMaps DEF Forwards
  <2>3. \A id \in Ids : PS!Entitled(id, t) <=>
                           \/ session[id] = "here" /\ PlacesFor(topics_subs, t, id) # {}
                           \/ session[id] = "away" /\ SfIn(topics_subs, t, id) = "on"
    BY <1>0, <1>3, <2>1, EntitledIs, SubscribedIs
  <2>4. \A id \in Ids : session[id] = SessionIn(active_ids_sockets, sock, conn, id)
    BY ViewOf
  <2>5. CASE Forwards(m, Len(topics_subs[t])) /\ KeepsFor(m)
    <3> DEFINE n == Len(topics_subs[t])
    <3>1. /\ n \in Nat
          /\ \A id : PlacesFor(topics_subs, t, id) \cap 1 .. n = PlacesFor(topics_subs, t, id)
      BY <1>0, <2>1, EntryFacts DEF PlacesFor
    <3>2. ASSUME NEW id \in Ids
          PROVE  NowFor(id, SessionIn(active_ids_sockets, sock, conn, id),
                        LET w == OwedIn(active_ids_sockets, sock, conn, store_and_forward, id)
                        IN  IF id \in S THEN Append(w, m) ELSE w)
      <4>1. CASE id \in DOMAIN active_ids_sockets
        <5>1. id \in S <=> /\ conn[sock[active_ids_sockets[id]]].client = "open"
                           /\ PlacesFor(topics_subs, t, id) # {}
          BY <2>1, <2>3, <2>4, <4>1 DEF SessionIn
        <5>2. PlacesFor(topics_subs, t, id) \cap 1 .. n = PlacesFor(topics_subs, t, id)
          BY <3>1
        <5> HIDE DEF S, n, t
        <5>3. id \in S <=> /\ conn[sock[active_ids_sockets[id]]].client = "open"
                           /\ PlacesFor(topics_subs, m.topic, id) \cap 1 .. n # {}
          BY <5>1, <5>2 DEF t
        <5> QED
          BY <1>2, <2>1, <2>5, <3>1, <4>1, <5>3, ServedSession DEF n, t
      <4>2. CASE id \notin DOMAIN active_ids_sockets
        <5>1. id \in S <=> SfIn(topics_subs, t, id) = "on"
          BY <2>1, <2>3, <2>4, <4>2 DEF SessionIn
        <5> HIDE DEF S
        <5> QED
          BY <1>0, <1>2, <2>1, <2>5, <4>2, <5>1, AbsentServed
      <4> QED
        BY <4>1, <4>2
    <3> HIDE DEF S
    <3>2a. OwedTo(S, m)
      BY <3>2 DEF OwedTo
    <3>3. /\ session' = session
          /\ owed' = [id \in Ids |-> IF id \in S THEN Append(owed[id], m) ELSE owed[id]]
      BY <3>2a, SomeOwed
    <3>4. topics_subs' = topics_subs /\ SfMap' = SfMap
      BY <2>2, <2>5
    <3>5. DOMAIN topics_subs' = DOMAIN topics_subs \cup {t} /\ status' = status
      <4>1. status' = status
        BY <2>5 DEF KeepsFor
      <4>2. DOMAIN topics_subs = DOMAIN topics_subs \cup {t}
        BY <2>1
      <4> QED
        BY <3>4, <4>1, <4>2
    <3>6. S = {id \in Ids : m.topic \in DOMAIN topics_subs /\ PS!Entitled(id, m.topic)}
      BY DEF S
    <3> QED
      BY <1>1, <1>2, <3>3, <3>4, <3>5, <3>6, DispatchStep
  <2>6. ASSUME NEW n \in Nat, Forwards(m, n), status' = "killed",
               store_and_forward' = store_and_forward
        PROVE  PS!Stop
    <3> DEFINE R == {id \in Ids : /\ id \in DOMAIN active_ids_sockets
                                  /\ conn[sock[active_ids_sockets[id]]].client = "open"
                                  /\ PlacesFor(topics_subs, t, id) \cap 1 .. n # {}}
    <3>1. ASSUME NEW id \in R PROVE t \in DOMAIN topics_subs /\ PS!Entitled(id, t)
      BY <2>1, <2>3, <2>4 DEF SessionIn
    <3>2. ASSUME NEW id \in Ids
          PROVE  NowFor(id, SessionIn(active_ids_sockets, sock, conn, id),
                        LET w == OwedIn(active_ids_sockets, sock, conn, store_and_forward, id)
                        IN  IF id \in R THEN Append(w, m) ELSE w)
      <4>1. CASE id \in DOMAIN active_ids_sockets
        <5>1. id \in R <=> /\ conn[sock[active_ids_sockets[id]]].client = "open"
                           /\ PlacesFor(topics_subs, t, id) \cap 1 .. n # {}
          BY <4>1
        <5> HIDE DEF R
        <5> QED
          BY <1>2, <2>1, <2>6, <4>1, <5>1, ServedSession
      <4>2. CASE id \notin DOMAIN active_ids_sockets
        <5>1. id \notin R
          BY <4>2
        <5> HIDE DEF R
        <5> QED
          BY <2>6, <4>2, <5>1, AbsentUnserved
      <4> QED
        BY <4>1, <4>2
    <3>3. R \in SUBSET Ids
      OBVIOUS
    <3> HIDE DEF R
    <3>2a. OwedTo(R, m)
      BY <3>2 DEF OwedTo
    <3>4. /\ session' = session
          /\ owed' = [id \in Ids |-> IF id \in R THEN Append(owed[id], m) ELSE owed[id]]
      BY <3>2a, SomeOwed
    <3>5. topics_subs' = topics_subs /\ SfMap' = SfMap
      BY <2>2, <2>6
    <3>6. \A id \in R : m.topic \in DOMAIN topics_subs /\ PS!Entitled(id, m.topic)
      BY <3>1
    <3>7. DOMAIN topics_subs' = DOMAIN topics_subs
      BY <3>5
    <3> QED
      BY <1>1, <1>2, <2>6, <3>3, <3>4, <3>5, <3>6, <3>7, StopStep
  <2> QED
    BY <1>1, <2>1, <2>5, <2>6
<1> QED
  BY <1>1, <1>4, <1>5

\* A client's subscription changes, as a change of SfMap.
LEMMA BooksSet ==
    ASSUME TypeOK, TypeOK', Once(topics_subs), NEW t \in Topics, NEW id \in Ids,
           NEW s \in {"none", "off", "on"}, Books(topics_subs, topics_subs', t, id, s)
    PROVE  SfMap' = [SfMap EXCEPT ![t][id] = s]
<1>1. TopicTable(topics_subs) /\ TopicTable(topics_subs') /\ Once(topics_subs')
  BY DEF TypeOK, TopicsOK, TopicTable, Books
<1>2. SfIn(topics_subs', t, id) = s
  <2>1. /\ SfIn(topics_subs', t, id) \in {"none", "off", "on"}
        /\ \A r \in {"off", "on"} : SfIn(topics_subs', t, id) = r <=> Holds(topics_subs', t, id, r)
    BY <1>1, SfHolds
  <2>2. \A r : Holds(topics_subs', t, id, r) <=> r = s /\ s # "none"
    BY DEF Books
  <2> QED
    BY <2>1, <2>2
<1>3. \A u, j : u # t \/ j # id => SfIn(topics_subs', u, j) = SfIn(topics_subs, u, j)
  BY <1>1, SfSame DEF Books
<1> DEFINE row == [j \in Ids |-> SfIn(topics_subs', t, j)]
<1>4. SfMap[t] = [j \in Ids |-> SfIn(topics_subs, t, j)]
  BY SfMaps
<1>5. row = [SfMap[t] EXCEPT ![id] = s]
  BY <1>2, <1>3, <1>4
<1>6. \A u \in Topics : u # t =>
          [j \in Ids |-> SfIn(topics_subs', u, j)] = [j \in Ids |-> SfIn(topics_subs, u, j)]
  BY <1>3
<1>7. SfMap' = [SfMap EXCEPT ![t] = row]
  BY <1>6, SfMaps
<1> QED
  BY <1>5, <1>7

\* The broker notices the end of a client, or serves a request.
LEMMA DisconnectRefines ==
    ASSUME RefinementInv, NEW i, HandleTcpMessage(i), Disconnect(i)
    PROVE  (\E id \in Ids : PS!Notice(id)) \/ UNCHANGED PS!vars
<1>0. TypeOK /\ SessionTablesAgree
  BY DEF RefinementInv, SocketInv
<1> DEFINE id == active_clients[i].id
<1>1. /\ i \in DOMAIN sock /\ \A d \in DOMAIN conn : Like(conn[d], conn'[d])
      /\ UNCHANGED <<udpq, published, store_and_forward>> /\ status = "running"
  BY <1>0, TcpEffects DEF HandleTcpMessage, Scan
<1>2. /\ active_ids_sockets' = Erase(active_ids_sockets, id) /\ sock' = Erase(sock, i)
      /\ conn[sock[i]].client # "open" /\ status' = status /\ topics_subs' = topics_subs
  BY DEF Disconnect
<1>3. id \in DOMAIN active_ids_sockets /\ active_ids_sockets[id] = i /\ sock[i] \in DOMAIN conn
  BY <1>0, <1>1 DEF SessionTablesAgree, TypeOK, NetworkOK
<1>4. Rest
  BY <1>0, <1>1, <1>2, RestStays
<1> HIDE DEF id
<1>5. /\ DOMAIN active_ids_sockets' = DOMAIN active_ids_sockets \ {id}
      /\ \A j \in DOMAIN active_ids_sockets' : active_ids_sockets'[j] = active_ids_sockets[j]
      /\ \A f \in DOMAIN sock : f # i => sock'[f] = sock[f]
  BY <1>2 DEF Erase, Restrict
<1>6. ASSUME NEW j, j # id PROVE SameFor(j)
  <2>1. j \in DOMAIN active_ids_sockets =>
           /\ active_ids_sockets[j] \in DOMAIN sock /\ active_ids_sockets[j] # i
           /\ sock[active_ids_sockets[j]] \in DOMAIN conn
    BY <1>0, <1>3, <1>6, SessionPlaces
  <2> QED
    BY <1>0, <1>1, <1>5, <1>6, <2>1, StaysSame
<1>7. CASE id \in Ids
  <2>1. conn[sock[i]].down = <<>>
    BY <1>2, <1>3 DEF RefinementInv, Silent
  <2>2. session[id] = "gone" /\ owed[id] = <<>>
    BY <1>2, <1>3, <1>7, <2>1, ViewOf DEF SessionIn, OwedIn
  <2>3. id \notin DOMAIN store_and_forward
    BY <1>3 DEF RefinementInv, KeptInv, Kept
  <2>4. NowFor(id, "away", <<>>)
    BY <1>1, <1>5, <2>3 DEF NowFor, SessionIn, OwedIn
  <2>5. session' = [session EXCEPT ![id] = "away"] /\ owed' = [owed EXCEPT ![id] = <<>>]
    BY <1>6, <1>7, <2>4, OneMoves
  <2>6. owed' = owed
    BY <1>7, <2>2, <2>5, Views
  <2>7. PS!Notice(id)
    BY <1>1, <1>4, <2>2, <2>5, <2>6 DEF Rest, SfMap, Handled, PS!Notice
  <2> QED
    BY <1>7, <2>7
<1>8. CASE id \notin Ids
  <2>1. session' = session /\ owed' = owed
    BY <1>6, <1>8, NobodyMoves
  <2> QED
    BY <1>4, <2>1, Stutters
<1> QED
  BY <1>7, <1>8

LEMMA RequestRefines ==
    ASSUME RefinementInv, TypeOK', NEW i, HandleTcpMessage(i), NEW req \in Request,
           Subscribe(i, req) \/ Unsubscribe(i, req)
    PROVE  \E id \in Ids : \E topic \in Topics, s \in {"none", "off", "on"} :
              PS!SetSubscription(id, topic, s)
<1>0. TypeOK /\ SessionTablesAgree /\ Once(topics_subs)
  BY DEF RefinementInv, SocketInv
<1> DEFINE id == active_clients[i].id
           t == req.topic
           s == req.sf
<1>1. /\ i \in DOMAIN sock /\ \A d \in DOMAIN conn : Like(conn[d], conn'[d])
      /\ UNCHANGED <<udpq, published, store_and_forward>> /\ status = "running"
  BY <1>0, TcpEffects DEF HandleTcpMessage, Scan
<1>2. /\ t \in DOMAIN topics_subs /\ conn[sock[i]].up # <<>>
      /\ UNCHANGED <<status, active_ids_sockets, sock>>
      /\ DOMAIN topics_subs' = DOMAIN topics_subs
  BY DEF Subscribe, Unsubscribe, Take
<1>3. t \in Topics /\ s \in {"none", "off", "on"}
  BY DEF Request
<1>4. id \in Ids /\ id \in DOMAIN active_ids_sockets /\ active_ids_sockets[id] = i
  BY <1>1, <1>2, RunningClient
<1>5. Books(topics_subs, topics_subs', t, id, s)
  BY <1>0, <1>1, RequestBooks
<1> HIDE DEF id, t, s
<1>6. SfMap' = [SfMap EXCEPT ![t][id] = s]
  BY <1>0, <1>3, <1>4, <1>5, BooksSet
<1>7. session' = session /\ owed' = owed
  <2>1. \A j \in DOMAIN sock : Like(conn[sock[j]], conn'[sock[j]])
    BY <1>0, <1>1 DEF TypeOK, NetworkOK
  <2> QED
    BY <1>0, <1>1, <1>2, <2>1, ConnectionsStay
<1>8. session[id] # "away"
  BY <1>4, ViewOf DEF SessionIn
<1>9. Handled' = Handled
  BY <1>1 DEF Handled
<1>10. PS!SetSubscription(id, t, s)
  BY <1>1, <1>2, <1>6, <1>7, <1>8, <1>9 DEF SfMap, Handled, PS!SetSubscription
<1> QED
  BY <1>3, <1>4, <1>10

\* The rest of what a readable client socket leads to.
LEMMA OtherwiseRefines ==
    ASSUME RefinementInv, NEW i, HandleTcpMessage(i),
           ReceiveError(i) \/ \E req \in Request : IgnoreRequest(i, req)
    PROVE  PS!Stop \/ UNCHANGED PS!vars
<1>0. TypeOK /\ SessionTablesAgree
  BY DEF RefinementInv, SocketInv
<1>1. /\ i \in DOMAIN sock /\ \A d \in DOMAIN conn : Like(conn[d], conn'[d])
      /\ UNCHANGED <<udpq, published, store_and_forward>> /\ status = "running"
  BY <1>0, TcpEffects DEF HandleTcpMessage, Scan
<1>2. \A j \in DOMAIN sock : Like(conn[sock[j]], conn'[sock[j]])
  BY <1>0, <1>1 DEF TypeOK, NetworkOK
<1>3. CASE ReceiveError(i)
  <2>1. status' # "running" /\ UNCHANGED <<topics_subs, active_ids_sockets, sock>>
    BY <1>3 DEF ReceiveError, maps
  <2> QED
    BY <1>1, <1>2, <2>1, StopRefines
<1>4. CASE \E req \in Request : IgnoreRequest(i, req)
  <2>1. UNCHANGED <<status, topics_subs, active_ids_sockets, sock>>
    BY <1>4 DEF IgnoreRequest, Take
  <2>2. Rest
    BY <1>0, <1>1, <2>1, RestStays
  <2>3. session' = session /\ owed' = owed
    BY <1>0, <1>1, <1>2, <2>1, ConnectionsStay
  <2> QED
    BY <2>2, <2>3, Stutters
<1> QED
  BY <1>3, <1>4

\* Steps that neither a client nor what it is owed depends on.
LEMMA QuietRefines ==
    ASSUME RefinementInv,
           \/ Select \/ TypeExit
           \/ \E topic \in Topics : Publish(topic)
           \/ \E id \in Ids : Connect(id)
    PROVE  UNCHANGED PS!vars
<1>0. TypeOK /\ SessionTablesAgree /\ Numbered
  BY DEF RefinementInv, SocketInv, KeptInv
<1>1. UNCHANGED <<status, topics_subs, active_ids_sockets, sock, store_and_forward>>
  BY DEF Select, TypeExit, Publish, Connect, maps, broker
<1>2. Handled' = Handled
  <2>1. CASE \E topic \in Topics : Publish(topic)
    BY <1>0, <2>1, PublishNumbered
  <2>2. CASE Select \/ TypeExit \/ \E id \in Ids : Connect(id)
    BY <2>2 DEF Select, TypeExit, Connect, env, Handled
  <2> QED
    BY <2>1, <2>2
<1>3. Rest
  BY <1>1, <1>2, SfMaps DEF Rest
<1>4. \A j \in DOMAIN sock : sock[j] \in DOMAIN conn
  BY <1>0 DEF TypeOK, NetworkOK
<1>5. \A j \in DOMAIN sock : Like(conn[sock[j]], conn'[sock[j]])
  <2>1. CASE conn' = conn
    BY <2>1 DEF Like
  <2>2. ASSUME NEW id \in Ids, Connect(id) PROVE \A d \in DOMAIN conn : conn'[d] = conn[d]
    <3> DEFINE new == [id |-> id, hello |-> FALSE, client |-> "open",
                       broker |-> "open", broken |-> FALSE, up |-> <<>>, down |-> <<>>]
    <3>1. new \in Connection /\ conn' = Append(conn, new)
      BY <2>2, EmptySeq DEF Connect, Connection
    <3> HIDE DEF new
    <3>2. conn \in Seq(Connection) /\ DOMAIN conn = 1 .. Len(conn)
      BY <1>0, CountsTyped, LenProperties DEF TypeOK, NetworkOK
    <3> QED
      BY <3>1, <3>2, AppendElements
  <2>3. conn' = conn \/ \E id \in Ids : Connect(id)
    BY DEF Select, TypeExit, Publish
  <2> QED
    BY <1>4, <2>1, <2>2, <2>3 DEF Like
<1>6. session' = session /\ owed' = owed
  BY <1>0, <1>1, <1>5, ConnectionsStay
<1> QED
  BY <1>3, <1>6, Stutters

LEMMA ExitRefines == ASSUME RefinementInv, HandleStdinMessage PROVE PS!Stop
<1>0. TypeOK /\ SessionTablesAgree
  BY DEF RefinementInv, SocketInv
<1>1. /\ status = "running" /\ status' # "running" /\ conn' = HangUpAll(conn)
      /\ UNCHANGED <<topics_subs, active_ids_sockets, sock, store_and_forward>>
      /\ published' = published /\ udpq' = udpq
  BY DEF HandleStdinMessage, Scan, maps
<1>2. conn \in Seq(Connection) /\ \A j \in DOMAIN sock : sock[j] \in DOMAIN conn
  BY <1>0 DEF TypeOK, NetworkOK
<1>3. \A j \in DOMAIN sock : Like(conn[sock[j]], conn'[sock[j]])
  BY <1>1, <1>2, HangUpFields DEF Like
<1> QED
  BY <1>1, <1>3, StopRefines

\* Every step between states with current sockets.
LEMMA StepRefines ==
    ASSUME RefinementInv, TypeOK', [Next]_vars, CurrentSockets, CurrentSockets'
    PROVE  [PS!Next]_(PS!vars)
<1>1. CASE UNCHANGED vars
  <2>1. UNCHANGED PS!vars
    BY <1>1, Views, SfMaps DEF vars, maps, env, PS!vars, SfMap
  <2> QED
    BY <2>1
<1>2. CASE \/ Select \/ TypeExit
           \/ \E topic \in Topics : Publish(topic)
           \/ \E id \in Ids : Connect(id)
  <2>1. UNCHANGED PS!vars
    BY <1>2, QuietRefines
  <2> QED
    BY <2>1
<1>3. CASE HandleStdinMessage
  <2>1. PS!Stop
    BY <1>3, ExitRefines
  <2> QED
    BY <2>1, Zenon DEF PS!Next
<1>4. CASE HandleConnectionRequest
  <2>1. (\E j \in Ids : PS!Arrive(j)) \/ PS!Stop \/ UNCHANGED PS!vars
    BY <1>4, ConnectionRefines
  <2> QED
    BY <2>1, Zenon DEF PS!Next
<1>5. CASE HandleUdpMessage
  <2>1. (\E p \in PS!Message : PS!Dispatch(p)) \/ PS!Stop
    BY <1>5, UdpRefines
  <2> QED
    BY <2>1, Zenon DEF PS!Next
<1>6. ASSUME NEW i \in ClientFds, HandleTcpMessage(i) PROVE [PS!Next]_(PS!vars)
  <2>1. CASE Disconnect(i)
    <3>1. (\E id \in Ids : PS!Notice(id)) \/ UNCHANGED PS!vars
      BY <1>6, <2>1, DisconnectRefines
    <3> QED
      BY <3>1, Zenon DEF PS!Next
  <2>2. ASSUME NEW req \in Request, Subscribe(i, req) \/ Unsubscribe(i, req)
        PROVE  [PS!Next]_(PS!vars)
    <3>1. \E id \in Ids : \E topic \in Topics, s \in {"none", "off", "on"} :
              PS!SetSubscription(id, topic, s)
      BY <1>6, <2>2, RequestRefines
    <3> QED
      BY <3>1, Zenon DEF PS!Next
  <2>3. CASE ReceiveError(i) \/ \E req \in Request : IgnoreRequest(i, req)
    <3>1. PS!Stop \/ UNCHANGED PS!vars
      BY <1>6, <2>3, OtherwiseRefines
    <3> QED
      BY <3>1, Zenon DEF PS!Next
  <2> QED
    BY <1>6, <2>1, <2>2, <2>3 DEF HandleTcpMessage
<1>7. ASSUME NEW c \in ConnIds, Subscriber(c) PROVE [PS!Next]_(PS!vars)
  <2>1. \/ \E id \in Ids : PS!Read(id) \/ PS!Leave(id)
        \/ UNCHANGED PS!vars
    BY <1>7, SubscriberRefines
  <2> QED
    BY <2>1, Zenon DEF PS!Next
<1> QED
  BY <1>1, <1>2, <1>3, <1>4, <1>5, <1>6, <1>7 DEF Next, BrokerStep

\* The broker implements PubSub (server.cpp and server_helper.cpp, every handler) at each
\* step between states where the sockets it wrote down for its clients are those of their
\* sessions: whoever leaves, returns, is refused or is killed, a connected subscriber is
\* owed each message of its topics once and in order, an absent one those it asked to be
\* kept, and nobody anything else.  reconnect() is the only place where the sockets part.
THEOREM BrokerStepsRefine == Spec => StepsImplementPubSub
<1> DEFINE Refines == CurrentSockets /\ CurrentSockets' => [PS!Next]_(PS!vars)
<1>1. RefinementInv /\ RefinementInv' /\ [Next]_vars => [Refines]_vars
  BY StepRefines DEF RefinementInv, SocketInv
<1> QED
  BY <1>1, RefinementInvariant, PTL DEF Spec, StepsImplementPubSub

\* A broker whose recorded sockets never part from those of its sessions implements
\* PubSub from its start to its end (server.cpp, main): the initial states correspond,
\* and each handler is a step of PubSub or none.
THEOREM CurrentImplements == Spec /\ []CurrentSockets => ImplementsPubSub
<1>1. ASSUME Init PROVE PS!Init
  <2>1. /\ status = "running" /\ topics_subs = <<>> /\ active_ids_sockets = <<>>
        /\ store_and_forward = <<>> /\ udpq = <<>> /\ published = 0
    BY <1>1 DEF Init
  <2>2. DOMAIN topics_subs = {} /\ published - Len(udpq) = 0
    <3>1. DOMAIN topics_subs = {}
      BY <2>1
    <3>2. Len(udpq) = 0
      BY <2>1, EmptySeq
    <3>3. published = 0
      BY <2>1
    <3> QED
      BY <3>1, <3>2, <3>3
  <2>3. \A t, id : SfOf(t, id) = "none"
    BY <2>2 DEF SfOf
  <2>4. [t \in Topics |-> [id \in Ids |-> SfOf(t, id)]] = [t \in Topics |-> [id \in Ids |-> "none"]]
    BY <2>3
  <2>5. session = [id \in Ids |-> "away"]
    BY <2>1 DEF session
  <2>6. owed = [id \in Ids |-> <<>>]
    BY <2>1 DEF owed, Stored
  <2>7. (status = "running") = TRUE
    BY <2>1
  <2> QED
    BY <2>2, <2>4, <2>5, <2>6, <2>7 DEF PS!Init
<1>2. RefinementInv /\ RefinementInv' /\ [Next]_vars /\ CurrentSockets /\ CurrentSockets'
         => [PS!Next]_(PS!vars)
  BY StepRefines DEF RefinementInv, SocketInv
<1> QED
  BY <1>1, <1>2, RefinementInvariant, PTL DEF Spec, ImplementsPubSub, PS!Spec

-----------------------------------------------------------------------------
(* One client.  If there is no other and it is never killed, accept() always *)
(* hands it the first free descriptor, and the sockets do not part.          *)

OneClient == (\E x : Ids = {x}) /\ ~MayKill

FirstFd == 5

\* Who ends has sent its identifier.
Announced == \A c \in DOMAIN conn : conn[c].hello \/ conn[c].client = "open"

\* Every descriptor that is used or recorded is the first.
FirstSubscription == {e \in Subscription : e.client.socket = FirstFd}
FirstOnly ==
    /\ DOMAIN sock \subseteq {FirstFd}
    /\ \A id \in DOMAIN all_clients : all_clients[id].socket = FirstFd
    /\ \A i \in DOMAIN active_clients : active_clients[i].socket = FirstFd
    /\ \A t \in DOMAIN topics_subs : topics_subs[t] \in Seq(FirstSubscription)

\* The broker changes neither who has sent its identifier nor who is running.
Keeps(cn, cn2) ==
    /\ DOMAIN cn2 = DOMAIN cn
    /\ \A c \in DOMAIN cn : cn2[c].hello = cn[c].hello /\ cn2[c].client = cn[c].client

LEMMA TransmitKeeps == ASSUME TypeOK, NEW out PROVE Keeps(conn, Transmit(out))
<1>1. DOMAIN Transmit(out) = DOMAIN conn
  BY DEF Transmit
<1>2. \A c \in DOMAIN conn : /\ Transmit(out)[c].hello = conn[c].hello
                             /\ Transmit(out)[c].client = conn[c].client
  BY TransmitFields
<1> QED
  BY <1>1, <1>2 DEF Keeps

LEMMA HangUpKeeps == ASSUME NEW cn \in Seq(Connection) PROVE Keeps(cn, HangUpAll(cn))
<1>1. DOMAIN HangUpAll(cn) = DOMAIN cn
  BY DEF HangUpAll
<1>2. \A c \in DOMAIN cn : /\ HangUpAll(cn)[c].hello = cn[c].hello
                           /\ HangUpAll(cn)[c].client = cn[c].client
  BY HangUpFields
<1> QED
  BY <1>1, <1>2 DEF Keeps

LEMMA SigPipeKeeps ==
    ASSUME TypeOK, NEW c, NEW out, \A d \in DOMAIN conn : out[d] \in Seq(Message), SigPipe(c, out)
    PROVE  Keeps(conn, conn')
<1>1. conn' = HangUpAll(Transmit(out))
  BY DEF SigPipe
<1>2. Transmit(out) \in Seq(Connection)
  BY TransmitType DEF TypeOK, NetworkOK
<1>3. Keeps(conn, Transmit(out)) /\ Keeps(Transmit(out), HangUpAll(Transmit(out)))
  BY <1>2, TransmitKeeps, HangUpKeeps
<1> QED
  BY <1>1, <1>3 DEF Keeps

LEMMA UpdateKeeps ==
    ASSUME NEW cn, NEW c \in DOMAIN cn, NEW w, w.hello = cn[c].hello, w.client = cn[c].client
    PROVE  Keeps(cn, [cn EXCEPT ![c] = w])
BY DEF Keeps

\* Each handler of the broker.
LEMMA ConnectionKeeps ==
    ASSUME TypeOK, SessionTablesAgree, HandleConnectionRequest
    PROVE  Keeps(conn, conn')
<1>1. PICK c \in ConnIds, fd \in ClientFds, id \in AnyId :
         RejectConnection(c, fd, id) \/ AddNewClient(c, fd, id) \/ Reconnect(c, fd, id)
  BY DEF HandleConnectionRequest
<1>2. c \in DOMAIN conn
  BY <1>1, TailElements DEF RejectConnection, AddNewClient, Reconnect, Accepting, TypeOK, NetworkOK
<1>3. conn[c] \in Connection
  BY <1>2, ConnectionFacts DEF TypeOK
<1>4. CASE RejectConnection(c, fd, id)
  <2> DEFINE w == [conn[c] EXCEPT !.broker = "closed"]
  <2>1. conn' = [conn EXCEPT ![c] = w]
    BY <1>4 DEF RejectConnection
  <2>2. w.hello = conn[c].hello /\ w.client = conn[c].client
    BY <1>3 DEF Connection
  <2> HIDE DEF w
  <2>3. Keeps(conn, [conn EXCEPT ![c] = w])
    BY <1>2, <2>2, UpdateKeeps
  <2> QED
    BY <2>1, <2>3, Zenon
<1>5. CASE AddNewClient(c, fd, id)
  BY <1>5 DEF AddNewClient, Keeps
<1>6. CASE Reconnect(c, fd, id)
  <2> DEFINE client == all_clients[id]
             sk == Insert(sock, fd, c)
             out(k) == StoredTo(sk, client.socket, client.id, k)
  <2>1. \/ conn' = Transmit(out(Len(Stored(client.id))))
        \/ \E k \in 1 .. Len(Stored(client.id)) : SigPipe(sk[client.socket], out(k - 1))
    BY <1>6, Zenon DEF Reconnect
  <2>2. ASSUME NEW k \in 1 .. Len(Stored(client.id))
        PROVE  \A d \in DOMAIN conn : out(k - 1)[d] \in Seq(Message)
    <3>1. Stored(client.id) \in Seq(Message)
      BY StoreTyped
    <3>2. k - 1 \in 0 .. Len(Stored(client.id))
      BY <2>2, <3>1
    <3> QED
      BY <3>2, StoredToType
  <2> HIDE DEF out, client, sk
  <2> QED
    BY <2>1, <2>2, TransmitKeeps, SigPipeKeeps
<1> QED
  BY <1>1, <1>4, <1>5, <1>6

LEMMA UdpKeeps ==
    ASSUME TypeOK, HandleUdpMessage
    PROVE  Keeps(conn, conn')
<1>1. /\ Head(udpq) \in Message
      /\ UnknownTopic(Head(udpq)) \/ Forward(Head(udpq))
  BY StoreTyped, TailElements DEF HandleUdpMessage
<1>2. PICK m \in Message : UnknownTopic(m) \/ Forward(m)
  BY <1>1
<1>3. CASE UnknownTopic(m)
  BY <1>3 DEF UnknownTopic, Keeps
<1>4. CASE Forward(m)
  <2> DEFINE subs == topics_subs[m.topic]
             out(n) == Forwarded(subs, m, n)
  <2>1. \/ conn' = Transmit(out(Len(subs)))
        \/ \E c \in DOMAIN conn : \E k \in SentTo(subs, c) : SigPipe(c, out(k - 1))
    BY <1>4, Zenon DEF Forward
  <2>2. subs \in Seq(Subscription)
    BY <1>4 DEF Forward, TypeOK, TopicsOK
  <2>3. ASSUME NEW c, NEW k \in SentTo(subs, c)
        PROVE  \A d \in DOMAIN conn : out(k - 1)[d] \in Seq(Message)
    <3>1. k \in DOMAIN subs
      BY <2>3 DEF SentTo
    <3>2. k - 1 \in Nat
      BY <2>2, <3>1
    <3> QED
      BY <3>2, ForwardedType
  <2> HIDE DEF out, subs
  <2> QED
    BY <2>1, <2>3, TransmitKeeps, SigPipeKeeps
<1> QED
  BY <1>2, <1>3, <1>4

LEMMA TcpKeeps ==
    ASSUME TypeOK, NEW i, HandleTcpMessage(i)
    PROVE  Keeps(conn, conn')
<1> DEFINE c == sock[i]
<1>1. c \in DOMAIN conn /\ conn[c] \in Connection /\ conn \in Seq(Connection)
  BY ConnectionFacts DEF HandleTcpMessage, TypeOK, NetworkOK
<1>2. ASSUME NEW w, w.hello = conn[c].hello, w.client = conn[c].client,
             conn' = [conn EXCEPT ![c] = w]
      PROVE  Keeps(conn, conn')
  BY <1>1, <1>2 DEF Keeps
<1>3. CASE Disconnect(i)
  <2> DEFINE w == [conn[c] EXCEPT !.broker = "closed"]
  <2>1. conn' = [conn EXCEPT ![c] = w]
    BY <1>3 DEF Disconnect
  <2>2. w.hello = conn[c].hello /\ w.client = conn[c].client
    BY <1>1 DEF Connection
  <2> HIDE DEF w
  <2> QED
    BY <1>2, <2>1, <2>2
<1>4. CASE ReceiveError(i)
  BY <1>1, <1>4, HangUpKeeps DEF ReceiveError
<1>5. ASSUME NEW req, Take(i, req) PROVE Keeps(conn, conn')
  <2> DEFINE w == [conn[c] EXCEPT !.up = Tail(conn[c].up)]
  <2>1. conn' = [conn EXCEPT ![c] = w]
    BY <1>5 DEF Take
  <2>2. w.hello = conn[c].hello /\ w.client = conn[c].client
    BY <1>1 DEF Connection
  <2> HIDE DEF w
  <2> QED
    BY <1>2, <2>1, <2>2
<1>6. Disconnect(i) \/ ReceiveError(i) \/ \E req \in Request : Take(i, req)
  BY DEF HandleTcpMessage, IgnoreRequest, Subscribe, Unsubscribe
<1> QED
  BY <1>3, <1>4, <1>5, <1>6

\* A subscriber that is not killed ends after it has sent its identifier.
LEMMA SubscriberAnnounced ==
    ASSUME TypeOK, ~MayKill, Announced, NEW c, Subscriber(c)
    PROVE  Announced'
<1>1. c \in DOMAIN conn /\ Evolve(conn, conn')
  BY SubscriberEvolves, SubscriberEffects
<1>2. \A d \in DOMAIN conn : d # c => conn'[d] = conn[d]
  BY SubscriberEffects
<1>3. conn[c].hello => conn'[c].hello
  BY <1>1 DEF Evolve, Evolves
<1>4. conn[c].hello \/ SendId(c)
  BY DEF Subscriber, Receive, ReceiveEnd, Exit, Kill, SendRequest
<1>5. conn[c] \in Connection
  BY <1>1, ConnectionFacts DEF TypeOK
<1>6. SendId(c) => conn'[c].hello
  BY <1>1, <1>5 DEF SendId, Connection
<1>7. DOMAIN conn' = DOMAIN conn
  BY <1>1 DEF Evolve
<1> QED
  BY <1>1, <1>2, <1>3, <1>4, <1>6, <1>7 DEF Announced

LEMMA StepAnnounced ==
    ASSUME TypeOK, SessionTablesAgree, ~MayKill, Announced, [Next]_vars
    PROVE  Announced'
<1>1. ASSUME Keeps(conn, conn') PROVE Announced'
  BY <1>1 DEF Keeps, Announced
<1>2. conn' = conn => Keeps(conn, conn')
  BY DEF Keeps
<1>3. CASE Select \/ TypeExit \/ UNCHANGED vars \/ \E topic \in Topics : Publish(topic)
  BY <1>1, <1>2, <1>3 DEF Select, TypeExit, vars, Publish
<1>4. CASE HandleStdinMessage
  <2>1. conn \in Seq(Connection) /\ conn' = HangUpAll(conn)
    BY <1>4 DEF HandleStdinMessage, TypeOK, NetworkOK
  <2> QED
    BY <1>1, <2>1, HangUpKeeps
<1>5. ASSUME NEW id \in Ids, Connect(id) PROVE Announced'
  <2> DEFINE new == [id |-> id, hello |-> FALSE, client |-> "open",
                     broker |-> "open", broken |-> FALSE, up |-> <<>>, down |-> <<>>]
  <2>1. new \in Connection /\ conn' = Append(conn, new) /\ new.client = "open"
    BY <1>5, EmptySeq DEF Connect, Connection
  <2> HIDE DEF new
  <2>2. conn \in Seq(Connection) /\ Len(conn) \in Nat /\ DOMAIN conn = 1 .. Len(conn)
    BY ConnectionFacts DEF TypeOK
  <2>3. /\ conn' \in Seq(Connection) /\ Len(conn') = Len(conn) + 1
        /\ \A c \in 1 .. Len(conn) : conn'[c] = conn[c]
        /\ conn'[Len(conn) + 1] = new
    BY <2>1, <2>2, AppendElements
  <2>4. DOMAIN conn' = 1 .. Len(conn) + 1
    BY <2>2, <2>3
  <2> QED
    BY <2>1, <2>2, <2>3, <2>4 DEF Announced
<1> QED
  BY <1>1, <1>3, <1>4, <1>5, ConnectionKeeps, UdpKeeps, TcpKeeps, SubscriberAnnounced
     DEF Next, BrokerStep

\* accept() hands out the first descriptor: the client's other session has ended.
LEMMA FirstAccepted ==
    ASSUME OneClient, TypeOK, SessionTablesAgree, Sessions, Announced,
           NEW c, NEW fd, NEW id, Accepting(c, fd, id), id \notin DOMAIN active_ids_sockets
    PROVE  fd = FirstFd /\ DOMAIN sock = {}
<1>1. /\ c \in DOMAIN conn /\ Lowest(fd, ClientFds \ DOMAIN sock)
      /\ id = IF conn[c].hello THEN conn[c].id ELSE NoId
      /\ conn[c].hello \/ conn[c].client # "open"
  BY TailElements DEF Accepting, TypeOK, NetworkOK
<1>2. PICK x : Ids = {x}
  BY DEF OneClient
<1>3. \A d \in DOMAIN conn : conn[d].id = x
  <2>1. \A d \in DOMAIN conn : conn[d] \in Connection
    BY ConnectionFacts DEF TypeOK
  <2> QED
    BY <1>2, <2>1 DEF Connection
<1>4. id = x
  BY <1>1, <1>3 DEF Announced
<1>5. ASSUME NEW i \in DOMAIN sock PROVE FALSE
  <2>1. sock[i] \in DOMAIN conn /\ i \in DOMAIN active_clients
    BY DEF TypeOK, NetworkOK, SessionTablesAgree
  <2>2. conn[sock[i]].hello
    BY <2>1 DEF Announced, Sessions, Identified
  <2>3. active_clients[i].id = x
    BY <1>3, <2>1, <2>2 DEF Sessions, Identified
  <2> QED
    BY <1>4, <2>1, <2>3 DEF SessionTablesAgree
<1>6. DOMAIN sock = {}
  BY <1>5
<1>7. fd \in ClientFds /\ \A f \in ClientFds : fd <= f
  BY <1>1, <1>6 DEF Lowest
<1>8. fd = FirstFd
  BY <1>7, BrokerAssumption DEF ClientFds, FirstFd
<1> QED
  BY <1>6, <1>8

LEMMA ConnectionFirst ==
    ASSUME OneClient, TypeOK, SessionTablesAgree, Sessions, Announced, FirstOnly,
           HandleConnectionRequest
    PROVE  FirstOnly'
<1>1. PICK c \in ConnIds, fd \in ClientFds, id \in AnyId :
         RejectConnection(c, fd, id) \/ AddNewClient(c, fd, id) \/ Reconnect(c, fd, id)
  BY DEF HandleConnectionRequest
<1>2. CASE UNCHANGED <<maps, sock>>
  BY <1>2 DEF FirstOnly, maps
<1>3. CASE AddNewClient(c, fd, id)
  <2> DEFINE client == [id |-> id, socket |-> fd]
  <2>1. /\ Accepting(c, fd, id) /\ id \notin DOMAIN active_ids_sockets
        /\ all_clients' = Insert(all_clients, id, client)
        /\ active_clients' = Insert(active_clients, fd, client)
        /\ sock' = Insert(sock, fd, c) /\ topics_subs' = topics_subs
    BY <1>3 DEF AddNewClient
  <2>2. fd = FirstFd /\ DOMAIN sock = {} /\ client.socket = fd
    BY <2>1, FirstAccepted
  <2> HIDE DEF client
  <2> QED
    BY <2>1, <2>2 DEF FirstOnly, Insert
<1>4. CASE Reconnect(c, fd, id) /\ status' # "killed"
  <2> DEFINE client == all_clients[id]
  <2>1. /\ Accepting(c, fd, id) /\ id \notin DOMAIN active_ids_sockets
        /\ id \in DOMAIN all_clients
        /\ all_clients' = Insert(Erase(all_clients, id), id, client)
        /\ active_clients' = Insert(active_clients, fd, client)
        /\ sock' = Insert(sock, fd, c) /\ topics_subs' = topics_subs
    BY <1>4 DEF Reconnect, SigPipe
  <2>2. fd = FirstFd /\ DOMAIN sock = {}
    BY <2>1, FirstAccepted
  <2>3. client.socket = FirstFd
    BY <2>1 DEF FirstOnly
  <2> HIDE DEF client
  <2> QED
    BY <2>1, <2>2, <2>3 DEF FirstOnly, Insert, Erase, Restrict
<1>5. CASE RejectConnection(c, fd, id)
  BY <1>2, <1>5 DEF RejectConnection
<1>6. CASE Reconnect(c, fd, id) /\ status' = "killed"
  <2>1. UNCHANGED <<maps, sock>>
    BY <1>6 DEF Reconnect, SigPipe, Accepting, Scan
  <2> QED
    BY <1>2, <2>1
<1> QED
  BY <1>1, <1>3, <1>4, <1>5, <1>6

LEMMA TcpFirst ==
    ASSUME TypeOK, SessionTablesAgree, FirstOnly, NEW i, HandleTcpMessage(i)
    PROVE  FirstOnly'
<1>1. i \in DOMAIN sock /\ i \in DOMAIN active_clients
  BY DEF HandleTcpMessage, SessionTablesAgree
<1>2. CASE Disconnect(i)
  BY <1>2 DEF Disconnect, FirstOnly, Erase, Restrict
<1>3. CASE ReceiveError(i) \/ \E req \in Request : IgnoreRequest(i, req)
  BY <1>3 DEF ReceiveError, IgnoreRequest, Take, maps, FirstOnly
<1>4. ASSUME NEW req \in Request, Take(i, req), NEW t \in DOMAIN topics_subs,
             NEW list \in Seq(FirstSubscription), topics_subs' = [topics_subs EXCEPT ![t] = list]
      PROVE  FirstOnly'
  BY <1>4 DEF Take, FirstOnly
<1>5. ASSUME NEW req \in Request, Subscribe(i, req) PROVE FirstOnly'
  <2> DEFINE t == req.topic
             new == [client |-> active_clients[i], sf |-> req.sf]
  <2>1. /\ Take(i, req) /\ t \in DOMAIN topics_subs
        /\ topics_subs[t] \in Seq(FirstSubscription) /\ req.sf \in {"off", "on"}
    BY <1>5 DEF Subscribe, FirstOnly, Request
  <2>2. new \in FirstSubscription
    BY <1>1, <2>1 DEF FirstOnly, FirstSubscription, Subscription, TypeOK, SessionsOK
  <2>3. CASE topics_subs' = [topics_subs EXCEPT ![t] = Append(topics_subs[t], new)]
    <3> HIDE DEF new
    <3>1. Append(topics_subs[t], new) \in Seq(FirstSubscription)
      BY <2>1, <2>2
    <3> QED
      BY <1>4, <2>1, <2>3, <3>1
  <2>4. ASSUME NEW p \in PlacesOf(t, active_clients[i].id),
               topics_subs' = [topics_subs EXCEPT ![t][p].sf = req.sf]
        PROVE  FirstOnly'
    <3> DEFINE s == [topics_subs[t][p] EXCEPT !.sf = req.sf]
    <3>1. p \in 1 .. Len(topics_subs[t])
      BY <2>1, <2>4, LenProperties DEF PlacesOf
    <3>2. topics_subs[t][p] \in FirstSubscription
      BY <2>1, <3>1, ElementOfSeq
    <3>3. s \in FirstSubscription
      BY <2>1, <3>2 DEF FirstSubscription, Subscription
    <3>4. topics_subs' = [topics_subs EXCEPT ![t] = [topics_subs[t] EXCEPT ![p] = s]]
      BY <2>4
    <3> HIDE DEF s
    <3>5. [topics_subs[t] EXCEPT ![p] = s] \in Seq(FirstSubscription)
      BY <2>1, <3>1, <3>3, ExceptSeq
    <3> QED
      BY <1>4, <2>1, <3>4, <3>5
  <2> QED
    BY <1>5, <2>3, <2>4 DEF Subscribe
<1>6. ASSUME NEW req \in Request, Unsubscribe(i, req) PROVE FirstOnly'
  <2> DEFINE t == req.topic
  <2>1. /\ Take(i, req) /\ t \in DOMAIN topics_subs
        /\ topics_subs[t] \in Seq(FirstSubscription)
    BY <1>6 DEF Unsubscribe, FirstOnly
  <2>2. CASE topics_subs' = topics_subs
    BY <2>1, <2>2 DEF Take, FirstOnly
  <2>3. ASSUME NEW p \in PlacesOf(t, active_clients[i].id),
               topics_subs' = [topics_subs EXCEPT ![t] = RemoveAt(topics_subs[t], p)]
        PROVE  FirstOnly'
    <3>1. RemoveAt(topics_subs[t], p) \in Seq(FirstSubscription)
      BY <2>1, <2>3, RemoveAtType DEF PlacesOf
    <3> QED
      BY <1>4, <2>1, <2>3, <3>1
  <2> QED
    BY <1>6, <2>2, <2>3 DEF Unsubscribe
<1> QED
  BY <1>2, <1>3, <1>5, <1>6 DEF HandleTcpMessage

LEMMA StepFirst ==
    ASSUME OneClient, TypeOK, SessionTablesAgree, Sessions, Announced, FirstOnly, [Next]_vars
    PROVE  FirstOnly'
<1>1. CASE UNCHANGED <<maps, sock>>
  BY <1>1 DEF FirstOnly, maps
<1>2. CASE HandleUdpMessage
  <2>1. UnknownTopic(Head(udpq)) \/ Forward(Head(udpq))
    BY <1>2 DEF HandleUdpMessage
  <2>2. /\ UNCHANGED <<sock, all_clients, active_clients>>
        /\ \/ topics_subs' = topics_subs
           \/ topics_subs' = Insert(topics_subs, Head(udpq).topic, <<>>)
    BY <2>1, Zenon DEF UnknownTopic, Forward, SigPipe, maps
  <2>3. <<>> \in Seq(FirstSubscription)
    BY EmptySeq
  <2> QED
    BY <2>2, <2>3 DEF FirstOnly, Insert
<1>3. CASE Select \/ HandleStdinMessage \/ UNCHANGED vars
  BY <1>1, <1>3 DEF Select, HandleStdinMessage, vars
<1>4. CASE \/ \E id \in Ids : Connect(id)
           \/ \E c \in ConnIds : Subscriber(c)
           \/ \E topic \in Topics : Publish(topic)
           \/ TypeExit
  <2>1. UNCHANGED broker
    BY <1>4 DEF Connect, Subscriber, SendId, Receive, ReceiveEnd, Exit, Kill, SendRequest,
                Publish, TypeExit
  <2> QED
    BY <1>1, <2>1 DEF broker
<1> QED
  BY <1>2, <1>3, <1>4, ConnectionFirst, TcpFirst DEF Next, BrokerStep

LEMMA FirstCurrent ==
    ASSUME TypeOK, SessionTablesAgree, FirstOnly
    PROVE  CurrentSockets
<1> SUFFICES ASSUME NEW id \in DOMAIN active_ids_sockets
             PROVE  /\ all_clients[id].socket = active_ids_sockets[id]
                    /\ \A topic \in DOMAIN topics_subs : \A k \in PlacesOf(topic, id) :
                          topics_subs[topic][k].client.socket = active_ids_sockets[id]
  BY DEF CurrentSockets
<1>1. active_ids_sockets[id] = FirstFd /\ id \in DOMAIN all_clients
  BY SessionPlaces DEF FirstOnly, SessionTablesAgree
<1>2. ASSUME NEW topic \in DOMAIN topics_subs, NEW k \in PlacesOf(topic, id)
      PROVE  topics_subs[topic][k].client.socket = FirstFd
  <2>1. topics_subs[topic] \in Seq(FirstSubscription)
    BY DEF FirstOnly
  <2>2. k \in DOMAIN topics_subs[topic]
    BY DEF PlacesOf
  <2>3. topics_subs[topic][k] \in FirstSubscription
    BY <2>1, <2>2
  <2> QED
    BY <2>3 DEF FirstSubscription
<1> QED
  BY <1>1, <1>2 DEF FirstOnly

\* With one client that is never killed, the broker implements PubSub (server.cpp and
\* server_helper.cpp), however often it leaves and returns, whatever it subscribes to and
\* however many datagrams there are.
THEOREM OneClientImplements == ASSUME OneClient PROVE Spec => ImplementsPubSub
<1>1. Init => Announced /\ FirstOnly
  BY DEF Init, Announced, FirstOnly
<1>2. SocketInv /\ Announced /\ FirstOnly /\ [Next]_vars => Announced' /\ FirstOnly'
  BY StepAnnounced, StepFirst DEF OneClient, SocketInv
<1>3. SocketInv /\ FirstOnly => CurrentSockets
  BY FirstCurrent DEF SocketInv
<1> QED
  BY <1>1, <1>2, <1>3, SocketInvariant, CurrentImplements, PTL DEF Spec
=============================================================================
