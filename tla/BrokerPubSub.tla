---------------------------- MODULE BrokerPubSub ----------------------------
(***************************************************************************)
(* The broker seen as PubSub, and the statements of the documentation and  *)
(* the tests about delivery.                                               *)
(***************************************************************************)
EXTENDS Broker

\* The connection of the session the broker has for id.
SessionOf(id) == sock[active_ids_sockets[id]]

session ==
    [id \in Ids |-> IF id \notin DOMAIN active_ids_sockets THEN "away"
                    ELSE IF conn[SessionOf(id)].client = "open" THEN "here" ELSE "gone"]

owed ==
    [id \in Ids |-> IF id \in DOMAIN active_ids_sockets THEN conn[SessionOf(id)].down
                    ELSE Stored(id)]

PS == INSTANCE PubSub WITH
        running <- status = "running",
        known <- DOMAIN topics_subs,
        sf <- [t \in Topics |-> [id \in Ids |-> SfOf(t, id)]],
        last <- published - Len(udpq)

\* The broker implements PubSub: what waits in the socket of a connected client
\* and in store_and_forward for an absent one is what it is owed, complete, in
\* the order of publication and without duplicates, across departures, returns
\* and refused second sessions.  It holds as long as no client comes back on
\* another descriptor.
ImplementsPubSub == PS!Spec

\* The sockets the broker wrote down for its connected clients are those of their
\* sessions.
CurrentSockets ==
    \A id \in DOMAIN active_ids_sockets :
        /\ all_clients[id].socket = active_ids_sockets[id]
        /\ \A topic \in DOMAIN topics_subs : \A k \in PlacesOf(topic, id) :
              topics_subs[topic][k].client.socket = active_ids_sockets[id]

\* The stale socket is the only thing between the broker and PubSub: with any
\* number of clients that leave, return, are refused or are killed, every step
\* between two states whose recorded sockets are current is a step of PubSub.
StepsImplementPubSub ==
    [][CurrentSockets /\ CurrentSockets' => [PS!Next]_(PS!vars)]_vars

\* tema2/test.py:548 "subscriber C2 receives missed SF messages upon restart":
\* the step that drops the stored messages of a client puts them in the socket
\* of its new session, if it is still there.
StoredReachReturning ==
    [][\A id \in Ids :
          id \in DOMAIN store_and_forward /\ id \notin DOMAIN store_and_forward' =>
              LET c == SessionOf(id)'
              IN  conn'[c].client = "open" => conn'[c].down = store_and_forward[id]]_vars

\* tema2/readme.txt:44 "handle_tcp_message() ... il aboneaza sau il dezaboneaza in
\* functie de mesaj": once the broker has taken a SUBSCRIBE, the client is in the
\* list of the topic.
SubscribeTakesEffect ==
    [][\A c \in DOMAIN conn, req \in Request, id \in Ids :
          /\ id = conn[c].id
          /\ req.type = "SUBSCRIBE"
          /\ conn[c].up # <<>> /\ req = Head(conn[c].up)
          /\ conn'[c].up = Tail(conn[c].up)
          => SfOf(req.topic, id)' = req.sf]_vars
=============================================================================
