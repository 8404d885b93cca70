------------------------------- MODULE PubSub -------------------------------
(***************************************************************************)
(* What the tema2 broker promises its subscribers, without sockets,        *)
(* descriptors or tables: who is owed which messages, and in which order.  *)
(* A topic exists from its first message on.  A message is owed to the     *)
(* subscribers that are here, and to those that are away and asked for     *)
(* store-and-forward; one that is gone without the broker knowing loses    *)
(* it.  Coming back changes nothing in what a client is owed.              *)
(***************************************************************************)
EXTENDS Naturals, Sequences

CONSTANTS Ids, Topics, MaxMsgs

VARIABLES
    running,   \* the broker has not ended
    known,     \* topics that exist
    sf,        \* sf[topic][id]: "none" when id is not subscribed
    session,   \* "away", "here", or "gone": left, but the broker does not know
    last,      \* number of the last message dispatched
    owed       \* owed[id]: messages id has not read yet, oldest first

vars == <<running, known, sf, session, last, owed>>

Message == [topic : Topics, seq : 1 .. MaxMsgs]

Init ==
    /\ running = TRUE
    /\ known = {}
    /\ sf = [t \in Topics |-> [id \in Ids |-> "none"]]
    /\ session = [id \in Ids |-> "away"]
    /\ last = 0
    /\ owed = [id \in Ids |-> <<>>]

Entitled(id, topic) ==
    \/ session[id] = "here" /\ sf[topic][id] # "none"
    \/ session[id] = "away" /\ sf[topic][id] = "on"

Owe(S, m) == owed' = [id \in Ids |-> IF id \in S THEN Append(owed[id], m) ELSE owed[id]]

Dispatch(m) ==
    /\ running /\ m.seq = last + 1
    /\ last' = m.seq
    /\ known' = known \cup {m.topic}
    /\ Owe({id \in Ids : m.topic \in known /\ Entitled(id, m.topic)}, m)
    /\ UNCHANGED <<running, sf, session>>

\* Subscribing or leaving is possible while the broker has a session for id.
SetSubscription(id, topic, s) ==
    /\ running /\ session[id] # "away" /\ topic \in known
    /\ sf' = [sf EXCEPT ![topic][id] = s]
    /\ UNCHANGED <<running, known, session, last, owed>>

Arrive(id) ==
    /\ running /\ session[id] = "away"
    /\ \/ session' = [session EXCEPT ![id] = "here"] /\ UNCHANGED owed
       \/ session' = [session EXCEPT ![id] = "gone"] /\ owed' = [owed EXCEPT ![id] = <<>>]
    /\ UNCHANGED <<running, known, sf, last>>

Read(id) ==
    /\ session[id] = "here" /\ owed[id] # <<>>
    /\ owed' = [owed EXCEPT ![id] = Tail(@)]
    /\ UNCHANGED <<running, known, sf, session, last>>

Leave(id) ==
    /\ session[id] = "here"
    /\ session' = [session EXCEPT ![id] = "gone"]
    /\ owed' = [owed EXCEPT ![id] = <<>>]
    /\ UNCHANGED <<running, known, sf, last>>

Notice(id) ==
    /\ running /\ session[id] = "gone"
    /\ session' = [session EXCEPT ![id] = "away"]
    /\ UNCHANGED <<running, known, sf, last, owed>>

\* The broker ends, possibly in the middle of dispatching a message.
Stop ==
    /\ running /\ running' = FALSE
    /\ \/ UNCHANGED <<last, owed>>
       \/ \E m \in Message, S \in SUBSET Ids :
             /\ m.seq = last + 1 /\ last' = m.seq
             /\ \A id \in S : m.topic \in known /\ Entitled(id, m.topic)
             /\ Owe(S, m)
    /\ UNCHANGED <<known, sf, session>>

Next ==
    \/ \E m \in Message : Dispatch(m)
    \/ \E id \in Ids : \/ Arrive(id) \/ Read(id) \/ Leave(id) \/ Notice(id)
                       \/ \E topic \in Topics, s \in {"none", "off", "on"} :
                             SetSubscription(id, topic, s)
    \/ Stop

Spec == Init /\ [][Next]_vars
=============================================================================
