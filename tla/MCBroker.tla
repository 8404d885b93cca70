------------------------------ MODULE MCBroker ------------------------------
(* Instances of Broker for TLC. *)
EXTENDS BrokerPubSub, TLC

CONSTANTS a, b, none, x, y

OneId == {a}
TwoIds == {a, b}
OneTopic == {x}
TwoTopics == {x, y}
Symmetric == Permutations({a, b})
=============================================================================
