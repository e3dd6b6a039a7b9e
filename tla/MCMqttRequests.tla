-------------------------- MODULE MCMqttRequests --------------------------
(***************************************************************************)
(* Instances of MqttRequests for TLC.                                      *)
(***************************************************************************)
EXTENDS MqttRequests, TLC

\* Requests are told apart only by what was done with them.
RequestSymmetry == Permutations(Requests)

AnsweredKinds == {"publish1", "publish2"}
DistinctKinds == {"publish0", "publish2", "subscribe"}
LostChannels  == {"hangup", "refuse"}
Hangups       == {"hangup"}
Closing       == {"disconnect"}
=============================================================================
