-------------------------- MODULE MCMqttConnection --------------------------
(***************************************************************************)
(* Instances of MqttConnection for TLC.                                    *)
(***************************************************************************)
EXTENDS MqttConnection

\* The calls of a program that leaves reconnecting to the library.
OrdinaryCalls == {"disconnect", "destroy"}

\* Every failure but those inside connect(), which does not recover from them.
RetriedFaults == FaultNames \ {"setup"}

NoFaults == {}
=============================================================================
