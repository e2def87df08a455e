------------------------------- MODULE MCMqtt -------------------------------
(* Instances of MqttPublisher for TLC.                                       *)
EXTENDS MqttPublisher

CONSTANTS u1, u2

Symmetry == Permutations({u1, u2})
=============================================================================
