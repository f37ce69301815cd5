---------------------------- MODULE MCMqttClient ----------------------------
(***************************************************************************)
(* Model checking instance of MqttClient.                                  *)
(***************************************************************************)
EXTENDS MqttClient, TLC

CONSTANTS b1, b2

MCBlocks == {b1, b2}
MCSegments == {<<"CONNACK">>, <<"PUBLISH_QOS", "PINGREQ">>, <<"OTHER", "PINGREQ">>}

Symmetry == Permutations(MCBlocks)
=============================================================================
