--------------------------- MODULE MCMqttTransfer ---------------------------
(* One round of one iteration with two sizes in both directions: four        *)
(* operations in every order, the identifiers just sufficient for them.      *)
EXTENDS MqttTransfer
=============================================================================
