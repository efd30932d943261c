--------------------------- MODULE MCMQTTProtocol ---------------------------
(***************************************************************************)
(* Instances of MQTTProtocol for TLC.                                      *)
(***************************************************************************)
EXTENDS MQTTProtocol

Symmetry == Permutations(Ops)
=============================================================================
