---------------------------- MODULE MCMQTTTunnel ----------------------------
(***************************************************************************)
(* MQTTTunnel, with the invariant of its attempts, for TLC: the clients of *)
(* a configuration are alike, so that permuting them is a symmetry of the  *)
(* runs that check no liveness.                                            *)
(***************************************************************************)
EXTENDS Attempts, TLC

ClientSymmetry == Permutations(Clients)
=============================================================================
