-------------------------- MODULE MCTunnelInstance --------------------------
(* Instances of TunnelInstance for TLC. *)
EXTENDS TunnelInstance
=============================================================================
