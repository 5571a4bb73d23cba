--------------------------- MODULE MCTunnelRunner ---------------------------
(* Instances of TunnelRunner for TLC. *)
EXTENDS TunnelRunner
=============================================================================
