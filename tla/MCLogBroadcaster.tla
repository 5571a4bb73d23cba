-------------------------- MODULE MCLogBroadcaster --------------------------
(* Instances of LogBroadcaster for TLC. *)
EXTENDS LogBroadcaster
=============================================================================
