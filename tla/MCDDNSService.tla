---------------------------- MODULE MCDDNSService ----------------------------
(* Instances of DDNSService for TLC. *)
EXTENDS DDNSService
=============================================================================
