------------------------------ MODULE MCSyncJob ------------------------------
(* Instances of SyncJob for TLC. *)
EXTENDS SyncJob, TLC

ControllerSymmetry == Permutations(Controllers)
=============================================================================
