-------------------------- MODULE MCConfigManager --------------------------
(* The instance of ConfigManager that TLC checks. *)
EXTENDS ConfigManager, TLC
Symmetry == Permutations(Callers)
=============================================================================
