--------------------------- MODULE TunnelPromise ----------------------------
(***************************************************************************)
(* What an Instance (internal/cloudflared/instance.go) promises to the     *)
(* callers of Start and Stop, without generations, contexts or goroutines: *)
(* a slot that holds at most one run, is filled only while the tunnel is   *)
(* wanted, and is emptied once it is not.                                  *)
(***************************************************************************)

VARIABLES
  wanted,  \* the last accepted command was Start
  up       \* a run occupies the slot

vars == <<wanted, up>>

Init == wanted = FALSE /\ up = FALSE

\* Start is refused while the slot is occupied.
Request == ~up /\ wanted' = TRUE /\ UNCHANGED up

Withdraw == wanted' = FALSE /\ UNCHANGED up

\* First launch or automatic restart.
Launch == wanted /\ ~up /\ up' = TRUE /\ UNCHANGED wanted

Exit == up /\ up' = FALSE /\ UNCHANGED wanted

Next == Request \/ Withdraw \/ Launch \/ Exit

\* An occupied slot that is no longer wanted is vacated.
Spec == Init /\ [][Next]_vars /\ WF_vars(~wanted /\ Exit)
=============================================================================
