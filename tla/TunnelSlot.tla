----------------------------- MODULE TunnelSlot -----------------------------
(***************************************************************************)
(* An Instance (internal/cloudflared/instance.go) as the runner uses it:   *)
(* one place for one run, which commands fill and clear and which changes  *)
(* by itself in between.  TunnelRunner has such a slot per instance;       *)
(* TunnelInstance is shown to implement it.                                *)
(*                                                                         *)
(*  idle       no run, none is coming                                      *)
(*  launching  Start or a restart has reserved it, the options are not read*)
(*  ready      the options are read, the run is about to be published      *)
(*  up         a run                                                       *)
(*  stopping   a run that Stop has marked                                  *)
(*  pending    the run has ended, a restart is being decided or awaited    *)
(***************************************************************************)
EXTENDS Naturals

VARIABLES
  slot,
  calls   \* accepted commands, which tells a command from a step of its own

vars == <<slot, calls>>

Init == slot = "idle" /\ calls = 0

Command == calls' = calls + 1

\* An accepted Start fills the slot.  It overtakes a pending restart.
Fill  == slot \in {"idle", "pending"} /\ slot' = "launching"
Start == Command /\ Fill

\* Stop: a launch or a pending restart is over at once, a run is marked.
Clear == slot' = IF slot \in {"up", "stopping"} THEN "stopping" ELSE "idle"
Stop  == Command /\ Clear

\* The options are usable, or they are not.
ReadOptions == slot = "launching" /\ slot' \in {"ready", "idle"}

Publish == slot = "ready" /\ slot' = "up"

RunEnds == slot = "up" /\ slot' = "pending"

RestartDue == slot = "pending" /\ slot' = "launching"

RestartDropped == slot = "pending" /\ slot' = "idle"

RunStopped == slot = "stopping" /\ slot' = "idle"

\* What happens sooner or later.
Progress == ReadOptions \/ Publish \/ RestartDue \/ RestartDropped \/ RunStopped

\* What may happen to the slot, commands counted or not.
Change == Fill \/ Clear \/ Progress \/ RunEnds

Own == UNCHANGED calls /\ (Progress \/ RunEnds)

Next == Start \/ Stop \/ Own

Spec == Init /\ [][Next]_vars /\ WF_vars(Own /\ Progress)
=============================================================================
