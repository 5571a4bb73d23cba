------------------------- MODULE DDNSService_proofs -------------------------
(***************************************************************************)
(* Proofs about DDNSService, for any number of concurrent requests and any *)
(* records and addresses.                                                  *)
(*                                                                         *)
(* There is one loop because whoever waits for it holds lifecycleMu and    *)
(* has marked it as not running (LifecycleInv).  It follows the            *)
(* configuration because what is out of step with it is in the hands of a  *)
(* request that will stop or start it (EnabledInv).  What a deletion       *)
(* removes stays removed because a deletion that overlaps nothing finds    *)
(* nobody with a record to do, and a record that has gone is put on no     *)
(* list afterwards (DeletionInv).                                          *)
(***************************************************************************)
EXTENDS DDNSService, TLAPS

\* lifecycleMu is held by the request that waits for a loop, which it has
\* marked as not running.
LockInv ==
  /\ lifecycle \in Callers \cup {Nothing}
  /\ \A c \in Callers : /\ lifecycle = c <=> pc[c] = "stopping"
                        /\ pc[c] = "stopping" => loop \in Loops /\ ~running

\* The inductive invariant: only a loop that has not ended is cancelled.
LifecycleInv ==
  /\ DOMAIN pc = Procs /\ running \in BOOLEAN
  /\ LockInv /\ LoopIsOwned
  /\ \A l \in canceled : l \in Loops /\ pc[l] # "none"

LEMMA Distinct ==
  /\ Nothing \notin Callers /\ Nothing \notin Loops
  /\ \A c \in Callers, l \in Loops : c # l
  /\ \E l \in Loops : TRUE
BY SetsAssumption

\* A step that lets a goroutine proceed, but neither end nor wait for a loop,
\* and leaves the service alone.
LEMMA Moves ==
  ASSUME LifecycleInv, NEW p \in Procs, pc[p] \notin {"none", "stopping"},
         NEW where, where \notin {"none", "stopping"}, Goto(p, where),
         UNCHANGED service
  PROVE  LifecycleInv'
<1>1. /\ DOMAIN pc' = Procs /\ pc'[p] = where
      /\ \A q \in Procs \ {p} : pc'[q] = pc[q]
  BY DEF Goto, LifecycleInv
<1>2. \A q \in Procs : /\ pc'[q] = "none" <=> pc[q] = "none"
                       /\ pc'[q] = "stopping" <=> pc[q] = "stopping"
  BY <1>1
<1>3. UNCHANGED <<lifecycle, running, loop, canceled>>
  BY DEF service
<1> QED
  BY <1>1, <1>2, <1>3 DEF LifecycleInv, LockInv, LoopIsOwned, Procs

\* A step of the environment.
LEMMA Stays ==
  ASSUME LifecycleInv, UNCHANGED <<pc, service>>
  PROVE  LifecycleInv'
BY DEF LifecycleInv, LockInv, LoopIsOwned, service

LEMMA LifecycleInit == Init => LifecycleInv
<1> SUFFICES ASSUME Init PROVE LifecycleInv
  OBVIOUS
<1>1. running \in BOOLEAN /\ (running => loop \in Loops) /\ (~running => loop = Nothing)
  BY Distinct DEF Init
<1>2. /\ DOMAIN pc = Procs
      /\ \A c \in Callers : pc[c] = "idle"
      /\ \A l \in Loops : pc[l] = IF l = loop THEN "top" ELSE "none"
  BY Distinct DEF Init, Procs
<1>3. lifecycle = Nothing /\ canceled = {}
  BY DEF Init
<1> QED
  BY <1>1, <1>2, <1>3, Distinct DEF LifecycleInv, LockInv, LoopIsOwned

\* While nobody holds lifecycleMu and nothing is marked as running, every loop
\* has ended.
LEMMA NoneLeft ==
  LifecycleInv /\ lifecycle = Nothing /\ ~running => \A l \in Loops : pc[l] = "none"
BY DEF LifecycleInv, LoopIsOwned

-----------------------------------------------------------------------------
LEMMA NetworkMoves ==
  ASSUME LifecycleInv, NEW p \in Procs, Network(p) PROVE LifecycleInv'
<1>1. pc[p] \notin {"none", "stopping"}
  BY DEF Network, Detect, DetectFails, SyncList, SyncWrite
<1>2. UNCHANGED service
  BY DEF Network, Detect, DetectFails, SyncList, SyncWrite
<1>3. \E where : where \notin {"none", "stopping"} /\ Goto(p, where)
  <2>1. CASE Detect(p) \/ DetectFails(p)
    BY <2>1 DEF Detect, DetectFails, Finish
  <2>2. ASSUME NEW r, NextRecord(p, r) PROVE \E where : where \notin {"none", "stopping"} /\ Goto(p, where)
    BY <2>2 DEF NextRecord, Finish
  <2>3. CASE SyncList(p)
    <3>1. Goto(p, "write") \/ \E r : NextRecord(p, r)
      BY <2>3 DEF SyncList
    <3> QED BY <2>2, <3>1
  <2>4. CASE SyncWrite(p)
    BY <2>2, <2>4 DEF SyncWrite
  <2> QED BY <2>1, <2>3, <2>4 DEF Network
<1> QED
  BY <1>1, <1>2, <1>3, Moves

LEMMA ArriveMoves ==
  ASSUME LifecycleInv, NEW c \in Callers, Arrive(c) PROVE LifecycleInv'
<1>1. PICK where \in {"edit", "stop", "detect"} : \E op, rec : Begin(c, op, rec, where)
  BY DEF Arrive, BeginEdit, BeginRestart, BeginSync, BeginDelete
<1>2. pc[c] = "idle" /\ Goto(c, where) /\ UNCHANGED service
  BY <1>1 DEF Begin, Busy
<1> QED
  BY <1>2, Moves DEF Procs

\* The steps of a request that are no part of Start or Stop.
Elsewhere(c) ==
  \/ SaveConfig(c) \/ PostConfig(c) \/ SaveFeatures(c) \/ SaveFails(c) \/ StopIdle(c)
  \/ SyncNotes(c) \/ SyncPlans(c)
  \/ DeleteFails(c) \/ DeleteLooksUp(c) \/ DeleteRemoves(c) \/ DeleteSaves(c)

LEMMA ElsewhereMoves ==
  ASSUME LifecycleInv, NEW c \in Callers, Elsewhere(c) PROVE LifecycleInv'
<1>1. pc[c] \notin {"none", "stopping"}
  BY DEF Elsewhere, SaveConfig, PostConfig, SaveFeatures, SaveFails, StopIdle, SyncNotes, SyncPlans,
         DeleteFails, DeleteLooksUp, DeleteRemoves, DeleteSaves
<1>2. UNCHANGED service
  BY DEF Elsewhere, SaveConfig, PostConfig, SaveFeatures, SaveFails, StopIdle, SyncNotes, SyncPlans,
         DeleteFails, DeleteLooksUp, DeleteRemoves, DeleteSaves, SaveTo
<1>3. \E where \in CallerPlaces \ {"stopping"} : Goto(c, where)
  <2>1. CASE SaveConfig(c) \/ PostConfig(c) \/ SaveFeatures(c) \/ SaveFails(c) \/ SyncNotes(c) \/ SyncPlans(c)
    BY <2>1 DEF SaveConfig, PostConfig, SaveFeatures, SaveFails, SyncNotes, SyncPlans, Saved, Finish,
                CallerPlaces
  <2>2. CASE StopIdle(c)
    <3>1. AfterStop(c) \in CallerPlaces \ {"stopping"}
      BY DEF AfterStop, CallerPlaces
    <3> QED BY <2>2, <3>1 DEF StopIdle
  <2>3. CASE DeleteFails(c) \/ DeleteLooksUp(c) \/ DeleteRemoves(c) \/ DeleteSaves(c)
    BY <2>3 DEF DeleteFails, DeleteLooksUp, DeleteRemoves, DeleteSaves, Saved, CallerPlaces
  <2> QED BY <2>1, <2>2, <2>3 DEF Elsewhere
<1> QED
  BY <1>1, <1>2, <1>3, Moves DEF Procs, CallerPlaces

\* Stop, with the loop running: it is cancelled and waited for.
LEMMA StopRunningKeeps ==
  ASSUME LifecycleInv, NEW c \in Callers, StopRunning(c) PROVE LifecycleInv'
<1>1. /\ lifecycle = Nothing /\ running /\ loop \in Loops /\ pc[loop] # "none"
      /\ running' = FALSE /\ lifecycle' = c /\ loop' = loop
      /\ canceled' = canceled \cup {loop}
      /\ DOMAIN pc' = Procs /\ pc'[c] = "stopping"
      /\ \A q \in Procs \ {c} : pc'[q] = pc[q]
  BY DEF StopRunning, Goto, LifecycleInv, LoopIsOwned, Procs
<1>2. \A d \in Callers : pc[d] # "stopping"
  BY <1>1, Distinct DEF LifecycleInv, LockInv
<1>3. \A l \in Loops : pc'[l] = pc[l]
  BY <1>1, Distinct DEF Procs
<1>4. LockInv'
  BY <1>1, <1>2 DEF LockInv, Procs
<1>5. LoopIsOwned'
  BY <1>1, <1>3, Distinct DEF LifecycleInv, LoopIsOwned
<1> QED
  BY <1>1, <1>3, <1>4, <1>5 DEF LifecycleInv

\* The loop has ended and nobody else can have started another.
LEMMA StopDoneKeeps ==
  ASSUME LifecycleInv, NEW c \in Callers, StopDone(c) PROVE LifecycleInv'
<1>1. /\ pc[c] = "stopping" /\ pc[loop] = "none" /\ lifecycle = c
      /\ ~running /\ loop \in Loops
      /\ UNCHANGED <<running, canceled>> /\ loop' = Nothing /\ lifecycle' = Nothing
  BY DEF StopDone, LifecycleInv, LockInv
<1>2. /\ DOMAIN pc' = Procs /\ pc'[c] # "stopping"
      /\ \A q \in Procs \ {c} : pc'[q] = pc[q]
  BY DEF StopDone, AfterStop, Goto, LifecycleInv, Procs
<1>3. \A l \in Loops : pc[l] = "none" /\ pc'[l] = "none"
  BY <1>1, <1>2, Distinct DEF LifecycleInv, LoopIsOwned, Procs
<1>4. LockInv'
  BY <1>1, <1>2, Distinct DEF LifecycleInv, LockInv, Procs
<1>5. LoopIsOwned'
  BY <1>1, <1>3 DEF LoopIsOwned
<1>6. canceled' = {}
  BY <1>1, <1>3 DEF LifecycleInv
<1> QED
  BY <1>1, <1>2, <1>4, <1>5, <1>6 DEF LifecycleInv

LEMMA StartKeeps ==
  ASSUME LifecycleInv, NEW c \in Callers, Start(c) PROVE LifecycleInv'
<1>1. CASE ~(cfg.enabled /\ ~running)
  <2>1. pc[c] = "start" /\ Goto(c, "idle") /\ UNCHANGED service
    BY <1>1 DEF Start, service
  <2> QED BY <2>1, Moves DEF Procs
<1>2. CASE cfg.enabled /\ ~running
  <2> DEFINE l == CHOOSE x \in Loops : pc[x] = "none"
  <2>1. lifecycle = Nothing /\ \A x \in Loops : pc[x] = "none"
    BY <1>2, NoneLeft DEF Start
  <2>2. l \in Loops /\ pc[l] = "none"
    BY <2>1, Distinct
  <2>3. /\ running' = TRUE /\ loop' = l /\ UNCHANGED <<lifecycle, canceled>>
        /\ pc' = [pc EXCEPT ![c] = "idle", ![l] = "top"]
    BY <1>2 DEF Start
  <2> HIDE DEF l
  <2>4. /\ DOMAIN pc' = Procs /\ pc'[c] = "idle" /\ pc'[l] = "top"
        /\ \A q \in Procs \ {c, l} : pc'[q] = pc[q]
    BY <2>2, <2>3, Distinct DEF LifecycleInv, Procs
  <2>5. \A d \in Callers : pc[d] # "stopping"
    BY <2>1, Distinct DEF LifecycleInv, LockInv
  <2>6. \A d \in Callers : pc'[d] # "stopping"
    BY <2>2, <2>4, <2>5, Distinct DEF Procs
  <2>7. LockInv'
    BY <2>1, <2>3, <2>6, Distinct DEF LockInv
  <2>8. canceled = {}
    BY <2>1 DEF LifecycleInv
  <2>9. \A x \in Loops : pc'[x] # "none" => x = l
    BY <2>1, <2>4, Distinct DEF Procs
  <2>10. LoopIsOwned'
    BY <2>2, <2>3, <2>4, <2>8, <2>9 DEF LoopIsOwned
  <2> QED
    BY <2>3, <2>4, <2>7, <2>8, <2>10 DEF LifecycleInv
<1> QED BY <1>1, <1>2

\* A loop ends only after its context was cancelled, so not one that runs.
LEMMA LoopExitKeeps ==
  ASSUME LifecycleInv, NEW l \in Loops, LoopExit(l) PROVE LifecycleInv'
<1>1. /\ l \in canceled /\ l = loop /\ ~running
  BY DEF LoopExit, LifecycleInv, LoopIsOwned
<1>2. /\ DOMAIN pc' = Procs /\ pc'[l] = "none"
      /\ \A q \in Procs \ {l} : pc'[q] = pc[q]
      /\ canceled' = canceled \ {l} /\ UNCHANGED <<lifecycle, running, loop>>
  BY DEF LoopExit, Goto, LifecycleInv, Procs
<1>3. LockInv'
  BY <1>1, <1>2, Distinct DEF LifecycleInv, LockInv, Procs
<1>4. LoopIsOwned'
  BY <1>1, <1>2 DEF LifecycleInv, LoopIsOwned, Procs
<1> QED
  BY <1>2, <1>3, <1>4 DEF LifecycleInv, Procs

LEMMA LifecycleNext == LifecycleInv /\ [Next]_vars => LifecycleInv'
<1> SUFFICES ASSUME LifecycleInv, [Next]_vars PROVE LifecycleInv'
  OBVIOUS
<1>1. CASE MoveHost \/ UNCHANGED vars
  BY <1>1, Stays DEF MoveHost, vars, service
<1>2. ASSUME NEW c \in Callers, Arrive(c) PROVE LifecycleInv'
  BY <1>2, ArriveMoves
<1>3. ASSUME NEW c \in Callers, Proceed(c) PROVE LifecycleInv'
  BY <1>3, ElsewhereMoves, StopRunningKeeps, StopDoneKeeps, StartKeeps, NetworkMoves
     DEF Proceed, Elsewhere, Procs
<1>4. ASSUME NEW l \in Loops, LoopStep(l) PROVE LifecycleInv'
  <2>1. CASE Network(l)
    BY <2>1, NetworkMoves DEF Procs
  <2>2. CASE LoopTop(l) \/ LoopCompare(l) \/ LoopTick(l)
    <3>1. pc[l] \notin {"none", "stopping"} /\ UNCHANGED service
      BY <2>2 DEF LoopTop, LoopCompare, LoopTick
    <3>2. \E where \in {"top", "detect", "sync", "tick"} : Goto(l, where)
      BY <2>2 DEF LoopTop, LoopCompare, LoopTick
    <3> QED BY <3>1, <3>2, Moves DEF Procs
  <2> QED BY <1>4, <2>1, <2>2 DEF LoopStep
<1>5. ASSUME NEW l \in Loops, LoopExit(l) PROVE LifecycleInv'
  BY <1>5, LoopExitKeeps
<1> QED
  BY <1>1, <1>2, <1>3, <1>4, <1>5 DEF Next

\* However requests that start, stop, restart and delete interleave, there is
\* at most one loop, and a stopped service has none (Service.lifecycleMu).
THEOREM OneLoop == Spec => []LoopIsOwned
<1>1. LifecycleInv => LoopIsOwned
  BY DEF LifecycleInv
<1> QED
  BY <1>1, LifecycleInit, LifecycleNext, PTL DEF Spec

-----------------------------------------------------------------------------
(***************************************************************************)
(* Whether the loop runs follows the configuration.                        *)
(***************************************************************************)
Restarting == {"stop", "stopping", "start", "list", "remove", "save"}

\* What runs against the configuration is about to be stopped, and what is
\* enabled and does not run is in the hands of a request that will start it.
Followed ==
  /\ (running /\ ~cfg.enabled) => \E c \in Callers : pc[c] = "stop"
  /\ (~running /\ cfg.enabled) => \E c \in Callers : pc[c] \in Restarting

\* As long as every save was of the configuration its caller had read, and none
\* that left the service alone has switched it.
EnabledInv == ~lost => cfg \in Configs /\ (~silent => Followed)

\* A goroutine proceeds.  It does not change what is enabled, unless it is about
\* to stop the loop, and gives up no restart it was to make.
LEMMA EnabledMoves ==
  ASSUME DOMAIN pc = Procs, EnabledInv, NEW p \in Procs, NEW where, Goto(p, where),
         running' = running,
         ~lost' => /\ ~lost /\ cfg' \in Configs
                   /\ ~silent' => /\ ~silent
                                  /\ cfg'.enabled = cfg.enabled \/ (where = "stop" /\ p \in Callers),
         pc[p] = "stop" => ~running,
         pc[p] \in Restarting => where \in Restarting
  PROVE  EnabledInv'
<1>1. pc'[p] = where /\ \A q \in Procs \ {p} : pc'[q] = pc[q]
  BY DEF Goto
<1> SUFFICES ASSUME ~lost', ~silent' PROVE Followed'
  BY DEF EnabledInv
<1>2. CASE where = "stop" /\ p \in Callers
  BY <1>1, <1>2 DEF Followed, Restarting
<1>3. CASE cfg'.enabled = cfg.enabled
  <2>1. ASSUME running, ~cfg.enabled PROVE \E c \in Callers : pc'[c] = "stop"
    <3>1. PICK c \in Callers : pc[c] = "stop"
      BY <2>1 DEF EnabledInv, Followed
    <3>2. c # p
      BY <2>1, <3>1
    <3> QED BY <1>1, <3>1, <3>2 DEF Procs
  <2>2. ASSUME ~running, cfg.enabled PROVE \E c \in Callers : pc'[c] \in Restarting
    <3>1. PICK c \in Callers : pc[c] \in Restarting
      BY <2>2 DEF EnabledInv, Followed
    <3>2. pc'[c] \in Restarting
      BY <1>1, <3>1 DEF Procs
    <3> QED BY <3>2
  <2> QED BY <1>3, <2>1, <2>2 DEF Followed
<1> QED BY <1>2, <1>3

\* The same, when the configuration is left alone.
LEMMA EnabledStays ==
  ASSUME DOMAIN pc = Procs, EnabledInv, NEW p \in Procs, NEW where, Goto(p, where),
         UNCHANGED <<cfg, lost, silent, running>>,
         pc[p] = "stop" => ~running,
         pc[p] \in Restarting => where \in Restarting
  PROVE  EnabledInv'
<1>1. ~lost' => ~lost /\ cfg' \in Configs /\ cfg'.enabled = cfg.enabled /\ silent' = silent
  BY DEF EnabledInv
<1> QED BY <1>1, EnabledMoves

LEMMA EnabledInit == Init => EnabledInv
<1> SUFFICES ASSUME Init PROVE EnabledInv
  OBVIOUS
<1>1. cfg \in Configs /\ running = cfg.enabled
  BY DEF Init, Configs
<1> QED BY <1>1 DEF EnabledInv, Followed

\* A save that its caller's snapshot still matched changes what it set and
\* nothing else.
LEMMA EnabledSaves ==
  ASSUME DOMAIN pc = Procs, EnabledInv, NEW c \in Callers,
         SaveConfig(c) \/ PostConfig(c) \/ SaveFeatures(c) \/ DeleteSaves(c)
  PROVE  EnabledInv'
<1>1. /\ running' = running /\ (~lost' => ~lost /\ cfg = call[c].snap)
      /\ ~PostConfig(c) => silent' = silent
  BY DEF SaveConfig, PostConfig, SaveFeatures, DeleteSaves, SaveTo, service
<1>2. ASSUME ~lost' PROVE cfg \in Configs
  BY <1>1, <1>2 DEF EnabledInv
<1>3. CASE SaveConfig(c)
  <2>1. PICK on \in BOOLEAN, records \in SUBSET Records :
          cfg' = [call[c].snap EXCEPT !.enabled = on, !.records = records]
    BY <1>3 DEF SaveConfig, SaveTo
  <2>2. ~lost' => cfg' \in Configs
    BY <1>1, <1>2, <2>1 DEF Configs
  <2>3. pc[c] = "edit" /\ Goto(c, "stop") /\ silent' = silent
    BY <1>3 DEF SaveConfig, Saved
  <2> QED BY <1>1, <2>2, <2>3, EnabledMoves DEF Procs, Restarting
<1>4. CASE SaveFeatures(c)
  <2>1. PICK on \in BOOLEAN :
          /\ cfg' = [call[c].snap EXCEPT !.enabled = on]
          /\ IF on # call[c].snap.enabled THEN Saved(c, "stop") ELSE Finish(c)
    BY <1>4 DEF SaveFeatures, SaveTo
  <2>2. pc[c] = "edit" /\ silent' = silent
    BY <1>4 DEF SaveFeatures
  <2>3. ~lost' => cfg' \in Configs
    BY <1>1, <1>2, <2>1 DEF Configs
  <2>4. CASE on # call[c].snap.enabled
    BY <1>1, <2>1, <2>2, <2>3, <2>4, EnabledMoves DEF Saved, Procs, Restarting
  <2>5. CASE on = call[c].snap.enabled
    <3>1. ~lost' => cfg'.enabled = cfg.enabled
      BY <1>1, <1>2, <2>1, <2>5 DEF Configs
    <3> QED BY <1>1, <2>1, <2>2, <2>3, <2>5, <3>1, EnabledMoves DEF Finish, Procs, Restarting
  <2> QED BY <2>4, <2>5
<1>5. CASE DeleteSaves(c)
  <2>1. /\ pc[c] = "save" /\ Goto(c, "start") /\ silent' = silent
        /\ cfg' = [call[c].snap EXCEPT !.records = @ \ {call[c].rec}]
    BY <1>5 DEF DeleteSaves, Saved
  <2>2. ~lost' => cfg' \in Configs /\ cfg'.enabled = cfg.enabled
    BY <1>1, <1>2, <2>1 DEF Configs
  <2> QED BY <1>1, <2>1, <2>2, EnabledMoves DEF Procs, Restarting
\* The service is left alone: the switch is as it was, or the change is noted.
<1>6. CASE PostConfig(c)
  <2>1. PICK on \in BOOLEAN, records \in SUBSET Records :
          /\ cfg' = [call[c].snap EXCEPT !.enabled = on, !.records = records]
          /\ silent' = (silent \/ on # cfg.enabled)
    BY <1>6 DEF PostConfig, SaveTo
  <2>2. ~lost' => cfg' \in Configs /\ cfg'.enabled = on
    BY <1>1, <1>2, <2>1 DEF Configs
  <2>3. pc[c] = "edit" /\ Goto(c, "idle")
    BY <1>6 DEF PostConfig, Finish
  <2> QED BY <1>1, <2>1, <2>2, <2>3, EnabledMoves DEF Procs, Restarting
<1> QED BY <1>3, <1>4, <1>5, <1>6

\* Stop and Start.
LEMMA EnabledLifecycle ==
  ASSUME LifecycleInv, EnabledInv, NEW c \in Callers,
         StopIdle(c) \/ StopRunning(c) \/ StopDone(c) \/ Start(c)
  PROVE  EnabledInv'
<1> USE DEF Procs
<1>0. DOMAIN pc = Procs
  BY DEF LifecycleInv
<1>1. CASE StopIdle(c) \/ StopDone(c)
  <2>1. Goto(c, AfterStop(c)) /\ AfterStop(c) \in Restarting /\ UNCHANGED <<cfg, lost, silent, running>>
    BY <1>1 DEF StopIdle, StopDone, AfterStop, Restarting, service, ghosts
  <2>2. pc[c] = "stop" => ~running
    BY <1>1 DEF StopIdle, StopDone
  <2> QED BY <1>0, <2>1, <2>2, EnabledStays
<1>2. CASE StopRunning(c)
  <2>1. running' = FALSE /\ pc'[c] = "stopping" /\ UNCHANGED <<cfg, lost, silent>>
    BY <1>0, <1>2 DEF StopRunning, Goto, ghosts
  <2> QED BY <2>1 DEF EnabledInv, Followed, Restarting
<1>3. CASE Start(c)
  <2>1. pc[c] = "start" /\ UNCHANGED <<cfg, lost>> /\ silent' = (silent /\ running)
    BY <1>3 DEF Start
  <2>2. CASE cfg.enabled /\ ~running
    <3>1. running' = TRUE
      BY <1>3, <2>2 DEF Start
    <3> QED BY <2>1, <2>2, <3>1 DEF EnabledInv, Followed
  <2>3. CASE ~(cfg.enabled /\ ~running)
    <3>1. Goto(c, "idle") /\ running' = running
      BY <1>3, <2>3 DEF Start
    <3>2. \A d \in Callers : pc[d] = "stop" => pc'[d] = "stop"
      BY <1>0, <2>1, <3>1 DEF Goto
    <3>3. CASE running
      BY <2>1, <2>3, <3>1, <3>2, <3>3 DEF EnabledInv, Followed
    <3>4. CASE ~running
      BY <2>1, <2>3, <3>1, <3>4 DEF EnabledInv, Followed
    <3> QED BY <3>3, <3>4
  <2> QED BY <2>2, <2>3
<1> QED BY <1>1, <1>2, <1>3

LEMMA EnabledNext == LifecycleInv /\ EnabledInv /\ [Next]_vars => EnabledInv'
<1> SUFFICES ASSUME LifecycleInv, EnabledInv, [Next]_vars PROVE EnabledInv'
  OBVIOUS
<1> USE DEF Procs
<1>0. DOMAIN pc = Procs
  BY DEF LifecycleInv
<1>1. CASE MoveHost \/ UNCHANGED vars
  BY <1>1 DEF MoveHost, vars, service, ghosts, EnabledInv, Followed
<1>2. ASSUME NEW c \in Callers, Arrive(c) PROVE EnabledInv'
  <2>1. PICK where \in {"edit", "stop", "detect"} : \E op, rec : Begin(c, op, rec, where)
    BY <1>2 DEF Arrive, BeginEdit, BeginRestart, BeginSync, BeginDelete
  <2>2. pc[c] = "idle" /\ Goto(c, where) /\ UNCHANGED <<cfg, lost, silent, running>>
    BY <2>1 DEF Begin, Busy, service
  <2> QED BY <1>0, <2>2, EnabledStays DEF Restarting
<1>3. ASSUME NEW p \in Procs, Network(p) PROVE EnabledInv'
  <2>1. pc[p] \in {"detect", "sync", "write"} /\ UNCHANGED <<cfg, lost, silent, running>>
    BY <1>3 DEF Network, Detect, DetectFails, SyncList, SyncWrite, service, ghosts
  <2>2. \E where : Goto(p, where)
    BY <1>3 DEF Network, Detect, DetectFails, SyncList, SyncWrite, NextRecord, Finish
  <2> QED BY <1>0, <2>1, <2>2, EnabledStays DEF Restarting
<1>4. ASSUME NEW c \in Callers, Proceed(c) PROVE EnabledInv'
  <2>1. CASE SaveFails(c) \/ SyncNotes(c) \/ SyncPlans(c)
    <3>1. pc[c] \in {"edit", "detected", "plan"} /\ UNCHANGED <<cfg, lost, silent, running>>
      BY <2>1 DEF SaveFails, SyncNotes, SyncPlans, service, ghosts
    <3>2. \E where : Goto(c, where)
      BY <2>1 DEF SaveFails, SyncNotes, SyncPlans, Finish
    <3> QED BY <1>0, <3>1, <3>2, EnabledStays DEF Restarting
  <2>2. CASE DeleteFails(c) \/ DeleteLooksUp(c) \/ DeleteRemoves(c)
    <3>1. pc[c] # "stop" /\ UNCHANGED <<cfg, lost, silent, running>>
      BY <2>2 DEF DeleteFails, DeleteLooksUp, DeleteRemoves, service, ghosts
    <3>2. \E where \in Restarting : Goto(c, where)
      BY <2>2 DEF DeleteFails, DeleteLooksUp, DeleteRemoves, Saved, Restarting
    <3> QED BY <1>0, <3>1, <3>2, EnabledStays
  <2> QED BY <1>0, <1>3, <1>4, <2>1, <2>2, EnabledSaves, EnabledLifecycle DEF Proceed
<1>5. ASSUME NEW l \in Loops, LoopStep(l) \/ LoopExit(l) PROVE EnabledInv'
  <2>1. CASE LoopTop(l) \/ LoopCompare(l) \/ LoopTick(l) \/ LoopExit(l)
    <3>1. pc[l] \notin Restarting /\ UNCHANGED <<cfg, lost, silent, running>>
      BY <2>1 DEF LoopTop, LoopCompare, LoopTick, LoopExit, service, ghosts, Restarting
    <3>2. \E where : Goto(l, where)
      BY <2>1 DEF LoopTop, LoopCompare, LoopTick, LoopExit
    <3> QED BY <1>0, <3>1, <3>2, EnabledStays DEF Restarting
  <2> QED BY <1>3, <1>5, <2>1 DEF LoopStep
<1> QED
  BY <1>1, <1>2, <1>4, <1>5 DEF Next

\* The loop runs exactly when the configuration asks for it, once no request is
\* being handled, unless a save went over an edit its caller had not read or the
\* configuration was posted whole, which leaves the service alone
\* (Service.Start, Stop and their callers).
THEOREM LoopFollowsConfig == Spec => []EnabledRuns
<1>1. LifecycleInv /\ EnabledInv => EnabledRuns
  <2> SUFFICES ASSUME LifecycleInv, EnabledInv, \A c \in Callers : ~Busy(c), ~lost, ~silent
               PROVE  running = cfg.enabled
    BY DEF EnabledRuns
  <2>1. \A c \in Callers : pc[c] \notin Restarting
    BY DEF Busy, Restarting
  <2>2. running \in BOOLEAN /\ cfg.enabled \in BOOLEAN
    BY DEF LifecycleInv, EnabledInv, Configs
  <2> QED BY <2>1, <2>2 DEF EnabledInv, Followed, Restarting
<1>2. Init => LifecycleInv /\ EnabledInv
  BY LifecycleInit, EnabledInit
<1>3. LifecycleInv /\ EnabledInv /\ [Next]_vars => (LifecycleInv /\ EnabledInv)'
  BY LifecycleNext, EnabledNext
<1> QED
  BY <1>1, <1>2, <1>3, PTL DEF Spec


-----------------------------------------------------------------------------
(***************************************************************************)
(* What a deletion removes stays removed.                                  *)
(***************************************************************************)
Calls   == [op : {"none", "edit", "restart", "sync"} \cup Deletions,
            snap : Configs \cup {Nothing}, rec : Records \cup {Nothing}]
Jobs    == [todo : SUBSET Records, ip : Addresses \cup {Nothing},
            item : Records \cup {Nothing}, seen : Addresses \cup {"fixed", Nothing}]
Values  == Addresses \cup {"fixed"}
Working == {"detect", "detected", "plan", "sync", "write"}
Removing == {"list", "remove", "save"}

\* A caller has the snapshot it is going to save, and a deletion its record.
CallOk(c) ==
  /\ call[c] \in Calls
  /\ pc[c] \in {"edit"} \cup Removing => call[c].snap \in Configs
  /\ pc[c] = "edit" => call[c].op = "edit"
  /\ pc[c] \in Removing => Deleting(c)
  /\ (pc[c] \in {"stop", "stopping"} /\ Deleting(c)) => call[c].snap \in Configs
  /\ Deleting(c) => call[c].rec \in Records

\* Only a synchronisation has records to do, and writes one of them.
JobOk(p) ==
  /\ job[p] \in Jobs
  /\ pc[p] \notin Working => job[p].todo = {}
  /\ pc[p] \in Working \ {"detect"} => job[p].ip \in Addresses
  /\ pc[p] = "write" => job[p].item \in job[p].todo

ProcInv ==
  /\ DOMAIN pc = Procs /\ DOMAIN call = Callers /\ DOMAIN job = Procs
  /\ \A c \in Callers : pc[c] \in CallerPlaces /\ CallOk(c)
  /\ \A l \in Loops : pc[l] \in LoopPlaces
  /\ \A p \in Procs : JobOk(p)

DataInv ==
  /\ cfg \in Configs /\ hostIP \in Addresses /\ zone \in [Records -> SUBSET Values]
  /\ loop \in Loops \cup {Nothing} /\ currentIP \in Addresses \cup {Nothing}
  /\ {lost, silent, overlap} \subseteq BOOLEAN /\ gone \subseteq Records

\* The step of one goroutine: the others keep their place and their variables.
LEMMA ProcMoves ==
  ASSUME ProcInv, NEW p \in Procs, NEW where, Goto(p, where),
         IF p \in Callers THEN where \in CallerPlaces ELSE where \in LoopPlaces,
         DOMAIN call' = Callers, \A c \in Callers \ {p} : call'[c] = call[c],
         DOMAIN job' = Procs, \A q \in Procs \ {p} : job'[q] = job[q],
         p \in Callers => CallOk(p)', JobOk(p)'
  PROVE  ProcInv'
<1>1. DOMAIN pc' = Procs /\ pc'[p] = where /\ \A q \in Procs \ {p} : pc'[q] = pc[q]
  BY DEF Goto, ProcInv
<1>2. \A c \in Callers : pc'[c] \in CallerPlaces
  BY <1>1 DEF ProcInv, Procs
<1>3. \A l \in Loops : pc'[l] \in LoopPlaces
  BY <1>1, Distinct DEF ProcInv, Procs
<1>4. \A c \in Callers : CallOk(c)'
  <2> TAKE c \in Callers
  <2>1. CASE c = p
    BY <2>1
  <2>2. CASE c # p
    <3>1. pc'[c] = pc[c] /\ call'[c] = call[c] /\ CallOk(c)
      BY <1>1, <2>2 DEF ProcInv, Procs
    <3> QED BY <3>1 DEF CallOk, Deleting
  <2> QED BY <2>1, <2>2
<1>5. \A q \in Procs : JobOk(q)'
  <2> TAKE q \in Procs
  <2>1. CASE q # p
    <3>1. pc'[q] = pc[q] /\ job'[q] = job[q] /\ JobOk(q)
      BY <1>1, <2>1 DEF ProcInv
    <3> QED BY <3>1 DEF JobOk
  <2> QED BY <2>1
<1> QED
  BY <1>1, <1>2, <1>3, <1>4, <1>5 DEF ProcInv

LEMMA EmptyHanded ==
  /\ NoCall \in Calls /\ NoCall.op = "none"
  /\ Resting \in Jobs /\ Resting.todo = {}
BY DEF NoCall, Calls, Resting, Jobs

LEMMA DataInit == Init => ProcInv /\ DataInv
<1> SUFFICES ASSUME Init PROVE ProcInv /\ DataInv
  OBVIOUS
<1>1. /\ DOMAIN pc = Procs /\ DOMAIN call = Callers /\ DOMAIN job = Procs
      /\ \A c \in Callers : pc[c] = "idle" /\ call[c] = NoCall
      /\ \A l \in Loops : pc[l] \in {"top", "none"}
      /\ \A p \in Procs : job[p] = Resting
  BY Distinct DEF Init, Procs
<1>2. \A c \in Callers : pc[c] \in CallerPlaces /\ CallOk(c)
  BY <1>1, EmptyHanded DEF CallOk, Deleting, Deletions, Removing, CallerPlaces
<1>3. \A p \in Procs : JobOk(p)
  <2> TAKE p \in Procs
  <2>1. pc[p] \notin Working
    BY <1>1 DEF Procs, Working
  <2> QED BY <1>1, <2>1, EmptyHanded DEF JobOk, Working
<1>4. hostIP \in Addresses
  BY SetsAssumption DEF Init
<1>5. loop \in Loops \cup {Nothing}
  BY SetsAssumption DEF Init
<1>6. DataInv
  BY <1>4, <1>5 DEF Init, DataInv, Configs
<1> QED
  BY <1>1, <1>2, <1>3, <1>6 DEF ProcInv, LoopPlaces


\* A caller that is not synchronising goes on, without anything to do.
LEMMA CallerMoves ==
  ASSUME ProcInv, NEW c \in Callers, NEW where \in CallerPlaces \ (Working \ {"detect"}),
         Goto(c, where),
         DOMAIN call' = Callers, \A d \in Callers \ {c} : call'[d] = call[d],
         (UNCHANGED job /\ pc[c] \notin Working) \/ job' = [job EXCEPT ![c] = Resting],
         CallOk(c)'
  PROVE  ProcInv'
<1>1. c \in Procs /\ pc'[c] = where
  BY DEF ProcInv, Goto, Procs
<1>2. /\ DOMAIN job' = Procs /\ \A q \in Procs \ {c} : job'[q] = job[q]
      /\ job'[c] \in Jobs /\ job'[c].todo = {}
  BY <1>1, EmptyHanded DEF ProcInv, JobOk
<1>3. JobOk(c)'
  BY <1>1, <1>2 DEF JobOk, Working
<1> QED
  BY <1>1, <1>2, <1>3, ProcMoves

LEMMA FinishKeeps ==
  ASSUME ProcInv, NEW c \in Callers, Finish(c),
         (UNCHANGED job /\ pc[c] \notin Working) \/ job' = [job EXCEPT ![c] = Resting]
  PROVE  ProcInv'
<1>1. /\ Goto(c, "idle") /\ DOMAIN call' = Callers /\ call'[c] = NoCall
      /\ \A d \in Callers \ {c} : call'[d] = call[d]
  BY DEF Finish, ProcInv
<1>2. pc'[c] = "idle"
  BY <1>1 DEF Goto, ProcInv, Procs
<1>3. CallOk(c)'
  BY <1>1, <1>2, EmptyHanded DEF CallOk, Deleting, Deletions, Removing
<1>4. "idle" \in CallerPlaces \ (Working \ {"detect"})
  BY DEF CallerPlaces, Working
<1> QED
  BY <1>1, <1>3, <1>4, CallerMoves

\* The snapshot is dropped; what is being done, and to which record, stays.
LEMMA SavedKeeps ==
  ASSUME ProcInv, NEW c \in Callers, NEW where \in {"stop", "start"}, Saved(c, where),
         where = "stop" => ~Deleting(c),
         (UNCHANGED job /\ pc[c] \notin Working) \/ job' = [job EXCEPT ![c] = Resting]
  PROVE  ProcInv' /\ call'[c].op = call[c].op
<1>1. /\ Goto(c, where) /\ DOMAIN call' = Callers
      /\ call'[c] = [call[c] EXCEPT !.snap = Nothing]
      /\ \A d \in Callers \ {c} : call'[d] = call[d]
  BY DEF Saved, ProcInv
<1>2. /\ call'[c] \in Calls /\ call'[c].op = call[c].op /\ call'[c].rec = call[c].rec
  BY <1>1 DEF ProcInv, CallOk, Calls
<1>3. pc'[c] = where
  BY <1>1 DEF Goto, ProcInv, Procs
<1>4. CallOk(c)'
  BY <1>2, <1>3 DEF ProcInv, CallOk, Deleting, Removing
<1>5. where \in CallerPlaces \ (Working \ {"detect"})
  BY DEF CallerPlaces, Working
<1> QED
  BY <1>1, <1>2, <1>4, <1>5, CallerMoves

LEMMA ArriveFits ==
  ASSUME ProcInv, DataInv, NEW c \in Callers, Arrive(c) PROVE ProcInv'
<1>1. PICK op \in {"edit", "restart", "sync"} \cup Deletions, rec \in Records \cup {Nothing},
           where \in {"edit", "stop", "detect"} :
        /\ Begin(c, op, rec, where)
        /\ where = "edit" => op = "edit"
        /\ op = "edit" => where = "edit"
        /\ op \in Deletions => rec \in Records
  BY DEF Arrive, BeginEdit, BeginRestart, BeginSync, BeginDelete, Deletions, DataInv, Configs
<1>2. /\ Goto(c, where) /\ pc[c] = "idle" /\ UNCHANGED job
      /\ DOMAIN call' = Callers /\ \A d \in Callers \ {c} : call'[d] = call[d]
      /\ call'[c] = [op |-> op, snap |-> IF op \in Editing THEN cfg ELSE Nothing, rec |-> rec]
  BY <1>1 DEF Begin, Busy, ProcInv
<1>3. pc'[c] = where
  BY <1>2 DEF Goto, ProcInv, Procs
<1>4. /\ call'[c] \in Calls /\ call'[c].op = op /\ call'[c].rec = rec
      /\ op \in Editing => call'[c].snap \in Configs
  BY <1>2 DEF DataInv, Calls
<1>5. CallOk(c)'
  BY <1>1, <1>3, <1>4 DEF CallOk, Deleting, Removing, Editing
<1>6. where \in CallerPlaces \ (Working \ {"detect"}) /\ pc[c] \notin Working
  BY <1>2 DEF CallerPlaces, Working
<1> QED
  BY <1>2, <1>5, <1>6, CallerMoves

LEMMA SaveFits ==
  ASSUME ProcInv, NEW c \in Callers,
         \/ SaveConfig(c) \/ PostConfig(c) \/ SaveFeatures(c) \/ SaveFails(c)
         \/ DeleteSaves(c) \/ DeleteFails(c)
  PROVE  ProcInv'
<1>1. CASE SaveConfig(c) \/ PostConfig(c) \/ SaveFeatures(c) \/ SaveFails(c)
  <2>1. pc[c] = "edit" /\ UNCHANGED job /\ (Saved(c, "stop") \/ Finish(c))
    BY <1>1 DEF SaveConfig, PostConfig, SaveFeatures, SaveFails, SaveTo
  <2>2. ~Deleting(c)
    BY <2>1 DEF ProcInv, CallOk, Deleting, Deletions
  <2> QED BY <2>1, <2>2, FinishKeeps, SavedKeeps DEF Working
<1>2. CASE DeleteSaves(c)
  BY <1>2, SavedKeeps DEF DeleteSaves, Working
<1>3. CASE DeleteFails(c)
  BY <1>3, SavedKeeps DEF DeleteFails
<1> QED BY <1>1, <1>2, <1>3

LEMMA StopFits ==
  ASSUME ProcInv, NEW c \in Callers, StopIdle(c) \/ StopRunning(c) \/ StopDone(c)
  PROVE  ProcInv'
<1>1. pc[c] \in {"stop", "stopping"} /\ UNCHANGED <<job, call>>
  BY DEF StopIdle, StopRunning, StopDone
<1>2. PICK where \in {"stopping", AfterStop(c)} : Goto(c, where)
  BY DEF StopIdle, StopRunning, StopDone
<1>3. /\ where \in {"stopping", "start"} \cup Removing
      /\ where \in Removing => Deleting(c)
  BY <1>2 DEF AfterStop, Removing, Deleting, Deletions
<1>4. pc'[c] = where
  BY <1>2 DEF Goto, ProcInv, Procs
<1>5. CallOk(c)'
  BY <1>1, <1>3, <1>4 DEF ProcInv, CallOk, Deleting, Removing
<1>6. where \in CallerPlaces \ (Working \ {"detect"})
  BY <1>3 DEF CallerPlaces, Working, Removing
<1> QED
  BY <1>1, <1>2, <1>5, <1>6, CallerMoves DEF Working, ProcInv

LEMMA StartFits ==
  ASSUME LifecycleInv, ProcInv, NEW c \in Callers, Start(c) PROVE ProcInv'
<1>1. /\ pc[c] = "start" /\ lifecycle = Nothing /\ UNCHANGED job
      /\ DOMAIN call' = Callers /\ call'[c] = NoCall
      /\ \A d \in Callers \ {c} : call'[d] = call[d]
  BY DEF Start, ProcInv
<1>2. CASE ~(cfg.enabled /\ ~running)
  <2>1. Finish(c)
    BY <1>2 DEF Start, Finish
  <2> QED BY <1>1, <2>1, FinishKeeps DEF Working
<1>3. CASE cfg.enabled /\ ~running
  <2> DEFINE l == CHOOSE x \in Loops : pc[x] = "none"
  <2>1. l \in Loops /\ pc[l] = "none"
    BY <1>1, <1>3, NoneLeft, Distinct
  <2>2. pc' = [pc EXCEPT ![c] = "idle", ![l] = "top"]
    BY <1>3 DEF Start
  <2> HIDE DEF l
  <2>3. /\ DOMAIN pc' = Procs /\ pc'[c] = "idle" /\ pc'[l] = "top" /\ c # l
        /\ \A q \in Procs \ {c, l} : pc'[q] = pc[q]
    BY <2>1, <2>2, Distinct DEF ProcInv, Procs
  <2>4. CallOk(c)'
    BY <1>1, <2>3, EmptyHanded DEF CallOk, Deleting, Deletions, Removing
  <2>5. ASSUME NEW d \in Callers \ {c} PROVE pc'[d] \in CallerPlaces /\ CallOk(d)'
    <3>1. pc'[d] = pc[d] /\ call'[d] = call[d] /\ CallOk(d)
      BY <1>1, <2>1, <2>3, Distinct DEF ProcInv, Procs
    <3> QED BY <3>1 DEF ProcInv, CallOk, Deleting
  <2>6. \A k \in Loops : pc'[k] \in LoopPlaces
    BY <2>1, <2>3, Distinct DEF ProcInv, Procs, LoopPlaces
  <2>7. ASSUME NEW q \in Procs PROVE JobOk(q)'
    <3>1. CASE q \in {c, l}
      BY <1>1, <2>1, <2>3, <3>1 DEF ProcInv, JobOk, Working
    <3>2. CASE q \notin {c, l}
      BY <1>1, <2>3, <3>2 DEF ProcInv, JobOk
    <3> QED BY <3>1, <3>2
  <2> QED
    BY <1>1, <2>3, <2>4, <2>5, <2>6, <2>7 DEF ProcInv, CallerPlaces
<1> QED BY <1>2, <1>3


-----------------------------------------------------------------------------
LEMMA NextRecordFits ==
  ASSUME ProcInv, NEW p \in Procs, pc[p] \in {"sync", "write"}, NEW r,
         NextRecord(p, r)
  PROVE  ProcInv' /\ \A q \in Procs : job'[q].todo \subseteq job[q].todo
<1> DEFINE rest == job[p].todo \ {r}
<1>1. CASE rest = {}
  <2>1. /\ job' = [job EXCEPT ![p] = Resting]
        /\ IF p \in Callers THEN Finish(p) ELSE Goto(p, "tick") /\ UNCHANGED call
    BY <1>1 DEF NextRecord
  <2>2. ProcInv'
    <3>1. CASE p \in Callers
      BY <2>1, <3>1, FinishKeeps
    <3>2. CASE p \notin Callers
      <4>1. pc'[p] = "tick" /\ job'[p] = Resting
        BY <2>1, <3>2 DEF Goto, ProcInv
      <4>2. JobOk(p)'
        BY <4>1, EmptyHanded DEF JobOk, Working
      <4> QED BY <2>1, <3>2, <4>2, ProcMoves DEF ProcInv, LoopPlaces
    <3> QED BY <3>1, <3>2
  <2> QED BY <2>1, <2>2, EmptyHanded DEF ProcInv
<1>2. CASE rest # {}
  <2>1. /\ job' = [job EXCEPT ![p] = [todo |-> rest, ip |-> job[p].ip, item |-> Nothing, seen |-> Nothing]]
        /\ Goto(p, "sync") /\ UNCHANGED call
    BY <1>2 DEF NextRecord
  <2>2. /\ pc'[p] = "sync" /\ job'[p] \in Jobs
        /\ job'[p].todo = rest /\ job'[p].ip = job[p].ip
    BY <2>1 DEF Goto, ProcInv, JobOk, Jobs
  <2>3. JobOk(p) /\ JobOk(p)'
    BY <2>2 DEF ProcInv, JobOk, Working
  <2>4. ASSUME p \in Callers PROVE CallOk(p)'
    BY <2>1, <2>2, <2>4 DEF ProcInv, CallOk, Deleting, Removing
  <2>5. IF p \in Callers THEN "sync" \in CallerPlaces ELSE "sync" \in LoopPlaces
    BY DEF CallerPlaces, LoopPlaces
  <2>6. ProcInv'
    BY <2>1, <2>3, <2>4, <2>5, ProcMoves DEF ProcInv
  <2> QED BY <2>1, <2>2, <2>6 DEF ProcInv
<1> QED BY <1>1, <1>2

\* Goroutine p, synchronising, goes on with the same list to do.
LEMMA JobMoves ==
  ASSUME ProcInv, NEW p \in Procs, NEW where \in {"detected", "plan", "sync", "write"},
         p \in Loops => where # "plan", Goto(p, where), UNCHANGED call,
         DOMAIN job' = Procs, \A q \in Procs \ {p} : job'[q] = job[q],
         job'[p] \in Jobs, job'[p].ip \in Addresses,
         where = "write" => job'[p].item \in job'[p].todo
  PROVE  ProcInv'
<1>1. pc'[p] = where
  BY DEF Goto, ProcInv
<1>2. JobOk(p)'
  BY <1>1 DEF JobOk, Working
<1>3. ASSUME p \in Callers PROVE CallOk(p)'
  BY <1>1, <1>3 DEF ProcInv, CallOk, Deleting, Removing
<1>4. IF p \in Callers THEN where \in CallerPlaces ELSE where \in LoopPlaces
  BY Distinct DEF CallerPlaces, LoopPlaces, Procs
<1> QED
  BY <1>2, <1>3, <1>4, ProcMoves DEF ProcInv

LEMMA NetworkFits ==
  ASSUME ProcInv, DataInv, NEW p \in Procs, Network(p)
  PROVE  ProcInv' /\ \A q \in Procs : job'[q].todo \subseteq job[q].todo
<1>1. CASE Detect(p)
  <2>1. job' = [job EXCEPT ![p].ip = hostIP] /\ Goto(p, "detected") /\ UNCHANGED call
    BY <1>1 DEF Detect
  <2>2. /\ job'[p] \in Jobs /\ job'[p].ip \in Addresses /\ job'[p].todo = job[p].todo
        /\ DOMAIN job' = Procs /\ \A q \in Procs \ {p} : job'[q] = job[q]
    BY <2>1 DEF ProcInv, JobOk, Jobs, DataInv
  <2>3. ProcInv'
    BY <2>1, <2>2, JobMoves
  <2> QED BY <2>2, <2>3
<1>2. CASE DetectFails(p)
  <2>1. /\ job' = [job EXCEPT ![p] = Resting]
        /\ IF p \in Callers THEN Finish(p) ELSE Goto(p, "tick") /\ UNCHANGED call
    BY <1>2 DEF DetectFails
  <2>2. ProcInv'
    <3>1. CASE p \in Callers
      BY <2>1, <3>1, FinishKeeps
    <3>2. CASE p \notin Callers
      <4>1. pc'[p] = "tick" /\ job'[p] = Resting
        BY <2>1, <3>2 DEF Goto, ProcInv
      <4>2. JobOk(p)'
        BY <4>1, EmptyHanded DEF JobOk, Working
      <4> QED BY <2>1, <3>2, <4>2, ProcMoves DEF ProcInv, LoopPlaces
    <3> QED BY <3>1, <3>2
  <2> QED BY <2>1, <2>2, EmptyHanded DEF ProcInv
<1>3. CASE SyncList(p)
  <2>0. pc[p] = "sync" /\ job[p].ip \in Addresses
    BY <1>3 DEF SyncList, ProcInv, JobOk, Working
  <2>1. CASE \E r \in job[p].todo : NextRecord(p, r)
    BY <2>0, <2>1, NextRecordFits
  <2>2. CASE ~\E r \in job[p].todo : NextRecord(p, r)
    <3>1. PICK r \in job[p].todo : \E old \in IF zone[r] = {} THEN {Nothing} ELSE zone[r] :
            /\ job' = [job EXCEPT ![p].item = r, ![p].seen = old]
            /\ Goto(p, "write") /\ UNCHANGED call
      BY <1>3, <2>2 DEF SyncList
    <3> PICK old \in IF zone[r] = {} THEN {Nothing} ELSE zone[r] :
            /\ job' = [job EXCEPT ![p].item = r, ![p].seen = old]
            /\ Goto(p, "write") /\ UNCHANGED call
      BY <3>1
    <3>2. r \in Records /\ old \in Addresses \cup {"fixed", Nothing}
      BY <3>1 DEF ProcInv, JobOk, Jobs, DataInv, Values
    <3>3. /\ job'[p] = [job[p] EXCEPT !.item = r, !.seen = old]
          /\ DOMAIN job' = Procs /\ \A q \in Procs \ {p} : job'[q] = job[q]
      BY <3>1 DEF ProcInv
    <3>4. job'[p] \in Jobs /\ job'[p].ip = job[p].ip /\ job'[p].todo = job[p].todo /\ job'[p].item = r
      BY <3>2, <3>3 DEF ProcInv, JobOk, Jobs
    <3>5. ProcInv'
      BY <2>0, <3>1, <3>3, <3>4, JobMoves
    <3> QED BY <3>3, <3>4, <3>5
  <2> QED BY <2>1, <2>2
<1>4. CASE SyncWrite(p)
  <2>1. pc[p] = "write" /\ \E r : NextRecord(p, r)
    BY <1>4 DEF SyncWrite
  <2> QED BY <2>1, NextRecordFits
<1> QED BY <1>1, <1>2, <1>3, <1>4 DEF Network

LEMMA LoopFits ==
  ASSUME ProcInv, DataInv, NEW l \in Loops,
         LoopTop(l) \/ LoopCompare(l) \/ LoopTick(l) \/ LoopExit(l)
  PROVE  ProcInv' /\ \A q \in Procs : job'[q].todo \subseteq job[q].todo \cup cfg.records
<1>0. l \in Procs /\ l \notin Callers
  BY Distinct DEF Procs
<1>1. CASE LoopTop(l) /\ cfg.enabled /\ cfg.records # {}
  <2>1. pc[l] = "top" /\ Goto(l, "detect") /\ job' = [job EXCEPT ![l].todo = cfg.records] /\ UNCHANGED call
    BY <1>1 DEF LoopTop
  <2>2. /\ pc'[l] = "detect" /\ job'[l] \in Jobs /\ job'[l].todo = cfg.records
        /\ DOMAIN job' = Procs /\ \A q \in Procs \ {l} : job'[q] = job[q]
    BY <1>0, <2>1 DEF Goto, ProcInv, JobOk, Jobs, DataInv, Configs
  <2>3. JobOk(l)'
    BY <2>2 DEF JobOk, Working
  <2>4. ProcInv'
    BY <1>0, <2>1, <2>2, <2>3, ProcMoves DEF ProcInv, LoopPlaces
  <2> QED BY <2>2, <2>4
<1>2. CASE LoopCompare(l) /\ NeedsSync(l)
  <2>1. pc[l] = "detected" /\ Goto(l, "sync") /\ UNCHANGED <<job, call>>
    BY <1>2 DEF LoopCompare
  <2>2. job[l] \in Jobs /\ job[l].ip \in Addresses
    BY <1>0, <2>1 DEF ProcInv, JobOk, Working
  <2>3. ProcInv'
    BY <1>0, <2>1, <2>2, JobMoves DEF ProcInv
  <2> QED BY <2>1, <2>3
<1>3. CASE ~(LoopTop(l) /\ cfg.enabled /\ cfg.records # {}) /\ ~(LoopCompare(l) /\ NeedsSync(l))
  <2>1. PICK where \in {"none", "tick", "top"} : Goto(l, where)
    BY <1>3 DEF LoopTop, LoopCompare, LoopTick, LoopExit
  <2>2. /\ UNCHANGED call
        /\ (pc[l] \in {"top", "tick"} /\ UNCHANGED job) \/ job' = [job EXCEPT ![l] = Resting]
    BY <1>3 DEF LoopTop, LoopCompare, LoopTick, LoopExit
  <2>3. pc'[l] = where
    BY <1>0, <2>1 DEF Goto, ProcInv
  <2>4. /\ job'[l] \in Jobs /\ job'[l].todo = {}
        /\ DOMAIN job' = Procs /\ \A q \in Procs \ {l} : job'[q] = job[q]
    BY <1>0, <2>2, EmptyHanded DEF ProcInv, JobOk, Working
  <2>5. JobOk(l)'
    BY <2>3, <2>4 DEF JobOk, Working
  <2>6. ProcInv'
    BY <1>0, <2>1, <2>2, <2>4, <2>5, ProcMoves DEF ProcInv, LoopPlaces
  <2> QED BY <2>4, <2>6
<1> QED BY <1>1, <1>2, <1>3

\* The steps of a SyncNow and of a deletion between its calls.
LEMMA PlanFits ==
  ASSUME ProcInv, DataInv, NEW c \in Callers,
         SyncNotes(c) \/ SyncPlans(c) \/ DeleteLooksUp(c) \/ DeleteRemoves(c)
  PROVE  ProcInv' /\ \A q \in Procs : job'[q].todo \subseteq job[q].todo \cup cfg.records
<1>0. c \in Procs /\ CallOk(c) /\ JobOk(c) /\ (c \in Loops => FALSE)
  BY Distinct DEF Procs, ProcInv
<1>1. CASE SyncNotes(c)
  <2>1. pc[c] = "detected" /\ Goto(c, "plan") /\ UNCHANGED <<job, call>>
    BY <1>1 DEF SyncNotes
  <2>2. job[c] \in Jobs /\ job[c].ip \in Addresses
    BY <1>0, <2>1 DEF JobOk, Working
  <2>3. ProcInv'
    BY <1>0, <2>1, <2>2, JobMoves DEF ProcInv
  <2> QED BY <2>1, <2>3
<1>2. CASE SyncPlans(c) /\ cfg.records = {}
  <2>1. Finish(c) /\ job' = [job EXCEPT ![c] = Resting]
    BY <1>2 DEF SyncPlans
  <2> QED BY <1>0, <2>1, FinishKeeps, EmptyHanded DEF ProcInv
<1>3. CASE SyncPlans(c) /\ cfg.records # {}
  <2>1. pc[c] = "plan" /\ Goto(c, "sync") /\ job' = [job EXCEPT ![c].todo = cfg.records] /\ UNCHANGED call
    BY <1>3 DEF SyncPlans
  <2>2. job[c].ip \in Addresses
    BY <1>0, <2>1 DEF JobOk, Working
  <2>3. /\ job'[c] \in Jobs /\ job'[c].todo = cfg.records /\ job'[c].ip \in Addresses
        /\ DOMAIN job' = Procs /\ \A q \in Procs \ {c} : job'[q] = job[q]
    BY <1>0, <2>1, <2>2 DEF ProcInv, JobOk, Jobs, DataInv, Configs
  <2>4. ProcInv'
    BY <1>0, <2>1, <2>3, JobMoves
  <2> QED BY <2>3, <2>4
<1>4. CASE DeleteLooksUp(c) \/ DeleteRemoves(c)
  <2>1. PICK where \in {"remove", "save", "start"} : Goto(c, where)
    BY <1>4 DEF DeleteLooksUp, DeleteRemoves
  <2>2. pc[c] \in Removing /\ UNCHANGED call
    BY <1>4 DEF DeleteLooksUp, DeleteRemoves, Removing
  <2>3. /\ DOMAIN job' = Procs /\ \A q \in Procs \ {c} : job'[q] = job[q]
        /\ job'[c] \in Jobs /\ job'[c].todo = {}
    <3>1. CASE DeleteRemoves(c)
      BY <1>0, <3>1, EmptyHanded DEF DeleteRemoves, ProcInv
    <3>2. CASE DeleteLooksUp(c) /\ UNCHANGED job
      BY <1>0, <2>2, <3>2 DEF ProcInv, JobOk, Removing, Working
    <3>3. CASE DeleteLooksUp(c) /\ ~UNCHANGED job
      <4>1. call[c].rec \in Records
        BY <1>0, <2>2 DEF CallOk
      <4>2. PICK old \in zone[call[c].rec] : job' = [job EXCEPT ![c].seen = old]
        BY <3>3 DEF DeleteLooksUp
      <4>3. old \in Addresses \cup {"fixed", Nothing}
        BY <4>1, <4>2 DEF DataInv, Values
      <4> QED BY <1>0, <2>2, <4>2, <4>3 DEF ProcInv, JobOk, Jobs, Removing, Working
    <3> QED BY <1>4, <3>1, <3>2, <3>3
  <2>4. pc'[c] = where
    BY <1>0, <2>1 DEF Goto, ProcInv
  <2>5. JobOk(c)' /\ CallOk(c)'
    BY <1>0, <2>2, <2>3, <2>4 DEF JobOk, CallOk, Deleting, Removing, Working
  <2>6. ProcInv'
    BY <1>0, <2>1, <2>2, <2>3, <2>5, ProcMoves DEF ProcInv, CallerPlaces
  <2> QED BY <2>3, <2>6
<1> QED BY <1>1, <1>2, <1>3, <1>4


LEMMA ProcNext ==
  LifecycleInv /\ ProcInv /\ DataInv /\ [Next]_vars => ProcInv'
<1> SUFFICES ASSUME LifecycleInv, ProcInv, DataInv, [Next]_vars PROVE ProcInv'
  OBVIOUS
<1>1. CASE MoveHost \/ UNCHANGED vars
  <2>1. UNCHANGED <<pc, job, call>>
    BY <1>1 DEF MoveHost, vars
  <2> QED BY <2>1 DEF ProcInv, CallOk, JobOk, Deleting
<1>2. ASSUME NEW c \in Callers, Arrive(c) \/ Proceed(c) PROVE ProcInv'
  <2>1. c \in Procs
    BY DEF Procs
  <2> QED
    BY <1>2, <2>1, ArriveFits, SaveFits, StopFits, StartFits, PlanFits, NetworkFits DEF Proceed
<1>3. ASSUME NEW l \in Loops, LoopStep(l) \/ LoopExit(l) PROVE ProcInv'
  <2>1. l \in Procs
    BY DEF Procs
  <2> QED BY <1>3, <2>1, LoopFits, NetworkFits DEF LoopStep
<1> QED
  BY <1>1, <1>2, <1>3 DEF Next

\* What Cloudflare has changes by a write and by a removal only.
LEMMA ZoneFits ==
  ASSUME ProcInv, DataInv, NEW p \in Procs, SyncWrite(p) \/ (p \in Callers /\ DeleteRemoves(p))
  PROVE  zone' \in [Records -> SUBSET Values]
<1>1. CASE SyncWrite(p)
  <2>1. /\ job[p].item \in Records /\ job[p].ip \in Addresses
    BY <1>1 DEF SyncWrite, ProcInv, JobOk, Jobs, Working
  <2>2. ResolveRecordIP(job[p].item, job[p].ip) \in Values
    BY <2>1 DEF ResolveRecordIP, Values
  <2> QED BY <1>1, <2>1, <2>2 DEF SyncWrite, DataInv
<1>2. CASE p \in Callers /\ DeleteRemoves(p)
  <2>1. zone' = [zone EXCEPT ![call[p].rec] = @ \ {job[p].seen}]
    BY <1>2 DEF DeleteRemoves
  <2> QED BY <2>1 DEF DataInv
<1> QED BY <1>1, <1>2

\* What a request saves is a configuration.
LEMMA SaveData ==
  ASSUME ProcInv, DataInv, NEW c \in Callers,
         SaveConfig(c) \/ PostConfig(c) \/ SaveFeatures(c) \/ DeleteSaves(c)
  PROVE  cfg' \in Configs /\ lost' \in BOOLEAN /\ gone' \subseteq Records \ cfg'.records
<1>1. call[c].snap \in Configs /\ (Deleting(c) => call[c].rec \in Records)
  BY DEF SaveConfig, PostConfig, SaveFeatures, DeleteSaves, ProcInv, CallOk, Removing
<1>2. CASE SaveConfig(c) \/ PostConfig(c) \/ SaveFeatures(c)
  <2>1. PICK on \in BOOLEAN, records \in SUBSET Records :
          \/ SaveTo(c, [call[c].snap EXCEPT !.enabled = on, !.records = records])
          \/ SaveTo(c, [call[c].snap EXCEPT !.enabled = on])
    BY <1>2 DEF SaveConfig, PostConfig, SaveFeatures
  <2>2. cfg' \in Configs
    BY <1>1, <2>1 DEF SaveTo, Configs
  <2> QED BY <2>1, <2>2 DEF SaveTo, DataInv
<1>3. CASE DeleteSaves(c)
  <2>1. /\ cfg' = [call[c].snap EXCEPT !.records = @ \ {call[c].rec}]
        /\ lost' = (lost \/ cfg # call[c].snap)
        /\ gone' = (IF call[c].op = "delete" THEN gone \cup {call[c].rec} ELSE gone) \ cfg'.records
    BY <1>3 DEF DeleteSaves
  <2>2. cfg' \in Configs
    BY <1>1, <2>1 DEF Configs
  <2>3. call[c].op = "delete" => call[c].rec \in Records
    BY <1>1 DEF Deleting, Deletions
  <2> QED BY <2>1, <2>2, <2>3 DEF DataInv
<1> QED BY <1>2, <1>3

LEMMA DataNext ==
  LifecycleInv /\ ProcInv /\ DataInv /\ [Next]_vars => DataInv'
<1> SUFFICES ASSUME LifecycleInv, ProcInv, DataInv, [Next]_vars PROVE DataInv'
  OBVIOUS
<1> USE DEF service, ghosts
<1>1. CASE MoveHost \/ UNCHANGED vars
  BY <1>1 DEF MoveHost, vars, DataInv
<1>2. ASSUME NEW c \in Callers, Arrive(c) PROVE DataInv'
  <2>1. /\ overlap' \in BOOLEAN
        /\ UNCHANGED <<cfg, hostIP, zone, loop, currentIP, lost, silent, gone>>
    BY <1>2 DEF Arrive, BeginEdit, BeginRestart, BeginSync, BeginDelete, Begin, DataInv
  <2> QED BY <2>1 DEF DataInv
<1>3. ASSUME NEW p \in Procs, Network(p) PROVE DataInv'
  <2>1. UNCHANGED <<cfg, hostIP, loop, currentIP, lost, silent, overlap, gone>>
    BY <1>3 DEF Network, Detect, DetectFails, SyncList, SyncWrite
  <2>2. UNCHANGED zone \/ SyncWrite(p)
    BY <1>3 DEF Network, Detect, DetectFails, SyncList
  <2> QED BY <2>1, <2>2, ZoneFits DEF DataInv
<1>4. ASSUME NEW c \in Callers, Proceed(c) PROVE DataInv'
  <2>0. c \in Procs
    BY DEF Procs
  <2>1. CASE SaveConfig(c) \/ PostConfig(c) \/ SaveFeatures(c) \/ DeleteSaves(c)
    <3>1. UNCHANGED <<hostIP, zone, loop, currentIP, overlap>> /\ silent' \in BOOLEAN
      BY <2>1 DEF DataInv, SaveConfig, PostConfig, SaveFeatures, DeleteSaves, SaveTo
    <3> QED BY <2>1, <3>1, SaveData DEF DataInv
  <2>2. CASE \/ SaveFails(c) \/ StopIdle(c) \/ StopRunning(c) \/ StopDone(c)
             \/ SyncPlans(c) \/ DeleteFails(c) \/ DeleteLooksUp(c)
    BY <2>2 DEF SaveFails, StopIdle, StopRunning, StopDone, SyncPlans, DeleteFails,
                DeleteLooksUp, DataInv
  <2>3. CASE Start(c)
    <3>1. UNCHANGED <<cfg, hostIP, zone, currentIP, lost, overlap, gone>> /\ silent' \in BOOLEAN
      BY <2>3 DEF Start, LifecycleInv, DataInv
    <3>2. loop' \in Loops \cup {Nothing}
      <4>1. CASE cfg.enabled /\ ~running
        BY <2>3, <4>1, NoneLeft, Distinct DEF Start
      <4>2. CASE ~(cfg.enabled /\ ~running)
        BY <2>3, <4>2 DEF Start, DataInv
      <4> QED BY <4>1, <4>2
    <3> QED BY <3>1, <3>2 DEF DataInv
  <2>4. CASE SyncNotes(c)
    <3>1. job[c].ip \in Addresses
      BY <2>0, <2>4 DEF SyncNotes, ProcInv, JobOk, Working
    <3> QED BY <2>4, <3>1 DEF SyncNotes, DataInv
  <2>5. CASE DeleteRemoves(c)
    <3>1. UNCHANGED <<cfg, hostIP, loop, currentIP, lost, silent, overlap, gone>>
      BY <2>5 DEF DeleteRemoves
    <3> QED BY <2>0, <2>5, <3>1, ZoneFits DEF DataInv
  <2> QED BY <1>3, <1>4, <2>0, <2>1, <2>2, <2>3, <2>4, <2>5 DEF Proceed
<1>5. ASSUME NEW l \in Loops, LoopStep(l) \/ LoopExit(l) PROVE DataInv'
  <2>0. l \in Procs
    BY DEF Procs
  <2>1. CASE LoopTop(l) \/ LoopTick(l) \/ LoopExit(l)
    BY <2>1 DEF LoopTop, LoopTick, LoopExit, DataInv
  <2>2. CASE LoopCompare(l)
    <3>1. job[l].ip \in Addresses
      BY <2>0, <2>2 DEF LoopCompare, ProcInv, JobOk, Working
    <3>2. currentIP' \in Addresses \cup {Nothing}
      BY <2>2, <3>1 DEF LoopCompare, DataInv
    <3> QED BY <2>2, <3>2 DEF LoopCompare, DataInv
  <2> QED BY <1>3, <1>5, <2>0, <2>1, <2>2 DEF LoopStep
<1> QED
  BY <1>1, <1>2, <1>4, <1>5 DEF Next

\* The variables have their types, for any requests, records and addresses.
THEOREM DDNSTypeCorrect == Spec => []TypeOK
<1>1. LifecycleInv /\ ProcInv /\ DataInv => TypeOK
  BY DEF LifecycleInv, LockInv, ProcInv, DataInv, TypeOK, Values, JobOk, Jobs
<1>2. Init => LifecycleInv /\ ProcInv /\ DataInv
  BY LifecycleInit, DataInit
<1>3. LifecycleInv /\ ProcInv /\ DataInv /\ [Next]_vars => (LifecycleInv /\ ProcInv /\ DataInv)'
  BY LifecycleNext, ProcNext, DataNext
<1> QED
  BY <1>1, <1>2, <1>3, PTL DEF Spec


-----------------------------------------------------------------------------
\* A deletion that overlaps nothing is alone: nobody else is being handled, and
\* from its Stop to its Start the service does not run.
SoloInv ==
  ~overlap =>
    /\ \A c, d \in Callers : (Busy(c) /\ Deleting(c) /\ Busy(d)) => c = d
    /\ \A c \in Callers : pc[c] \in Removing => ~running

\* What was deleted is in no configuration, and, unless deletions overlapped,
\* on no list of records to do.
GoneInv ==
  /\ gone \cap cfg.records = {}
  /\ ~overlap => \A r \in gone, p \in Procs : r \notin job[p].todo

DeletionInv == LifecycleInv /\ ProcInv /\ DataInv /\ SoloInv /\ GoneInv

\* A step of caller c, or of no caller, after which no more is being deleted.
LEMMA SoloMoves ==
  ASSUME ProcInv, SoloInv, NEW c, UNCHANGED overlap,
         \A d \in Callers \ {c} : pc'[d] = pc[d] /\ call'[d] = call[d],
         c \in Callers => /\ Busy(c)
                          /\ call'[c].op \in {call[c].op, "none"}
                          /\ pc'[c] \in Removing => ~running',
         running' => running
  PROVE  SoloInv'
<1> SUFFICES ASSUME ~overlap
             PROVE  /\ \A a, b \in Callers : (Busy(a)' /\ Deleting(a)' /\ Busy(b)') => a = b
                    /\ \A a \in Callers : pc'[a] \in Removing => ~running'
  BY DEF SoloInv
<1>1. \A a \in Callers : (Busy(a)' => Busy(a)) /\ (Deleting(a)' => Deleting(a))
  BY DEF Busy, Deleting, Deletions
<1>2. \A a \in Callers : pc'[a] \in Removing => ~running'
  BY DEF SoloInv
<1> QED
  BY <1>1, <1>2 DEF SoloInv

LEMMA SoloArrive ==
  ASSUME ProcInv, SoloInv, NEW c \in Callers, Arrive(c) PROVE SoloInv'
<1>0. PICK where \in {"edit", "stop", "detect"} : \E op, rec : Begin(c, op, rec, where)
  BY DEF Arrive, BeginEdit, BeginRestart, BeginSync, BeginDelete
<1>1. PICK op, rec : Begin(c, op, rec, where)
  BY <1>0
<1>2. /\ ~Busy(c) /\ pc'[c] = where /\ call'[c].op = op /\ running' = running
      /\ \A d \in Callers \ {c} : pc'[d] = pc[d] /\ call'[d] = call[d]
      /\ overlap' = (overlap \/ \E d \in Callers \ {c} :
                       Busy(d) /\ (Deleting(d) \/ op \in Deletions))
  BY <1>1 DEF Begin, Goto, service, ProcInv, Procs
<1> SUFFICES ASSUME ~overlap'
             PROVE  /\ \A a, b \in Callers : (Busy(a)' /\ Deleting(a)' /\ Busy(b)') => a = b
                    /\ \A a \in Callers : pc'[a] \in Removing => ~running'
  BY DEF SoloInv
<1>3. /\ ~overlap /\ \A d \in Callers \ {c} : Busy(d) => ~Deleting(d) /\ op \notin Deletions
  BY <1>2
<1>4. \A d \in Callers \ {c} : (Busy(d)' => Busy(d)) /\ (Deleting(d)' => Deleting(d))
  BY <1>2 DEF Busy, Deleting
<1>5. Deleting(c)' => op \in Deletions
  BY <1>2 DEF Deleting
<1>6. \A a, b \in Callers : (Busy(a)' /\ Deleting(a)' /\ Busy(b)') => a = b
  BY <1>3, <1>4, <1>5
<1>7. \A a \in Callers : pc'[a] \in Removing => ~running'
  BY <1>2, <1>3 DEF SoloInv, Removing
<1> QED BY <1>6, <1>7

LEMMA SoloNext == DeletionInv /\ [Next]_vars => SoloInv'
<1> SUFFICES ASSUME DeletionInv, [Next]_vars PROVE SoloInv'
  OBVIOUS
<1> USE DEF service, ghosts
<1>0. ProcInv /\ SoloInv /\ LifecycleInv
  BY DEF DeletionInv
<1>1. CASE MoveHost \/ UNCHANGED vars
  <2>1. UNCHANGED <<pc, call, overlap, running>>
    BY <1>1 DEF MoveHost, vars
  <2> QED BY <1>0, <2>1 DEF SoloInv, Busy, Deleting
<1>2. ASSUME NEW c \in Callers, Arrive(c) PROVE SoloInv'
  BY <1>0, <1>2, SoloArrive
<1>3. ASSUME NEW l \in Loops, LoopStep(l) \/ LoopExit(l) PROVE SoloInv'
  <2>1. UNCHANGED <<call, overlap, running>> /\ \E where : Goto(l, where)
    BY <1>3, Distinct DEF LoopStep, LoopExit, LoopTop, LoopCompare, LoopTick, Network, Detect,
       DetectFails, SyncList, SyncWrite, NextRecord
  <2>2. l \notin Callers /\ \A d \in Callers : pc'[d] = pc[d]
    BY <1>0, <2>1, Distinct DEF Goto, ProcInv, Procs
  <2> QED BY <1>0, <2>1, <2>2, SoloMoves
<1>4. ASSUME NEW c \in Callers, Proceed(c) PROVE SoloInv'
  <2>0. c \in Procs /\ CallOk(c) /\ DOMAIN pc = Procs /\ DOMAIN call = Callers
    BY <1>0 DEF Procs, ProcInv
  <2>1. CASE Network(c)
    <3>1. pc[c] \in {"detect", "sync", "write"} /\ UNCHANGED <<overlap, running>>
      BY <2>1 DEF Network, Detect, DetectFails, SyncList, SyncWrite
    <3>2. \/ Finish(c)
          \/ UNCHANGED call /\ \E where \in {"detected", "sync", "write"} : Goto(c, where)
      BY <2>1 DEF Network, Detect, DetectFails, SyncList, SyncWrite, NextRecord
    <3>3. /\ call'[c].op \in {call[c].op, "none"} /\ pc'[c] \notin Removing
          /\ \A d \in Callers \ {c} : pc'[d] = pc[d] /\ call'[d] = call[d]
      BY <2>0, <3>2, EmptyHanded DEF Finish, Goto, Removing, Procs
    <3> QED BY <1>0, <3>1, <3>3, SoloMoves DEF Busy
  <2>2. CASE \/ SaveConfig(c) \/ PostConfig(c) \/ SaveFeatures(c) \/ SaveFails(c)
             \/ DeleteFails(c) \/ DeleteSaves(c) \/ SyncNotes(c) \/ SyncPlans(c)
    <3>1. Busy(c) /\ UNCHANGED <<overlap, running>>
      BY <2>2 DEF SaveConfig, PostConfig, SaveFeatures, SaveFails, DeleteFails, DeleteSaves, SyncNotes,
         SyncPlans, SaveTo, Busy
    <3>2. \/ Finish(c) \/ Saved(c, "stop") \/ Saved(c, "start")
          \/ UNCHANGED call /\ \E where \in {"plan", "sync"} : Goto(c, where)
      BY <2>2 DEF SaveConfig, PostConfig, SaveFeatures, SaveFails, DeleteFails, DeleteSaves, SyncNotes, SyncPlans
    <3>3. /\ call'[c].op \in {call[c].op, "none"} /\ pc'[c] \notin Removing
          /\ \A d \in Callers \ {c} : pc'[d] = pc[d] /\ call'[d] = call[d]
      BY <2>0, <3>2, EmptyHanded DEF Finish, Saved, Goto, Removing, Procs, CallOk, Calls
    <3> QED BY <1>0, <3>1, <3>3, SoloMoves
  <2>3. CASE StopIdle(c) \/ StopRunning(c) \/ StopDone(c)
    <3>1. Busy(c) /\ ~running' /\ UNCHANGED <<overlap, call>> /\ \E where : Goto(c, where)
      BY <1>0, <2>3 DEF StopIdle, StopRunning, StopDone, Busy, LifecycleInv, LockInv
    <3>2. \A d \in Callers \ {c} : pc'[d] = pc[d]
      BY <2>0, <3>1 DEF Goto, Procs
    <3> QED BY <1>0, <3>1, <3>2, SoloMoves
  <2>4. CASE DeleteLooksUp(c) \/ DeleteRemoves(c)
    <3>1. pc[c] \in Removing /\ UNCHANGED <<overlap, call, running>> /\ \E where : Goto(c, where)
      BY <2>4 DEF DeleteLooksUp, DeleteRemoves, Removing
    <3>2. \A d \in Callers \ {c} : pc'[d] = pc[d]
      BY <2>0, <3>1 DEF Goto, Procs
    <3>3. CASE overlap
      BY <3>1, <3>3 DEF SoloInv
    <3>4. CASE ~overlap
      <4>1. ~running /\ Busy(c)
        BY <1>0, <3>1, <3>4 DEF SoloInv, Busy, Removing
      <4> QED BY <1>0, <3>1, <3>2, <4>1, SoloMoves
    <3> QED BY <3>3, <3>4
  <2>5. CASE Start(c)
    <3>1. /\ pc[c] = "start" /\ lifecycle = Nothing /\ UNCHANGED overlap
          /\ call' = [call EXCEPT ![c] = NoCall]
      BY <2>5 DEF Start
    <3>2. pc'[c] = "idle" /\ \A d \in Callers \ {c} : pc'[d] = pc[d]
      <4>1. CASE cfg.enabled /\ ~running
        <5>1. (CHOOSE x \in Loops : pc[x] = "none") \in Loops
          BY <1>0, <3>1, <4>1, NoneLeft, Distinct
        <5> QED BY <2>0, <2>5, <4>1, <5>1, Distinct DEF Start, Procs
      <4>2. CASE ~(cfg.enabled /\ ~running)
        BY <2>0, <2>5, <4>2 DEF Start, Goto, Procs
      <4> QED BY <4>1, <4>2
    <3>3. CASE overlap
      BY <3>1, <3>3 DEF SoloInv
    <3>4. CASE ~overlap
      <4>1. ASSUME NEW a \in Callers, pc'[a] \in Removing PROVE ~running'
        <5>1. a # c /\ pc[a] \in Removing
          BY <3>2, <4>1 DEF Removing
        <5>2. Busy(a) /\ Deleting(a) /\ Busy(c)
          BY <1>0, <3>1, <5>1 DEF Busy, Removing, ProcInv, CallOk
        <5> QED BY <1>0, <3>4, <5>1, <5>2 DEF SoloInv
      <4>2. \A a \in Callers : (Busy(a)' => Busy(a)) /\ (Busy(a)' /\ Deleting(a)' => Deleting(a))
        BY <2>0, <3>1, <3>2 DEF Busy, Deleting
      <4>3. \A a, b \in Callers : (Busy(a)' /\ Deleting(a)' /\ Busy(b)') => a = b
        BY <1>0, <3>4, <4>2 DEF SoloInv
      <4> QED BY <4>1, <4>3 DEF SoloInv
    <3> QED BY <3>3, <3>4
  <2> QED BY <1>4, <2>1, <2>2, <2>3, <2>4, <2>5 DEF Proceed
<1> QED
  BY <1>1, <1>2, <1>3, <1>4 DEF Next


LEMMA GoneMoves ==
  ASSUME GoneInv, overlap' = overlap, gone' \subseteq gone, gone' \cap cfg'.records = {},
         \A p \in Procs : job'[p].todo \subseteq job[p].todo \cup cfg.records
  PROVE  GoneInv'
BY DEF GoneInv

LEMMA GoneNext == DeletionInv /\ [Next]_vars => GoneInv'
<1> SUFFICES ASSUME DeletionInv, [Next]_vars PROVE GoneInv'
  OBVIOUS
<1> USE DEF service, ghosts
<1>0. LifecycleInv /\ ProcInv /\ DataInv /\ SoloInv /\ GoneInv
  BY DEF DeletionInv
<1>1. CASE MoveHost \/ UNCHANGED vars
  BY <1>0, <1>1 DEF MoveHost, vars, GoneInv
<1>2. ASSUME NEW c \in Callers, Arrive(c) PROVE GoneInv'
  <2>1. (overlap => overlap') /\ UNCHANGED <<cfg, job, gone>>
    BY <1>2 DEF Arrive, BeginEdit, BeginRestart, BeginSync, BeginDelete, Begin
  <2> QED BY <1>0, <2>1 DEF GoneInv
<1>3. ASSUME NEW p \in Procs, Network(p) PROVE GoneInv'
  <2>1. UNCHANGED <<cfg, overlap, gone>>
    BY <1>3 DEF Network, Detect, DetectFails, SyncList, SyncWrite
  <2>2. gone' \cap cfg'.records = {}
    BY <1>0, <2>1 DEF GoneInv
  <2> QED BY <1>0, <1>3, <2>1, <2>2, NetworkFits, GoneMoves
<1>4. ASSUME NEW c \in Callers, SaveConfig(c) \/ PostConfig(c) \/ SaveFeatures(c) PROVE GoneInv'
  <2>1. UNCHANGED <<job, overlap>> /\ gone' \subseteq gone
    BY <1>4 DEF SaveConfig, PostConfig, SaveFeatures, SaveTo
  <2>2. gone' \cap cfg'.records = {}
    BY <1>0, <1>4, SaveData
  <2> QED BY <1>0, <2>1, <2>2, GoneMoves
\* Nobody has anything to do when a deletion that overlaps nothing saves.
<1>5. ASSUME NEW c \in Callers, DeleteSaves(c) PROVE GoneInv'
  <2>1. pc[c] = "save" /\ UNCHANGED <<job, overlap>>
    BY <1>5 DEF DeleteSaves
  <2>2. gone' \cap cfg'.records = {}
    BY <1>0, <1>5, SaveData
  <2>3. ASSUME ~overlap PROVE \A p \in Procs : job[p].todo = {}
    <3>1. Busy(c) /\ Deleting(c) /\ ~running
      BY <1>0, <2>1, <2>3 DEF SoloInv, Busy, Removing, ProcInv, CallOk
    <3>2. \A d \in Callers \ {c} : pc[d] = "idle"
      BY <1>0, <2>3, <3>1 DEF SoloInv, Busy
    <3>3. lifecycle = Nothing
      BY <1>0, <2>1, <3>2 DEF LifecycleInv, LockInv
    <3>4. \A l \in Loops : pc[l] = "none"
      BY <1>0, <3>1, <3>3, NoneLeft
    <3>5. \A p \in Procs : pc[p] \notin Working
      BY <2>1, <3>2, <3>4 DEF Procs, Working
    <3> QED BY <1>0, <3>5 DEF ProcInv, JobOk
  <2> QED BY <2>1, <2>2, <2>3 DEF GoneInv
<1>6. ASSUME NEW c \in Callers, Proceed(c), ~Network(c),
             ~(SaveConfig(c) \/ PostConfig(c) \/ SaveFeatures(c) \/ DeleteSaves(c))
      PROVE  GoneInv'
  <2>1. c \in Procs /\ UNCHANGED <<cfg, overlap, gone>>
    BY <1>6 DEF Proceed, Procs, SaveFails, StopIdle, StopRunning, StopDone, Start, SyncNotes, SyncPlans,
                DeleteFails, DeleteLooksUp, DeleteRemoves
  <2>2. \A q \in Procs : job'[q].todo \subseteq job[q].todo \cup cfg.records
    <3>1. CASE SyncNotes(c) \/ SyncPlans(c) \/ DeleteLooksUp(c) \/ DeleteRemoves(c)
      BY <1>0, <3>1, PlanFits
    <3>2. CASE DeleteFails(c)
      BY <1>0, <2>1, <3>2, EmptyHanded DEF DeleteFails, ProcInv
    <3>3. CASE SaveFails(c) \/ StopIdle(c) \/ StopRunning(c) \/ StopDone(c) \/ Start(c)
      BY <3>3 DEF SaveFails, StopIdle, StopRunning, StopDone, Start
    <3> QED BY <1>6, <3>1, <3>2, <3>3 DEF Proceed
  <2>3. gone' \cap cfg'.records = {}
    BY <1>0, <2>1 DEF GoneInv
  <2> QED BY <1>0, <2>1, <2>2, <2>3, GoneMoves
<1>7. ASSUME NEW l \in Loops, LoopStep(l) \/ LoopExit(l), ~Network(l) PROVE GoneInv'
  <2>1. UNCHANGED <<cfg, overlap, gone>>
    BY <1>7 DEF LoopStep, LoopTop, LoopCompare, LoopTick, LoopExit
  <2>2. gone' \cap cfg'.records = {}
    BY <1>0, <2>1 DEF GoneInv
  <2> QED BY <1>0, <1>7, <2>1, <2>2, LoopFits, GoneMoves DEF LoopStep
<1> QED
  BY <1>1, <1>2, <1>3, <1>4, <1>5, <1>6, <1>7 DEF Next, Proceed, LoopStep, Procs

LEMMA DeletionInit == Init => DeletionInv
<1> SUFFICES ASSUME Init PROVE DeletionInv
  OBVIOUS
<1>1. \A c \in Callers : pc[c] = "idle"
  BY Distinct DEF Init, Procs
<1>2. gone = {}
  BY DEF Init
<1>3. SoloInv
  BY <1>1 DEF SoloInv, Busy, Removing
<1> QED
  BY <1>2, <1>3, LifecycleInit, DataInit DEF DeletionInv, GoneInv

LEMMA DeletionNext == DeletionInv /\ [Next]_vars => DeletionInv'
BY LifecycleNext, ProcNext, DataNext, SoloNext, GoneNext DEF DeletionInv

\* A step adds an address to a record only if a goroutine has that record to do.
LEMMA WritesWhatIsToDo ==
  ASSUME DeletionInv, [Next]_vars, NEW r \in Records, ~(zone'[r] \subseteq zone[r])
  PROVE  \E p \in Procs : r \in job[p].todo
<1>1. ProcInv /\ zone \in [Records -> SUBSET Values]
  BY DEF DeletionInv, DataInv
<1>2. PICK p \in Procs : SyncWrite(p) \/ (p \in Callers /\ DeleteRemoves(p))
  BY DEF Next, vars, MoveHost, Arrive, BeginEdit, BeginRestart, BeginSync, BeginDelete, Begin,
     Proceed, SaveConfig, PostConfig, SaveFeatures, SaveFails, SaveTo, StopIdle, StopRunning, StopDone, Start,
     SyncNotes, SyncPlans, DeleteFails, DeleteLooksUp, DeleteSaves, Network, Detect, DetectFails,
     SyncList, LoopStep, LoopTop, LoopCompare, LoopTick, LoopExit, Procs
<1>3. ~(p \in Callers /\ DeleteRemoves(p))
  BY <1>1 DEF DeleteRemoves
<1>4. SyncWrite(p)
  BY <1>2, <1>3
<1>5. r = job[p].item
  BY <1>1, <1>4 DEF SyncWrite
<1>6. job[p].item \in job[p].todo
  BY <1>1, <1>4 DEF SyncWrite, ProcInv, JobOk
<1> QED BY <1>5, <1>6

\* A record deleted while nothing else was going on is never written again, by a
\* synchronisation that was under way or otherwise, until it is configured anew
\* (Service.SyncNow, Service.DeleteRecord).
THEOREM SoloDeletionIsFinal == Spec => SoloDeleteIsFinal
<1>1. DeletionInv /\ [Next]_vars => [~overlap => \A r \in gone : zone'[r] \subseteq zone[r]]_vars
  <2> SUFFICES ASSUME DeletionInv, [Next]_vars, ~overlap, NEW r \in gone
               PROVE  zone'[r] \subseteq zone[r]
    OBVIOUS
  <2>1. r \in Records /\ \A p \in Procs : r \notin job[p].todo
    BY DEF DeletionInv, DataInv, GoneInv
  <2> QED BY <2>1, WritesWhatIsToDo
<1> QED
  BY <1>1, DeletionInit, DeletionNext, PTL DEF Spec, SoloDeleteIsFinal
=============================================================================
