---------------------------- MODULE DDNSService ----------------------------
(***************************************************************************)
(* The DDNS service of internal/ddns/service.go with the handlers that call*)
(* it: a background loop that detects the address of the host and writes   *)
(* it to the records of the configuration, requests that edit the          *)
(* configuration and restart the loop, that synchronise at once, and that  *)
(* delete a record here and at Cloudflare.                                 *)
(*                                                                         *)
(* lifecycleMu is held over the whole of Start and Stop; Stop waits for the*)
(* loop under it.  Start has no step another goroutine could come between  *)
(* with effect, so it is one action.  Every handler that changes the       *)
(* configuration reads all of it and later saves all of it.                *)
(*                                                                         *)
(* Abstractions: one address family (the two are handled alike); a record  *)
(* is its name and type, in the configuration at most once; the order in   *)
(* which records are synchronised is left open; only_on_change is not      *)
(* edited, the interval is left out; the time-out of a check and           *)
(* a client that goes away are failures of the call that notices them; the *)
(* history of results is left out.  A call to Cloudflare takes effect      *)
(* before it returns or not at all.                                        *)
(***************************************************************************)
EXTENDS Naturals, FiniteSets

CONSTANTS
  Callers,       \* requests being handled
  Loops,         \* identities of loop goroutines
  Records,       \* names of records
  FixedRecords,  \* those whose value is an address, not a placeholder
  Addresses,     \* addresses the host may have
  Nothing,       \* no address, no record, no goroutine
  MaxCalls, MaxMoves, MaxFailures   \* bounds

ASSUME SetsAssumption ==
  /\ FixedRecords \subseteq Records
  /\ Nothing \notin Callers \cup Loops \cup Records \cup Addresses
  /\ Loops # {} /\ Addresses # {}
  /\ Callers \cap Loops = {}
ASSUME BoundsAssumption ==
  MaxCalls \in Nat /\ MaxMoves \in Nat /\ MaxFailures \in Nat

VARIABLES
  cfg,        \* the DDNS section of the configuration
  hostIP,     \* the address the IP sources report
  zone,       \* zone[r]: the addresses Cloudflare has for record r
  lifecycle,  \* the holder of lifecycleMu
  running,    \* Service.running
  loop,       \* the goroutine loopDone and stopCancel belong to
  canceled,   \* loops whose context is cancelled
  currentIP,  \* Service.currentV4, currentV6
  pc, job,    \* of every goroutine: where it is, and its local variables
  call,       \* of every caller: what it does, and the configuration it read
  lost,       \* has a save overwritten a configuration its caller never read?
  silent,     \* has a save switched the service without restarting it?
  overlap,    \* has a deletion overlapped another call?
  gone,       \* records deleted here and at Cloudflare
  used        \* counters of the bounds

vars == <<cfg, hostIP, zone, lifecycle, running, loop, canceled, currentIP,
          pc, job, call, lost, silent, overlap, gone, used>>
service == <<lifecycle, running, loop, canceled>>
ghosts  == <<lost, silent, overlap, gone>>

Procs   == Callers \cup Loops
Configs == [enabled : BOOLEAN, onChange : BOOLEAN, records : SUBSET Records]
Resting == [todo |-> {}, ip |-> Nothing, item |-> Nothing, seen |-> Nothing]
NoCall  == [op |-> "none", snap |-> Nothing, rec |-> Nothing]

\* The address record r must have when the host has address ip.
ResolveRecordIP(r, ip) == IF r \in FixedRecords THEN "fixed" ELSE ip

\* The state after the first Start.
Init ==
  /\ cfg \in [enabled : BOOLEAN, onChange : BOOLEAN, records : {Records}]
  /\ hostIP = CHOOSE ip \in Addresses : TRUE
  /\ zone = [r \in Records |-> {}]
  /\ lifecycle = Nothing
  /\ running = cfg.enabled
  /\ loop = IF running THEN CHOOSE l \in Loops : TRUE ELSE Nothing
  /\ canceled = {} /\ currentIP = Nothing
  /\ pc = [p \in Procs |-> IF p \in Callers THEN "idle" ELSE IF p = loop THEN "top" ELSE "none"]
  /\ job = [p \in Procs |-> Resting]
  /\ call = [c \in Callers |-> NoCall]
  /\ lost = FALSE /\ silent = FALSE /\ overlap = FALSE /\ gone = {}
  /\ used = [calls |-> 0, moves |-> 0, failures |-> 0]

-----------------------------------------------------------------------------
Goto(p, where) == pc' = [pc EXCEPT ![p] = where]

Deletions   == {"delete", "forget"}
Editing     == {"edit"} \cup Deletions
Deleting(c) == call[c].op \in Deletions
Busy(c)     == pc[c] # "idle"

MoveHost ==
  /\ used.moves < MaxMoves
  /\ hostIP' \in Addresses \ {hostIP}
  /\ used' = [used EXCEPT !.moves = @ + 1]
  /\ UNCHANGED <<cfg, zone, service, currentIP, pc, job, call, ghosts>>

\* A request for operation op arrives and goes first to where; the
\* configuration is read when the request arrives.
Begin(c, op, rec, where) ==
  /\ ~Busy(c) /\ used.calls < MaxCalls
  /\ used' = [used EXCEPT !.calls = @ + 1]
  /\ call' = [call EXCEPT ![c] =
       [op |-> op, snap |-> IF op \in Editing THEN cfg ELSE Nothing, rec |-> rec]]
  /\ overlap' = (overlap \/ \E d \in Callers \ {c} :
                   Busy(d) /\ (Deleting(d) \/ op \in Deletions))
  /\ Goto(c, where)
  /\ UNCHANGED <<cfg, hostIP, zone, service, currentIP, job, lost, silent, gone>>

Finish(c) == Goto(c, "idle") /\ call' = [call EXCEPT ![c] = NoCall]

-----------------------------------------------------------------------------
(***************************************************************************)
(* Editing the configuration.                                              *)
(***************************************************************************)
SaveTo(c, new) ==
  /\ cfg' = new
  /\ lost' = (lost \/ cfg # call[c].snap)
  /\ gone' = gone \ new.records
  /\ UNCHANGED <<hostIP, zone, service, currentIP, job, overlap, used>>

\* The snapshot is not used again.
Saved(c, where) == Goto(c, where) /\ call' = [call EXCEPT ![c].snap = Nothing]

BeginEdit(c) == Begin(c, "edit", Nothing, "edit")

\* SaveConfig and the handlers that add or change a record.
SaveConfig(c) ==
  /\ pc[c] = "edit"
  /\ \E on \in BOOLEAN, records \in SUBSET Records :
       SaveTo(c, [call[c].snap EXCEPT !.enabled = on, !.records = records])
  /\ Saved(c, "stop") /\ UNCHANGED silent

\* POST of the whole configuration: saved, and the service is left as it is.
PostConfig(c) ==
  /\ pc[c] = "edit"
  /\ \E on \in BOOLEAN, records \in SUBSET Records :
       /\ SaveTo(c, [call[c].snap EXCEPT !.enabled = on, !.records = records])
       /\ silent' = (silent \/ on # cfg.enabled)
  /\ Finish(c)

\* handleFeatures restarts the service only when the flag differs from the one
\* it read.  With no flag changed this is any other save of the configuration.
SaveFeatures(c) ==
  /\ pc[c] = "edit"
  /\ \E on \in BOOLEAN :
       /\ SaveTo(c, [call[c].snap EXCEPT !.enabled = on])
       /\ IF on # call[c].snap.enabled THEN Saved(c, "stop") ELSE Finish(c)
  /\ UNCHANGED silent

\* The save fails, or the request is refused.
SaveFails(c) ==
  /\ pc[c] = "edit"
  /\ Finish(c)
  /\ UNCHANGED <<cfg, hostIP, zone, service, currentIP, job, ghosts, used>>

\* A restart of its own: after an import, or by a tool of the MCP bridge.
BeginRestart(c) == Begin(c, "restart", Nothing, "stop")

-----------------------------------------------------------------------------
(***************************************************************************)
(* Start and Stop.                                                         *)
(***************************************************************************)
AfterStop(c) ==
  CASE call[c].op = "delete" -> "list"
    [] call[c].op = "forget" -> "save"
    [] OTHER                 -> "start"

StopIdle(c) ==
  /\ pc[c] = "stop" /\ lifecycle = Nothing /\ ~running
  /\ Goto(c, AfterStop(c))
  /\ UNCHANGED <<cfg, hostIP, zone, service, currentIP, job, call, ghosts, used>>

\* Mutant: Stop does not wait for the loop.
Mutant_StopWithoutWait(c) ==
  /\ pc[c] = "stop" /\ lifecycle = Nothing /\ running
  /\ running' = FALSE /\ canceled' = canceled \cup {loop} /\ loop' = Nothing
  /\ Goto(c, AfterStop(c))
  /\ UNCHANGED <<cfg, hostIP, zone, lifecycle, currentIP, job, call, ghosts, used>>

StopRunning(c) ==
  /\ pc[c] = "stop" /\ lifecycle = Nothing /\ running
  /\ running' = FALSE /\ canceled' = canceled \cup {loop}
  /\ lifecycle' = c
  /\ Goto(c, "stopping")
  /\ UNCHANGED <<cfg, hostIP, zone, loop, currentIP, job, call, ghosts, used>>

StopDone(c) ==
  /\ pc[c] = "stopping" /\ pc[loop] = "none"
  /\ loop' = Nothing /\ lifecycle' = Nothing
  /\ Goto(c, AfterStop(c))
  /\ UNCHANGED <<cfg, hostIP, zone, running, canceled, currentIP, job, call, ghosts, used>>

\* The goroutine is started, if the configuration now read asks for one.  A
\* service that was not running has then caught up with the configuration.
Start(c) ==
  /\ pc[c] = "start" /\ lifecycle = Nothing
  /\ call' = [call EXCEPT ![c] = NoCall]
  /\ IF cfg.enabled /\ ~running
     THEN LET l == CHOOSE x \in Loops : pc[x] = "none" IN
            /\ running' = TRUE /\ loop' = l
            /\ pc' = [pc EXCEPT ![c] = "idle", ![l] = "top"]
     ELSE Goto(c, "idle") /\ UNCHANGED <<running, loop>>
  /\ silent' = (silent /\ running)
  /\ UNCHANGED <<cfg, hostIP, zone, lifecycle, canceled, currentIP, job, lost, overlap,
                 gone, used>>

-----------------------------------------------------------------------------
(***************************************************************************)
(* Calls over the network.  A call with a cancelled context fails; any     *)
(* other call may fail.                                                    *)
(***************************************************************************)
Works(p) == p \notin canceled /\ UNCHANGED used
Fails(p) == \/ p \in canceled /\ UNCHANGED used
            \/ /\ p \notin canceled /\ used.failures < MaxFailures
               /\ used' = [used EXCEPT !.failures = @ + 1]

\* Where goroutine p goes when its synchronisation is over.
Rest(p) == IF p \in Loops THEN "tick" ELSE "idle"

Detect(p) ==
  /\ pc[p] = "detect"
  /\ Works(p)
  /\ job' = [job EXCEPT ![p].ip = hostIP]
  /\ Goto(p, "detected")
  /\ UNCHANGED <<cfg, hostIP, zone, service, currentIP, call, ghosts>>

DetectFails(p) ==
  /\ pc[p] = "detect"
  /\ Fails(p)
  /\ job' = [job EXCEPT ![p] = Resting]
  /\ IF p \in Callers THEN Finish(p) ELSE Goto(p, "tick") /\ UNCHANGED call
  /\ UNCHANGED <<cfg, hostIP, zone, service, currentIP, ghosts>>

\* Goroutine p is done with the record it works on.
NextRecord(p, r) ==
  LET rest == job[p].todo \ {r} IN
  IF rest # {}
  THEN /\ job' = [job EXCEPT ![p] = [todo |-> rest, ip |-> @.ip, item |-> Nothing, seen |-> Nothing]]
       /\ Goto(p, "sync") /\ UNCHANGED call
  ELSE /\ job' = [job EXCEPT ![p] = Resting]
       /\ IF p \in Callers THEN Finish(p) ELSE Goto(p, "tick") /\ UNCHANGED call

\* syncDNSRecord: look the record up, and write it if it differs.
SyncList(p) ==
  /\ pc[p] = "sync"
  /\ \E r \in job[p].todo :
       \/ Fails(p) /\ NextRecord(p, r)
       \/ Works(p) /\ ResolveRecordIP(r, job[p].ip) \in zone[r] /\ NextRecord(p, r)
       \/ /\ Works(p)
          /\ \E old \in IF zone[r] = {} THEN {Nothing} ELSE zone[r] :
               /\ old # ResolveRecordIP(r, job[p].ip)
               /\ job' = [job EXCEPT ![p].item = r, ![p].seen = old]
          /\ Goto(p, "write") /\ UNCHANGED call
  /\ UNCHANGED <<cfg, hostIP, zone, service, currentIP, ghosts>>

\* Create, or update the record found; an update of one that is gone fails.
SyncWrite(p) ==
  /\ pc[p] = "write"
  /\ LET r  == job[p].item
         ip == ResolveRecordIP(r, job[p].ip)
     IN /\ \/ /\ Works(p)
              /\ zone' = [zone EXCEPT ![r] =
                   IF job[p].seen = Nothing THEN @ \cup {ip}
                   ELSE IF job[p].seen \in @ THEN (@ \ {job[p].seen}) \cup {ip} ELSE @]
           \/ Fails(p) /\ UNCHANGED zone
        /\ NextRecord(p, r)
  /\ UNCHANGED <<cfg, hostIP, service, currentIP, ghosts>>

-----------------------------------------------------------------------------
(***************************************************************************)
(* The loop: checkAndSync, then the select.                                *)
(***************************************************************************)
LoopTop(l) ==
  /\ pc[l] = "top"
  /\ IF cfg.enabled /\ cfg.records # {}
     THEN Goto(l, "detect") /\ job' = [job EXCEPT ![l].todo = cfg.records]
     ELSE Goto(l, "tick") /\ UNCHANGED job
  /\ UNCHANGED <<cfg, hostIP, zone, service, currentIP, call, ghosts, used>>

\* Mutant: every record is skipped while the address stays the same.
Mutant_NeedsSync(l) == job[l].ip # currentIP

NeedsSync(l) ==
  \/ job[l].todo \cap FixedRecords # {}
  \/ ~cfg.onChange
  \/ job[l].ip # currentIP

\* The address is remembered before it is known to be published.
LoopCompare(l) ==
  /\ pc[l] = "detected"
  /\ IF NeedsSync(l)
     THEN currentIP' = job[l].ip /\ Goto(l, "sync") /\ UNCHANGED job
     ELSE /\ Goto(l, "tick") /\ job' = [job EXCEPT ![l] = Resting]
          /\ UNCHANGED currentIP
  /\ UNCHANGED <<cfg, hostIP, zone, service, call, ghosts, used>>

\* The select takes any branch that is ready, so a loop that is to stop may
\* take a tick before.
LoopTick(l) ==
  /\ pc[l] = "tick"
  /\ Goto(l, "top")
  /\ UNCHANGED <<cfg, hostIP, zone, service, currentIP, job, call, ghosts, used>>

LoopExit(l) ==
  /\ pc[l] = "tick" /\ l \in canceled
  /\ Goto(l, "none") /\ canceled' = canceled \ {l}
  /\ UNCHANGED <<cfg, hostIP, zone, lifecycle, running, loop, currentIP, job, call, ghosts, used>>

-----------------------------------------------------------------------------
(***************************************************************************)
(* SyncNow; neither Stop nor lifecycleMu concerns it.                      *)
(***************************************************************************)
BeginSync(c) == Begin(c, "sync", Nothing, "detect")

SyncNotes(c) ==
  /\ pc[c] = "detected"
  /\ currentIP' = job[c].ip
  /\ Goto(c, "plan")
  /\ UNCHANGED <<cfg, hostIP, zone, service, job, call, ghosts, used>>

SyncPlans(c) ==
  /\ pc[c] = "plan"
  /\ IF cfg.records = {}
     THEN Finish(c) /\ job' = [job EXCEPT ![c] = Resting]
     ELSE Goto(c, "sync") /\ job' = [job EXCEPT ![c].todo = cfg.records] /\ UNCHANGED call
  /\ UNCHANGED <<cfg, hostIP, zone, service, currentIP, ghosts, used>>

-----------------------------------------------------------------------------
(***************************************************************************)
(* DeleteRecord.  Start is deferred: it runs on every return.              *)
(***************************************************************************)
\* Mutant: the loop is left running.
Mutant_DeleteWithoutStop(c) ==
  \E r \in cfg.records : Begin(c, "delete", r, "list")

\* deleteRemote ("delete") or not ("forget").
BeginDelete(c) ==
  \E r \in cfg.records, op \in Deletions : Begin(c, op, r, "stop")

DeleteFails(c) ==
  /\ pc[c] \in {"list", "remove", "save"}
  /\ Fails(c)
  /\ Saved(c, "start")
  /\ job' = [job EXCEPT ![c] = Resting]
  /\ UNCHANGED <<cfg, hostIP, zone, service, currentIP, ghosts>>

DeleteLooksUp(c) ==
  /\ pc[c] = "list"
  /\ Works(c)
  /\ IF zone[call[c].rec] = {}
     THEN Goto(c, "save") /\ UNCHANGED job
     ELSE /\ \E old \in zone[call[c].rec] : job' = [job EXCEPT ![c].seen = old]
          /\ Goto(c, "remove")
  /\ UNCHANGED <<cfg, hostIP, zone, service, currentIP, call, ghosts>>

\* Deleting a record that has gone is an error of the API.
DeleteRemoves(c) ==
  /\ pc[c] = "remove"
  /\ Works(c)
  /\ zone' = [zone EXCEPT ![call[c].rec] = @ \ {job[c].seen}]
  /\ Goto(c, IF job[c].seen \in zone[call[c].rec] THEN "save" ELSE "start")
  /\ job' = [job EXCEPT ![c] = Resting]
  /\ UNCHANGED <<cfg, hostIP, service, currentIP, call, ghosts>>

\* Mutant: the service is not started again.
Mutant_DeleteForgetsStart(c) ==
  /\ pc[c] = "save"
  /\ cfg' = [call[c].snap EXCEPT !.records = @ \ {call[c].rec}]
  /\ lost' = (lost \/ cfg # call[c].snap)
  /\ gone' = (IF call[c].op = "delete" THEN gone \cup {call[c].rec} ELSE gone) \ cfg'.records
  /\ Finish(c)
  /\ UNCHANGED <<hostIP, zone, service, currentIP, job, silent, overlap, used>>

DeleteSaves(c) ==
  /\ pc[c] = "save"
  /\ cfg' = [call[c].snap EXCEPT !.records = @ \ {call[c].rec}]
  /\ lost' = (lost \/ cfg # call[c].snap)
  /\ gone' = (IF call[c].op = "delete" THEN gone \cup {call[c].rec} ELSE gone) \ cfg'.records
  /\ Saved(c, "start")
  /\ UNCHANGED <<hostIP, zone, service, currentIP, job, silent, overlap, used>>

-----------------------------------------------------------------------------
Arrive(c) == BeginEdit(c) \/ BeginRestart(c) \/ BeginSync(c) \/ BeginDelete(c)

Network(p) == Detect(p) \/ DetectFails(p) \/ SyncList(p) \/ SyncWrite(p)

Proceed(c) ==
  \/ SaveConfig(c) \/ PostConfig(c) \/ SaveFeatures(c) \/ SaveFails(c)
  \/ StopIdle(c) \/ StopRunning(c) \/ StopDone(c) \/ Start(c)
  \/ SyncNotes(c) \/ SyncPlans(c)
  \/ DeleteFails(c) \/ DeleteLooksUp(c) \/ DeleteRemoves(c) \/ DeleteSaves(c)
  \/ Network(c)

LoopStep(l) == LoopTop(l) \/ LoopCompare(l) \/ LoopTick(l) \/ Network(l)

Next == \/ MoveHost
        \/ \E c \in Callers : Arrive(c) \/ Proceed(c)
        \/ \E l \in Loops : LoopStep(l) \/ LoopExit(l)

Spec == Init /\ [][Next]_vars

\* Goroutines run, tickers tick, and a select does not for ever prefer the
\* ticker to the closed channel.
FairSpec ==
  /\ Spec
  /\ \A c \in Callers : WF_vars(Proceed(c))
  /\ \A l \in Loops : WF_vars(LoopStep(l)) /\ SF_vars(LoopExit(l))

-----------------------------------------------------------------------------
(***************************************************************************)
(* Properties.                                                             *)
(***************************************************************************)
CallerPlaces == {"idle", "edit", "stop", "stopping", "start", "list", "remove",
                 "save", "detect", "detected", "plan", "sync", "write"}
LoopPlaces   == {"none", "top", "detect", "detected", "sync", "write", "tick"}

\* Types; lifecycleMu is held by the caller that waits for the loop.
TypeOK ==
  /\ cfg \in Configs /\ hostIP \in Addresses
  /\ zone \in [Records -> SUBSET (Addresses \cup {"fixed"})]
  /\ lifecycle \in Callers \cup {Nothing} /\ loop \in Loops \cup {Nothing}
  /\ \A c \in Callers : lifecycle = c <=> pc[c] = "stopping"
  /\ running \in BOOLEAN /\ canceled \subseteq Loops
  /\ currentIP \in Addresses \cup {Nothing}
  /\ \A c \in Callers : pc[c] \in CallerPlaces
  /\ \A l \in Loops : pc[l] \in LoopPlaces
  /\ \A p \in Procs : /\ job[p].todo \subseteq Records
                      /\ job[p].item \in Records \cup {Nothing}
  /\ {lost, silent, overlap} \subseteq BOOLEAN /\ gone \subseteq Records

\* There is one loop: the one that is running, or the one a Stop waits for.
\* A stopped service has none that could still write a record.
LoopIsOwned ==
  /\ \A l \in Loops : pc[l] # "none" => l = loop /\ (running \/ lifecycle # Nothing)
  /\ running => loop \in Loops /\ pc[loop] # "none" /\ loop \notin canceled

\* When no request is being handled, the loop runs exactly if the
\* configuration says so; unless a save wrote back a configuration that had
\* changed since its caller read it, or a POST of the configuration changed the
\* switch and no restart has followed.
EnabledRuns ==
  (\A c \in Callers : ~Busy(c)) /\ ~lost /\ ~silent => running = cfg.enabled

\* A record deleted here and at Cloudflare is not written again, by a
\* synchronisation that was under way or otherwise, unless it is added again.
DeletedStaysDeleted ==
  [][\A r \in gone : zone'[r] \subseteq zone[r]]_vars

\* The same, for deletions that overlapped no other request.
SoloDeleteIsFinal ==
  [][~overlap => \A r \in gone : zone'[r] \subseteq zone[r]]_vars

Published == \A r \in cfg.records : ResolveRecordIP(r, hostIP) \in zone[r]

\* Once the address, the configuration and the network are stable, a running
\* service that synchronises at every check publishes every record.
EventuallyPublished == <>[](running /\ cfg.enabled /\ ~cfg.onChange => Published)

\* The same for a service that synchronises when the address changes.
EventuallyPublishedOnChange == <>[](running /\ cfg.enabled => Published)
=============================================================================
