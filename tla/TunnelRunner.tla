---------------------------- MODULE TunnelRunner ----------------------------
(***************************************************************************)
(* The runner of internal/service/runner.go with the HTTP handlers of      *)
(* internal/server that call it and the shutdown sequence of main.go: the  *)
(* table of instances, one per tunnel profile, against a configuration     *)
(* that other requests edit at the same time.                              *)
(*                                                                         *)
(* An instance is a slot of module TunnelSlot, which TunnelInstance        *)
(* implements (SlotImplemented); here the slot of each instance meets the  *)
(* profile its options are read from.                                      *)
(*                                                                         *)
(* Each request is a goroutine that moves from one critical section to the *)
(* next; handlers that answer first and work later (stop, delete) are      *)
(* background goroutines, which http.Server.Shutdown does not wait for.    *)
(***************************************************************************)
EXTENDS Naturals, FiniteSets

CONSTANTS
  Keys,        \* canonical keys of tunnel profiles
  Ports,       \* metrics ports; 0: the profile has no metrics listener
  Tasks,       \* goroutines that serve requests
  ReuseKeys,   \* may the key of a deleted profile be used again?
  MaxInstances, MaxRequests, MaxEdits, MaxExits   \* bounds

ASSUME KeysAssumption  == Keys # {} /\ IsFiniteSet(Keys)
ASSUME PortsAssumption == Ports \subseteq Nat
ASSUME FlagAssumption  == ReuseKeys \in BOOLEAN

VARIABLES
  profile,   \* profile[k]: what the configuration says of k, or Absent
  insts,     \* Runner.insts: the instance of each key, 0 when there is none
  inst,      \* inst[i]: instance i
  task,      \* task[t]: goroutine t
  server,    \* the shutdown sequence
  snapshot,  \* the instances whose run a Stop of Shutdown waits for
  left,      \* history: profiles whose start Shutdown did not wait out
  gaveUp,    \* history: instances whose Stop by Shutdown timed out
  requests, edits, exits   \* counters of the bounds

ending == <<snapshot, left, gaveUp>>
vars   == <<profile, insts, inst, task, server, ending, requests, edits, exits>>

\* usable: LocalEnabled with a token, what optionsFor asks for.
\* raw, a history: the request that deleted the profile spelled its key in a
\* way that only normalizeTunnelKey turns into the key.
Profiles    == [here: {TRUE}, usable: BOOLEAN, port: Ports \cup {0}, raw: {FALSE}]
Absent(raw) == [here |-> FALSE, usable |-> FALSE, port |-> 0, raw |-> raw]

Present(k) == profile[k].here
Ids        == DOMAIN inst
Phases     == {"idle", "launching", "ready", "up", "stopping", "pending"}

Ops  == {"none", "start", "stop", "remove"}
Idle == [op |-> "none", pc |-> "idle", key |-> CHOOSE k \in Keys : TRUE,
         raw |-> FALSE, id |-> 0]

Init ==
  /\ profile \in [Keys -> Profiles]
  /\ insts = [k \in Keys |-> 0]
  /\ inst = [i \in 1..0 |-> Idle]
  /\ task = [t \in Tasks |-> Idle]
  /\ server = "serving" /\ snapshot = {} /\ left = {} /\ gaveUp = {}
  /\ requests = 0 /\ edits = 0 /\ exits = 0

SetTask(t, r)  == task' = [task EXCEPT ![t] = r]
SetPhase(i, p) == inst' = [inst EXCEPT ![i].phase = p]

\* A request of operation op for profile k, spelled canonically or not; a start
\* finds the profile in the configuration by any spelling.
Request(t, op, pc, k) ==
  /\ server = "serving" /\ requests < MaxRequests
  /\ task[t] = Idle
  /\ \E raw \in BOOLEAN :
       /\ op = "start" => ~raw
       /\ SetTask(t, [op |-> op, pc |-> pc, key |-> k, raw |-> raw, id |-> 0])
  /\ requests' = requests + 1

-----------------------------------------------------------------------------
(***************************************************************************)
(* Configuration.                                                          *)
(***************************************************************************)

\* SaveTunnelProfile: a new profile, or other settings for an old one.
SaveProfile(k) ==
  /\ server = "serving" /\ edits < MaxEdits
  /\ Present(k) \/ ReuseKeys
  /\ \E p \in Profiles \ {profile[k]} : profile' = [profile EXCEPT ![k] = p]
  /\ edits' = edits + 1
  /\ UNCHANGED <<insts, inst, task, server, ending, requests, exits>>

\* Mutant: the run of the deleted profile is left alone.
Mutant_DeleteOnly(t, k) ==
  /\ server = "serving" /\ requests < MaxRequests
  /\ Present(k) /\ \E other \in Keys \ {k} : Present(other)
  /\ requests' = requests + 1
  /\ profile' = [profile EXCEPT ![k] = Absent(FALSE)]
  /\ UNCHANGED <<insts, inst, task, server, ending, edits, exits>>

\* DELETE of a profile; RemoveProfile follows in the background.
DeleteProfile(t, k) ==
  /\ Request(t, "remove", "lookup", k)
  /\ Present(k) /\ \E other \in Keys \ {k} : Present(other)
  /\ profile' = [profile EXCEPT ![k] = Absent(task'[t].raw)]
  /\ UNCHANGED <<insts, inst, server, ending, edits, exits>>

-----------------------------------------------------------------------------
(***************************************************************************)
(* StartProfile: read the configuration, find or create the instance, look *)
(* for a conflict of metrics ports, start.                                 *)
(***************************************************************************)
StartRequest(t, k) ==
  /\ Request(t, "start", "bind", k)
  /\ Present(k)
  /\ UNCHANGED <<profile, insts, inst, server, ending, edits, exits>>

\* Mutant: the instance of a profile is not looked up again under the lock.
Mutant_BindNew(t) ==
  /\ task[t].op = "start" /\ task[t].pc = "bind"
  /\ LET k == task[t].key
         i == Cardinality(Ids) + 1
     IN  /\ i <= MaxInstances
         /\ insts' = [insts EXCEPT ![k] = i]
         /\ inst' = [j \in Ids \cup {i} |->
                       IF j \in Ids THEN inst[j]
                       ELSE [key |-> k, phase |-> "idle", port |-> 0]]
         /\ SetTask(t, [task[t] EXCEPT !.pc = "check", !.id = i])
  /\ UNCHANGED <<profile, server, ending, requests, edits, exits>>

\* instanceFor, under Runner.mu.
Bind(t) ==
  /\ task[t].op = "start" /\ task[t].pc = "bind"
  /\ LET k == task[t].key
         i == IF insts[k] # 0 THEN insts[k] ELSE Cardinality(Ids) + 1
     IN  /\ i <= MaxInstances
         /\ insts' = [insts EXCEPT ![k] = i]
         /\ inst' = [j \in Ids \cup {i} |->
                       IF j \in Ids THEN inst[j]
                       ELSE [key |-> k, phase |-> "idle", port |-> 0]]
         /\ SetTask(t, [task[t] EXCEPT !.pc = "check", !.id = i])
  /\ UNCHANGED <<profile, server, ending, requests, edits, exits>>

\* Instance.running
Running(i) == inst[i].phase \in {"up", "stopping"}

\* checkMetricsPortConflict: the status of each other profile that has the
\* same metrics port now.
PortConflict(k) ==
  /\ Present(k) /\ profile[k].port # 0
  /\ \E other \in Keys \ {k} :
       /\ Present(other) /\ profile[other].port = profile[k].port
       /\ insts[other] # 0 /\ Running(insts[other])

CheckPort(t) ==
  /\ task[t].pc = "check"
  /\ SetTask(t, IF PortConflict(task[t].key) THEN Idle
                ELSE [task[t] EXCEPT !.pc = "launch"])
  /\ UNCHANGED <<profile, insts, inst, server, ending, requests, edits, exits>>

\* Instance.Start, up to its reservation; refused by a run or a launch.
Launch(t) ==
  /\ task[t].pc = "launch"
  /\ IF inst[task[t].id].phase \in {"idle", "pending"}
       THEN /\ SetPhase(task[t].id, "launching")
            /\ SetTask(t, [task[t] EXCEPT !.pc = "return"])
       ELSE UNCHANGED inst /\ SetTask(t, Idle)
  /\ UNCHANGED <<profile, insts, server, ending, requests, edits, exits>>

\* Instance.Start returns once the launch is decided.
StartReturns(t) ==
  /\ task[t].pc = "return"
  /\ inst[task[t].id].phase \notin {"launching", "ready"}
  /\ SetTask(t, Idle)
  /\ UNCHANGED <<profile, insts, inst, server, ending, requests, edits, exits>>

-----------------------------------------------------------------------------
(***************************************************************************)
(* An instance between Start and Stop.                                     *)
(***************************************************************************)

\* optsFn is optionsFor: the profile as it is now.
ReadOptions(i) ==
  /\ inst[i].phase = "launching"
  /\ inst' = [inst EXCEPT ![i] =
                LET p == profile[@.key]
                IN  IF p.usable THEN [@ EXCEPT !.phase = "ready", !.port = p.port]
                                ELSE [@ EXCEPT !.phase = "idle"]]
  /\ UNCHANGED <<profile, insts, task, server, ending, requests, edits, exits>>

PublishRun(i) ==
  /\ inst[i].phase = "ready"
  /\ SetPhase(i, "up")
  /\ UNCHANGED <<profile, insts, task, server, ending, requests, edits, exits>>

\* A run ends by itself.
RunEnds(i) ==
  /\ inst[i].phase = "up" /\ exits < MaxExits
  /\ SetPhase(i, "pending")
  /\ exits' = exits + 1
  /\ UNCHANGED <<profile, insts, task, server, ending, requests, edits>>

\* The run is not restarted: the options, read again, are not usable or have no
\* AutoRestart, or the attempts are used up.
RestartDropped(i) ==
  /\ inst[i].phase = "pending"
  /\ SetPhase(i, "idle")
  /\ UNCHANGED <<profile, insts, task, server, ending, requests, edits, exits>>

\* It is, after a pause.
RestartDue(i) ==
  /\ inst[i].phase = "pending"
  /\ SetPhase(i, "launching")
  /\ UNCHANGED <<profile, insts, task, server, ending, requests, edits, exits>>

\* The cancelled run returns, and with it the Stops that wait for it.
RunStopped(i) ==
  /\ inst[i].phase = "stopping"
  /\ SetPhase(i, "idle")
  /\ snapshot' = snapshot \ {i}
  /\ UNCHANGED <<profile, insts, task, server, left, gaveUp, requests, edits, exits>>

\* Instance.Stop
Stopped(p) == IF p \in {"up", "stopping"} THEN "stopping" ELSE "idle"

-----------------------------------------------------------------------------
(***************************************************************************)
(* StopProfile and RemoveProfile.                                          *)
(***************************************************************************)
StopRequest(t, k) ==
  /\ Request(t, "stop", "lookup", k)
  /\ Present(k)
  /\ UNCHANGED <<profile, insts, inst, server, ending, edits, exits>>

\* resolveKey: only a profile that still exists is found by any spelling.
Resolves(t) == Present(task[t].key) \/ ~task[t].raw

\* Look the instance up, and for RemoveProfile forget it.
Lookup(t) ==
  /\ task[t].pc = "lookup"
  /\ LET k == task[t].key
         i == IF Resolves(t) THEN insts[k] ELSE 0
     IN  /\ SetTask(t, IF i = 0 THEN Idle
                       ELSE [task[t] EXCEPT !.pc = "halt", !.id = i])
         /\ insts' = (IF i # 0 /\ task[t].op = "remove"
                        THEN [insts EXCEPT ![k] = 0] ELSE insts)
  /\ UNCHANGED <<profile, inst, server, ending, requests, edits, exits>>

Halt(t) ==
  /\ task[t].pc = "halt"
  /\ SetPhase(task[t].id, Stopped(inst[task[t].id].phase))
  /\ SetTask(t, Idle)
  /\ UNCHANGED <<profile, insts, server, ending, requests, edits, exits>>

-----------------------------------------------------------------------------
(***************************************************************************)
(* Shutdown: no new request, wait for the handlers, stop every instance of *)
(* the table and wait for their runs, exit.  Both waits have a time limit. *)
(***************************************************************************)
ShutdownSignal ==
  /\ server = "serving" /\ server' = "draining"
  /\ UNCHANGED <<profile, insts, inst, task, ending, requests, edits, exits>>

\* Mutant: only the instances with a run are stopped, not a launch or a restart.
Mutant_StartedRunning == {i \in {insts[k] : k \in Keys} \ {0} : Running(i)}

\* The instances of the table.
Started == {insts[k] : k \in Keys} \ {0}

\* Runner.Shutdown: the goroutines that call Stop run at once.  It comes when no
\* handler is left, or after the 30 seconds of http.Server.Shutdown.
StopAll ==
  /\ server = "draining" /\ server' = "stopping"
  /\ left' = {task[t].key : t \in {u \in Tasks : task[u].op = "start"}}
  /\ snapshot' = {i \in Started : Running(i)}
  /\ inst' = [i \in Ids |-> IF i \in Started
                              THEN [inst[i] EXCEPT !.phase = Stopped(@)]
                              ELSE inst[i]]
  /\ UNCHANGED <<profile, insts, task, gaveUp, requests, edits, exits>>

\* Stop times out: Shutdown logs the error and waits for that run no longer.
StopGivesUp(i) ==
  /\ i \in snapshot
  /\ snapshot' = snapshot \ {i} /\ gaveUp' = gaveUp \cup {i}
  /\ UNCHANGED <<profile, insts, inst, task, server, left, requests, edits, exits>>

\* The process ends when every Stop has returned, whoever is still at work.
Exit ==
  /\ server = "stopping" /\ snapshot = {}
  /\ server' = "exited"
  /\ UNCHANGED <<profile, insts, inst, task, ending, requests, edits, exits>>

-----------------------------------------------------------------------------
\* Nothing happens in a process that has ended.
Alive == server # "exited"

TaskStep(t) ==
  /\ Alive
  /\ \/ Bind(t) \/ CheckPort(t) \/ Launch(t) \/ StartReturns(t)
     \/ Lookup(t) \/ Halt(t)

InstStep(i) ==
  /\ Alive
  /\ \/ ReadOptions(i) \/ PublishRun(i) \/ RestartDropped(i) \/ RestartDue(i)
     \/ RunStopped(i)

Next ==
  \/ \E t \in Tasks, k \in Keys :
       DeleteProfile(t, k) \/ StartRequest(t, k) \/ StopRequest(t, k)
  \/ \E k \in Keys : SaveProfile(k)
  \/ \E t \in Tasks : TaskStep(t)
  \/ \E i \in Ids : InstStep(i) \/ (Alive /\ RunEnds(i)) \/ StopGivesUp(i)
  \/ ShutdownSignal \/ StopAll \/ Exit

Spec == Init /\ [][Next]_vars

\* Goroutines that can run do, and a cancelled run returns; whether a time-out
\* comes first is left open.
Fairness ==
  /\ \A t \in Tasks : WF_vars(TaskStep(t))
  /\ \A i \in 1..MaxInstances : WF_vars(i \in Ids /\ InstStep(i))
  /\ WF_vars(StopAll) /\ WF_vars(Exit)

FairSpec == Spec /\ Fairness

-----------------------------------------------------------------------------
TypeOK ==
  /\ profile \in [Keys -> Profiles \cup {Absent(raw) : raw \in BOOLEAN}]
  /\ Ids = 1..Cardinality(Ids)
  /\ insts \in [Keys -> Ids \cup {0}]
  /\ inst \in [Ids -> [key: Keys, phase: Phases, port: Ports \cup {0}]]
  /\ task \in [Tasks -> [op: Ops, key: Keys, raw: BOOLEAN, id: Ids \cup {0},
                         pc: {"idle", "bind", "check", "launch", "return",
                              "lookup", "halt"}]]
  /\ server \in {"serving", "draining", "stopping", "exited"}
  /\ snapshot \subseteq Ids /\ gaveUp \subseteq Ids /\ left \subseteq Keys

\* The run of an instance, or one that is about to be.
Occupied(i) == inst[i].phase \in {"ready", "up", "pending"}

\* A tunnel whose profile is gone is on its way out: the request that removed
\* the profile, or a Stop, still has to reach it (RemoveProfile, runner.go:
\* "stops and forgets the instance of a (typically just deleted) profile").
\* A request that spells the key in another way removes the profile but does
\* not find its instance: see resolveKey (Resolves).
DeletedProfileIsStopped ==
  \A i \in Ids : Occupied(i) /\ ~Present(inst[i].key) =>
    \/ profile[inst[i].key].raw
    \/ \E t \in Tasks :
         /\ task[t].op = "remove" /\ task[t].key = inst[i].key
         /\ task[t].pc = "lookup" \/ task[t].id = i

\* One instance per profile (Runner, runner.go): no two instances of the same
\* profile hold a run, so that Status and Stop speak of all there is.
OneInstancePerProfile ==
  \A i, j \in Ids : Occupied(i) /\ Occupied(j) /\ inst[i].key = inst[j].key => i = j

\* When the process exits no tunnel of the table runs or is being launched,
\* apart from what the time limits of the shutdown leave behind: the run of an
\* instance whose Stop timed out, cancelled but still on its way out, and the
\* profile of a start request that outlasted http.Server.Shutdown.
ShutdownIsComplete ==
  server = "exited" =>
    \A k \in Keys \ left : insts[k] # 0 =>
      \/ inst[insts[k]].phase = "idle"
      \/ inst[insts[k]].phase = "stopping" /\ insts[k] \in gaveUp

\* The tunnel of a profile that stays deleted, by a request that spelled its
\* key canonically, ends, with the process if not before.
DeletedProfileEnds ==
  \A k \in Keys :
    \/ <>(server = "exited")
    \/ []<>(Present(k) \/ profile[k].raw)
    \/ <>[](\A i \in Ids : inst[i].key = k => inst[i].phase = "idle")

=============================================================================
