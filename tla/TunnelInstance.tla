--------------------------- MODULE TunnelInstance ---------------------------
(***************************************************************************)
(* The lifecycle of one cloudflared tunnel, internal/cloudflared           *)
(* instance.go, restart.go and readiness.go: API goroutines calling Start  *)
(* and Stop, the goroutine of each run (which also waits for and performs  *)
(* the automatic restart), and the readiness watchdog of each run.         *)
(*                                                                         *)
(* Every critical section of Instance.mu is one action.  A step the code   *)
(* takes outside the lock (reading ctx.Err, calling a cancel function that *)
(* was copied under the lock, running cloudflared, waiting) is an action   *)
(* of its own, so other goroutines run between the two.                    *)
(*                                                                         *)
(* Abstractions: an error is present or absent; option values other than   *)
(* AutoRestart and the back-off delays are nondeterministic choices; the   *)
(* transport selection (selectProtocol and its counters) is in module      *)
(* ProtocolFallback; the temporary file of a custom tag is left out.       *)
(***************************************************************************)
EXTENDS Integers

CONSTANTS
  Stoppers,            \* goroutines that may be inside Instance.Stop
  MaxRestartAttempts,  \* maxRestartAttempts (10 in the code)
  MaxCalls,            \* bound: calls of Start and Stop
  MaxFaults,           \* bound: runs that end by themselves, watchdog requests
  SlowCancel           \* may a goroutine sit between Unlock and cancel()
                       \* for longer than the restart back-off (>= 5s)?

ASSUME RestartAssumption == MaxRestartAttempts \in Nat
ASSUME BoundsAssumption  == MaxCalls \in Nat /\ MaxFaults \in Nat
ASSUME CancelAssumption  == SlowCancel \in BOOLEAN

VARIABLES
  \* fields of Instance, guarded by Instance.mu
  generation, phase, running, cancel, done, lastError, nextRetryAt,
  restartRequested, restartCount,
  \* goroutines and contexts
  cancelled,   \* contexts whose cancel function has been called
  life,        \* life[g]: the launch and the run of generation g
  monitor,     \* monitor[g]: the readiness watchdog of generation g
  stopper,     \* stopper[s]: goroutine s in Stop
  \* history and bounds
  wanted,      \* the last accepted user command was Start
  calls, faults

inst == <<generation, phase, running, cancel, done, lastError, nextRetryAt,
          restartRequested, restartCount>>
vars == <<inst, cancelled, life, monitor, stopper, wanted, calls, faults>>

Phases == {"stopped", "starting", "running", "stopping", "reconnecting", "error"}

(***************************************************************************)
(* Contexts.  A generation has the context of its run and, once the        *)
(* watchdog asked for a restart, the context of the pending restart.       *)
(***************************************************************************)
Gens           == 1 .. generation
RunCtx(g)      == <<g, "run">>
RestartCtx(g)  == <<g, "restart">>
NoCtx          == <<0, "nil">>
Contexts       == (Nat \ {0}) \X {"run", "restart"}

(***************************************************************************)
(* The program counter of a generation.                                    *)
(*  reserved, options, publish   inside start(), before `go runTunnel'     *)
(*  setup, live, returned, exit  inside runTunnel, up to its deferred      *)
(*                               critical section: cloudflared may run     *)
(*  recheck, autoCheck, policy, waiting, restarting, inStart               *)
(*                               the automatic restart in the deferred call*)
(*  closed                       runTunnel returned: `done' is closed      *)
(*  void                         no run was ever launched: `done' is never *)
(*                               closed                                    *)
(***************************************************************************)
StartPcs   == {"reserved", "options", "publish"}
RunPcs     == {"setup", "live", "returned", "exit"}
RestartPcs == {"recheck", "autoCheck", "policy", "waiting", "restarting", "inStart"}
EndPcs     == {"closed", "void"}
LifePcs    == StartPcs \cup RunPcs \cup RestartPcs \cup EndPcs

Results == {"none", "cancelled", "clean", "retryable", "fatal", "panic"}
Life    == [pc: LifePcs, old: Contexts \cup {NoCtx}, result: Results,
            requested: BOOLEAN]

At(p)        == [pc |-> p, old |-> NoCtx, result |-> "none", requested |-> FALSE]

\* Generation g moves on: to the program counter p, to the record l, to the
\* end of runTunnel.
Become(g, l) == life' = [life EXCEPT ![g] = l]
Goto(g, p)   == Become(g, [life[g] EXCEPT !.pc = p])
Finish(g)    == Become(g, At("closed"))

IdleStopper == [pc |-> "idle", gen |-> 0, ctx |-> NoCtx]

Init ==
  /\ generation = 0 /\ phase = "stopped" /\ running = FALSE
  /\ cancel = NoCtx /\ done = 0 /\ lastError = FALSE /\ nextRetryAt = FALSE
  /\ restartRequested = FALSE /\ restartCount = 0
  /\ cancelled = {}
  /\ life = [g \in 1..0 |-> At("void")]
  /\ monitor = [g \in 1..0 |-> "off"]
  /\ stopper = [s \in Stoppers |-> IdleStopper]
  /\ wanted = FALSE /\ calls = 0 /\ faults = 0

Cancelled(c) == c \in cancelled

\* cancel() of a possibly nil cancel function.
Cancel(c) == cancelled' = cancelled \cup ({c} \ {NoCtx})

\* i.generation++, the new generation starting at l; the goroutine of the
\* generation `from', if any, blocks in the start() call that does it.
NewGeneration(l, from) ==
  /\ generation' = generation + 1
  /\ life' = [g \in 1..(generation + 1) |->
                CASE g = generation + 1 -> l
                  [] g # generation + 1 /\ g = from -> At("inStart")
                  [] OTHER -> life[g]]
  /\ monitor' = [g \in 1..(generation + 1) |->
                   IF g = generation + 1 THEN "off" ELSE monitor[g]]

-----------------------------------------------------------------------------
(***************************************************************************)
(* start(): reserve a generation, read the options, publish the run.       *)
(***************************************************************************)

\* The critical section that reserves a lifecycle.
Reserve(from) ==
  /\ NewGeneration([At("reserved") EXCEPT !.old = cancel], from)
  /\ cancel' = RunCtx(generation + 1)
  /\ done' = generation + 1
  /\ phase' = "starting"
  /\ lastError' = FALSE
  /\ nextRetryAt' = FALSE
  /\ restartRequested' = FALSE
  /\ UNCHANGED <<running, restartCount, cancelled, stopper, faults>>

\* What makes start() return ErrAlreadyRunning.
Busy == running \/ phase = "starting"

\* Start() by an API goroutine.  A call refused with ErrAlreadyRunning
\* changes nothing and is not a step.
Start ==
  /\ calls < MaxCalls
  /\ ~Busy
  /\ Reserve(0)
  /\ wanted' = TRUE
  /\ calls' = calls + 1

\* oldCancel(), after the lock is released.
CancelPrevious(g) ==
  /\ life[g].pc = "reserved"
  /\ Cancel(life[g].old)
  /\ Become(g, At("options"))
  /\ UNCHANGED <<inst, monitor, stopper, wanted, calls, faults>>

\* setTerminalErrorFor(generation, err) for the current generation.  No
\* goroutine reads the context it cancels any more (no run of that generation
\* is live and its restart, if any, is over), so the call of cancel() is part
\* of the step.
TerminalError ==
  /\ cancel' = NoCtx /\ done' = 0 /\ running' = FALSE
  /\ phase' = "error" /\ lastError' = TRUE /\ nextRetryAt' = FALSE
  /\ Cancel(cancel)
  /\ UNCHANGED <<generation, restartRequested, restartCount>>

\* Mutant: a late failure of a superseded launch is not filtered.
Mutant_SetTerminalErrorUnfiltered(g) == TerminalError

SetTerminalErrorFor(g) ==
  IF g = generation THEN TerminalError ELSE UNCHANGED <<inst, cancelled>>

\* optsFn, Validate or EnsureInit fails (or panics).
OptionsFail(g) ==
  /\ life[g].pc = "options"
  /\ SetTerminalErrorFor(g)
  /\ Become(g, At("void"))
  /\ UNCHANGED <<monitor, stopper, wanted, calls, faults>>

OptionsOk(g) ==
  /\ life[g].pc = "options"
  /\ Goto(g, "publish")
  /\ UNCHANGED <<inst, cancelled, monitor, stopper, wanted, calls, faults>>

\* Mutant: the launch of another generation counts as one's own.
Mutant_ReservedByAnother(g) == phase = "starting" /\ ~Cancelled(RunCtx(generation))

StillReserved(g) ==
  generation = g /\ phase = "starting" /\ ~Cancelled(RunCtx(g))

\* The second critical section of start, with `go runTunnel' after it: a
\* goroutine that exists and one about to be created are not told apart.
Publish(g) ==
  /\ life[g].pc = "publish" /\ StillReserved(g)
  /\ running' = TRUE
  /\ Goto(g, "setup")
  /\ UNCHANGED <<generation, phase, cancel, done, lastError, nextRetryAt,
                 restartRequested, restartCount, cancelled, monitor, stopper,
                 wanted, calls, faults>>

\* A Stop intervened: start cancels its own context and gives up.
PublishRefused(g) ==
  /\ life[g].pc = "publish" /\ ~StillReserved(g)
  /\ Cancel(RunCtx(g))
  /\ Become(g, At("void"))
  /\ UNCHANGED <<inst, monitor, stopper, wanted, calls, faults>>

-----------------------------------------------------------------------------
(***************************************************************************)
(* runTunnel().                                                            *)
(***************************************************************************)

MarkRunning(g) ==
  IF generation = g /\ running /\ phase \in {"starting", "running"}
    THEN /\ phase' = "running" /\ lastError' = FALSE /\ nextRetryAt' = FALSE
         /\ UNCHANGED <<generation, running, cancel, done, restartRequested,
                        restartCount>>
    ELSE UNCHANGED inst

\* With AutoRestart and a usable metrics address the readiness watchdog will
\* mark the run as running; otherwise runTunnel does so itself.
Setup(g) ==
  /\ life[g].pc = "setup"
  /\ Goto(g, "live")
  /\ \/ MarkRunning(g) /\ UNCHANGED monitor
     \/ monitor' = [monitor EXCEPT ![g] = "probing"] /\ UNCHANGED inst
  /\ UNCHANGED <<cancelled, stopper, wanted, calls, faults>>

\* RunContext returns because its context was cancelled.
RunCancelled(g) ==
  /\ life[g].pc = "live" /\ Cancelled(RunCtx(g))
  /\ Become(g, [life[g] EXCEPT !.pc = "exit", !.result = "cancelled"])
  /\ UNCHANGED <<inst, cancelled, monitor, stopper, wanted, calls, faults>>

\* RunContext returns by itself, cleanly or with an error.
RunEnds(g) ==
  /\ faults < MaxFaults
  /\ life[g].pc = "live" /\ ~Cancelled(RunCtx(g))
  /\ \E r \in {"clean", "retryable", "fatal"} :
       Become(g, [life[g] EXCEPT !.pc = "returned", !.result = r])
  /\ faults' = faults + 1
  /\ UNCHANGED <<inst, cancelled, monitor, stopper, wanted, calls>>

\* runTunnel panics before or inside RunContext; the deferred call recovers and
\* restartAllowed keeps its initial value, TRUE.
RunPanics(g) ==
  /\ faults < MaxFaults
  /\ life[g].pc \in {"setup", "live"}
  /\ Become(g, [life[g] EXCEPT !.pc = "exit", !.result = "panic"])
  /\ lastError' = (IF generation = g THEN TRUE ELSE lastError)
  /\ faults' = faults + 1
  /\ UNCHANGED <<generation, phase, running, cancel, done, nextRetryAt,
                 restartRequested, restartCount, cancelled, monitor, stopper,
                 wanted, calls>>

\* runTunnel looks at the context again and records the result.  The write
\* of lastError is not guarded by the generation.
HandleResult(g) ==
  /\ life[g].pc = "returned"
  /\ Goto(g, "exit")
  /\ IF Cancelled(RunCtx(g))
       THEN UNCHANGED <<lastError, restartCount>>
       ELSE IF life[g].result = "clean"
              THEN restartCount' = 0 /\ UNCHANGED lastError
              ELSE lastError' = TRUE /\ UNCHANGED restartCount
  /\ UNCHANGED <<generation, phase, running, cancel, done, nextRetryAt,
                 restartRequested, cancelled, monitor, stopper, wanted, calls,
                 faults>>

RestartAllowed(g) == life[g].result \in {"clean", "retryable", "panic"}

ShouldRestartAfterExit(g, requested) ==
  requested \/ (~Cancelled(RunCtx(g)) /\ RestartAllowed(g))

\* The deferred critical section of runTunnel.
RunExit(g) ==
  /\ life[g].pc = "exit"
  /\ IF generation = g
       THEN /\ running' = FALSE
            /\ restartRequested' = FALSE
            /\ LET again == ShouldRestartAfterExit(g, restartRequested)
               IN  /\ lastError' = (lastError /\ (again \/ ~Cancelled(RunCtx(g))))
                   /\ phase' = CASE again -> phase
                                 [] ~again /\ lastError' -> "error"
                                 [] OTHER -> "stopped"
                   /\ nextRetryAt' = (nextRetryAt /\ again)
            /\ cancel' = (IF restartRequested THEN RestartCtx(g) ELSE cancel)
            /\ Become(g, [life[g] EXCEPT !.pc = "recheck",
                                         !.requested = restartRequested])
            /\ UNCHANGED <<generation, done, restartCount>>
       ELSE Finish(g) /\ UNCHANGED inst
  /\ UNCHANGED <<cancelled, monitor, stopper, wanted, calls, faults>>

\* shouldRestartAfterExit is evaluated a second time, outside the lock.
Recheck(g) ==
  /\ life[g].pc = "recheck"
  /\ IF ShouldRestartAfterExit(g, life[g].requested)
       THEN Goto(g, "autoCheck")
       ELSE Finish(g)
  /\ UNCHANGED <<inst, cancelled, monitor, stopper, wanted, calls, faults>>

-----------------------------------------------------------------------------
(***************************************************************************)
(* maybeAutoRestartForRun().                                               *)
(***************************************************************************)

\* The context a pending restart listens to: its own when the watchdog asked
\* for it, that of the finished run otherwise.
WaitCtx(g) == IF life[g].requested THEN RestartCtx(g) ELSE RunCtx(g)

\* Mutants: the cancelled wait leaves the phase, or the retry time, behind.
Mutant_FinishForgets(g) == UNCHANGED inst

FinishCanceledRestart(g) ==
  IF generation = g /\ phase = "reconnecting"
    THEN /\ phase' = "stopped" /\ nextRetryAt' = FALSE
         /\ UNCHANGED <<generation, running, cancel, done, lastError,
                        restartRequested, restartCount>>
    ELSE UNCHANGED inst

\* ctx.Err() on entry, during the wait and after it.  A context stays
\* cancelled, so the check and the critical section it leads to are one step.
RestartCanceled(g) ==
  /\ life[g].pc \in {"autoCheck", "waiting"}
  /\ Cancelled(WaitCtx(g))
  /\ FinishCanceledRestart(g)
  /\ Finish(g)
  /\ UNCHANGED <<cancelled, monitor, stopper, wanted, calls, faults>>

AutoCheck(g) ==
  /\ life[g].pc = "autoCheck" /\ ~Cancelled(WaitCtx(g))
  /\ Goto(g, "policy")
  /\ UNCHANGED <<inst, cancelled, monitor, stopper, wanted, calls, faults>>

PolicyError(g) ==
  /\ life[g].pc = "policy"
  /\ SetTerminalErrorFor(g)
  /\ Finish(g)
  /\ UNCHANGED <<monitor, stopper, wanted, calls, faults>>

\* AutoRestart is off in the options just read.
PolicyOff(g) ==
  /\ life[g].pc = "policy"
  /\ IF generation = g
       THEN /\ phase' = (IF lastError THEN "error" ELSE "stopped")
            /\ nextRetryAt' = FALSE
       ELSE UNCHANGED <<phase, nextRetryAt>>
  /\ Finish(g)
  /\ UNCHANGED <<generation, running, cancel, done, lastError,
                 restartRequested, restartCount, cancelled, monitor, stopper,
                 wanted, calls, faults>>

AttemptsUsedUp(count) == count >= MaxRestartAttempts

\* AutoRestart is on.  `fresh': the last restart is more than
\* restartBackoffResetAfter ago, so the attempts are counted anew.
Schedule(g) ==
  /\ life[g].pc = "policy" /\ generation = g
  /\ \E fresh \in BOOLEAN :
       LET count == IF fresh THEN 0 ELSE restartCount
       IN  IF AttemptsUsedUp(count)
             THEN /\ phase' = "error" /\ nextRetryAt' = FALSE
                  /\ restartCount' = count
                  /\ Finish(g)
             ELSE /\ phase' = "reconnecting" /\ nextRetryAt' = TRUE
                  /\ restartCount' = count + 1
                  /\ Goto(g, "waiting")
  /\ UNCHANGED <<generation, running, cancel, done, lastError,
                 restartRequested, cancelled, monitor, stopper, wanted, calls,
                 faults>>

\* Stop or Start took the generation over: the restart is dropped.
ScheduleStale(g) ==
  /\ life[g].pc = "policy" /\ generation # g
  /\ Finish(g)
  /\ UNCHANGED <<inst, cancelled, monitor, stopper, wanted, calls, faults>>

\* The goroutine that copied the cancel function of c calls it before the
\* back-off of at least five seconds elapses.
CancelIsPrompt(c) ==
  SlowCancel \/ \A s \in Stoppers : ~(stopper[s].pc = "cancel" /\ stopper[s].ctx = c)

\* The timer fires and ctx.Err(), read after it, is still nil.
TimerFires(g) ==
  /\ life[g].pc = "waiting" /\ ~Cancelled(WaitCtx(g))
  /\ CancelIsPrompt(WaitCtx(g))
  /\ Goto(g, "restarting")
  /\ UNCHANGED <<inst, cancelled, monitor, stopper, wanted, calls, faults>>

\* Mutant: the restart trusts its context alone.
Mutant_MayReplaceByContext(g) == ~Cancelled(WaitCtx(g)) /\ ~Busy

\* The guard of start() for a restart of generation g.
MayReplace(g) ==
  /\ generation = g /\ phase = "reconnecting" /\ ~Cancelled(WaitCtx(g))
  /\ ~Busy

Restart(g) ==
  /\ life[g].pc = "restarting" /\ MayReplace(g)
  /\ Reserve(g)
  /\ UNCHANGED <<wanted, calls>>

RestartRefused(g) ==
  /\ life[g].pc = "restarting" /\ ~MayReplace(g)
  /\ Finish(g)
  /\ UNCHANGED <<inst, cancelled, monitor, stopper, wanted, calls, faults>>

\* The start() of the next generation returned: runTunnel closes `done'.
RestartReturns(g) ==
  /\ life[g].pc = "inStart" /\ life[g + 1].pc \notin StartPcs
  /\ Finish(g)
  /\ UNCHANGED <<inst, cancelled, monitor, stopper, wanted, calls, faults>>

-----------------------------------------------------------------------------
(***************************************************************************)
(* monitorReadinessForRun().                                               *)
(***************************************************************************)

\* A successful probe.  The probe may have been answered before the context
\* was cancelled and be acted upon after it.
ProbeReady(g) ==
  /\ monitor[g] = "probing"
  /\ MarkRunning(g)
  /\ UNCHANGED <<cancelled, life, monitor, stopper, wanted, calls, faults>>

MayRequestRestart(g) == generation = g /\ running /\ cancel # NoCtx

\* readinessFailureThreshold consecutive failures:
\* requestReadinessRestartForRun, up to Unlock.
ProbeFailed(g) ==
  /\ faults < MaxFaults
  /\ monitor[g] = "probing"
  /\ IF MayRequestRestart(g)
       THEN /\ lastError' = TRUE /\ restartRequested' = TRUE
            /\ phase' = "reconnecting"
            /\ monitor' = [monitor EXCEPT ![g] = "firing"]
       ELSE /\ UNCHANGED <<lastError, restartRequested, phase>>
            /\ monitor' = [monitor EXCEPT ![g] = "off"]
  /\ faults' = faults + 1
  /\ UNCHANGED <<generation, running, cancel, done, nextRetryAt, restartCount,
                 cancelled, life, stopper, wanted, calls>>

\* requestReadinessRestartForRun calls the run's cancel function.
WatchdogCancel(g) ==
  /\ monitor[g] = "firing"
  /\ Cancel(RunCtx(g))
  /\ monitor' = [monitor EXCEPT ![g] = "off"]
  /\ UNCHANGED <<inst, life, stopper, wanted, calls, faults>>

MonitorEnds(g) ==
  /\ monitor[g] = "probing" /\ Cancelled(RunCtx(g))
  /\ monitor' = [monitor EXCEPT ![g] = "off"]
  /\ UNCHANGED <<inst, cancelled, life, stopper, wanted, calls, faults>>

-----------------------------------------------------------------------------
(***************************************************************************)
(* Stop().                                                                 *)
(***************************************************************************)

StopCall(s) ==
  /\ calls < MaxCalls /\ calls' = calls + 1
  /\ stopper[s].pc = "idle"
  /\ wanted' = FALSE

\* No run: drop a launch in progress or a pending restart.
StopIdle(s) ==
  /\ StopCall(s)
  /\ ~running
  /\ IF cancel # NoCtx
       THEN /\ NewGeneration(At("void"), 0)
            /\ stopper' = [stopper EXCEPT ![s] =
                             [pc |-> "cancel", gen |-> 0, ctx |-> cancel]]
       ELSE UNCHANGED <<generation, life, monitor, stopper>>
  /\ cancel' = NoCtx /\ done' = 0 /\ phase' = "stopped"
  /\ restartRequested' = FALSE /\ nextRetryAt' = FALSE
  /\ UNCHANGED <<running, lastError, restartCount, cancelled, faults>>

\* A run: from here the watchdog and the run itself see cancel = nil.
StopRunning(s) ==
  /\ StopCall(s)
  /\ running
  /\ phase' = "stopping" /\ cancel' = NoCtx /\ restartRequested' = FALSE
  /\ stopper' = [stopper EXCEPT ![s] =
                   [pc |-> "cancel", gen |-> done, ctx |-> cancel]]
  /\ UNCHANGED <<generation, running, done, lastError, nextRetryAt,
                 restartCount, cancelled, life, monitor, faults>>

\* Mutant: the context is cancelled only when there is no run to wait for.
Mutant_StopCancelSkipsRun(s) ==
  /\ stopper[s].pc = "cancel"
  /\ Cancel(IF stopper[s].gen = 0 THEN stopper[s].ctx ELSE NoCtx)
  /\ stopper' = [stopper EXCEPT ![s] =
                   IF @.gen = 0 THEN IdleStopper
                                ELSE [pc |-> "wait", gen |-> @.gen, ctx |-> NoCtx]]
  /\ UNCHANGED <<inst, life, monitor, wanted, calls, faults>>

\* cancel(), after the lock is released; then wait for `done' if there is a
\* run.
StopCancel(s) ==
  /\ stopper[s].pc = "cancel"
  /\ Cancel(stopper[s].ctx)
  /\ stopper' = [stopper EXCEPT ![s] =
                   IF @.gen = 0 THEN IdleStopper
                                ELSE [pc |-> "wait", gen |-> @.gen, ctx |-> NoCtx]]
  /\ UNCHANGED <<inst, life, monitor, wanted, calls, faults>>

StopDone(s) ==
  /\ stopper[s].pc = "wait" /\ life[stopper[s].gen].pc = "closed"
  /\ stopper' = [stopper EXCEPT ![s] = IdleStopper]
  /\ UNCHANGED <<inst, cancelled, life, monitor, wanted, calls, faults>>

\* Mutant: the time-out is published as a terminal error.
Mutant_StopTimeoutIsTerminal(s) ==
  /\ stopper[s].pc = "wait"
  /\ IF done = stopper[s].gen /\ running
       THEN phase' = "error" /\ lastError' = TRUE
       ELSE UNCHANGED <<phase, lastError>>
  /\ stopper' = [stopper EXCEPT ![s] = IdleStopper]
  /\ UNCHANGED <<generation, running, cancel, done, nextRetryAt,
                 restartRequested, restartCount, cancelled, life, monitor,
                 wanted, calls, faults>>

\* stopTimeout passes first: Stop reports an error and the run keeps the
\* instance.
StopTimeout(s) ==
  /\ stopper[s].pc = "wait"
  /\ IF done = stopper[s].gen /\ running
       THEN phase' = "stopping" /\ lastError' = TRUE
       ELSE UNCHANGED <<phase, lastError>>
  /\ stopper' = [stopper EXCEPT ![s] = IdleStopper]
  /\ UNCHANGED <<generation, running, cancel, done, nextRetryAt,
                 restartRequested, restartCount, cancelled, life, monitor,
                 wanted, calls, faults>>

-----------------------------------------------------------------------------
StartStep(g) ==
  CancelPrevious(g) \/ OptionsFail(g) \/ OptionsOk(g) \/ Publish(g)
    \/ PublishRefused(g)

RunStep(g) ==
  Setup(g) \/ RunCancelled(g) \/ HandleResult(g) \/ RunExit(g) \/ Recheck(g)

RestartStep(g) ==
  RestartCanceled(g) \/ AutoCheck(g) \/ PolicyError(g) \/ PolicyOff(g)
    \/ Schedule(g) \/ ScheduleStale(g) \/ TimerFires(g) \/ Restart(g)
    \/ RestartRefused(g) \/ RestartReturns(g)

Fault(g) == RunEnds(g) \/ RunPanics(g)

MonitorStep(g) ==
  ProbeReady(g) \/ ProbeFailed(g) \/ WatchdogCancel(g) \/ MonitorEnds(g)

StopStep(s) == StopCancel(s) \/ StopDone(s) \/ StopTimeout(s)

Next ==
  \/ Start
  \/ \E s \in Stoppers : StopIdle(s) \/ StopRunning(s) \/ StopStep(s)
  \/ \E g \in Gens : StartStep(g) \/ RunStep(g) \/ Fault(g) \/ RestartStep(g)
                       \/ MonitorStep(g)

Spec == Init /\ [][Next]_vars

-----------------------------------------------------------------------------
(***************************************************************************)
(* Fairness.  A goroutine that can run does; a cancelled run of cloudflared*)
(* returns; the ticker of the watchdog keeps probing.  Nothing makes a run *)
(* end by itself, a user act, or a Stop time out.                          *)
(***************************************************************************)
MaxGen == MaxCalls + MaxFaults

Fairness ==
  /\ \A g \in 1..MaxGen :
       /\ WF_vars(g \in Gens /\ (StartStep(g) \/ RunStep(g) \/ RestartStep(g)))
       /\ WF_vars(g \in Gens /\ (ProbeReady(g) \/ ProbeFailed(g)))
       /\ WF_vars(g \in Gens /\ (WatchdogCancel(g) \/ MonitorEnds(g)))
  /\ \A s \in Stoppers : WF_vars(StopCancel(s) \/ StopDone(s))

FairSpec == Spec /\ Fairness

-----------------------------------------------------------------------------
FlagTypes ==
  /\ running \in BOOLEAN /\ lastError \in BOOLEAN /\ nextRetryAt \in BOOLEAN
  /\ restartRequested \in BOOLEAN /\ wanted \in BOOLEAN

FieldTypes ==
  /\ generation \in Nat /\ phase \in Phases
  /\ cancel \in Contexts \cup {NoCtx} /\ done \in 0..generation
  /\ restartCount \in 0..MaxRestartAttempts
  /\ cancelled \subseteq Contexts
  /\ calls \in 0..MaxCalls /\ faults \in 0..MaxFaults

TableTypes ==
  /\ life \in [Gens -> Life]
  /\ monitor \in [Gens -> {"off", "probing", "firing"}]
  /\ stopper \in [Stoppers -> [pc: {"idle", "cancel", "wait"},
                               gen: 0..generation,
                               ctx: Contexts \cup {NoCtx}]]

\* Every value is one the code can name; in particular the restart counter
\* never passes maxRestartAttempts.
TypeOK == FlagTypes /\ FieldTypes /\ TableTypes

Live(g) == life[g].pc \in RunPcs

\* Instance.running is true exactly while the goroutine of the current
\* generation may be inside cloudflared: there is never a second run for the
\* profile, nor a run Status calls dead, whatever the interleaving of Start,
\* Stop, their time-outs and automatic restarts.
RunningIsOwned ==
  /\ running => generation > 0
  /\ \A g \in Gens : Live(g) <=> (running /\ g = generation)

\* "stopped" and "error" are stable: no run of the tunnel is alive behind
\* them (Phase, instance.go: "distinguish transitional states from a stable
\* stopped tunnel").
StablePhaseIsQuiet == phase \in {"stopped", "error"} => ~running

\* A starting, running or reconnecting tunnel has a goroutine of the current
\* generation that will move it on: no interleaving leaves such a phase
\* behind with nobody to change it.
PhaseHasOwner ==
  phase \in {"starting", "running", "reconnecting"} =>
    generation > 0 /\ life[generation].pc \notin EndPcs

\* The same for "stopping": while a tunnel is reported as stopping something
\* is still being stopped (Phase, instance.go: stopping is a transitional
\* state, not a stable one).
StoppingHasOwner ==
  phase = "stopping" => generation > 0 /\ life[generation].pc \notin EndPcs

\* A pending watchdog request belongs to a live run that nobody has stopped:
\* it cannot survive into the next run or override a Stop.
WatchdogRequestIsValid ==
  restartRequested => running /\ phase = "reconnecting" /\ cancel = RunCtx(generation)

\* A published retry time has a goroutine of the current generation waiting
\* for it; Status never announces a retry that will not come.
RetryTimeIsHonest ==
  nextRetryAt => /\ phase = "reconnecting"
                 /\ life[generation].pc \in {"waiting", "restarting"}

\* Stop waits only for a channel that a run goroutine will close: not for a
\* launch that never published a run.
StopWaitIsServed ==
  \A s \in Stoppers :
    stopper[s].gen > 0 => life[stopper[s].gen].pc \notin StartPcs \cup {"void"}

\* A goroutine of a superseded generation never changes the instance, be it
\* through the unguarded write of lastError in runTunnel or a late failure of
\* a launch that Stop invalidated.
OldGenerationIsInert ==
  [][\A g \in Gens : g < generation /\ life'[g] # life[g] => UNCHANGED inst]_vars

\* No automatic restart reserves a lifecycle after a Stop that no Start has
\* followed.
StopPreventsRestart ==
  [][\A g \in Gens : life[g].pc = "restarting" /\ life'[g].pc = "inStart"
                       => wanted]_vars

\* A start or a pending restart is always decided one way or the other.
TransitionsEnd ==
  /\ phase = "starting" ~> phase # "starting"
  /\ phase = "reconnecting" ~> phase # "reconnecting"

\* Once the tunnel stays stopped every goroutine of every launch, run and
\* pending restart ends: the cancelled contexts reach all of them.
StopLeavesNoGoroutine ==
  <>[]~wanted => <>[](\A g \in Gens : life[g].pc \in EndPcs)

-----------------------------------------------------------------------------
(***************************************************************************)
(* The inductive invariants of TunnelInstance_proofs.  The first one needs *)
(* nothing of the scheduler; the second, which is about what the user      *)
(* asked for, needs CancelIsPrompt.                                        *)
(***************************************************************************)
Pc  == life[generation].pc
WaitPcs == RestartPcs \ {"inStart"}
Active  == generation > 0 /\ Pc \notin EndPcs

\* Contexts are cancelled only by whoever owns them, and the instance holds
\* a cancel function of its current generation only.
CancelInv ==
  /\ \A c \in cancelled : c[1] <= generation
  /\ cancel \in {NoCtx, RunCtx(generation), RestartCtx(generation)}

\* What a goroutine remembers: a launch, the context it replaces; a pending
\* restart, whether the watchdog asked for it.
GoroutineInv ==
  \A g \in Gens :
    /\ life[g].old # NoCtx => life[g].old[1] < g
    /\ life[g].requested => life[g].pc \in WaitPcs
    /\ life[g].pc = "inStart" => g < generation

\* A goroutine about to cancel a context of the current generation is a Stop
\* of its run, and a Stop of the current run has taken its cancel function.
StopperInv ==
  \A s \in Stoppers :
    /\ stopper[s].pc = "cancel" /\ stopper[s].ctx # NoCtx =>
         \/ stopper[s].ctx[1] < generation
         \/ stopper[s].ctx = RunCtx(generation) /\ stopper[s].gen = generation
    /\ running /\ stopper[s].gen = generation => cancel = NoCtx

\* A launch in progress that nobody superseded still owns the instance.
LaunchInv ==
  generation > 0 /\ Pc \in StartPcs =>
    /\ phase = "starting" /\ cancel = RunCtx(generation) /\ done = generation
    /\ ~Cancelled(RunCtx(generation)) /\ monitor[generation] = "off"

\* What the instance says of a live run.
RunInv ==
  running => /\ done = generation
             /\ cancel \in {NoCtx, RunCtx(generation)}
             /\ phase \in {"starting", "running", "stopping", "reconnecting"}
             /\ (phase = "stopping") <=> (cancel = NoCtx)

OwnershipInv ==
  /\ TypeOK /\ RunningIsOwned /\ CancelInv /\ GoroutineInv /\ StopperInv
  /\ LaunchInv /\ RunInv /\ WatchdogRequestIsValid /\ StopWaitIsServed

\* What the user last asked for, against the launch or the run ...
CommandInv ==
  /\ Active /\ Pc \in StartPcs => wanted
  /\ running => ((phase = "stopping") <=> ~wanted)
  /\ running => ((phase = "reconnecting") <=> restartRequested)
  /\ phase = "stopping" => ~wanted

\* ... and against its contexts: a user who said Stop has taken the cancel
\* function, and cancelled the run or is about to; ...
UnwantedInv ==
  /\ \A s \in Stoppers : stopper[s].pc = "cancel"
                           /\ stopper[s].ctx = RunCtx(generation) => ~wanted
  /\ Active /\ ~wanted =>
       /\ Cancelled(RunCtx(generation))
            \/ \E s \in Stoppers : /\ stopper[s].pc = "cancel"
                                   /\ stopper[s].ctx = RunCtx(generation)
       /\ ~life[generation].requested

\* ... a user who said Start has an uncancelled lifecycle, unless the watchdog
\* is replacing it.
WantedInv ==
  /\ Active /\ wanted =>
       /\ cancel # NoCtx
       /\ Cancelled(RunCtx(generation)) \/ monitor[generation] = "firing" =>
            restartRequested \/ life[generation].requested
  /\ Active => ~Cancelled(RestartCtx(generation))

IntentInv == CommandInv /\ UnwantedInv /\ WantedInv

\* A pending restart is announced as such, or was overtaken by a Stop.
RestartInv ==
  generation > 0 /\ Pc \in WaitPcs =>
    /\ Pc \in {"waiting", "restarting"} /\ wanted => phase = "reconnecting"
    /\ Pc = "waiting" => phase \in {"reconnecting", "stopped"}
    /\ Pc = "restarting" => wanted
    /\ phase \in {"starting", "running", "reconnecting"}
         /\ Pc \notin {"waiting", "restarting"} =>
         wanted /\ (life[generation].requested \/ RestartAllowed(generation))

IInv ==
  /\ OwnershipInv /\ IntentInv /\ RestartInv
  /\ PhaseHasOwner /\ RetryTimeIsHonest

\* The promise of the instance to its callers, module TunnelPromise.
Promise == INSTANCE TunnelPromise WITH up <- running
PromiseKept == Promise!Spec

\* The instance as its callers see it: the place for one run that module
\* TunnelSlot describes, read off the flags and the goroutine of the current
\* generation.
SlotPhase ==
  CASE running /\ wanted  -> "up"
    [] running /\ ~wanted -> "stopping"
    [] ~running /\ wanted /\ Active /\ Pc \in {"reserved", "options"} -> "launching"
    [] ~running /\ wanted /\ Active /\ Pc = "publish" -> "ready"
    [] ~running /\ wanted /\ Active /\ Pc \in WaitPcs -> "pending"
    [] OTHER -> "idle"

\* What the runner relies on (Runner.Start, Stop and Shutdown, runner.go): a
\* launch, a run, a Stop and an automatic restart follow each other as in
\* TunnelSlot, whatever the older goroutines of the instance still do.  Every
\* launch comes from an accepted Start or from a pending restart, a Stop ends
\* both at once, and a run that Stop has marked can only end.
Slot == INSTANCE TunnelSlot WITH slot <- SlotPhase
SlotImplemented == Slot!Spec
=============================================================================
