----------------------- MODULE TunnelInstance_proofs ------------------------
EXTENDS TunnelInstance, TLAPS

LEMMA AtIsLife == \A p \in LifePcs : At(p) \in Life
BY DEF At, Life, LifePcs, StartPcs, RunPcs, RestartPcs, EndPcs, Results, NoCtx, Contexts

LEMMA GotoIsLife ==
  \A l \in Life, p \in LifePcs, r \in Results, b \in BOOLEAN :
     /\ [l EXCEPT !.pc = p] \in Life
     /\ [l EXCEPT !.pc = p, !.result = r] \in Life
     /\ [l EXCEPT !.pc = p, !.requested = b] \in Life
BY DEF Life

LEMMA BecomeType ==
  ASSUME life \in [Gens -> Life], NEW g \in Gens, NEW l \in Life,
         Become(g, l), generation' = generation
  PROVE  /\ life' \in [Gens' -> Life]
         /\ life'[g] = l
         /\ \A h \in Gens \ {g} : life'[h] = life[h]
BY DEF Become, Gens

LEMMA NewGenerationType ==
  ASSUME TypeOK, NEW l \in Life, NEW from \in 0..generation, NewGeneration(l, from)
  PROVE  /\ generation' = generation + 1
         /\ generation' \in Nat
         /\ life' \in [Gens' -> Life]
         /\ life'[generation + 1] = l
         /\ \A h \in Gens : life'[h] = (IF h = from THEN At("inStart") ELSE life[h])
         /\ monitor' \in [Gens' -> {"off", "probing", "firing"}]
         /\ monitor'[generation + 1] = "off"
         /\ \A h \in Gens : monitor'[h] = monitor[h]
<1>1. At("inStart") \in Life
  BY AtIsLife DEF LifePcs, RestartPcs
<1> QED
  BY <1>1 DEF NewGeneration, TypeOK, FlagTypes, FieldTypes, TableTypes, Gens

LEMMA InitType == Init => TypeOK
<1> SUFFICES ASSUME Init PROVE TypeOK OBVIOUS
<1>1. life \in [Gens -> Life] /\ monitor \in [Gens -> {"off", "probing", "firing"}]
  BY DEF Init, Gens
<1>2. stopper \in [Stoppers -> [pc: {"idle", "cancel", "wait"},
                                gen: 0..generation,
                                ctx: Contexts \cup {NoCtx}]]
  BY DEF Init, IdleStopper
<1>3. restartCount \in 0..MaxRestartAttempts /\ calls \in 0..MaxCalls
        /\ faults \in 0..MaxFaults
  BY RestartAssumption, BoundsAssumption DEF Init
<1>4. cancel \in Contexts \cup {NoCtx} /\ cancelled \subseteq Contexts
  BY DEF Init
<1>5. phase \in Phases
  BY DEF Init, Phases
<1>6. generation \in Nat /\ done \in 0..generation
  BY DEF Init
<1>7. /\ running \in BOOLEAN /\ lastError \in BOOLEAN /\ nextRetryAt \in BOOLEAN
      /\ restartRequested \in BOOLEAN /\ wanted \in BOOLEAN
  BY DEF Init
<1> QED
  BY <1>1, <1>2, <1>3, <1>4, <1>5, <1>6, <1>7 DEF TypeOK, FlagTypes, FieldTypes, TableTypes

StopperSet(n) == [pc: {"idle", "cancel", "wait"}, gen: 0..n,
                  ctx: Contexts \cup {NoCtx}]

\* A later generation only widens the type of a stopping goroutine.
LEMMA StopperWiden ==
  ASSUME NEW n \in Nat, NEW f \in [Stoppers -> StopperSet(n)]
  PROVE  f \in [Stoppers -> StopperSet(n + 1)]
BY DEF StopperSet

LEMMA IdleIsStopper == \A n \in Nat : IdleStopper \in StopperSet(n)
BY DEF IdleStopper, StopperSet

LEMMA GotoType ==
  ASSUME TypeOK, NEW g \in Gens, NEW p \in LifePcs, Goto(g, p),
         generation' = generation
  PROVE  life' \in [Gens' -> Life]
<1>1. [life[g] EXCEPT !.pc = p] \in Life
  BY GotoIsLife, "none" \in Results, FALSE \in BOOLEAN DEF TypeOK, FlagTypes, FieldTypes, TableTypes, Results
<1> QED
  BY <1>1, BecomeType DEF Goto, TypeOK, FlagTypes, FieldTypes, TableTypes

LEMMA FinishType ==
  ASSUME TypeOK, NEW g \in Gens, NEW p \in LifePcs, Become(g, At(p)),
         generation' = generation
  PROVE  life' \in [Gens' -> Life]
BY AtIsLife, BecomeType DEF TypeOK, FlagTypes, FieldTypes, TableTypes

-----------------------------------------------------------------------------
LEMMA TypeNext == TypeOK /\ [Next]_vars => TypeOK'
<1> SUFFICES ASSUME TypeOK, [Next]_vars PROVE TypeOK'
  OBVIOUS
<1> USE DEF LifePcs, StartPcs, RunPcs, RestartPcs, EndPcs
<1> USE RestartAssumption, BoundsAssumption
<1>1. CASE Start
  <2>1. [At("reserved") EXCEPT !.old = cancel] \in Life
    BY DEF At, Life, TypeOK, FlagTypes, FieldTypes, TableTypes, Results
  <2>2. NewGeneration([At("reserved") EXCEPT !.old = cancel], 0)
    BY <1>1 DEF Start, Reserve
  <2>3. stopper' \in [Stoppers -> StopperSet(generation + 1)]
    BY <1>1, StopperWiden DEF Start, Reserve, TypeOK, FlagTypes, FieldTypes, TableTypes, StopperSet
  <2>4. RunCtx(generation + 1) \in Contexts
    BY DEF TypeOK, FlagTypes, FieldTypes, TableTypes, RunCtx, Contexts
  <2>7. FlagTypes'
    BY <1>1, <2>1, <2>2, <2>3, <2>4, NewGenerationType
       DEF Start, Reserve, TypeOK, FlagTypes, StopperSet, Phases
  <2>8. FieldTypes'
    BY <1>1, <2>1, <2>2, <2>3, <2>4, NewGenerationType
       DEF Start, Reserve, TypeOK, FieldTypes, StopperSet, Phases
  <2>9. TableTypes'
    BY <1>1, <2>1, <2>2, <2>3, <2>4, NewGenerationType
       DEF Start, Reserve, TypeOK, FieldTypes, TableTypes, StopperSet, Phases
  <2> QED BY <2>7, <2>8, <2>9 DEF TypeOK
<1>2. ASSUME NEW s \in Stoppers, StopIdle(s) PROVE TypeOK'
  <2>1. CASE cancel = NoCtx
    <3>7. FlagTypes'
      BY <1>2, <2>1
         DEF StopIdle, StopCall, TypeOK, FlagTypes, Phases, Gens
    <3>8. FieldTypes'
      BY <1>2, <2>1
         DEF StopIdle, StopCall, TypeOK, FieldTypes, Phases, Gens
    <3>9. TableTypes'
      BY <1>2, <2>1
         DEF StopIdle, StopCall, TypeOK, FieldTypes, TableTypes, Phases, Gens
    <3> QED BY <3>7, <3>8, <3>9 DEF TypeOK
  <2>2. CASE cancel # NoCtx
    <3>1. NewGeneration(At("void"), 0)
      BY <1>2, <2>2 DEF StopIdle
    <3>2. At("void") \in Life
      BY AtIsLife
    <3>3. [pc |-> "cancel", gen |-> 0, ctx |-> cancel] \in StopperSet(generation)
      BY DEF TypeOK, FlagTypes, FieldTypes, TableTypes, StopperSet
    <3>4. stopper' \in [Stoppers -> StopperSet(generation)]
      BY <1>2, <2>2, <3>3 DEF StopIdle, TypeOK, FlagTypes, FieldTypes, TableTypes, StopperSet
    <3>5. stopper' \in [Stoppers -> StopperSet(generation + 1)]
      BY <3>4, StopperWiden DEF TypeOK, FlagTypes, FieldTypes, TableTypes
    <3>7. FlagTypes'
      BY <1>2, <3>1, <3>2, <3>5, NewGenerationType
         DEF StopIdle, StopCall, TypeOK, FlagTypes, StopperSet, Phases
    <3>8. FieldTypes'
      BY <1>2, <3>1, <3>2, <3>5, NewGenerationType
         DEF StopIdle, StopCall, TypeOK, FieldTypes, StopperSet, Phases
    <3>9. TableTypes'
      BY <1>2, <3>1, <3>2, <3>5, NewGenerationType
         DEF StopIdle, StopCall, TypeOK, FieldTypes, TableTypes, StopperSet, Phases
    <3> QED BY <3>7, <3>8, <3>9 DEF TypeOK
  <2> QED BY <2>1, <2>2
<1>3. ASSUME NEW s \in Stoppers, StopRunning(s) PROVE TypeOK'
  <2>1. [pc |-> "cancel", gen |-> done, ctx |-> cancel] \in StopperSet(generation)
    BY DEF TypeOK, FlagTypes, FieldTypes, TableTypes, StopperSet
  <2>2. stopper' \in [Stoppers -> StopperSet(generation)]
    BY <1>3, <2>1 DEF StopRunning, TypeOK, FlagTypes, FieldTypes, TableTypes, StopperSet
  <2>7. FlagTypes'
    BY <1>3, <2>2
       DEF StopRunning, StopCall, TypeOK, FlagTypes, StopperSet, Phases, Gens
  <2>8. FieldTypes'
    BY <1>3, <2>2
       DEF StopRunning, StopCall, TypeOK, FieldTypes, StopperSet, Phases, Gens
  <2>9. TableTypes'
    BY <1>3, <2>2
       DEF StopRunning, StopCall, TypeOK, FieldTypes, TableTypes, StopperSet, Phases, Gens
  <2> QED BY <2>7, <2>8, <2>9 DEF TypeOK
<1>4. ASSUME NEW s \in Stoppers, StopStep(s) PROVE TypeOK'
  <2>1. CASE StopCancel(s)
    <3>1. [pc |-> "wait", gen |-> stopper[s].gen, ctx |-> NoCtx]
            \in StopperSet(generation)
      BY DEF TypeOK, FlagTypes, FieldTypes, TableTypes, StopperSet
    <3>2. stopper' \in [Stoppers -> StopperSet(generation)]
      BY <2>1, <3>1, IdleIsStopper DEF StopCancel, TypeOK, FlagTypes, FieldTypes, TableTypes, StopperSet
    <3>3. cancelled' \subseteq Contexts
      BY <2>1 DEF StopCancel, Cancel, TypeOK, FlagTypes, FieldTypes, TableTypes
    <3> QED
      BY <2>1, <3>2, <3>3 DEF StopCancel, TypeOK, FlagTypes, FieldTypes, TableTypes, StopperSet, inst, Gens
  <2>2. CASE StopDone(s)
    <3>1. stopper' \in [Stoppers -> StopperSet(generation)]
      BY <2>2, IdleIsStopper DEF StopDone, TypeOK, FlagTypes, FieldTypes, TableTypes, StopperSet
    <3> QED
      BY <2>2, <3>1 DEF StopDone, TypeOK, FlagTypes, FieldTypes, TableTypes, StopperSet, inst, Gens
  <2>3. CASE StopTimeout(s)
    <3>1. stopper' \in [Stoppers -> StopperSet(generation)]
      BY <2>3, IdleIsStopper DEF StopTimeout, TypeOK, FlagTypes, FieldTypes, TableTypes, StopperSet
    <3> QED
      BY <2>3, <3>1 DEF StopTimeout, TypeOK, FlagTypes, FieldTypes, TableTypes, StopperSet, Gens, Phases
  <2> QED BY <1>4, <2>1, <2>2, <2>3 DEF StopStep
<1>5. ASSUME NEW g \in Gens, StartStep(g) PROVE TypeOK'
  <2>1. CASE CancelPrevious(g)
    <3>1. life' \in [Gens' -> Life]
      BY <2>1, FinishType DEF CancelPrevious, inst
    <3>2. cancelled' \subseteq Contexts
      BY <2>1 DEF CancelPrevious, Cancel, TypeOK, FlagTypes, FieldTypes, TableTypes, Life, Gens
    <3> QED
      BY <2>1, <3>1, <3>2 DEF TypeOK, FlagTypes, FieldTypes, TableTypes, Gens, CancelPrevious, inst
  <2>2. CASE OptionsFail(g)
    <3>1. life' \in [Gens' -> Life]
      BY <2>2, FinishType DEF OptionsFail, inst, SetTerminalErrorFor, TerminalError
    <3>2. cancelled' \subseteq Contexts
      BY <2>2 DEF OptionsFail, Cancel, TypeOK, FlagTypes, FieldTypes, TableTypes, SetTerminalErrorFor, TerminalError
    <3>7. FlagTypes'
      BY <2>2, <3>1, <3>2
         DEF TypeOK, FlagTypes, Gens, OptionsFail, inst, Phases, SetTerminalErrorFor, TerminalError
    <3>8. FieldTypes'
      BY <2>2, <3>1, <3>2
         DEF TypeOK, FieldTypes, Gens, OptionsFail, inst, Phases, SetTerminalErrorFor, TerminalError
    <3>9. TableTypes'
      BY <2>2, <3>1, <3>2
         DEF TypeOK, FieldTypes, TableTypes, Gens, OptionsFail, inst, Phases, SetTerminalErrorFor, TerminalError
    <3> QED BY <3>7, <3>8, <3>9 DEF TypeOK
  <2>3. CASE OptionsOk(g)
    <3>1. life' \in [Gens' -> Life]
      BY <2>3, GotoType DEF OptionsOk, inst
    <3> QED
      BY <2>3, <3>1 DEF TypeOK, FlagTypes, FieldTypes, TableTypes, Gens, OptionsOk, inst
  <2>4. CASE Publish(g)
    <3>1. life' \in [Gens' -> Life]
      BY <2>4, GotoType DEF Publish
    <3> QED
      BY <2>4, <3>1 DEF TypeOK, FlagTypes, FieldTypes, TableTypes, Gens, Publish
  <2>5. CASE PublishRefused(g)
    <3>1. life' \in [Gens' -> Life]
      BY <2>5, FinishType DEF PublishRefused, inst
    <3>2. cancelled' \subseteq Contexts
      BY <2>5 DEF PublishRefused, Cancel, TypeOK, FlagTypes, FieldTypes, TableTypes, RunCtx, Contexts, Gens
    <3> QED
      BY <2>5, <3>1, <3>2 DEF TypeOK, FlagTypes, FieldTypes, TableTypes, Gens, PublishRefused, inst
  <2> QED BY <1>5, <2>1, <2>2, <2>3, <2>4, <2>5 DEF StartStep
<1>6. ASSUME NEW g \in Gens, RunStep(g) \/ Fault(g) PROVE TypeOK'
  <2>1. CASE Setup(g)
    <3>1. life' \in [Gens' -> Life]
      BY <2>1, GotoType DEF Setup, MarkRunning, inst
    <3> QED
      BY <2>1, <3>1 DEF TypeOK, FlagTypes, FieldTypes, TableTypes, Gens, Setup, MarkRunning, Phases, inst
  <2>2. CASE RunCancelled(g)
    <3>1. life' \in [Gens' -> Life]
      BY <2>2, GotoIsLife, BecomeType DEF RunCancelled, TypeOK, FlagTypes, FieldTypes, TableTypes, Results, inst
    <3> QED
      BY <2>2, <3>1 DEF TypeOK, FlagTypes, FieldTypes, TableTypes, Gens, RunCancelled, inst
  <2>3. CASE HandleResult(g)
    <3>1. life' \in [Gens' -> Life]
      BY <2>3, GotoType DEF HandleResult
    <3>7. FlagTypes'
      BY <2>3, <3>1
         DEF TypeOK, FlagTypes, Gens, HandleResult
    <3>8. FieldTypes'
      BY <2>3, <3>1
         DEF TypeOK, FieldTypes, Gens, HandleResult
    <3>9. TableTypes'
      BY <2>3, <3>1
         DEF TypeOK, FieldTypes, TableTypes, Gens, HandleResult
    <3> QED BY <3>7, <3>8, <3>9 DEF TypeOK
  <2>4. CASE RunExit(g)
    <3>1. life' \in [Gens' -> Life]
      <4>1. CASE generation = g
        <5>1. [life[g] EXCEPT !.pc = "recheck", !.requested = restartRequested] \in Life
          BY GotoIsLife, "none" \in Results DEF TypeOK, FlagTypes, FieldTypes, TableTypes, Results
        <5> QED BY <2>4, <4>1, <5>1, BecomeType DEF RunExit, TypeOK, FlagTypes, FieldTypes, TableTypes
      <4>2. CASE generation # g
        BY <2>4, <4>2, FinishType DEF RunExit, Finish, inst
      <4> QED BY <4>1, <4>2
    <3>7. FlagTypes'
      BY <2>4, <3>1
         DEF TypeOK, FlagTypes, Gens, RunExit, inst, Phases, RestartCtx, Contexts
    <3>8. FieldTypes'
      BY <2>4, <3>1
         DEF TypeOK, FieldTypes, Gens, RunExit, inst, Phases, RestartCtx, Contexts
    <3>9. TableTypes'
      BY <2>4, <3>1
         DEF TypeOK, FieldTypes, TableTypes, Gens, RunExit, inst, Phases, RestartCtx, Contexts
    <3> QED BY <3>7, <3>8, <3>9 DEF TypeOK
  <2>5. CASE Recheck(g)
    <3>1. life' \in [Gens' -> Life]
      <4>1. CASE Goto(g, "autoCheck")
        BY <2>5, <4>1, GotoType DEF Recheck, inst
      <4>2. CASE Finish(g)
        BY <2>5, <4>2, FinishType DEF Recheck, Finish, inst
      <4> QED BY <2>5, <4>1, <4>2 DEF Recheck
    <3> QED
      BY <2>5, <3>1 DEF TypeOK, FlagTypes, FieldTypes, TableTypes, Gens, Recheck, inst
  <2>6. CASE RunEnds(g)
    <3>1. life' \in [Gens' -> Life]
      <4>1. PICK r \in {"clean", "retryable", "fatal"} :
                Become(g, [life[g] EXCEPT !.pc = "returned", !.result = r])
        BY <2>6 DEF RunEnds
      <4>2. [life[g] EXCEPT !.pc = "returned", !.result = r] \in Life
        BY GotoIsLife DEF TypeOK, FlagTypes, FieldTypes, TableTypes, Results
      <4> QED BY <2>6, <4>1, <4>2, BecomeType DEF RunEnds, TypeOK, FlagTypes, FieldTypes, TableTypes, inst
    <3> QED
      BY <2>6, <3>1 DEF TypeOK, FlagTypes, FieldTypes, TableTypes, Gens, RunEnds, inst
  <2>7. CASE RunPanics(g)
    <3>1. life' \in [Gens' -> Life]
      <4>1. [life[g] EXCEPT !.pc = "exit", !.result = "panic"] \in Life
        BY GotoIsLife DEF TypeOK, FlagTypes, FieldTypes, TableTypes, Results
      <4> QED BY <2>7, <4>1, BecomeType DEF RunPanics, TypeOK, FlagTypes, FieldTypes, TableTypes
    <3>7. FlagTypes'
      BY <2>7, <3>1
         DEF TypeOK, FlagTypes, Gens, RunPanics
    <3>8. FieldTypes'
      BY <2>7, <3>1
         DEF TypeOK, FieldTypes, Gens, RunPanics
    <3>9. TableTypes'
      BY <2>7, <3>1
         DEF TypeOK, FieldTypes, TableTypes, Gens, RunPanics
    <3> QED BY <3>7, <3>8, <3>9 DEF TypeOK
  <2> QED BY <1>6, <2>1, <2>2, <2>3, <2>4, <2>5, <2>6, <2>7 DEF RunStep, Fault
<1>7. ASSUME NEW g \in Gens, RestartStep(g) PROVE TypeOK'
  <2>1. CASE RestartCanceled(g)
    <3>1. life' \in [Gens' -> Life]
      BY <2>1, FinishType DEF RestartCanceled, Finish, inst, FinishCanceledRestart
    <3> QED
      BY <2>1, <3>1 DEF TypeOK, FlagTypes, FieldTypes, TableTypes, Gens, RestartCanceled, FinishCanceledRestart, inst, Phases
  <2>2. CASE AutoCheck(g)
    <3>1. life' \in [Gens' -> Life]
      BY <2>2, GotoType DEF AutoCheck, inst
    <3> QED
      BY <2>2, <3>1 DEF TypeOK, FlagTypes, FieldTypes, TableTypes, Gens, AutoCheck, inst
  <2>3. CASE PolicyError(g)
    <3>1. life' \in [Gens' -> Life]
      BY <2>3, FinishType DEF PolicyError, Finish, inst, SetTerminalErrorFor, TerminalError
    <3>2. cancelled' \subseteq Contexts
      BY <2>3 DEF PolicyError, Cancel, TypeOK, FlagTypes, FieldTypes, TableTypes, SetTerminalErrorFor, TerminalError
    <3>7. FlagTypes'
      BY <2>3, <3>1, <3>2
         DEF TypeOK, FlagTypes, Gens, PolicyError, inst, Phases, SetTerminalErrorFor, TerminalError
    <3>8. FieldTypes'
      BY <2>3, <3>1, <3>2
         DEF TypeOK, FieldTypes, Gens, PolicyError, inst, Phases, SetTerminalErrorFor, TerminalError
    <3>9. TableTypes'
      BY <2>3, <3>1, <3>2
         DEF TypeOK, FieldTypes, TableTypes, Gens, PolicyError, inst, Phases, SetTerminalErrorFor, TerminalError
    <3> QED BY <3>7, <3>8, <3>9 DEF TypeOK
  <2>4. CASE PolicyOff(g)
    <3>1. life' \in [Gens' -> Life]
      BY <2>4, FinishType DEF PolicyOff, Finish
    <3> QED
      BY <2>4, <3>1 DEF TypeOK, FlagTypes, FieldTypes, TableTypes, Gens, PolicyOff, Phases
  <2>5. CASE Schedule(g)
    <3>1. PICK fresh \in BOOLEAN : 
            LET count == IF fresh THEN 0 ELSE restartCount
            IN  IF AttemptsUsedUp(count)
                  THEN /\ phase' = "error" /\ nextRetryAt' = FALSE
                       /\ restartCount' = count
                       /\ Finish(g)
                  ELSE /\ phase' = "reconnecting" /\ nextRetryAt' = TRUE
                       /\ restartCount' = count + 1
                       /\ Goto(g, "waiting")
      BY <2>5 DEF Schedule
    <3> DEFINE count == IF fresh THEN 0 ELSE restartCount
    <3>2. count \in 0..MaxRestartAttempts
      BY DEF TypeOK, FlagTypes, FieldTypes, TableTypes
    <3>3. CASE AttemptsUsedUp(count)
      <4>1. life' \in [Gens' -> Life]
        BY <2>5, <3>1, <3>3, FinishType DEF Schedule, Finish
      <4> QED
        BY <2>5, <3>1, <3>2, <3>3, <4>1 DEF Schedule, TypeOK, FlagTypes, FieldTypes, TableTypes, Gens, Phases
    <3>4. CASE ~AttemptsUsedUp(count)
      <4>1. life' \in [Gens' -> Life]
        BY <2>5, <3>1, <3>4, GotoType DEF Schedule
      <4>2. restartCount' \in 0..MaxRestartAttempts
        BY <3>1, <3>2, <3>4 DEF AttemptsUsedUp
      <4> QED
        BY <2>5, <3>1, <3>4, <4>1, <4>2 DEF Schedule, TypeOK, FlagTypes, FieldTypes, TableTypes, Gens, Phases
    <3> QED BY <3>3, <3>4
  <2>6. CASE ScheduleStale(g)
    <3>1. life' \in [Gens' -> Life]
      BY <2>6, FinishType DEF ScheduleStale, Finish, inst
    <3> QED
      BY <2>6, <3>1 DEF TypeOK, FlagTypes, FieldTypes, TableTypes, Gens, ScheduleStale, inst
  <2>7. CASE TimerFires(g)
    <3>1. life' \in [Gens' -> Life]
      BY <2>7, GotoType DEF TimerFires, inst
    <3> QED
      BY <2>7, <3>1 DEF TypeOK, FlagTypes, FieldTypes, TableTypes, Gens, TimerFires, inst
  <2>8. CASE Restart(g)
    <3>1. [At("reserved") EXCEPT !.old = cancel] \in Life
      BY DEF At, Life, TypeOK, FlagTypes, FieldTypes, TableTypes, Results
    <3>2. NewGeneration([At("reserved") EXCEPT !.old = cancel], g)
      BY <2>8 DEF Restart, Reserve
    <3>3. stopper' \in [Stoppers -> StopperSet(generation + 1)]
      BY <2>8, StopperWiden DEF Restart, Reserve, TypeOK, FlagTypes, FieldTypes, TableTypes, StopperSet
    <3>4. RunCtx(generation + 1) \in Contexts
      BY DEF TypeOK, FlagTypes, FieldTypes, TableTypes, RunCtx, Contexts
    <3>5. g \in 0..generation
      BY DEF Gens, TypeOK, FlagTypes, FieldTypes, TableTypes
    <3>7. FlagTypes'
      BY <2>8, <3>1, <3>2, <3>3, <3>4, <3>5, NewGenerationType
         DEF Restart, Reserve, TypeOK, FlagTypes, StopperSet, Phases
    <3>8. FieldTypes'
      BY <2>8, <3>1, <3>2, <3>3, <3>4, <3>5, NewGenerationType
         DEF Restart, Reserve, TypeOK, FieldTypes, StopperSet, Phases
    <3>9. TableTypes'
      BY <2>8, <3>1, <3>2, <3>3, <3>4, <3>5, NewGenerationType
         DEF Restart, Reserve, TypeOK, FieldTypes, TableTypes, StopperSet, Phases
    <3> QED BY <3>7, <3>8, <3>9 DEF TypeOK
  <2>9. CASE RestartRefused(g)
    <3>1. life' \in [Gens' -> Life]
      BY <2>9, FinishType DEF RestartRefused, Finish, inst
    <3> QED
      BY <2>9, <3>1 DEF TypeOK, FlagTypes, FieldTypes, TableTypes, Gens, RestartRefused, inst
  <2>10. CASE RestartReturns(g)
    <3>1. life' \in [Gens' -> Life]
      BY <2>10, FinishType DEF RestartReturns, Finish, inst
    <3> QED
      BY <2>10, <3>1 DEF TypeOK, FlagTypes, FieldTypes, TableTypes, Gens, RestartReturns, inst
  <2> QED
    BY <1>7, <2>1, <2>2, <2>3, <2>4, <2>5, <2>6, <2>7, <2>8, <2>9, <2>10 DEF RestartStep
<1>8. ASSUME NEW g \in Gens, MonitorStep(g) PROVE TypeOK'
  <2>1. CASE ProbeReady(g)
    <3> QED
      BY <2>1 DEF TypeOK, FlagTypes, FieldTypes, TableTypes, Gens, ProbeReady, MarkRunning, inst, Phases
  <2>2. CASE ProbeFailed(g)
    <3>7. FlagTypes'
      BY <2>2
         DEF TypeOK, FlagTypes, Gens, ProbeFailed, Phases
    <3>8. FieldTypes'
      BY <2>2
         DEF TypeOK, FieldTypes, Gens, ProbeFailed, Phases
    <3>9. TableTypes'
      BY <2>2
         DEF TypeOK, FieldTypes, TableTypes, Gens, ProbeFailed, Phases
    <3> QED BY <3>7, <3>8, <3>9 DEF TypeOK
  <2>3. CASE WatchdogCancel(g)
    <3>2. cancelled' \subseteq Contexts
      BY <2>3 DEF WatchdogCancel, Cancel, TypeOK, FlagTypes, FieldTypes, TableTypes, RunCtx, Contexts, Gens
    <3>7. FlagTypes'
      BY <2>3, <3>2
         DEF TypeOK, FlagTypes, Gens, WatchdogCancel, inst
    <3>8. FieldTypes'
      BY <2>3, <3>2
         DEF TypeOK, FieldTypes, Gens, WatchdogCancel, inst
    <3>9. TableTypes'
      BY <2>3, <3>2
         DEF TypeOK, FieldTypes, TableTypes, Gens, WatchdogCancel, inst
    <3> QED BY <3>7, <3>8, <3>9 DEF TypeOK
  <2>4. CASE MonitorEnds(g)
    <3> QED
      BY <2>4 DEF TypeOK, FlagTypes, FieldTypes, TableTypes, Gens, MonitorEnds, inst
  <2> QED BY <1>8, <2>1, <2>2, <2>3, <2>4 DEF MonitorStep
<1>9. CASE UNCHANGED vars
  BY <1>9 DEF vars, inst, TypeOK, FlagTypes, FieldTypes, TableTypes, Gens
<1> QED
  BY <1>1, <1>2, <1>3, <1>4, <1>5, <1>6, <1>7, <1>8, <1>9 DEF Next

\* Type correctness: every state of the instance and of its goroutines is one
\* the code can name.
THEOREM TypeCorrect == Spec => []TypeOK
BY InitType, TypeNext, PTL DEF Spec

-----------------------------------------------------------------------------
(***************************************************************************)
(* Ownership: which steps change the liveness of a run.                    *)
(***************************************************************************)
LEMMA LiveBecome ==
  ASSUME TypeOK, NEW g \in Gens, NEW l, Become(g, l), generation' = generation
  PROVE  /\ Gens' = Gens
         /\ Live(g)' <=> l.pc \in RunPcs
         /\ \A h \in Gens \ {g} : Live(h)' <=> Live(h)
BY DEF Become, Live, TypeOK, TableTypes, Gens

LEMMA LiveGoto ==
  ASSUME TypeOK, NEW g \in Gens, NEW p \in LifePcs, Goto(g, p),
         generation' = generation
  PROVE  /\ Gens' = Gens
         /\ Live(g)' <=> p \in RunPcs
         /\ \A h \in Gens \ {g} : Live(h)' <=> Live(h)
<1>1. [life[g] EXCEPT !.pc = p].pc = p
  BY DEF TypeOK, TableTypes, Life
<1> QED
  BY <1>1, LiveBecome DEF Goto

LEMMA LiveAt ==
  ASSUME TypeOK, NEW g \in Gens, NEW p \in EndPcs \cup {"options"},
         Become(g, At(p)), generation' = generation
  PROVE  /\ Gens' = Gens
         /\ ~Live(g)'
         /\ \A h \in Gens \ {g} : Live(h)' <=> Live(h)
<1>1. At(p).pc = p /\ p \notin RunPcs
  BY DEF At, EndPcs, RunPcs
<1> QED
  BY <1>1, LiveBecome

LEMMA LiveNewGeneration ==
  ASSUME TypeOK, NEW l \in Life, l.pc \notin RunPcs, NEW from \in 0..generation,
         NewGeneration(l, from), \A h \in Gens : ~Live(h)
  PROVE  generation' > 0 /\ \A h \in Gens' : ~Live(h)'
<1>1. At("inStart").pc = "inStart"
  BY DEF At
<1>2. Gens' = Gens \cup {generation + 1} /\ generation + 1 > 0
  BY NewGenerationType DEF Gens, TypeOK, FieldTypes
<1> QED
  BY <1>1, <1>2, NewGenerationType DEF Live, RunPcs

\* The owner of the instance and its published stability, together.
OwnerInv == RunningIsOwned /\ StablePhaseIsQuiet

\* A step that keeps the generation, `running' and the set of live runs, and
\* does not declare a live run stopped, keeps both.
LEMMA OwnerKept ==
  ASSUME OwnerInv, Gens' = Gens, generation' = generation, running' = running,
         \A h \in Gens : Live(h)' <=> Live(h),
         running => phase' = phase \/ phase' \notin {"stopped", "error"}
  PROVE  OwnerInv'
BY DEF OwnerInv, RunningIsOwned, StablePhaseIsQuiet

\* A step that moves a goroutine which is outside cloudflared, and stays
\* outside: nothing is live that was not.
LEMMA OutsideKept ==
  ASSUME TypeOK, OwnerInv, NEW g \in Gens, ~Live(g), NEW l, Become(g, l),
         l.pc \notin RunPcs, UNCHANGED <<generation, running>>,
         g = generation \/ phase' = phase
  PROVE  OwnerInv'
<1>1. \A h \in Gens : Live(h)' <=> Live(h)
  BY LiveBecome
<1>2. Gens' = Gens
  BY LiveBecome
<1>3. running => phase' = phase
  BY DEF OwnerInv, RunningIsOwned
<1> QED
  BY <1>1, <1>2, <1>3, OwnerKept

LEMMA OwnerInit == Init => OwnerInv
BY DEF Init, OwnerInv, RunningIsOwned, StablePhaseIsQuiet, Gens

\* A new lifecycle is reserved, or a launch dropped, only when nothing runs.
LEMMA OwnerNewGeneration ==
  ASSUME TypeOK, OwnerInv, ~running, NEW l \in Life, l.pc \notin RunPcs,
         NEW from \in 0..generation, NewGeneration(l, from), running' = running
  PROVE  OwnerInv'
<1>1. \A h \in Gens : ~Live(h)
  BY DEF OwnerInv, RunningIsOwned
<1> QED
  BY <1>1, LiveNewGeneration DEF OwnerInv, RunningIsOwned, StablePhaseIsQuiet

LEMMA OwnerReserve ==
  ASSUME TypeOK, OwnerInv, ~running, NEW from \in 0..generation, Reserve(from)
  PROVE  OwnerInv'
<1> DEFINE l == [At("reserved") EXCEPT !.old = cancel]
<1>1. l \in Life
  BY DEF At, Life, TypeOK, FieldTypes, Results, LifePcs, StartPcs
<1>2. l.pc \notin RunPcs
  BY DEF At, RunPcs
<1> QED
  BY <1>1, <1>2, OwnerNewGeneration DEF Reserve

\* A terminal error is published only by a goroutine outside cloudflared.
LEMMA OwnerTerminal ==
  ASSUME TypeOK, OwnerInv, NEW g \in Gens, ~Live(g), SetTerminalErrorFor(g),
         NEW p \in EndPcs, Become(g, At(p))
  PROVE  OwnerInv'
<1>1. generation' = generation
  BY DEF SetTerminalErrorFor, TerminalError, inst
<1>2. g = generation => ~running
  BY DEF OwnerInv, RunningIsOwned
<1>3. running' = running
  BY <1>2 DEF SetTerminalErrorFor, TerminalError, inst, TypeOK, FlagTypes
<1>4. running => phase' = phase
  BY <1>2 DEF SetTerminalErrorFor, inst
<1>5. Gens' = Gens /\ \A h \in Gens : Live(h)' <=> Live(h)
  BY <1>1, LiveAt
<1> QED
  BY <1>1, <1>3, <1>4, <1>5, OwnerKept

\* A goroutine outside cloudflared ends, or moves to another step outside.
LEMMA OutsideEnds ==
  ASSUME TypeOK, OwnerInv, NEW g \in Gens, ~Live(g), Finish(g),
         UNCHANGED <<generation, running>>, g = generation \/ phase' = phase
  PROVE  OwnerInv'
BY OutsideKept DEF Finish, At, RunPcs

LEMMA OutsideMoves ==
  ASSUME TypeOK, OwnerInv, NEW g \in Gens, ~Live(g),
         NEW p \in LifePcs \ RunPcs, Goto(g, p),
         UNCHANGED <<generation, running>>, g = generation \/ phase' = phase
  PROVE  OwnerInv'
<1>1. [life[g] EXCEPT !.pc = p].pc = p
  BY DEF TypeOK, TableTypes, Life
<1> QED
  BY <1>1, OutsideKept DEF Goto

\* A goroutine inside cloudflared that stays inside.
LEMMA InsideMoves ==
  ASSUME TypeOK, OwnerInv, NEW g \in Gens, Live(g), NEW l, Become(g, l),
         l.pc \in RunPcs, UNCHANGED <<generation, running>>,
         phase' = phase \/ phase' \notin {"stopped", "error"}
  PROVE  OwnerInv'
<1>1. Gens' = Gens /\ \A h \in Gens : Live(h)' <=> Live(h)
  BY LiveBecome
<1> QED
  BY <1>1, OwnerKept

\* A step that touches no goroutine of a generation.
LEMMA NobodyMoves ==
  ASSUME OwnerInv, UNCHANGED <<generation, running, life>>,
         running => phase' = phase \/ phase' \notin {"stopped", "error"}
  PROVE  OwnerInv'
<1>1. Gens' = Gens /\ \A h \in Gens : Live(h)' <=> Live(h)
  BY DEF Gens, Live
<1> QED
  BY <1>1, OwnerKept

LEMMA OwnerNext == TypeOK /\ OwnerInv /\ [Next]_vars => OwnerInv'
<1> SUFFICES ASSUME TypeOK, OwnerInv, [Next]_vars PROVE OwnerInv'
  OBVIOUS
<1> USE DEF LifePcs, StartPcs, RunPcs, RestartPcs, EndPcs
<1>0. generation \in Nat /\ \A g \in Gens : g \in 0..generation
  BY DEF TypeOK, FieldTypes, Gens
<1>1. CASE Start
  BY <1>0, <1>1, OwnerReserve DEF Start, Busy
<1>2. ASSUME NEW s \in Stoppers, StopIdle(s) PROVE OwnerInv'
  <2>1. CASE cancel = NoCtx
    BY <1>2, <2>1, NobodyMoves DEF StopIdle
  <2>2. CASE cancel # NoCtx
    <3>1. NewGeneration(At("void"), 0) /\ ~running /\ running' = running
      BY <1>2, <2>2 DEF StopIdle
    <3>2. At("void") \in Life /\ At("void").pc \notin RunPcs
      BY AtIsLife DEF At
    <3> QED
      BY <1>0, <3>1, <3>2, OwnerNewGeneration
  <2> QED BY <2>1, <2>2
<1>3. ASSUME NEW s \in Stoppers, StopRunning(s) PROVE OwnerInv'
  BY <1>3, NobodyMoves DEF StopRunning
<1>4. ASSUME NEW s \in Stoppers, StopStep(s) PROVE OwnerInv'
  BY <1>4, NobodyMoves DEF StopStep, StopCancel, StopDone, StopTimeout, inst
<1>5. ASSUME NEW g \in Gens, StartStep(g) PROVE OwnerInv'
  <2>1. ~Live(g)
    BY <1>5 DEF StartStep, CancelPrevious, OptionsFail, OptionsOk, Publish,
                PublishRefused, Live
  <2>2. CASE CancelPrevious(g)
    <3>1. At("options").pc \notin RunPcs
      BY DEF At
    <3> QED
      BY <2>1, <2>2, <3>1, OutsideKept DEF CancelPrevious, inst
  <2>3. CASE OptionsFail(g)
    BY <2>1, <2>3, OwnerTerminal DEF OptionsFail
  <2>4. CASE OptionsOk(g)
    BY <2>1, <2>4, OutsideMoves DEF OptionsOk, inst
  <2>5. CASE Publish(g)
    <3>1. g = generation /\ running' = TRUE /\ phase' = "starting"
      BY <2>5 DEF Publish, StillReserved
    <3>2. Goto(g, "setup") /\ generation' = generation
      BY <2>5 DEF Publish
    <3>3. Gens' = Gens /\ Live(g)' /\ \A h \in Gens \ {g} : Live(h)' <=> Live(h)
      BY <3>2, LiveGoto
    <3>4. generation > 0 /\ \A h \in Gens \ {g} : ~Live(h)
      BY <1>0, <3>1 DEF OwnerInv, RunningIsOwned, Gens
    <3> QED
      BY <3>1, <3>2, <3>3, <3>4 DEF OwnerInv, RunningIsOwned, StablePhaseIsQuiet
  <2>6. CASE PublishRefused(g)
    <3>1. At("void").pc \notin RunPcs
      BY DEF At
    <3> QED
      BY <2>1, <2>6, <3>1, OutsideKept DEF PublishRefused, inst
  <2> QED BY <1>5, <2>2, <2>3, <2>4, <2>5, <2>6 DEF StartStep
<1>6. ASSUME NEW g \in Gens, RunStep(g) \/ Fault(g) PROVE OwnerInv'
  <2>0. life[g] \in Life
    BY DEF TypeOK, TableTypes
  <2>1. CASE Setup(g)
    <3>1. Goto(g, "live") /\ Live(g)
      BY <2>1 DEF Setup, Live
    <3>2. [life[g] EXCEPT !.pc = "live"].pc \in RunPcs
      BY <2>0 DEF Life
    <3> QED
      BY <2>1, <3>1, <3>2, InsideMoves DEF Setup, MarkRunning, Goto, inst
  <2>2. CASE RunCancelled(g)
    <3>1. [life[g] EXCEPT !.pc = "exit", !.result = "cancelled"].pc \in RunPcs
      BY <2>0 DEF Life
    <3> QED
      BY <2>2, <3>1, InsideMoves DEF RunCancelled, Live, inst
  <2>3. CASE HandleResult(g)
    <3>1. [life[g] EXCEPT !.pc = "exit"].pc \in RunPcs
      BY <2>0 DEF Life
    <3> QED
      BY <2>3, <3>1, InsideMoves DEF HandleResult, Goto, Live
  <2>4. CASE RunExit(g)
    <3>1. Live(g) /\ g = generation /\ running
      BY <2>4 DEF RunExit, Live, OwnerInv, RunningIsOwned
    <3>2. running' = FALSE /\ generation' = generation
      BY <2>4, <3>1 DEF RunExit
    <3>3. Become(g, [life[g] EXCEPT !.pc = "recheck", !.requested = restartRequested])
      BY <2>4, <3>1 DEF RunExit
    <3>4. [life[g] EXCEPT !.pc = "recheck", !.requested = restartRequested].pc \notin RunPcs
      BY <2>0 DEF Life
    <3>5. Gens' = Gens /\ ~Live(g)' /\ \A h \in Gens \ {g} : Live(h)' <=> Live(h)
      BY <3>2, <3>3, <3>4, LiveBecome
    <3> QED
      BY <3>1, <3>2, <3>5 DEF OwnerInv, RunningIsOwned, StablePhaseIsQuiet
  <2>5. CASE Recheck(g)
    <3>1. ~Live(g) /\ UNCHANGED inst
      BY <2>5 DEF Recheck, Live
    <3> QED
      BY <2>5, <3>1, OutsideMoves, OutsideEnds DEF Recheck, inst
  <2>6. CASE RunEnds(g)
    <3>1. PICK r \in {"clean", "retryable", "fatal"} :
             Become(g, [life[g] EXCEPT !.pc = "returned", !.result = r])
      BY <2>6 DEF RunEnds
    <3>2. [life[g] EXCEPT !.pc = "returned", !.result = r].pc \in RunPcs
      BY <2>0 DEF Life
    <3> QED
      BY <2>6, <3>1, <3>2, InsideMoves DEF RunEnds, Live, inst
  <2>7. CASE RunPanics(g)
    <3>1. [life[g] EXCEPT !.pc = "exit", !.result = "panic"].pc \in RunPcs
      BY <2>0 DEF Life
    <3> QED
      BY <2>7, <3>1, InsideMoves DEF RunPanics, Live
  <2> QED
    BY <1>6, <2>1, <2>2, <2>3, <2>4, <2>5, <2>6, <2>7 DEF RunStep, Fault
<1>7. ASSUME NEW g \in Gens, RestartStep(g) PROVE OwnerInv'
  <2>1. ~Live(g)
    BY <1>7 DEF RestartStep, RestartCanceled, AutoCheck, PolicyError, PolicyOff,
                Schedule, ScheduleStale, TimerFires, Restart, RestartRefused,
                RestartReturns, Live
  <2>2. CASE RestartCanceled(g)
    BY <2>1, <2>2, OutsideEnds DEF RestartCanceled, FinishCanceledRestart, inst
  <2>3. CASE AutoCheck(g)
    BY <2>1, <2>3, OutsideMoves DEF AutoCheck, inst
  <2>4. CASE PolicyError(g)
    BY <2>1, <2>4, OwnerTerminal DEF PolicyError, Finish
  <2>5. CASE PolicyOff(g)
    BY <2>1, <2>5, OutsideEnds DEF PolicyOff
  <2>6. CASE Schedule(g)
    <3>1. Finish(g) \/ Goto(g, "waiting")
      BY <2>6 DEF Schedule
    <3> QED
      BY <2>1, <2>6, <3>1, OutsideEnds, OutsideMoves DEF Schedule
  <2>7. CASE ScheduleStale(g)
    BY <2>1, <2>7, OutsideEnds DEF ScheduleStale, inst
  <2>8. CASE TimerFires(g)
    BY <2>1, <2>8, OutsideMoves DEF TimerFires, inst
  <2>9. CASE Restart(g)
    BY <1>0, <2>9, OwnerReserve DEF Restart, MayReplace, Busy
  <2>10. CASE RestartRefused(g)
    BY <2>1, <2>10, OutsideEnds DEF RestartRefused, inst
  <2>11. CASE RestartReturns(g)
    BY <2>1, <2>11, OutsideEnds DEF RestartReturns, inst
  <2> QED
    BY <1>7, <2>2, <2>3, <2>4, <2>5, <2>6, <2>7, <2>8, <2>9, <2>10, <2>11
       DEF RestartStep
<1>8. ASSUME NEW g \in Gens, MonitorStep(g) PROVE OwnerInv'
  BY <1>8, NobodyMoves DEF MonitorStep, ProbeReady, ProbeFailed, WatchdogCancel,
                           MonitorEnds, MarkRunning, inst
<1>9. CASE UNCHANGED vars
  BY <1>9, NobodyMoves DEF vars, inst
<1> QED
  BY <1>1, <1>2, <1>3, <1>4, <1>5, <1>6, <1>7, <1>8, <1>9 DEF Next

\* No interleaving of Start, Stop, time-outs and automatic restarts leaves two
\* live runs, or a live run that Instance.running denies.
THEOREM RunningOwned == Spec => []RunningIsOwned
BY InitType, TypeNext, OwnerInit, OwnerNext, PTL DEF Spec, OwnerInv

\* "stopped" and "error" are never reported over a live run.
THEOREM StablePhaseQuiet == Spec => []StablePhaseIsQuiet
BY InitType, TypeNext, OwnerInit, OwnerNext, PTL DEF Spec, OwnerInv

-----------------------------------------------------------------------------
\* The action of OldGenerationIsInert.
Inert == \A g \in Gens : g < generation /\ life'[g] # life[g] => UNCHANGED inst

\* The move of one generation's goroutine leaves the others where they are.
LEMMA OthersStay ==
  ASSUME TypeOK, NEW h \in Gens, NEW l, Become(h, l)
  PROVE  \A g \in Gens \ {h} : life'[g] = life[g]
BY DEF Become, TypeOK, TableTypes

LEMMA ReserveStays ==
  ASSUME TypeOK, NEW from \in 0..generation, Reserve(from)
  PROVE  \A g \in Gens \ {from} : life'[g] = life[g]
<1>1. [At("reserved") EXCEPT !.old = cancel] \in Life
  BY DEF At, Life, TypeOK, FieldTypes, Results, LifePcs, StartPcs
<1> QED
  BY <1>1, NewGenerationType DEF Reserve

\* Only the goroutine of the current generation writes the instance and moves.
LEMMA InertNext == TypeOK /\ OwnerInv /\ [Next]_vars => [Inert]_vars
<1> SUFFICES ASSUME TypeOK, OwnerInv, Next,
                    NEW g \in Gens, g < generation, life'[g] # life[g]
             PROVE  UNCHANGED inst
  BY DEF Inert
<1>0. /\ generation \in Nat /\ g # generation /\ g # 0
      /\ \A h \in Gens : h \in 0..generation
      /\ ~Live(g)
  BY DEF TypeOK, FieldTypes, Gens, OwnerInv, RunningIsOwned
<1>1. ~Start
  BY <1>0, ReserveStays DEF Start
<1>2. ASSUME NEW s \in Stoppers, StopIdle(s) PROVE FALSE
  <2>1. cancel # NoCtx /\ NewGeneration(At("void"), 0) /\ At("void") \in Life
    BY <1>2, AtIsLife DEF StopIdle, LifePcs, EndPcs
  <2> QED
    BY <1>0, <2>1, NewGenerationType
<1>3. ASSUME NEW s \in Stoppers, StopRunning(s) \/ StopStep(s) PROVE FALSE
  BY <1>3 DEF StopRunning, StopStep, StopCancel, StopDone, StopTimeout
<1>4. ASSUME NEW h \in Gens, MonitorStep(h) PROVE FALSE
  BY <1>4 DEF MonitorStep, ProbeReady, ProbeFailed, WatchdogCancel, MonitorEnds
<1>5. ASSUME NEW h \in Gens, StartStep(h) PROVE UNCHANGED inst
  <2>1. CASE CancelPrevious(h) \/ OptionsOk(h) \/ PublishRefused(h)
    BY <2>1 DEF CancelPrevious, OptionsOk, PublishRefused
  <2>2. CASE OptionsFail(h)
    <3>1. h = g
      BY <2>2, OthersStay DEF OptionsFail
    <3> QED
      BY <1>0, <2>2, <3>1 DEF OptionsFail, SetTerminalErrorFor
  <2>3. CASE Publish(h)
    BY <1>0, <2>3, OthersStay DEF Publish, StillReserved, Goto
  <2> QED BY <1>5, <2>1, <2>2, <2>3 DEF StartStep
<1>6. ASSUME NEW h \in Gens, RunStep(h) \/ Fault(h) PROVE UNCHANGED inst
  <2>1. CASE RunCancelled(h) \/ Recheck(h) \/ RunEnds(h)
    BY <2>1 DEF RunCancelled, Recheck, RunEnds
  <2>2. CASE Setup(h) \/ HandleResult(h) \/ RunExit(h) \/ RunPanics(h)
    <3>1. Live(h) /\ \E l : Become(h, l)
      BY <2>2 DEF Setup, HandleResult, RunExit, RunPanics, Live, RunPcs, Goto, Finish
    <3> QED
      BY <1>0, <3>1, OthersStay
  <2> QED BY <1>6, <2>1, <2>2 DEF RunStep, Fault
<1>7. ASSUME NEW h \in Gens, RestartStep(h) PROVE UNCHANGED inst
  <2>1. CASE AutoCheck(h) \/ ScheduleStale(h) \/ TimerFires(h)
               \/ RestartRefused(h) \/ RestartReturns(h)
    BY <2>1 DEF AutoCheck, ScheduleStale, TimerFires, RestartRefused, RestartReturns
  <2>2. CASE RestartCanceled(h) \/ PolicyError(h) \/ PolicyOff(h)
    <3>1. h = g
      BY <2>2, OthersStay DEF RestartCanceled, PolicyError, PolicyOff, Finish
    <3> QED
      BY <1>0, <2>2, <3>1 DEF RestartCanceled, FinishCanceledRestart, PolicyError,
                              SetTerminalErrorFor, PolicyOff, inst
  <2>3. CASE Schedule(h)
    BY <1>0, <2>3, OthersStay DEF Schedule, Finish, Goto
  <2>4. CASE Restart(h)
    BY <1>0, <2>4, ReserveStays DEF Restart, MayReplace
  <2> QED BY <1>7, <2>1, <2>2, <2>3, <2>4 DEF RestartStep
<1> QED
  BY <1>1, <1>2, <1>3, <1>4, <1>5, <1>6, <1>7 DEF Next

\* A goroutine of a superseded generation never changes the instance: the
\* unguarded write of lastError in runTunnel is harmless because no superseded
\* generation is ever inside cloudflared.
THEOREM OldGenerationInert == Spec => OldGenerationIsInert
<1>1. Spec => [](TypeOK /\ OwnerInv)
  BY InitType, TypeNext, OwnerInit, OwnerNext, PTL DEF Spec
<1>2. TypeOK /\ OwnerInv /\ [Next]_vars => [Inert]_vars
  BY InertNext
<1>3. Spec => [][Inert]_vars
  BY <1>1, <1>2, PTL DEF Spec
<1> QED
  BY <1>3 DEF OldGenerationIsInert, Inert

-----------------------------------------------------------------------------
(***************************************************************************)
(* What a step of the goroutine of generation g does, other than reserving *)
(* the next generation.                                                    *)
(***************************************************************************)
Advance(g) ==
  \/ StartStep(g) \/ RunStep(g) \/ Fault(g)
  \/ RestartCanceled(g) \/ AutoCheck(g) \/ PolicyError(g) \/ PolicyOff(g)
  \/ Schedule(g) \/ ScheduleStale(g) \/ TimerFires(g) \/ RestartRefused(g)
  \/ RestartReturns(g)

\* The goroutine of generation g moves to the record l, and forgets or keeps
\* what it remembers.
Moves(g, l) ==
  /\ l \in Life /\ Become(g, l)
  /\ l.old \in {life[g].old, NoCtx}
  /\ l.requested => l.pc \in WaitPcs
  /\ l.pc # "inStart"
  /\ life[g].pc \notin StartPcs \cup {"void"} => l.pc \notin StartPcs \cup {"void"}

LEMMA AtFields ==
  \A p \in LifePcs : /\ At(p) \in Life /\ At(p).pc = p /\ At(p).old = NoCtx
                     /\ At(p).requested = FALSE
BY AtIsLife DEF At

LEMMA PcFields ==
  ASSUME NEW l \in Life, NEW p \in LifePcs
  PROVE  /\ [l EXCEPT !.pc = p] \in Life
         /\ [l EXCEPT !.pc = p].pc = p
         /\ [l EXCEPT !.pc = p].old = l.old
         /\ [l EXCEPT !.pc = p].requested = l.requested
         /\ [l EXCEPT !.pc = p].result = l.result
BY DEF Life

\* The three ways a goroutine moves.
LEMMA FinishMoves ==
  ASSUME TypeOK, NEW g \in Gens, NEW p \in {"closed", "void", "options"},
         Become(g, At(p)), p = "void" => life[g].pc \in StartPcs,
         p = "options" => life[g].pc \in StartPcs
  PROVE  \E l : Moves(g, l)
<1>1. p \in LifePcs /\ p # "inStart"
  BY DEF LifePcs, StartPcs, EndPcs
<1>2. p = "closed" => p \notin StartPcs \cup {"void"}
  BY DEF StartPcs
<1> WITNESS At(p)
<1> QED
  BY <1>1, <1>2, AtFields DEF Moves

LEMMA GotoMoves ==
  ASSUME TypeOK, GoroutineInv, NEW g \in Gens, NEW p \in LifePcs, Goto(g, p),
         p # "inStart", life[g].pc \notin WaitPcs \/ p \in WaitPcs,
         p \in StartPcs \cup {"void"} => life[g].pc \in StartPcs
  PROVE  \E l : Moves(g, l)
<1>1. life[g] \in Life /\ "none" \in Results /\ FALSE \in BOOLEAN
  BY DEF TypeOK, TableTypes, Results
<1>2. life[g].requested => p \in WaitPcs
  BY DEF GoroutineInv
<1>3. life[g].pc \notin StartPcs \cup {"void"} => p \notin StartPcs \cup {"void"}
  OBVIOUS
<1> WITNESS [life[g] EXCEPT !.pc = p]
<1> QED
  BY <1>1, <1>2, <1>3, PcFields DEF Moves, Goto

LEMMA ResultMoves ==
  ASSUME TypeOK, GoroutineInv, NEW g \in Gens, life[g].pc \in RunPcs,
         NEW p \in RunPcs, NEW r \in Results,
         Become(g, [life[g] EXCEPT !.pc = p, !.result = r])
  PROVE  \E l : Moves(g, l)
<1>1. life[g] \in Life /\ p \in LifePcs /\ FALSE \in BOOLEAN
  BY DEF TypeOK, TableTypes, LifePcs
<1>2. ~life[g].requested
  BY DEF GoroutineInv, WaitPcs, RunPcs, RestartPcs
<1>3. p # "inStart" /\ p \notin StartPcs \cup {"void"}
  BY DEF RunPcs, StartPcs
<1> DEFINE l == [life[g] EXCEPT !.pc = p, !.result = r]
<1>4. l \in Life /\ l.pc = p /\ l.old = life[g].old /\ l.requested = life[g].requested
  BY <1>1 DEF Life
<1>5. Become(g, l)
  OBVIOUS
<1> HIDE DEF l
<1> QED
  BY <1>2, <1>3, <1>4, <1>5 DEF Moves

LEMMA AdvanceMoves ==
  ASSUME TypeOK, GoroutineInv, NEW g \in Gens, Advance(g)
  PROVE  /\ \E l : Moves(g, l)
         /\ UNCHANGED <<generation, stopper, wanted, calls>>
<1> USE DEF LifePcs, StartPcs, RunPcs, RestartPcs, EndPcs, WaitPcs
<1>0. UNCHANGED <<generation, stopper, wanted, calls>>
  <2>1. CASE StartStep(g)
    BY <2>1 DEF StartStep, CancelPrevious, OptionsFail, OptionsOk, Publish, PublishRefused,
                SetTerminalErrorFor, TerminalError, inst
  <2>2. CASE RunStep(g) \/ Fault(g)
    BY <2>2 DEF RunStep, Fault, Setup, RunCancelled, HandleResult, RunExit, Recheck,
                RunEnds, RunPanics, MarkRunning, inst
  <2>3. CASE ~(StartStep(g) \/ RunStep(g) \/ Fault(g))
    BY <2>3 DEF Advance, RestartCanceled, AutoCheck, PolicyError, PolicyOff, Schedule,
                ScheduleStale, TimerFires, RestartRefused, RestartReturns,
                FinishCanceledRestart, SetTerminalErrorFor, TerminalError, inst
  <2> QED BY <2>1, <2>2, <2>3
<1>1. CASE StartStep(g)
  <2>1. CASE CancelPrevious(g)
    BY <1>0, <2>1, FinishMoves DEF CancelPrevious
  <2>2. CASE OptionsFail(g)
    BY <1>0, <2>2, FinishMoves DEF OptionsFail
  <2>3. CASE OptionsOk(g)
    BY <1>0, <2>3, GotoMoves DEF OptionsOk
  <2>4. CASE Publish(g)
    BY <1>0, <2>4, GotoMoves DEF Publish
  <2>5. CASE PublishRefused(g)
    BY <1>0, <2>5, FinishMoves DEF PublishRefused
  <2> QED BY <1>0, <1>1, <2>1, <2>2, <2>3, <2>4, <2>5 DEF StartStep
<1>2. CASE RunStep(g) \/ Fault(g)
  <2>1. CASE Setup(g)
    BY <1>0, <2>1, GotoMoves DEF Setup
  <2>2. CASE RunCancelled(g)
    BY <1>0, <2>2, ResultMoves DEF RunCancelled, Results
  <2>3. CASE HandleResult(g)
    BY <1>0, <2>3, GotoMoves DEF HandleResult
  <2>4. CASE RunExit(g)
    <3>1. CASE generation = g
      <4>1. life[g] \in Life /\ "recheck" \in LifePcs /\ restartRequested \in BOOLEAN
            /\ "none" \in Results
        BY DEF TypeOK, TableTypes, FlagTypes, Results
      <4>2. Become(g, [life[g] EXCEPT !.pc = "recheck", !.requested = restartRequested])
        BY <2>4, <3>1 DEF RunExit
      <4> DEFINE l == [life[g] EXCEPT !.pc = "recheck", !.requested = restartRequested]
      <4>3. l \in Life /\ l.pc = "recheck" /\ l.old = life[g].old
        BY <4>1 DEF Life
      <4>4. Become(g, l)
        BY <4>2
      <4> HIDE DEF l
      <4> QED BY <1>0, <4>3, <4>4 DEF Moves
    <3>2. CASE generation # g
      BY <1>0, <2>4, <3>2, FinishMoves DEF RunExit, Finish
    <3> QED BY <3>1, <3>2
  <2>5. CASE Recheck(g)
    <3>1. Goto(g, "autoCheck") \/ Become(g, At("closed"))
      BY <2>5 DEF Recheck, Finish
    <3> QED BY <1>0, <2>5, <3>1, FinishMoves, GotoMoves DEF Recheck
  <2>6. CASE RunEnds(g)
    <3>1. PICK r \in {"clean", "retryable", "fatal"} :
             Become(g, [life[g] EXCEPT !.pc = "returned", !.result = r])
      BY <2>6 DEF RunEnds
    <3> QED BY <1>0, <2>6, <3>1, ResultMoves DEF RunEnds, Results
  <2>7. CASE RunPanics(g)
    BY <1>0, <2>7, ResultMoves DEF RunPanics, Results
  <2> QED BY <1>0, <1>2, <2>1, <2>2, <2>3, <2>4, <2>5, <2>6, <2>7 DEF RunStep, Fault
<1>3. CASE AutoCheck(g) \/ TimerFires(g)
  BY <1>0, <1>3, GotoMoves DEF AutoCheck, TimerFires
<1>4. CASE Schedule(g)
  <2>1. Goto(g, "waiting") \/ Become(g, At("closed"))
    BY <1>4 DEF Schedule, Finish
  <2> QED BY <1>0, <1>4, <2>1, FinishMoves, GotoMoves DEF Schedule
<1>5. CASE RestartCanceled(g) \/ PolicyError(g) \/ PolicyOff(g) \/ ScheduleStale(g)
             \/ RestartRefused(g) \/ RestartReturns(g)
  <2>1. Become(g, At("closed"))
    BY <1>5 DEF RestartCanceled, PolicyError, PolicyOff, ScheduleStale, RestartRefused,
                RestartReturns, Finish
  <2> QED BY <1>0, <2>1, FinishMoves
<1> QED BY <1>1, <1>2, <1>3, <1>4, <1>5 DEF Advance

-----------------------------------------------------------------------------
(***************************************************************************)
(* Contexts: the run and the restart of a generation have their own.       *)
(***************************************************************************)
LEMMA CtxFacts ==
  ASSUME TypeOK, NEW g \in Gens
  PROVE  /\ generation \in Nat /\ g \in Nat /\ g > 0 /\ g <= generation
         /\ RunCtx(g) \in Contexts /\ RestartCtx(g) \in Contexts
         /\ RunCtx(g)[1] = g /\ RestartCtx(g)[1] = g
         /\ RunCtx(g) # RestartCtx(g) /\ RunCtx(g) # NoCtx /\ RestartCtx(g) # NoCtx
BY DEF TypeOK, FieldTypes, Gens, RunCtx, RestartCtx, NoCtx, Contexts

\* A goroutine of a superseded generation leaves the instance, the watchdogs
\* and the contexts of the current generation alone.
LEMMA OldIsInert ==
  ASSUME TypeOK, RunningIsOwned, GoroutineInv,
         NEW g \in Gens, g # generation, Advance(g)
  PROVE  /\ UNCHANGED <<inst, monitor>>
         /\ cancelled \subseteq cancelled'
         /\ \A c \in cancelled' : c \in cancelled \/ c[1] \in Gens \ {generation}
<1>0. /\ ~Live(g) /\ g < generation /\ RunCtx(g)[1] = g
      /\ life[g].old # NoCtx => life[g].old[1] < g
  BY CtxFacts DEF RunningIsOwned, GoroutineInv
<1>9. life[g].old # NoCtx => life[g].old[1] \in Gens \ {generation}
  <2>1. life[g].old \in Contexts \cup {NoCtx}
    BY DEF TypeOK, TableTypes, Life
  <2> QED BY <1>0, <2>1, CtxFacts DEF Contexts, Gens
<1>1. CASE CancelPrevious(g)
  BY <1>9, <1>1 DEF CancelPrevious, Cancel
<1>2. CASE PublishRefused(g)
  BY <1>0, <1>2 DEF PublishRefused, Cancel
<1>3. CASE OptionsFail(g) \/ OptionsOk(g)
  BY <1>3 DEF OptionsFail, OptionsOk, SetTerminalErrorFor
<1>4. ~Publish(g)
  BY DEF Publish, StillReserved
<1>5. ~Setup(g) /\ ~RunCancelled(g) /\ ~HandleResult(g) /\ ~RunExit(g) /\ ~Fault(g)
  BY <1>0 DEF Setup, RunCancelled, HandleResult, RunExit, Fault, RunEnds, RunPanics,
              Live, RunPcs
<1>6. CASE Recheck(g) \/ RestartCanceled(g) \/ AutoCheck(g) \/ PolicyError(g)
  BY <1>6 DEF Recheck, RestartCanceled, AutoCheck, PolicyError,
              FinishCanceledRestart, SetTerminalErrorFor
<1>7. CASE PolicyOff(g) \/ ScheduleStale(g) \/ TimerFires(g) \/ RestartRefused(g)
             \/ RestartReturns(g)
  BY <1>7 DEF PolicyOff, ScheduleStale, TimerFires, RestartRefused, RestartReturns, inst
<1>8. ~Schedule(g)
  BY DEF Schedule
<1> QED
  BY <1>1, <1>2, <1>3, <1>4, <1>5, <1>6, <1>7, <1>8 DEF Advance, StartStep, RunStep

\* The goroutine of the current generation cancels contexts of its own or of
\* the lifecycle it replaces, and keeps, drops or trades the cancel function.
LEMMA CurrentCancels ==
  ASSUME TypeOK, CancelInv, GoroutineInv, NEW g \in Gens, g = generation, Advance(g)
  PROVE  /\ cancel' \in {cancel, NoCtx, RestartCtx(generation)}
         /\ cancelled \subseteq cancelled'
         /\ \A c \in cancelled' : c \in cancelled \/ c[1] <= generation
<1>0. /\ RunCtx(g)[1] = g
      /\ cancel # NoCtx => cancel[1] = g
  BY CtxFacts DEF CancelInv
<1>9. generation \in Nat /\ (life[g].old # NoCtx => life[g].old[1] <= generation)
  <2>1. life[g].old \in Contexts \cup {NoCtx}
    BY DEF TypeOK, TableTypes, Life
  <2> QED BY <2>1, CtxFacts DEF Contexts, GoroutineInv
<1>1. CASE CancelPrevious(g)
  BY <1>9, <1>1 DEF CancelPrevious, Cancel, inst
<1>2. CASE PublishRefused(g)
  BY <1>9, <1>0, <1>2 DEF PublishRefused, Cancel, inst
<1>3. CASE OptionsFail(g) \/ PolicyError(g)
  BY <1>9, <1>0, <1>3 DEF OptionsFail, PolicyError, SetTerminalErrorFor, TerminalError, Cancel
<1>4. CASE OptionsOk(g) \/ Publish(g)
  BY <1>4 DEF OptionsOk, Publish, inst
<1>5. CASE Setup(g) \/ RunCancelled(g) \/ HandleResult(g) \/ Fault(g)
  BY <1>5 DEF Setup, RunCancelled, HandleResult, Fault, RunEnds, RunPanics, MarkRunning, inst
<1>6. CASE RunExit(g)
  BY <1>6 DEF RunExit
<1>7. CASE Recheck(g) \/ RestartCanceled(g) \/ AutoCheck(g) \/ PolicyOff(g)
  BY <1>7 DEF Recheck, RestartCanceled, AutoCheck, FinishCanceledRestart, PolicyOff, inst
<1>8. CASE Schedule(g) \/ ScheduleStale(g) \/ TimerFires(g) \/ RestartRefused(g)
             \/ RestartReturns(g)
  BY <1>8 DEF Schedule, ScheduleStale, TimerFires, RestartRefused, RestartReturns, inst
<1> QED
  BY <1>1, <1>2, <1>3, <1>4, <1>5, <1>6, <1>7, <1>8 DEF Advance, StartStep, RunStep

\* Nobody but Publish turns `running' on, and while it stays on the cancel
\* function stays.
LEMMA AdvanceRuns ==
  ASSUME TypeOK, RunningIsOwned, NEW g \in Gens, Advance(g), running'
  PROVE  \/ running /\ UNCHANGED <<cancel, done>>
         \/ Publish(g) /\ g = generation
<1>1. CASE CancelPrevious(g) \/ OptionsOk(g) \/ Publish(g) \/ PublishRefused(g)
  BY <1>1 DEF CancelPrevious, OptionsOk, Publish, PublishRefused, StillReserved, inst
<1>2. CASE OptionsFail(g) \/ PolicyError(g)
  BY <1>2 DEF OptionsFail, PolicyError, SetTerminalErrorFor, TerminalError, inst
<1>3. CASE Setup(g) \/ RunCancelled(g) \/ HandleResult(g) \/ Fault(g)
  BY <1>3 DEF Setup, RunCancelled, HandleResult, Fault, RunEnds, RunPanics, MarkRunning, inst
<1>4. CASE RunExit(g) \/ Recheck(g)
  BY <1>4 DEF RunExit, Recheck, inst
<1>5. CASE RestartCanceled(g) \/ AutoCheck(g) \/ PolicyOff(g)
  BY <1>5 DEF RestartCanceled, AutoCheck, FinishCanceledRestart, PolicyOff, inst
<1>6. CASE Schedule(g) \/ ScheduleStale(g) \/ TimerFires(g) \/ RestartRefused(g)
             \/ RestartReturns(g)
  BY <1>6 DEF Schedule, ScheduleStale, TimerFires, RestartRefused, RestartReturns, inst
<1> QED
  BY <1>1, <1>2, <1>3, <1>4, <1>5, <1>6 DEF Advance, StartStep, RunStep

-----------------------------------------------------------------------------
(***************************************************************************)
(* Ownership: the half of the invariant that needs nothing of the          *)
(* scheduler.                                                              *)
(***************************************************************************)

\* What goroutines hold and contexts they may cancel, together.
ContextInv == CancelInv /\ GoroutineInv /\ StopperInv /\ StopWaitIsServed

LEMMA AdvanceContext ==
  ASSUME TypeOK, RunningIsOwned, ContextInv, NEW g \in Gens, Advance(g)
  PROVE  ContextInv'
<1> USE DEF ContextInv
<1>1. PICK l : Moves(g, l)
  BY AdvanceMoves
<1>2. UNCHANGED <<generation, stopper, wanted>>
  BY AdvanceMoves
<1>3. /\ life'[g] = l /\ Gens' = Gens
      /\ \A h \in Gens \ {g} : life'[h] = life[h]
  BY <1>1, <1>2, BecomeType DEF Moves, TypeOK, TableTypes, Gens
<1>4. CancelInv'
  <2>1. CASE g = generation
    BY <1>2, <2>1, CurrentCancels DEF CancelInv
  <2>2. CASE g # generation
    <3>1. \A c \in cancelled' : c[1] <= generation
      BY <2>2, OldIsInert, CtxFacts DEF CancelInv, Gens
    <3> QED BY <1>2, <2>2, <3>1, OldIsInert DEF CancelInv, inst
  <2> QED BY <2>1, <2>2
<1>5. GoroutineInv'
  <2>1. \A h \in Gens \ {g} : life'[h] = life[h]
    BY <1>3
  <2>2. /\ l.old # NoCtx => l.old[1] < g
        /\ l.requested => l.pc \in WaitPcs
        /\ l.pc # "inStart"
    BY <1>1 DEF GoroutineInv, Moves
  <2> QED BY <1>2, <1>3, <2>2 DEF GoroutineInv
<1>6. StopWaitIsServed'
  <2>1. \A s \in Stoppers : stopper[s].gen > 0 => stopper[s].gen \in Gens
    BY DEF TypeOK, FieldTypes, TableTypes, Gens
  <2>2. life[g].pc \notin StartPcs \cup {"void"} => life'[g].pc \notin StartPcs \cup {"void"}
    BY <1>1, <1>3 DEF Moves
  <2> QED BY <1>2, <1>3, <2>1, <2>2 DEF StopWaitIsServed
<1>7. StopperInv'
  <2>1. ASSUME NEW s \in Stoppers, running', stopper[s].gen = generation
        PROVE  cancel' = NoCtx
    <3>1. CASE running /\ UNCHANGED cancel
      BY <2>1, <3>1 DEF StopperInv
    <3>2. CASE Publish(g) /\ g = generation
      <4>1. life[generation].pc \in StartPcs /\ generation > 0
        BY <3>2, CtxFacts DEF Publish, StartPcs
      <4> QED BY <2>1, <4>1 DEF StopWaitIsServed
    <3> QED BY <2>1, <3>1, <3>2, AdvanceRuns
  <2> QED BY <1>2, <2>1 DEF StopperInv
<1> QED BY <1>4, <1>5, <1>6, <1>7

\* A step that reserves the next generation, or drops a launch: the context
\* of the new generation is new, those of the old one are the past.
LEMMA NewGenerationContext ==
  ASSUME TypeOK, ContextInv, ~running, UNCHANGED <<running, cancelled>>,
         NEW l \in Life, NEW from \in 0..generation, NewGeneration(l, from),
         l.old \in {cancel, NoCtx}, ~l.requested, l.pc # "inStart",
         cancel' \in {NoCtx, RunCtx(generation + 1)},
         \A s \in Stoppers :
           stopper'[s] = stopper[s]
             \/ stopper'[s] = [pc |-> "cancel", gen |-> 0, ctx |-> cancel]
  PROVE  ContextInv'
<1> USE DEF ContextInv
<1>0. /\ generation \in Nat /\ generation' = generation + 1
      /\ Gens' = Gens \cup {generation + 1}
      /\ life'[generation + 1] = l
      /\ \A h \in Gens : life'[h] = (IF h = from THEN At("inStart") ELSE life[h])
  BY NewGenerationType DEF TypeOK, FieldTypes, Gens
<1>1. cancel = NoCtx \/ cancel[1] = generation
  BY DEF CancelInv, RunCtx, RestartCtx
<1>2. CancelInv'
  <2>1. \A c \in cancelled : c[1] \in Nat
    BY DEF TypeOK, FieldTypes, Contexts
  <2>2. \A c \in cancelled' : c[1] <= generation'
    BY <1>0, <2>1 DEF CancelInv
  <2> QED BY <1>0, <2>2 DEF CancelInv
<1>3. GoroutineInv'
  <2>1. /\ l.old # NoCtx => l.old[1] < generation + 1
        /\ ~l.requested /\ l.pc # "inStart"
    BY <1>0, <1>1
  <2>2. ASSUME NEW h \in Gens
        PROVE  /\ life'[h].old # NoCtx => life'[h].old[1] < h
               /\ life'[h].requested => life'[h].pc \in WaitPcs
               /\ h < generation + 1
    <3>1. CASE h = from
      BY <1>0, <3>1, AtFields DEF Gens, LifePcs, RestartPcs
    <3>2. CASE h # from
      BY <1>0, <3>2 DEF GoroutineInv, Gens
    <3> QED BY <3>1, <3>2
  <2> QED BY <1>0, <2>1, <2>2 DEF GoroutineInv
<1>4. StopWaitIsServed'
  <2>1. ASSUME NEW s \in Stoppers, stopper'[s].gen > 0
        PROVE  life'[stopper'[s].gen].pc \notin StartPcs \cup {"void"}
    <3>1. stopper'[s] = stopper[s]
      BY <2>1
    <3>2. stopper[s].gen \in Gens
      BY <2>1, <3>1 DEF TypeOK, FieldTypes, TableTypes, Gens
    <3>3. life[stopper[s].gen].pc \notin StartPcs \cup {"void"}
      BY <2>1, <3>1 DEF StopWaitIsServed
    <3>4. At("inStart").pc \notin StartPcs \cup {"void"}
      BY DEF At, StartPcs
    <3> QED BY <1>0, <3>1, <3>2, <3>3, <3>4
  <2> QED BY <2>1 DEF StopWaitIsServed
<1>5. StopperInv'
  <2>1. ASSUME NEW s \in Stoppers, stopper'[s].pc = "cancel", stopper'[s].ctx # NoCtx
        PROVE  stopper'[s].ctx[1] < generation'
    <3>1. CASE stopper'[s] = stopper[s]
      <4>1. stopper[s].ctx[1] < generation \/ stopper[s].ctx[1] = generation
        BY <2>1, <3>1 DEF StopperInv, RunCtx
      <4>2. stopper[s].ctx \in Contexts
        BY <2>1, <3>1 DEF TypeOK, TableTypes
      <4> QED BY <1>0, <3>1, <4>1, <4>2 DEF Contexts
    <3>2. CASE stopper'[s] = [pc |-> "cancel", gen |-> 0, ctx |-> cancel]
      BY <1>0, <1>1, <2>1, <3>2
    <3> QED BY <3>1, <3>2
  <2> QED BY <2>1 DEF StopperInv
<1> QED BY <1>2, <1>3, <1>4, <1>5

-----------------------------------------------------------------------------
(***************************************************************************)
(* The steps of the current goroutine by where it is: launching, running,  *)
(* or over its run.                                                        *)
(***************************************************************************)

\* The launch goes on, nothing published.
LaunchGoesOn(g) ==
  /\ life[g].pc \in StartPcs /\ life'[g].pc \in StartPcs
  /\ ~life'[g].requested
  /\ UNCHANGED <<inst, monitor>>
  /\ RunCtx(g) \in cancelled' => RunCtx(g) \in cancelled
  /\ RestartCtx(g) \in cancelled' => RestartCtx(g) \in cancelled

\* The run goes on; at most its being ready is published.
RunGoesOn(g) ==
  /\ running /\ life[g].pc \in RunPcs /\ life'[g].pc \in RunPcs
  /\ ~life'[g].requested
  /\ UNCHANGED <<generation, running, cancel, done, restartRequested, cancelled>>
  /\ \/ UNCHANGED <<phase, nextRetryAt>>
     \/ phase \in {"starting", "running"} /\ phase' = "running" /\ ~nextRetryAt'
  /\ monitor'[g] = "firing" => monitor[g] = "firing"

\* The pending restart goes on, nothing published.
WaitGoesOn(g) ==
  /\ UNCHANGED <<inst, monitor, cancelled>>
  /\ life[g].pc \in WaitPcs /\ life'[g].pc \in WaitPcs
  /\ life'[g].requested = life[g].requested
  /\ life'[g].result = life[g].result
  /\ \/ /\ life[g].pc = "recheck" /\ life'[g].pc = "autoCheck"
     \/ /\ life[g].pc = "autoCheck" /\ life'[g].pc = "policy"
     \/ /\ life[g].pc = "waiting" /\ life'[g].pc = "restarting" /\ TimerFires(g)

\* The restart is scheduled.
Scheduled(g) ==
  /\ life[g].pc = "policy" /\ life'[g].pc = "waiting"
  /\ life'[g].requested = life[g].requested
  /\ phase' = "reconnecting"
  /\ UNCHANGED <<generation, running, cancel, done, restartRequested, cancelled, monitor>>

\* The goroutine is over, with a stable phase or after a look at its context.
Over(g) ==
  /\ ~running /\ ~running' /\ life'[g].pc \in EndPcs
  /\ UNCHANGED <<generation, restartRequested, monitor>>
  /\ \/ phase' \in {"stopped", "error"} /\ ~nextRetryAt'
     \/ /\ UNCHANGED inst
        /\ PublishRefused(g) \/ Recheck(g) \/ RestartCanceled(g) \/ RestartRefused(g)

LEMMA GotoField ==
  ASSUME TypeOK, NEW g \in Gens, NEW p, Goto(g, p)
  PROVE  /\ life'[g].pc = p /\ life'[g].requested = life[g].requested
         /\ life'[g].result = life[g].result
BY DEF Goto, Become, TypeOK, TableTypes, Life

LEMMA FinishField ==
  ASSUME TypeOK, NEW g \in Gens, NEW p, Become(g, At(p))
  PROVE  life'[g].pc = p /\ ~life'[g].requested
BY DEF Become, At, TypeOK, TableTypes

LEMMA LaunchAdvances ==
  ASSUME TypeOK, RunningIsOwned, CancelInv, GoroutineInv,
         NEW g \in Gens, g = generation, StartStep(g)
  PROVE  LaunchGoesOn(g) \/ Publish(g) \/ Over(g)
<1> USE DEF StartPcs, EndPcs
<1>0. /\ life[g].pc \in StartPcs => ~running /\ ~life[g].requested
      /\ life[g].old # NoCtx => life[g].old[1] < g
      /\ running \in BOOLEAN
  BY DEF RunningIsOwned, Live, RunPcs, WaitPcs, RestartPcs, GoroutineInv, TypeOK, FlagTypes
<1>1. CASE CancelPrevious(g)
  <2>1. life'[g].pc = "options" /\ ~life'[g].requested
    BY <1>1, FinishField DEF CancelPrevious
  <2>2. life[g].old # RunCtx(g) /\ life[g].old # RestartCtx(g)
    BY <1>0, CtxFacts
  <2> QED BY <1>1, <2>1, <2>2 DEF CancelPrevious, LaunchGoesOn, Cancel
<1>2. CASE OptionsFail(g)
  <2>1. life'[g].pc = "void"
    BY <1>2, FinishField DEF OptionsFail
  <2> QED BY <1>0, <1>2, <2>1 DEF OptionsFail, SetTerminalErrorFor, TerminalError, Over
<1>3. CASE OptionsOk(g)
  <2>1. life'[g].pc = "publish" /\ ~life'[g].requested
    BY <1>0, <1>3, GotoField DEF OptionsOk
  <2> QED BY <1>3, <2>1 DEF OptionsOk, LaunchGoesOn
<1>4. CASE PublishRefused(g)
  <2>1. life'[g].pc = "void" /\ ~running
    BY <1>0, <1>4, FinishField DEF PublishRefused
  <2> QED BY <1>4, <2>1 DEF PublishRefused, Over, inst
<1> QED BY <1>1, <1>2, <1>3, <1>4 DEF StartStep

LEMMA RunAdvances ==
  ASSUME TypeOK, RunningIsOwned, GoroutineInv,
         NEW g \in Gens, g = generation, running, Advance(g)
  PROVE  RunGoesOn(g) \/ RunExit(g)
<1> USE DEF RunPcs
<1>0. life[g].pc \in RunPcs /\ ~life[g].requested /\ life[g] \in Life
  BY DEF RunningIsOwned, Live, WaitPcs, RestartPcs, GoroutineInv, TypeOK, TableTypes
<1>1. Setup(g) \/ RunCancelled(g) \/ HandleResult(g) \/ RunExit(g) \/ Fault(g)
  BY <1>0 DEF Advance, StartStep, CancelPrevious, OptionsFail, OptionsOk, Publish,
              PublishRefused, RunStep, Recheck, RestartCanceled, AutoCheck, PolicyError,
              PolicyOff, Schedule, ScheduleStale, TimerFires, RestartRefused, RestartReturns
<1>2. CASE Setup(g)
  <2>1. life'[g].pc = "live" /\ ~life'[g].requested
    BY <1>0, <1>2, GotoField DEF Setup
  <2>2. monitor'[g] = "firing" => monitor[g] = "firing"
    BY <1>2 DEF Setup, TypeOK, TableTypes
  <2> QED BY <1>0, <1>2, <2>1, <2>2 DEF Setup, MarkRunning, RunGoesOn, inst
<1>3. CASE RunCancelled(g)
  <2>1. life'[g] = [life[g] EXCEPT !.pc = "exit", !.result = "cancelled"]
    BY <1>3 DEF RunCancelled, Become, TypeOK, TableTypes
  <2>2. life'[g].pc = "exit" /\ ~life'[g].requested
    BY <1>0, <2>1 DEF Life
  <2> QED BY <1>0, <1>3, <2>2 DEF RunCancelled, RunGoesOn, inst
<1>4. CASE HandleResult(g)
  <2>1. life'[g].pc = "exit" /\ ~life'[g].requested
    BY <1>0, <1>4, GotoField DEF HandleResult
  <2> QED BY <1>0, <1>4, <2>1 DEF HandleResult, RunGoesOn
<1>5. CASE RunEnds(g)
  <2>1. PICK r \in {"clean", "retryable", "fatal"} :
           Become(g, [life[g] EXCEPT !.pc = "returned", !.result = r])
    BY <1>5 DEF RunEnds
  <2>2. life'[g] = [life[g] EXCEPT !.pc = "returned", !.result = r]
    BY <2>1 DEF Become, TypeOK, TableTypes
  <2>3. life'[g].pc = "returned" /\ ~life'[g].requested
    BY <1>0, <2>2 DEF Life
  <2> QED BY <1>0, <1>5, <2>3 DEF RunEnds, RunGoesOn, inst
<1>6. CASE RunPanics(g)
  <2>1. life'[g] = [life[g] EXCEPT !.pc = "exit", !.result = "panic"]
    BY <1>6 DEF RunPanics, Become, TypeOK, TableTypes
  <2>2. life'[g].pc = "exit" /\ ~life'[g].requested
    BY <1>0, <2>1 DEF Life
  <2> QED BY <1>0, <1>6, <2>2 DEF RunPanics, RunGoesOn
<1> QED BY <1>1, <1>2, <1>3, <1>4, <1>5, <1>6 DEF Fault

\* The end of the current run, up to the restart decision.
LEMMA RunExits ==
  ASSUME TypeOK, RunningIsOwned, NEW g \in Gens, RunExit(g)
  PROVE  /\ g = generation /\ running /\ ~running' /\ ~restartRequested'
         /\ life'[g].pc = "recheck" /\ life'[g].requested = restartRequested
         /\ life'[g].result = life[g].result
         /\ cancel' = (IF restartRequested THEN RestartCtx(g) ELSE cancel)
         /\ LET again == ShouldRestartAfterExit(g, restartRequested)
            IN  /\ again => phase' = phase
                /\ ~again => phase' \in {"stopped", "error"}
         /\ nextRetryAt' => nextRetryAt
         /\ UNCHANGED <<generation, done, cancelled, monitor, stopper, wanted>>
<1>1. g = generation /\ running
  BY DEF RunExit, RunningIsOwned, Live, RunPcs
<1>2. life'[g] = [life[g] EXCEPT !.pc = "recheck", !.requested = restartRequested]
  BY <1>1 DEF RunExit, Become, TypeOK, TableTypes
<1>3. /\ life'[g].pc = "recheck" /\ life'[g].requested = restartRequested
      /\ life'[g].result = life[g].result
  BY <1>2 DEF TypeOK, TableTypes, Life
<1> QED BY <1>1, <1>3 DEF RunExit

LEMMA WaitAdvances ==
  ASSUME TypeOK, RunningIsOwned, GoroutineInv,
         NEW g \in Gens, g = generation, life[g].pc \in RestartPcs, Advance(g)
  PROVE  WaitGoesOn(g) \/ Scheduled(g) \/ Over(g)
<1> USE DEF RestartPcs, WaitPcs, EndPcs
<1>0. ~running /\ life[g].pc # "inStart" /\ running \in BOOLEAN
  BY CtxFacts DEF RunningIsOwned, Live, RunPcs, GoroutineInv, TypeOK, FlagTypes
<1>1. \/ Recheck(g) \/ RestartCanceled(g) \/ AutoCheck(g) \/ PolicyError(g)
      \/ PolicyOff(g) \/ Schedule(g) \/ TimerFires(g) \/ RestartRefused(g)
  BY <1>0 DEF Advance, StartStep, CancelPrevious, OptionsFail, OptionsOk, Publish,
              PublishRefused, RunStep, Setup, RunCancelled, HandleResult, RunExit, Fault,
              RunEnds, RunPanics, ScheduleStale, RestartReturns
<1>2. CASE Recheck(g)
  <2>1. CASE Goto(g, "autoCheck")
    BY <1>2, <2>1, GotoField DEF Recheck, WaitGoesOn
  <2>2. CASE Finish(g)
    <3>1. life'[g].pc = "closed"
      BY <2>2, FinishField DEF Finish
    <3> QED BY <1>0, <1>2, <3>1 DEF Recheck, Over, inst
  <2> QED BY <1>2, <2>1, <2>2 DEF Recheck
<1>3. CASE AutoCheck(g)
  BY <1>3, GotoField DEF AutoCheck, WaitGoesOn
<1>4. CASE TimerFires(g)
  <2>1. /\ life[g].pc = "waiting" /\ life'[g].pc = "restarting"
        /\ life'[g].requested = life[g].requested /\ life'[g].result = life[g].result
    BY <1>4, GotoField DEF TimerFires
  <2>2. UNCHANGED <<inst, monitor, cancelled>>
    BY <1>4 DEF TimerFires
  <2> QED BY <1>4, <2>1, <2>2 DEF WaitGoesOn
<1>5. CASE Schedule(g)
  <2>1. CASE Goto(g, "waiting") /\ phase' = "reconnecting"
    BY <1>5, <2>1, GotoField DEF Schedule, Scheduled
  <2>2. CASE Finish(g) /\ phase' = "error" /\ ~nextRetryAt'
    <3>1. life'[g].pc = "closed"
      BY <2>2, FinishField DEF Finish
    <3> QED BY <1>0, <1>5, <2>2, <3>1 DEF Schedule, Over
  <2> QED BY <1>5, <2>1, <2>2 DEF Schedule
<1>6. CASE RestartCanceled(g) \/ PolicyError(g) \/ PolicyOff(g) \/ RestartRefused(g)
  <2>1. life'[g].pc = "closed"
    BY <1>6, FinishField DEF RestartCanceled, PolicyError, PolicyOff, RestartRefused, Finish
  <2>2. CASE RestartCanceled(g)
    BY <1>0, <2>1, <2>2 DEF RestartCanceled, FinishCanceledRestart, Over, inst
  <2>3. CASE PolicyError(g)
    BY <1>0, <2>1, <2>3 DEF PolicyError, SetTerminalErrorFor, TerminalError, Over
  <2>4. CASE PolicyOff(g)
    BY <1>0, <2>1, <2>4 DEF PolicyOff, Over
  <2>5. CASE RestartRefused(g)
    BY <1>0, <2>1, <2>5 DEF RestartRefused, Over, inst
  <2> QED BY <1>6, <2>2, <2>3, <2>4, <2>5
<1> QED BY <1>1, <1>2, <1>3, <1>4, <1>5, <1>6

\* Together: what a step of the current goroutine is.
LEMMA CurrentAdvances ==
  ASSUME TypeOK, RunningIsOwned, CancelInv, GoroutineInv,
         NEW g \in Gens, g = generation, Advance(g)
  PROVE  \/ LaunchGoesOn(g) \/ Publish(g)
         \/ RunGoesOn(g) \/ RunExit(g)
         \/ WaitGoesOn(g) \/ Scheduled(g)
         \/ Over(g)
<1>1. CASE StartStep(g)
  BY <1>1, LaunchAdvances
<1>2. CASE running
  BY <1>2, RunAdvances
<1>3. CASE ~running /\ ~StartStep(g)
  <2>1. life[g].pc \notin RunPcs
    BY <1>3 DEF RunningIsOwned, Live
  <2>2. life[g].pc \in RestartPcs
    BY <1>3, <2>1
       DEF Advance, RunStep, Setup, RunCancelled, HandleResult, RunExit, Recheck, Fault,
           RunEnds, RunPanics, RestartCanceled, AutoCheck, PolicyError, PolicyOff, Schedule,
           ScheduleStale, TimerFires, RestartRefused, RestartReturns, RunPcs, RestartPcs
  <2> QED BY <2>2, WaitAdvances
<1> QED BY <1>1, <1>2, <1>3

-----------------------------------------------------------------------------
(***************************************************************************)
(* The slot: what the instance says of a launch, a run and a watchdog      *)
(* request of the current generation.                                      *)
(***************************************************************************)
SlotInv == LaunchInv /\ RunInv /\ WatchdogRequestIsValid

Ownership == RunningIsOwned /\ ContextInv /\ SlotInv

LEMMA OwnershipParts == OwnershipInv <=> TypeOK /\ Ownership
BY DEF OwnershipInv, Ownership, ContextInv, SlotInv

\* A step that leaves the current generation and the instance alone.
LEMMA SlotKept ==
  ASSUME SlotInv, UNCHANGED inst,
         generation > 0 =>
           /\ life'[generation].pc \in StartPcs => life[generation].pc \in StartPcs
           /\ life'[generation].pc \in StartPcs /\ monitor[generation] = "off"
                => monitor'[generation] = "off"
           /\ life'[generation].pc \in StartPcs /\ RunCtx(generation) \in cancelled'
                => RunCtx(generation) \in cancelled
  PROVE  SlotInv'
BY DEF SlotInv, LaunchInv, RunInv, WatchdogRequestIsValid, inst, Pc, Cancelled

LEMMA OthersAdvance ==
  ASSUME TypeOK, RunningIsOwned, GoroutineInv, NEW g \in Gens, g # generation, Advance(g)
  PROVE  /\ generation \in Gens /\ generation > 0
         /\ UNCHANGED <<inst, monitor, stopper, wanted>>
         /\ life'[generation] = life[generation]
         /\ RunCtx(generation) \in cancelled' <=> RunCtx(generation) \in cancelled
         /\ RestartCtx(generation) \in cancelled' <=> RestartCtx(generation) \in cancelled
<1>1. generation \in Gens /\ generation > 0
  BY DEF TypeOK, FieldTypes, Gens
<1>2. PICK l : Moves(g, l)
  BY AdvanceMoves
<1>3. life'[generation] = life[generation]
  BY <1>1, <1>2, OthersStay DEF Moves
<1> QED BY <1>1, <1>3, OldIsInert, AdvanceMoves, CtxFacts

LEMMA SlotAdvance ==
  ASSUME TypeOK, Ownership, NEW g \in Gens, Advance(g)
  PROVE  SlotInv'
<1> USE DEF Ownership, ContextInv
<1>0. generation > 0 /\ generation \in Gens
  BY CtxFacts DEF Gens
<1>1. CASE g # generation
  BY <1>1, OthersAdvance, SlotKept
<1>2. CASE g = generation
  <2>1. CASE LaunchGoesOn(g)
    BY <1>2, <2>1, SlotKept DEF LaunchGoesOn
  <2>2. CASE Publish(g)
    <3>1. life'[g].pc = "setup"
      BY <2>2, GotoField DEF Publish
    <3>2. life[g].pc \in StartPcs /\ ~running
      BY <1>2, <2>2 DEF Publish, StartPcs, RunningIsOwned, Live, RunPcs
    <3>3. /\ phase = "starting" /\ cancel = RunCtx(g) /\ done = g
          /\ ~restartRequested
      BY <1>0, <1>2, <3>2 DEF SlotInv, LaunchInv, WatchdogRequestIsValid, Pc
    <3>4. UNCHANGED <<generation, phase, cancel, done, restartRequested>> /\ running'
      BY <2>2 DEF Publish
    <3> QED
      BY <1>0, <1>2, <3>1, <3>3, <3>4, CtxFacts
         DEF SlotInv, LaunchInv, RunInv, WatchdogRequestIsValid, Pc, StartPcs
  <2>3. CASE RunGoesOn(g)
    <3>1. life'[g].pc \notin StartPcs
      BY <2>3 DEF RunGoesOn, RunPcs, StartPcs
    <3> QED
      BY <1>2, <2>3, <3>1 DEF RunGoesOn, SlotInv, LaunchInv, RunInv, WatchdogRequestIsValid, Pc
  <2>4. CASE RunExit(g)
    BY <1>2, <2>4, RunExits
       DEF SlotInv, LaunchInv, RunInv, WatchdogRequestIsValid, Pc, StartPcs
  <2>5. CASE WaitGoesOn(g)
    <3>1. life'[g].pc \notin StartPcs
      BY <2>5 DEF WaitGoesOn, WaitPcs, RestartPcs, StartPcs
    <3> QED BY <1>2, <2>5, <3>1, SlotKept DEF WaitGoesOn
  <2>6. CASE Scheduled(g)
    <3>1. life'[g].pc \notin StartPcs /\ ~running
      BY <1>2, <2>6 DEF Scheduled, StartPcs, RunningIsOwned, Live, RunPcs
    <3> QED
      BY <1>2, <2>6, <3>1
         DEF Scheduled, SlotInv, LaunchInv, RunInv, WatchdogRequestIsValid, Pc
  <2>7. CASE Over(g)
    <3>1. life'[g].pc \notin StartPcs
      BY <2>7 DEF Over, StartPcs, EndPcs
    <3> QED
      BY <1>2, <2>7, <3>1 DEF Over, SlotInv, LaunchInv, RunInv, WatchdogRequestIsValid, Pc
  <2> QED BY <1>2, <2>1, <2>2, <2>3, <2>4, <2>5, <2>6, <2>7, CurrentAdvances
<1> QED BY <1>1, <1>2

\* Reserving a lifecycle, by Start or by a restart of the generation `from'.
LEMMA OwnershipReserve ==
  ASSUME TypeOK, Ownership, ~running, NEW from \in 0..generation, Reserve(from)
  PROVE  ContextInv' /\ SlotInv'
<1> USE DEF Ownership
<1> DEFINE l == [At("reserved") EXCEPT !.old = cancel]
<1>1. /\ l \in Life /\ l.pc = "reserved" /\ l.old = cancel /\ ~l.requested
  BY DEF At, Life, TypeOK, FieldTypes, Results, LifePcs, StartPcs
<1>2. NewGeneration(l, from)
  BY DEF Reserve
<1> HIDE DEF l
<1>3. /\ generation \in Nat /\ generation' = generation + 1
      /\ life'[generation + 1] = l /\ monitor'[generation + 1] = "off"
  BY <1>1, <1>2, NewGenerationType DEF TypeOK, FieldTypes
<1>4. ContextInv'
  BY <1>1, <1>2, NewGenerationContext DEF Reserve
<1>5. RunCtx(generation + 1) \notin cancelled'
  BY <1>3 DEF Reserve, ContextInv, CancelInv, RunCtx
<1>6. LaunchInv'
  BY <1>1, <1>3, <1>5 DEF Reserve, LaunchInv, Pc, Cancelled
<1>7. RunInv' /\ WatchdogRequestIsValid'
  BY DEF Reserve, RunInv, WatchdogRequestIsValid
<1> QED BY <1>4, <1>6, <1>7 DEF SlotInv

LEMMA OwnershipStopIdle ==
  ASSUME TypeOK, Ownership, NEW s \in Stoppers, StopIdle(s)
  PROVE  ContextInv' /\ SlotInv'
<1> USE DEF Ownership
<1>0. ~running /\ ~running' /\ ~restartRequested' /\ cancel' = NoCtx
  BY DEF StopIdle
<1>1. CASE cancel = NoCtx
  <2>1. UNCHANGED <<generation, life, monitor, stopper, cancelled, running>>
    BY <1>1 DEF StopIdle
  <2>2. ContextInv'
    BY <1>0, <2>1 DEF ContextInv, CancelInv, GoroutineInv, StopperInv, StopWaitIsServed, Gens
  <2>3. generation > 0 => life'[generation].pc \notin StartPcs
    <3>1. generation > 0 => cancel # RunCtx(generation)
      BY <1>1, CtxFacts DEF Gens, TypeOK, FieldTypes
    <3> QED BY <2>1, <3>1 DEF SlotInv, LaunchInv, Pc
  <2>4. SlotInv'
    BY <1>0, <2>1, <2>3 DEF SlotInv, LaunchInv, RunInv, WatchdogRequestIsValid, Pc
  <2> QED BY <2>2, <2>4
<1>2. CASE cancel # NoCtx
  <2>1. /\ At("void") \in Life /\ At("void").old = NoCtx /\ ~At("void").requested
        /\ At("void").pc = "void"
    BY AtFields DEF LifePcs, EndPcs
  <2>2. NewGeneration(At("void"), 0) /\ UNCHANGED <<running, cancelled>>
    BY <1>2 DEF StopIdle
  <2>3. \A t \in Stoppers :
           stopper'[t] = stopper[t]
             \/ stopper'[t] = [pc |-> "cancel", gen |-> 0, ctx |-> cancel]
    BY <1>2 DEF StopIdle, TypeOK, TableTypes
  <2>4. 0 \in 0..generation
    BY DEF TypeOK, FieldTypes
  <2>5. ContextInv'
    BY <1>0, <2>1, <2>2, <2>3, <2>4, NewGenerationContext
  <2>6. generation' = generation + 1 /\ life'[generation + 1] = At("void")
    BY <2>1, <2>2, <2>4, NewGenerationType
  <2>7. SlotInv'
    BY <1>0, <2>1, <2>6
       DEF SlotInv, LaunchInv, RunInv, WatchdogRequestIsValid, Pc, StartPcs
  <2> QED BY <2>5, <2>7
<1> QED BY <1>1, <1>2

LEMMA OwnershipStopRunning ==
  ASSUME TypeOK, Ownership, NEW s \in Stoppers, StopRunning(s)
  PROVE  ContextInv' /\ SlotInv'
<1> USE DEF Ownership
<1>0. /\ running /\ running' /\ phase' = "stopping" /\ cancel' = NoCtx /\ ~restartRequested'
      /\ UNCHANGED <<generation, done, cancelled, life, monitor>>
  BY DEF StopRunning
<1>1. /\ done = generation /\ generation > 0
      /\ life[generation].pc \in RunPcs
      /\ cancel \in {NoCtx, RunCtx(generation)}
  BY <1>0, CtxFacts
     DEF SlotInv, RunInv, RunningIsOwned, Live, Gens, TypeOK, FieldTypes
<1>2. \A t \in Stoppers :
         \/ stopper'[t] = stopper[t]
         \/ stopper'[t] = [pc |-> "cancel", gen |-> generation, ctx |-> cancel]
  BY <1>1 DEF StopRunning, TypeOK, TableTypes
<1>3. CancelInv' /\ GoroutineInv'
  BY <1>0 DEF ContextInv, CancelInv, GoroutineInv, Gens
<1>4. StopperInv'
  BY <1>0, <1>1, <1>2 DEF ContextInv, StopperInv
<1>5. StopWaitIsServed'
  <2>1. life[generation].pc \notin StartPcs \cup {"void"}
    BY <1>1 DEF RunPcs, StartPcs
  <2> QED BY <1>0, <1>2, <2>1 DEF ContextInv, StopWaitIsServed
<1>6. SlotInv'
  BY <1>0, <1>1 DEF SlotInv, LaunchInv, RunInv, WatchdogRequestIsValid, Pc, StartPcs, RunPcs
<1> QED BY <1>3, <1>4, <1>5, <1>6 DEF ContextInv

\* The later steps of Stop forget the context and, in the end, the generation.
LEMMA StopStepForgets ==
  ASSUME TypeOK, NEW s \in Stoppers, StopStep(s)
  PROVE  \A t \in Stoppers :
           \/ stopper'[t] = stopper[t]
           \/ stopper'[t].pc # "cancel" /\ stopper'[t].gen \in {0, stopper[t].gen}
BY DEF StopStep, StopCancel, StopDone, StopTimeout, IdleStopper, TypeOK, TableTypes

LEMMA OwnershipStopStep ==
  ASSUME TypeOK, Ownership, NEW s \in Stoppers, StopStep(s)
  PROVE  ContextInv' /\ SlotInv'
<1> USE DEF Ownership
<1>0. /\ UNCHANGED <<generation, running, cancel, done, restartRequested, life, monitor>>
      /\ generation \in Nat
  BY DEF StopStep, StopCancel, StopDone, StopTimeout, inst, TypeOK, FieldTypes
<1>1. GoroutineInv'
  BY <1>0 DEF ContextInv, GoroutineInv, Gens
<1>2. StopperInv' /\ StopWaitIsServed'
  <2>1. ASSUME NEW t \in Stoppers, running', stopper'[t].gen = generation'
        PROVE  cancel' = NoCtx
    BY <1>0, <2>1, StopStepForgets DEF ContextInv, StopperInv, RunningIsOwned
  <2>2. ASSUME NEW t \in Stoppers, stopper'[t].pc = "cancel", stopper'[t].ctx # NoCtx
        PROVE  \/ stopper'[t].ctx[1] < generation'
               \/ stopper'[t].ctx = RunCtx(generation) /\ stopper'[t].gen = generation
    BY <1>0, <2>2, StopStepForgets DEF ContextInv, StopperInv
  <2>3. StopWaitIsServed'
    BY <1>0, StopStepForgets DEF ContextInv, StopWaitIsServed
  <2> QED BY <1>0, <2>1, <2>2, <2>3 DEF StopperInv
<1>3. CASE StopCancel(s)
  <2>1. UNCHANGED inst /\ cancelled' = cancelled \cup ({stopper[s].ctx} \ {NoCtx})
    BY <1>3 DEF StopCancel, Cancel
  <2>2. /\ stopper[s].ctx # NoCtx => stopper[s].ctx[1] <= generation
        /\ stopper[s].ctx = RunCtx(generation) => stopper[s].gen = generation
    <3>1. stopper[s].pc = "cancel" /\ stopper[s].ctx \in Contexts \cup {NoCtx}
      BY <1>3 DEF StopCancel, TypeOK, TableTypes
    <3>2. RunCtx(generation)[1] = generation /\ (generation = 0 => RunCtx(generation) \notin Contexts)
      BY <1>0 DEF RunCtx, Contexts
    <3>3. RunCtx(generation) # NoCtx
      BY DEF RunCtx, NoCtx
    <3> QED BY <1>0, <3>1, <3>2, <3>3 DEF ContextInv, StopperInv, Contexts
  <2>3. CancelInv'
    BY <1>0, <2>1, <2>2 DEF ContextInv, CancelInv
  <2>4. generation > 0 /\ life'[generation].pc \in StartPcs /\ RunCtx(generation) \in cancelled'
          => RunCtx(generation) \in cancelled
    BY <1>0, <2>1, <2>2 DEF ContextInv, StopWaitIsServed
  <2>5. SlotInv'
    BY <1>0, <2>1, <2>4, SlotKept
  <2> QED BY <1>1, <1>2, <2>3, <2>5 DEF ContextInv
<1>4. CASE StopDone(s)
  BY <1>0, <1>1, <1>2, <1>4, SlotKept DEF StopDone, ContextInv, CancelInv
<1>5. CASE StopTimeout(s)
  <2>1. cancelled' = cancelled
    BY <1>5 DEF StopTimeout
  <2>2. CancelInv'
    BY <1>0, <2>1 DEF ContextInv, CancelInv
  <2>3. CASE UNCHANGED phase
    <3>1. LaunchInv'
      BY <1>0, <2>1, <2>3 DEF SlotInv, LaunchInv, Pc, Cancelled
    <3>2. RunInv' /\ WatchdogRequestIsValid'
      BY <1>0, <2>3 DEF SlotInv, RunInv, WatchdogRequestIsValid
    <3> QED BY <1>1, <1>2, <2>2, <3>1, <3>2 DEF SlotInv, ContextInv
  <2>4. CASE running /\ done = stopper[s].gen /\ phase' = "stopping"
    <3>1. cancel = NoCtx /\ generation > 0 /\ life[generation].pc \in RunPcs
      BY <1>0, <2>4 DEF ContextInv, StopperInv, SlotInv, RunInv, RunningIsOwned, Live, Gens
    <3>2. phase = "stopping"
      BY <2>4, <3>1 DEF SlotInv, RunInv
    <3>3. LaunchInv'
      BY <1>0, <3>1 DEF LaunchInv, Pc, RunPcs, StartPcs
    <3>4. RunInv' /\ WatchdogRequestIsValid'
      BY <1>0, <2>4, <3>2 DEF SlotInv, RunInv, WatchdogRequestIsValid
    <3> QED BY <1>1, <1>2, <2>2, <3>3, <3>4 DEF SlotInv, ContextInv
  <2> QED BY <1>5, <2>3, <2>4 DEF StopTimeout
<1> QED BY <1>3, <1>4, <1>5 DEF StopStep

LEMMA OwnershipMonitor ==
  ASSUME TypeOK, Ownership, NEW g \in Gens, MonitorStep(g)
  PROVE  ContextInv' /\ SlotInv'
<1> USE DEF Ownership
<1>0. /\ UNCHANGED <<generation, running, cancel, done, life, stopper>>
      /\ generation \in Nat /\ generation > 0 /\ generation \in Gens
  BY CtxFacts DEF MonitorStep, ProbeReady, ProbeFailed, WatchdogCancel, MonitorEnds,
                  MarkRunning, inst, Gens
<1>1. GoroutineInv' /\ StopperInv' /\ StopWaitIsServed'
  BY <1>0 DEF ContextInv, GoroutineInv, StopperInv, StopWaitIsServed, Gens
<1>2. CancelInv'
  <2>1. \A c \in cancelled' : c \in cancelled \/ c[1] <= generation
    <3>1. RunCtx(g)[1] <= generation
      BY CtxFacts
    <3> QED
      BY <3>1 DEF MonitorStep, ProbeReady, ProbeFailed, WatchdogCancel, MonitorEnds, Cancel
  <2> QED BY <1>0, <2>1 DEF ContextInv, CancelInv
<1>3. SlotInv'
  <2>1. running => life[generation].pc \notin StartPcs
    BY <1>0 DEF RunningIsOwned, Live, RunPcs, StartPcs
  <2>2. CASE ProbeReady(g)
    BY <1>0, <2>1, <2>2 DEF ProbeReady, MarkRunning, inst, SlotInv, LaunchInv, RunInv,
                            WatchdogRequestIsValid, Pc, Cancelled
  <2>3. CASE ProbeFailed(g)
    <3>1. CASE MayRequestRestart(g)
      BY <1>0, <2>1, <2>3, <3>1 DEF ProbeFailed, MayRequestRestart, SlotInv, LaunchInv, RunInv,
                            WatchdogRequestIsValid, Pc, Cancelled
    <3>2. CASE ~MayRequestRestart(g)
      <4>1. UNCHANGED <<phase, restartRequested, cancelled>>
            /\ (monitor[generation] = "off" => monitor'[generation] = "off")
        BY <1>0, <2>3, <3>2 DEF ProbeFailed, TypeOK, TableTypes
      <4> QED
        BY <1>0, <4>1 DEF SlotInv, LaunchInv, RunInv, WatchdogRequestIsValid, Pc, Cancelled
    <3> QED BY <3>1, <3>2
  <2>4. CASE WatchdogCancel(g)
    <3>1. monitor[generation] = "off" => g # generation /\ monitor'[generation] = "off"
      BY <1>0, <2>4 DEF WatchdogCancel, TypeOK, TableTypes
    <3>2. g # generation => RunCtx(g) # RunCtx(generation)
      BY DEF RunCtx
    <3>3. UNCHANGED inst /\ (g # generation /\ RunCtx(generation) \in cancelled'
             => RunCtx(generation) \in cancelled)
      BY <2>4, <3>2 DEF WatchdogCancel, Cancel
    <3> QED BY <1>0, <3>1, <3>3 DEF inst, SlotInv, LaunchInv, RunInv,
                            WatchdogRequestIsValid, Pc, Cancelled
  <2>5. CASE MonitorEnds(g)
    <3>1. monitor[generation] = "off" => monitor'[generation] = "off"
      BY <1>0, <2>5 DEF MonitorEnds, TypeOK, TableTypes
    <3> QED BY <1>0, <2>5, <3>1, SlotKept DEF MonitorEnds
  <2> QED BY <2>2, <2>3, <2>4, <2>5 DEF MonitorStep
<1> QED BY <1>1, <1>2, <1>3 DEF ContextInv

LEMMA OwnershipInit == Init => Ownership
BY DEF Init, Ownership, RunningIsOwned, ContextInv, CancelInv, GoroutineInv, StopperInv,
       StopWaitIsServed, SlotInv, LaunchInv, RunInv, WatchdogRequestIsValid, IdleStopper, Gens

\* Every step is a command of the user, a step of a generation's goroutine or
\* of its watchdog.
LEMMA Steps ==
  ASSUME Next
  PROVE  \/ Start
         \/ \E s \in Stoppers : StopIdle(s) \/ StopRunning(s) \/ StopStep(s)
         \/ \E g \in Gens : Advance(g) \/ Restart(g) \/ MonitorStep(g)
BY DEF Next, Advance, RestartStep

LEMMA OwnershipNext == TypeOK /\ OwnerInv /\ Ownership /\ [Next]_vars => Ownership'
<1> SUFFICES ASSUME TypeOK, OwnerInv, Ownership, [Next]_vars PROVE Ownership'
  OBVIOUS
<1>1. RunningIsOwned'
  BY OwnerNext DEF OwnerInv
<1>2. SUFFICES ContextInv' /\ SlotInv'
  BY <1>1 DEF Ownership
<1>3. CASE Start
  <2>1. 0 \in 0..generation /\ ~running /\ Reserve(0)
    BY <1>3 DEF TypeOK, FieldTypes, Start, Busy
  <2> QED BY <2>1, OwnershipReserve
<1>4. ASSUME NEW g \in Gens, Restart(g) PROVE ContextInv' /\ SlotInv'
  <2>1. g \in 0..generation /\ ~running /\ Reserve(g)
    BY <1>4 DEF TypeOK, FieldTypes, Gens, Restart, MayReplace, Busy
  <2> QED BY <2>1, OwnershipReserve
<1>5. ASSUME NEW g \in Gens, Advance(g) PROVE ContextInv' /\ SlotInv'
  BY <1>5, AdvanceContext, SlotAdvance DEF Ownership
<1>6. CASE UNCHANGED vars
  <2>1. UNCHANGED <<inst, cancelled, life, monitor, stopper>>
    BY <1>6 DEF vars
  <2>2. ContextInv'
    BY <2>1 DEF Ownership, ContextInv, CancelInv, GoroutineInv, StopperInv, StopWaitIsServed,
                inst, Gens
  <2> QED BY <2>1, <2>2, SlotKept DEF Ownership
<1> QED
  BY <1>3, <1>4, <1>5, <1>6, Steps, OwnershipStopIdle, OwnershipStopRunning,
     OwnershipStopStep, OwnershipMonitor

\* Whatever the scheduler does: contexts are cancelled by their owners only, a
\* launch that nobody superseded owns the instance, a watchdog request belongs
\* to a live run that nobody stopped, and Stop waits only for a channel that
\* will be closed.
THEOREM OwnershipHolds == Spec => []OwnershipInv
<1>1. Spec => [](TypeOK /\ OwnerInv)
  BY InitType, TypeNext, OwnerInit, OwnerNext, PTL DEF Spec
<1>2. Init => Ownership
  BY OwnershipInit
<1>3. TypeOK /\ OwnerInv /\ Ownership /\ [Next]_vars => Ownership'
  BY OwnershipNext
<1>4. OwnershipInv <=> TypeOK /\ Ownership
  BY OwnershipParts
<1> QED BY <1>1, <1>2, <1>3, <1>4, PTL DEF Spec

-----------------------------------------------------------------------------
(***************************************************************************)
(* Intent: what the user last asked for against what the instance does.    *)
(***************************************************************************)
Intent == IntentInv /\ RestartInv /\ PhaseHasOwner /\ RetryTimeIsHonest

LEMMA IInvParts == IInv <=> TypeOK /\ Ownership /\ Intent
BY OwnershipParts DEF IInv, Intent

\* A step of another goroutine leaves all of it alone.
LEMMA IntentKept ==
  ASSUME Intent, UNCHANGED <<inst, wanted, stopper>>,
         generation > 0 =>
           /\ life'[generation] = life[generation]
           /\ monitor'[generation] = "firing" => monitor[generation] = "firing"
           /\ RunCtx(generation) \in cancelled' <=> RunCtx(generation) \in cancelled
           /\ RestartCtx(generation) \in cancelled' <=> RestartCtx(generation) \in cancelled
  PROVE  Intent'
<1>0. UNCHANGED <<generation, phase, running, cancel, restartRequested, nextRetryAt>>
  BY DEF inst
<1>1. CommandInv'
  BY <1>0 DEF Intent, IntentInv, CommandInv, Active, Pc
<1>2. UnwantedInv'
  BY <1>0 DEF Intent, IntentInv, UnwantedInv, Active, Pc, Cancelled
<1>3. WantedInv'
  BY <1>0 DEF Intent, IntentInv, WantedInv, Active, Pc, Cancelled
<1>4. RestartInv'
  BY <1>0 DEF Intent, RestartInv, Pc, RestartAllowed
<1>5. PhaseHasOwner' /\ RetryTimeIsHonest'
  BY <1>0 DEF Intent, PhaseHasOwner, RetryTimeIsHonest
<1> QED BY <1>1, <1>2, <1>3, <1>4, <1>5 DEF Intent, IntentInv

\* The current goroutine is over: nothing is announced any more.
LEMMA IntentEnds ==
  ASSUME Intent, generation > 0, UNCHANGED <<generation, stopper, wanted>>, ~running',
         life'[generation].pc \in EndPcs,
         phase' \notin {"starting", "running", "reconnecting"}, ~nextRetryAt',
         phase' = "stopping" => phase = "stopping"
  PROVE  Intent'
<1> USE DEF EndPcs
<1>1. CommandInv' /\ WantedInv'
  BY DEF Intent, IntentInv, CommandInv, WantedInv, Active, Pc
<1>2. UnwantedInv'
  BY DEF Intent, IntentInv, UnwantedInv, Active, Pc
<1>3. RestartInv'
  BY DEF RestartInv, Pc, WaitPcs, RestartPcs
<1>4. PhaseHasOwner' /\ RetryTimeIsHonest'
  BY DEF PhaseHasOwner, RetryTimeIsHonest
<1> QED BY <1>1, <1>2, <1>3, <1>4 DEF Intent, IntentInv

\* A pending restart of a tunnel that is still wanted has an open context.
LEMMA WaitCtxOpen ==
  ASSUME TypeOK, Ownership, Intent, generation > 0, Pc \in WaitPcs, wanted
  PROVE  ~Cancelled(WaitCtx(generation))
<1>1. Active /\ ~running
  BY DEF Active, Pc, WaitPcs, RestartPcs, EndPcs, RunPcs, Ownership, RunningIsOwned, Live, Gens,
         TypeOK, FieldTypes
<1>2. ~restartRequested
  BY <1>1 DEF Ownership, SlotInv, WatchdogRequestIsValid
<1> QED
  BY <1>1, <1>2 DEF Intent, IntentInv, WantedInv, WaitCtx

LEMMA IntentLaunchGoesOn ==
  ASSUME TypeOK, Ownership, Intent, NEW g \in Gens, g = generation, Advance(g),
         LaunchGoesOn(g)
  PROVE  Intent'
<1>1. /\ generation > 0 /\ life[generation].pc \in StartPcs
      /\ life'[generation].pc \in StartPcs
      /\ UNCHANGED <<generation, phase, running, cancel, restartRequested, nextRetryAt>>
      /\ UNCHANGED <<stopper, wanted, monitor>>
      /\ ContextInv
  BY CtxFacts, AdvanceMoves DEF LaunchGoesOn, Ownership, ContextInv, inst
<1>2. /\ life'[generation].pc \notin EndPcs /\ life[generation].pc \notin EndPcs
      /\ life'[generation].pc \notin WaitPcs
      /\ life[generation].pc \notin {"waiting", "restarting"}
  BY <1>1 DEF StartPcs, EndPcs, WaitPcs, RestartPcs
<1>3. wanted
  BY <1>1, <1>2 DEF Intent, IntentInv, CommandInv, Active, Pc
<1>4. /\ RunCtx(generation) \notin cancelled' /\ monitor[generation] = "off"
      /\ cancel = RunCtx(generation) /\ RunCtx(generation) # NoCtx
  BY <1>1, CtxFacts DEF LaunchGoesOn, Ownership, SlotInv, LaunchInv, Pc, Cancelled
<1>5. CommandInv' /\ UnwantedInv'
  BY <1>1, <1>3 DEF Intent, IntentInv, CommandInv, UnwantedInv, Active, Pc
<1>6. WantedInv'
  BY <1>1, <1>2, <1>4 DEF Intent, IntentInv, WantedInv, Active, Pc, Cancelled, LaunchGoesOn
<1>7. RestartInv' /\ PhaseHasOwner' /\ RetryTimeIsHonest'
  BY <1>1, <1>2 DEF Intent, RestartInv, PhaseHasOwner, RetryTimeIsHonest, Pc
<1> QED BY <1>5, <1>6, <1>7 DEF Intent, IntentInv

LEMMA IntentPublish ==
  ASSUME TypeOK, Ownership, Intent, NEW g \in Gens, g = generation, Publish(g)
  PROVE  Intent'
<1>1. /\ generation > 0 /\ life[generation].pc \in StartPcs /\ running'
      /\ UNCHANGED <<generation, phase, cancel, restartRequested, nextRetryAt>>
      /\ UNCHANGED <<stopper, wanted, monitor, cancelled>>
      /\ life'[generation].pc = "setup"
  BY CtxFacts, GotoField DEF Publish, StartPcs
<1>2. /\ life[generation].pc \notin EndPcs \cup RunPcs \cup {"waiting", "restarting"}
      /\ life'[generation].pc \notin EndPcs \cup StartPcs \cup WaitPcs
  BY <1>1 DEF StartPcs, EndPcs, RunPcs, WaitPcs, RestartPcs
<1>3. wanted
  BY <1>1, <1>2 DEF Intent, IntentInv, CommandInv, Active, Pc
<1>4. /\ RunCtx(generation) \notin cancelled /\ monitor[generation] = "off"
      /\ cancel = RunCtx(generation) /\ phase = "starting" /\ RunCtx(generation) # NoCtx
  BY <1>1, CtxFacts DEF Ownership, SlotInv, LaunchInv, Pc, Cancelled
<1>5. ~restartRequested
  BY <1>4 DEF Ownership, SlotInv, WatchdogRequestIsValid
<1>6. CommandInv' /\ UnwantedInv'
  BY <1>1, <1>2, <1>3, <1>4, <1>5
     DEF Intent, IntentInv, CommandInv, UnwantedInv, Active, Pc
<1>7. WantedInv'
  BY <1>1, <1>2, <1>4 DEF Intent, IntentInv, WantedInv, Active, Pc, Cancelled
<1>8. RestartInv' /\ PhaseHasOwner' /\ RetryTimeIsHonest'
  BY <1>1, <1>2 DEF Intent, RestartInv, PhaseHasOwner, RetryTimeIsHonest, Pc
<1> QED BY <1>6, <1>7, <1>8 DEF Intent, IntentInv

LEMMA IntentRunGoesOn ==
  ASSUME TypeOK, Ownership, Intent, NEW g \in Gens, g = generation, Advance(g),
         RunGoesOn(g)
  PROVE  Intent'
<1>1. /\ generation > 0 /\ running /\ running'
      /\ life[generation].pc \in RunPcs /\ life'[generation].pc \in RunPcs
      /\ UNCHANGED <<generation, cancel, restartRequested, cancelled>>
      /\ UNCHANGED <<stopper, wanted>>
      /\ ~life'[generation].requested
      /\ monitor'[generation] = "firing" => monitor[generation] = "firing"
  BY CtxFacts, AdvanceMoves DEF RunGoesOn, Ownership, ContextInv
<1>2. /\ life[generation].pc \notin EndPcs \cup StartPcs \cup WaitPcs
      /\ life[generation].pc \notin {"waiting", "restarting"}
      /\ life'[generation].pc \notin EndPcs \cup StartPcs \cup WaitPcs
  BY <1>1 DEF StartPcs, EndPcs, RunPcs, WaitPcs, RestartPcs
<1>3. ~life[generation].requested
  BY <1>1, <1>2 DEF Ownership, ContextInv, GoroutineInv
<1>4. /\ (phase' = "stopping") <=> (phase = "stopping")
      /\ (phase' = "reconnecting") <=> (phase = "reconnecting")
      /\ nextRetryAt' => nextRetryAt /\ UNCHANGED phase
  BY DEF RunGoesOn
<1>5. CommandInv'
  BY <1>1, <1>2, <1>4 DEF Intent, IntentInv, CommandInv, Active, Pc
<1>6. UnwantedInv'
  BY <1>1, <1>2 DEF Intent, IntentInv, UnwantedInv, Active, Pc, Cancelled
<1>7. WantedInv'
  BY <1>1, <1>2, <1>3 DEF Intent, IntentInv, WantedInv, Active, Pc, Cancelled
<1>8. RestartInv' /\ PhaseHasOwner' /\ RetryTimeIsHonest'
  BY <1>1, <1>2, <1>4 DEF Intent, RestartInv, PhaseHasOwner, RetryTimeIsHonest, Pc
<1> QED BY <1>5, <1>6, <1>7, <1>8 DEF Intent, IntentInv

LEMMA IntentRunExit ==
  ASSUME TypeOK, Ownership, Intent, NEW g \in Gens, RunExit(g)
  PROVE  Intent'
<1>0. /\ g = generation /\ running /\ ~running' /\ ~restartRequested'
      /\ life'[generation].pc = "recheck"
      /\ life'[generation].requested = restartRequested
      /\ life'[generation].result = life[generation].result
      /\ cancel' = (IF restartRequested THEN RestartCtx(generation) ELSE cancel)
      /\ nextRetryAt' => nextRetryAt
      /\ UNCHANGED <<generation, cancelled, monitor, stopper, wanted>>
  BY RunExits DEF Ownership
<1>1. /\ generation > 0 /\ life[generation].pc = "exit"
      /\ RestartCtx(generation) # NoCtx
  BY <1>0, CtxFacts DEF RunExit
<1>2. /\ Active /\ Active'
      /\ life[generation].pc \notin {"waiting", "restarting"}
      /\ life'[generation].pc \in WaitPcs \ StartPcs
  BY <1>0, <1>1 DEF Active, Pc, EndPcs, WaitPcs, RestartPcs, StartPcs
<1>3. ~nextRetryAt /\ ~nextRetryAt'
  BY <1>0, <1>2 DEF Intent, RetryTimeIsHonest
<1>4. phase' \in {"starting", "running", "reconnecting"} =>
        restartRequested \/ RestartAllowed(generation)
  BY <1>0, RunExits DEF Ownership, ShouldRestartAfterExit
<1>5. phase' = phase \/ phase' \in {"stopped", "error"}
  BY RunExits DEF Ownership
<1>6. CommandInv'
  BY <1>0, <1>2, <1>5 DEF Intent, IntentInv, CommandInv, Pc
<1>7. UnwantedInv'
  <2>1. ~wanted => ~restartRequested
    BY <1>0 DEF Intent, IntentInv, CommandInv
  <2> QED BY <1>0, <1>2, <2>1 DEF Intent, IntentInv, UnwantedInv, Cancelled
<1>8. WantedInv'
  <2>1. ~life[generation].requested
    BY <1>0, <1>1, CtxFacts DEF Ownership, ContextInv, GoroutineInv, WaitPcs, RestartPcs
  <2> QED BY <1>0, <1>1, <1>2, <2>1 DEF Intent, IntentInv, WantedInv, Cancelled
<1>9. RestartInv'
  <2>1. phase' \in {"starting", "running", "reconnecting"} => wanted
    BY <1>0, <1>5 DEF Intent, IntentInv, CommandInv, Ownership, SlotInv, RunInv
  <2>2. RestartAllowed(generation) => life'[generation].result \in {"clean", "retryable", "panic"}
    BY <1>0 DEF RestartAllowed
  <2> QED BY <1>0, <1>4, <2>1, <2>2 DEF RestartInv, Pc, RestartAllowed
<1>10. PhaseHasOwner' /\ RetryTimeIsHonest'
  BY <1>0, <1>1, <1>2, <1>3 DEF PhaseHasOwner, RetryTimeIsHonest, Active, Pc
<1> QED BY <1>6, <1>7, <1>8, <1>9, <1>10 DEF Intent, IntentInv

\* The one step that relies on the back-off outlasting a pending cancel().
LEMMA TimerMeansWanted ==
  ASSUME TypeOK, Ownership, Intent, ~SlowCancel,
         NEW g \in Gens, g = generation, TimerFires(g)
  PROVE  wanted
<1>1. generation > 0 /\ Active
  BY CtxFacts DEF TimerFires, Active, Pc, EndPcs
<1>2. SUFFICES ASSUME ~wanted PROVE FALSE
  OBVIOUS
<1>3. ~life[generation].requested
  BY <1>1, <1>2 DEF Intent, IntentInv, UnwantedInv
<1>4. WaitCtx(g) = RunCtx(generation)
  BY <1>3 DEF WaitCtx
<1> QED
  BY <1>1, <1>2, <1>4 DEF TimerFires, CancelIsPrompt, Intent, IntentInv, UnwantedInv

LEMMA IntentWaitGoesOn ==
  ASSUME TypeOK, Ownership, Intent, ~SlowCancel,
         NEW g \in Gens, g = generation, Advance(g), WaitGoesOn(g)
  PROVE  Intent'
<1>1. /\ generation > 0 /\ life[generation].pc \in WaitPcs /\ life'[generation].pc \in WaitPcs
      /\ UNCHANGED <<generation, phase, running, cancel, restartRequested, nextRetryAt>>
      /\ UNCHANGED <<stopper, wanted, monitor, cancelled>>
      /\ life'[generation].requested = life[generation].requested
      /\ life'[generation].result = life[generation].result
  BY CtxFacts, AdvanceMoves DEF WaitGoesOn, Ownership, ContextInv, inst
<1>2. /\ life[generation].pc \notin EndPcs \cup StartPcs \cup RunPcs
      /\ life'[generation].pc \notin EndPcs \cup StartPcs
  BY <1>1 DEF StartPcs, EndPcs, RunPcs, WaitPcs, RestartPcs
<1>3. CommandInv' /\ UnwantedInv'
  BY <1>1, <1>2 DEF Intent, IntentInv, CommandInv, UnwantedInv, Active, Pc, Cancelled
<1>4. WantedInv'
  BY <1>1, <1>2 DEF Intent, IntentInv, WantedInv, Active, Pc, Cancelled
<1>5. RestartInv' /\ RetryTimeIsHonest'
  <2>1. CASE \/ life[g].pc = "recheck" /\ life'[g].pc = "autoCheck"
             \/ life[g].pc = "autoCheck" /\ life'[g].pc = "policy"
    BY <1>1, <2>1 DEF Intent, RestartInv, RetryTimeIsHonest, Pc, RestartAllowed
  <2>2. CASE life[g].pc = "waiting" /\ life'[g].pc = "restarting" /\ TimerFires(g)
    <3>1. wanted
      BY <2>2, TimerMeansWanted
    <3>2. life[generation].pc = "waiting" /\ life'[generation].pc = "restarting"
      BY <2>2
    <3>3. phase = "reconnecting"
      BY <1>1, <3>1, <3>2 DEF Intent, RestartInv, Pc
    <3>4. RestartInv'
      BY <1>1, <3>1, <3>2, <3>3 DEF RestartInv, Pc
    <3>5. RetryTimeIsHonest'
      BY <1>1, <3>2, <3>3 DEF RetryTimeIsHonest
    <3> QED BY <3>4, <3>5
  <2> QED BY <2>1, <2>2 DEF WaitGoesOn
<1>6. PhaseHasOwner'
  BY <1>1, <1>2 DEF PhaseHasOwner
<1> QED BY <1>3, <1>4, <1>5, <1>6 DEF Intent, IntentInv

LEMMA IntentScheduled ==
  ASSUME TypeOK, Ownership, Intent, NEW g \in Gens, g = generation, Advance(g),
         Scheduled(g)
  PROVE  Intent'
<1>1. /\ generation > 0 /\ life[generation].pc = "policy" /\ life'[generation].pc = "waiting"
      /\ UNCHANGED <<generation, running, cancel, restartRequested, cancelled, monitor>>
      /\ UNCHANGED <<stopper, wanted>>
      /\ phase' = "reconnecting"
      /\ life'[generation].requested = life[generation].requested
  BY CtxFacts, AdvanceMoves DEF Scheduled, Ownership, ContextInv
<1>2. ~running /\ Active /\ Active'
  BY <1>1, CtxFacts DEF Ownership, RunningIsOwned, Live, RunPcs, Active, Pc, EndPcs
<1>3. CommandInv' /\ UnwantedInv'
  BY <1>1, <1>2 DEF Intent, IntentInv, CommandInv, UnwantedInv, Pc, Cancelled, StartPcs
<1>4. WantedInv'
  BY <1>1, <1>2 DEF Intent, IntentInv, WantedInv, Cancelled
<1>5. RestartInv' /\ PhaseHasOwner' /\ RetryTimeIsHonest'
  BY <1>1, <1>2 DEF RestartInv, PhaseHasOwner, RetryTimeIsHonest, Pc, EndPcs
<1> QED BY <1>3, <1>4, <1>5 DEF Intent, IntentInv

\* A goroutine that ends leaves a stable phase: when it only looked at its
\* context, a Stop had already taken the tunnel over.
LEMMA IntentOver ==
  ASSUME TypeOK, Ownership, Intent, NEW g \in Gens, g = generation, Advance(g), Over(g)
  PROVE  Intent'
<1>1. generation > 0 /\ UNCHANGED <<generation, stopper, wanted>>
  BY CtxFacts, AdvanceMoves DEF Ownership, ContextInv
<1>2. CASE phase' \in {"stopped", "error"} /\ ~nextRetryAt'
  BY <1>1, <1>2, IntentEnds DEF Over
<1>3. CASE UNCHANGED inst /\ (PublishRefused(g) \/ Recheck(g) \/ RestartCanceled(g)
                                \/ RestartRefused(g))
  <2>0. UNCHANGED <<phase, nextRetryAt>> /\ life'[generation].pc \in EndPcs /\ ~running'
    BY <1>3 DEF Over, inst
  <2>1. ~PublishRefused(g)
    BY <1>1 DEF PublishRefused, StillReserved, Ownership, SlotInv, LaunchInv, Pc, StartPcs
  <2>2. life[g].pc \in WaitPcs
    BY <1>3, <2>1 DEF Recheck, RestartCanceled, RestartRefused, WaitPcs, RestartPcs
  <2>3. wanted => ~Cancelled(WaitCtx(g))
    BY <1>1, <2>2, WaitCtxOpen DEF Pc
  <2>4. phase \notin {"starting", "running", "reconnecting"}
    <3>1. CASE Recheck(g)
      <4>1. SUFFICES ASSUME phase \in {"starting", "running", "reconnecting"} PROVE FALSE
        OBVIOUS
      <4>2. wanted /\ (life[g].requested \/ RestartAllowed(g))
        BY <1>1, <2>2, <3>1, <4>1 DEF Recheck, Intent, RestartInv, Pc
      <4>3. ShouldRestartAfterExit(g, life[g].requested)
        BY <2>3, <4>2 DEF ShouldRestartAfterExit, WaitCtx
      <4>4. life'[g].pc = "autoCheck"
        BY <3>1, <4>3, GotoField DEF Recheck
      <4> QED BY <4>4 DEF Over, EndPcs
    <3>2. CASE RestartCanceled(g)
      <4>1. ~wanted
        BY <2>3, <3>2 DEF RestartCanceled
      <4>2. phase # "reconnecting"
        BY <3>2, <2>0 DEF RestartCanceled, FinishCanceledRestart
      <4> QED
        BY <1>1, <2>2, <3>2, <4>1, <4>2 DEF RestartCanceled, Intent, RestartInv, Pc
    <3>3. ~RestartRefused(g)
      <4>1. SUFFICES ASSUME RestartRefused(g) PROVE FALSE
        OBVIOUS
      <4>2. wanted /\ phase = "reconnecting"
        BY <1>1, <2>2, <4>1 DEF RestartRefused, Intent, RestartInv, Pc
      <4>3. ~running
        BY DEF Over
      <4> QED BY <2>3, <4>1, <4>2, <4>3 DEF RestartRefused, MayReplace, Busy
    <3> QED BY <1>3, <2>1, <3>1, <3>2, <3>3
  <2>5. ~nextRetryAt
    BY <2>4 DEF Intent, RetryTimeIsHonest
  <2> QED BY <1>1, <2>0, <2>4, <2>5, IntentEnds
<1> QED BY <1>2, <1>3 DEF Over

LEMMA IntentAdvance ==
  ASSUME TypeOK, Ownership, Intent, ~SlowCancel, NEW g \in Gens, Advance(g)
  PROVE  Intent'
<1>1. CASE g # generation
  BY <1>1, OthersAdvance, IntentKept DEF Ownership, ContextInv
<1>2. CASE g = generation
  <2>1. RunningIsOwned /\ CancelInv /\ GoroutineInv
    BY DEF Ownership, ContextInv
  <2> QED
    BY <1>2, <2>1, CurrentAdvances, IntentLaunchGoesOn, IntentPublish, IntentRunGoesOn,
       IntentRunExit, IntentWaitGoesOn, IntentScheduled, IntentOver
<1> QED BY <1>1, <1>2

LEMMA IntentReserve ==
  ASSUME TypeOK, Ownership, Intent, ~running, NEW from \in 0..generation, Reserve(from),
         wanted'
  PROVE  Intent'
<1> DEFINE l == [At("reserved") EXCEPT !.old = cancel]
<1>1. /\ l \in Life /\ l.pc = "reserved" /\ ~l.requested
  BY DEF At, Life, TypeOK, FieldTypes, Results, LifePcs, StartPcs
<1>2. NewGeneration(l, from)
  BY DEF Reserve
<1> HIDE DEF l
<1>3. /\ generation \in Nat /\ generation' = generation + 1 /\ generation' > 0
      /\ life'[generation'] = l /\ monitor'[generation'] = "off"
  BY <1>1, <1>2, NewGenerationType DEF TypeOK, FieldTypes
<1>4. /\ RunCtx(generation') \notin cancelled' /\ RestartCtx(generation') \notin cancelled'
      /\ RunCtx(generation') # NoCtx
  <2>1. RunCtx(generation')[1] = generation + 1 /\ RestartCtx(generation')[1] = generation + 1
    BY <1>3 DEF RunCtx, RestartCtx
  <2> QED
    BY <1>3, <2>1 DEF Reserve, Ownership, ContextInv, CancelInv, RunCtx, NoCtx
<1>5. ASSUME NEW s \in Stoppers, stopper'[s].pc = "cancel"
      PROVE  stopper'[s].ctx # RunCtx(generation')
  <2>1. stopper'[s] = stopper[s] /\ RunCtx(generation')[1] = generation + 1
    BY <1>3 DEF Reserve, RunCtx
  <2>2. RunCtx(generation)[1] = generation
    BY DEF RunCtx
  <2>3. SUFFICES ASSUME stopper[s].ctx[1] = generation + 1, stopper[s].ctx # NoCtx
                 PROVE  FALSE
    BY <1>4, <2>1
  <2> QED
    BY <1>3, <1>5, <2>1, <2>2, <2>3 DEF Ownership, ContextInv, StopperInv
<1>6. /\ phase' = "starting" /\ ~running' /\ ~nextRetryAt' /\ cancel' = RunCtx(generation')
  BY <1>3 DEF Reserve
<1>7. CommandInv' /\ PhaseHasOwner' /\ RetryTimeIsHonest'
  BY <1>1, <1>3, <1>6 DEF CommandInv, PhaseHasOwner, RetryTimeIsHonest, Pc, EndPcs
<1>8. UnwantedInv'
  BY <1>5 DEF UnwantedInv
<1>9. WantedInv'
  BY <1>3, <1>4, <1>6 DEF WantedInv, Cancelled
<1>10. RestartInv'
  BY <1>1, <1>3 DEF RestartInv, Pc, WaitPcs, RestartPcs
<1> QED BY <1>7, <1>8, <1>9, <1>10 DEF Intent, IntentInv

LEMMA IntentStopIdle ==
  ASSUME TypeOK, Ownership, Intent, NEW s \in Stoppers, StopIdle(s)
  PROVE  Intent'
<1>0. ~running' /\ phase' = "stopped" /\ ~nextRetryAt' /\ ~wanted'
  BY DEF StopIdle, StopCall
<1>1. CASE cancel = NoCtx
  <2>1. UNCHANGED <<generation, life, monitor, stopper, cancelled, running>>
    BY <1>1 DEF StopIdle
  <2>2. Active => ~wanted
    BY <1>1 DEF Intent, IntentInv, WantedInv
  <2>3. CommandInv'
    BY <1>0, <2>1, <2>2 DEF Intent, IntentInv, CommandInv, Active, Pc
  <2>4. UnwantedInv'
    BY <1>0, <2>1, <2>2 DEF Intent, IntentInv, UnwantedInv, Active, Pc, Cancelled
  <2>5. WantedInv'
    BY <1>0, <2>1 DEF Intent, IntentInv, WantedInv, Active, Pc, Cancelled
  <2>6. RestartInv'
    <3>1. generation > 0 => Pc # "restarting"
      BY <2>2 DEF Intent, RestartInv, Active, Pc, WaitPcs, RestartPcs, EndPcs
    <3> QED BY <1>0, <2>1, <3>1 DEF RestartInv, Pc
  <2>7. PhaseHasOwner' /\ RetryTimeIsHonest'
    BY <1>0 DEF PhaseHasOwner, RetryTimeIsHonest
  <2> QED BY <2>3, <2>4, <2>5, <2>6, <2>7 DEF Intent, IntentInv
<1>2. CASE cancel # NoCtx
  <2>1. At("void") \in Life /\ At("void").pc = "void" /\ 0 \in 0..generation
    BY AtFields DEF LifePcs, EndPcs, TypeOK, FieldTypes
  <2>2. NewGeneration(At("void"), 0)
    BY <1>2 DEF StopIdle
  <2>3. life'[generation'].pc = "void"
    BY <2>1, <2>2, NewGenerationType
  <2>4. ~Active'
    BY <2>3 DEF Active, Pc, EndPcs
  <2>5. CommandInv' /\ UnwantedInv' /\ WantedInv'
    BY <1>0, <2>4 DEF CommandInv, UnwantedInv, WantedInv
  <2>6. RestartInv' /\ PhaseHasOwner' /\ RetryTimeIsHonest'
    BY <1>0, <2>3 DEF RestartInv, Pc, WaitPcs, RestartPcs, PhaseHasOwner, RetryTimeIsHonest
  <2> QED BY <2>5, <2>6 DEF Intent, IntentInv
<1> QED BY <1>1, <1>2

LEMMA IntentStopRunning ==
  ASSUME TypeOK, Ownership, Intent, NEW s \in Stoppers, StopRunning(s)
  PROVE  Intent'
<1>0. /\ running /\ running' /\ phase' = "stopping" /\ cancel' = NoCtx /\ ~restartRequested'
      /\ ~wanted' /\ stopper[s].pc = "idle"
      /\ UNCHANGED <<generation, done, cancelled, life, monitor, nextRetryAt>>
  BY DEF StopRunning, StopCall
<1>1. generation > 0 /\ generation \in Gens /\ life[generation].pc \in RunPcs
  BY <1>0 DEF Ownership, RunningIsOwned, Live, Gens, TypeOK, FieldTypes
<1>2. /\ life[generation].pc \notin EndPcs \cup StartPcs \cup WaitPcs
      /\ life[generation].pc \notin {"waiting", "restarting"}
  BY <1>1 DEF EndPcs, StartPcs, WaitPcs, RestartPcs, RunPcs
<1>3. /\ stopper'[s] = [pc |-> "cancel", gen |-> done, ctx |-> cancel]
      /\ \A t \in Stoppers \ {s} : stopper'[t] = stopper[t]
  BY DEF StopRunning, TypeOK, TableTypes
<1>4. CommandInv'
  BY <1>0, <1>2 DEF CommandInv, Pc
<1>5. UnwantedInv'
  <2>1. ~life[generation].requested
    BY <1>1, <1>2 DEF Ownership, ContextInv, GoroutineInv
  <2>2. CASE cancel = RunCtx(generation)
    <3>1. stopper'[s].pc = "cancel" /\ stopper'[s].ctx = RunCtx(generation)
      BY <1>3, <2>2
    <3> QED BY <1>0, <2>1, <3>1 DEF UnwantedInv
  <2>3. CASE cancel = NoCtx
    <3>1. ~wanted
      BY <1>0, <2>3 DEF Ownership, SlotInv, RunInv, Intent, IntentInv, CommandInv
    <3>2. Active
      BY <1>1, <1>2 DEF Active, Pc
    <3>3. \/ Cancelled(RunCtx(generation))
          \/ \E t \in Stoppers : /\ stopper[t].pc = "cancel"
                                 /\ stopper[t].ctx = RunCtx(generation)
      BY <3>1, <3>2 DEF Intent, IntentInv, UnwantedInv
    <3>4. \/ RunCtx(generation) \in cancelled'
          \/ \E t \in Stoppers : /\ stopper'[t].pc = "cancel"
                                 /\ stopper'[t].ctx = RunCtx(generation)
      BY <1>0, <1>3, <3>3 DEF Cancelled
    <3> QED BY <1>0, <2>1, <3>4 DEF UnwantedInv, Cancelled
  <2> QED BY <1>0, <2>2, <2>3 DEF Ownership, SlotInv, RunInv
<1>6. WantedInv'
  BY <1>0 DEF Intent, IntentInv, WantedInv, Active, Pc, Cancelled
<1>7. RestartInv' /\ PhaseHasOwner' /\ RetryTimeIsHonest'
  BY <1>0, <1>2 DEF Intent, RestartInv, PhaseHasOwner, RetryTimeIsHonest, Pc
<1> QED BY <1>4, <1>5, <1>6, <1>7 DEF Intent, IntentInv

LEMMA IntentStopStep ==
  ASSUME TypeOK, Ownership, Intent, NEW s \in Stoppers, StopStep(s)
  PROVE  Intent'
<1>0. /\ UNCHANGED <<generation, running, cancel, restartRequested, nextRetryAt, life,
                     monitor, wanted>>
      /\ cancelled \subseteq cancelled'
  BY DEF StopStep, StopCancel, StopDone, StopTimeout, Cancel, inst
<1>1. UNCHANGED phase
  <2>1. CASE StopTimeout(s) /\ running /\ done = stopper[s].gen
    <3>1. stopper[s].gen = generation
      BY <2>1 DEF Ownership, SlotInv, RunInv
    <3>2. phase = "stopping"
      BY <2>1, <3>1 DEF Ownership, ContextInv, StopperInv, SlotInv, RunInv
    <3> QED BY <2>1, <3>2 DEF StopTimeout
  <2> QED BY <2>1 DEF StopStep, StopCancel, StopDone, StopTimeout, inst
<1>2. \A c \in cancelled' : \/ c \in cancelled
                            \/ c # NoCtx /\ c = stopper[s].ctx /\ stopper[s].pc = "cancel"
  BY DEF StopStep, StopCancel, StopDone, StopTimeout, Cancel
<1>3. ~Cancelled(RestartCtx(generation)) /\ generation > 0 =>
        RestartCtx(generation) \notin cancelled'
  <2>1. generation > 0 => RestartCtx(generation)[1] = generation
                            /\ RestartCtx(generation) # RunCtx(generation)
    BY DEF RestartCtx, RunCtx
  <2>2. generation \in Nat
    BY DEF TypeOK, FieldTypes
  <2> QED
    BY <1>2, <2>1, <2>2 DEF Ownership, ContextInv, StopperInv, Cancelled
<1>4. CommandInv'
  BY <1>0, <1>1 DEF Intent, IntentInv, CommandInv, Active, Pc
<1>5. UnwantedInv'
  <2>1. ASSUME NEW t \in Stoppers, stopper'[t].pc = "cancel",
               stopper'[t].ctx = RunCtx(generation)
        PROVE  ~wanted
    BY <2>1, StopStepForgets DEF Intent, IntentInv, UnwantedInv
  <2>2. ASSUME NEW t \in Stoppers, stopper[t].pc = "cancel",
               stopper[t].ctx = RunCtx(generation)
        PROVE  \/ RunCtx(generation) \in cancelled'
               \/ stopper'[t] = stopper[t]
    <3>1. RunCtx(generation) # NoCtx
      BY DEF RunCtx, NoCtx
    <3>2. CASE t = s
      BY <2>2, <3>1, <3>2 DEF StopStep, StopCancel, StopDone, StopTimeout, Cancel
    <3>3. CASE t # s
      BY <3>3 DEF StopStep, StopCancel, StopDone, StopTimeout, TypeOK, TableTypes
    <3> QED BY <3>2, <3>3
  <2>3. Active' <=> Active
    BY <1>0 DEF Active, Pc
  <2>4. Active /\ ~wanted =>
          /\ \/ RunCtx(generation) \in cancelled'
             \/ \E t \in Stoppers : /\ stopper'[t].pc = "cancel"
                                    /\ stopper'[t].ctx = RunCtx(generation)
          /\ ~life[generation].requested
    BY <1>0, <2>2 DEF Intent, IntentInv, UnwantedInv, Cancelled
  <2> QED BY <1>0, <2>1, <2>3, <2>4 DEF UnwantedInv, Cancelled
<1>6. WantedInv'
  <2>1. wanted /\ RunCtx(generation) \in cancelled' => Cancelled(RunCtx(generation))
    BY <1>2 DEF Intent, IntentInv, UnwantedInv, Cancelled
  <2>2. Active' <=> Active
    BY <1>0 DEF Active, Pc
  <2>3. Active => generation > 0
    BY DEF Active
  <2> QED BY <1>0, <1>3, <2>1, <2>2, <2>3 DEF Intent, IntentInv, WantedInv, Cancelled
<1>7. RestartInv' /\ PhaseHasOwner' /\ RetryTimeIsHonest'
  BY <1>0, <1>1 DEF Intent, RestartInv, PhaseHasOwner, RetryTimeIsHonest, Pc, RestartAllowed
<1> QED BY <1>4, <1>5, <1>6, <1>7 DEF Intent, IntentInv

LEMMA IntentMonitor ==
  ASSUME TypeOK, Ownership, Intent, NEW g \in Gens, MonitorStep(g)
  PROVE  Intent'
<1>0. /\ UNCHANGED <<generation, running, cancel, life, stopper, wanted>>
      /\ generation > 0 /\ generation \in Gens
      /\ running \in BOOLEAN /\ restartRequested \in BOOLEAN
  BY CtxFacts DEF MonitorStep, ProbeReady, ProbeFailed, WatchdogCancel, MonitorEnds,
                  MarkRunning, inst, Gens, TypeOK, FlagTypes
<1>1. Active' <=> Active
  BY <1>0 DEF Active, Pc
<1>2. running => life[generation].pc \notin EndPcs \cup WaitPcs \cup StartPcs
                                             \cup {"waiting", "restarting"}
  BY <1>0 DEF Ownership, RunningIsOwned, Live, RunPcs, EndPcs, WaitPcs, RestartPcs, StartPcs
<1>3. CASE ProbeReady(g)
  <2>1. /\ UNCHANGED <<cancelled, monitor, restartRequested>>
        /\ \/ UNCHANGED <<phase, nextRetryAt>>
           \/ running /\ phase \in {"starting", "running"} /\ phase' = "running" /\ ~nextRetryAt'
    BY <1>3 DEF ProbeReady, MarkRunning, inst
  <2>2. CommandInv'
    BY <1>0, <1>1, <2>1 DEF Intent, IntentInv, CommandInv, Pc
  <2>3. UnwantedInv' /\ WantedInv'
    BY <1>0, <1>1, <2>1 DEF Intent, IntentInv, UnwantedInv, WantedInv, Cancelled
  <2>4. RestartInv' /\ PhaseHasOwner' /\ RetryTimeIsHonest'
    BY <1>0, <1>2, <2>1 DEF Intent, RestartInv, PhaseHasOwner, RetryTimeIsHonest, Pc,
                            RestartAllowed
  <2> QED BY <2>2, <2>3, <2>4 DEF Intent, IntentInv
<1>4. CASE ProbeFailed(g) /\ MayRequestRestart(g)
  <2>1. /\ UNCHANGED <<cancelled, nextRetryAt>> /\ restartRequested' /\ running
        /\ phase' = "reconnecting" /\ g = generation /\ cancel # NoCtx
    BY <1>4 DEF ProbeFailed, MayRequestRestart
  <2>2. wanted
    BY <2>1 DEF Ownership, SlotInv, RunInv, Intent, IntentInv, CommandInv
  <2>3. CommandInv'
    BY <1>0, <1>1, <2>1, <2>2 DEF CommandInv
  <2>4. UnwantedInv' /\ WantedInv'
    BY <1>0, <1>1, <2>1, <2>2 DEF Intent, IntentInv, UnwantedInv, WantedInv, Cancelled
  <2>5. RestartInv' /\ PhaseHasOwner' /\ RetryTimeIsHonest'
    BY <1>0, <1>2, <2>1 DEF Intent, RestartInv, PhaseHasOwner, RetryTimeIsHonest, Pc
  <2> QED BY <2>3, <2>4, <2>5 DEF Intent, IntentInv
<1>5. CASE \/ ProbeFailed(g) /\ ~MayRequestRestart(g)
           \/ MonitorEnds(g)
  <2>1. UNCHANGED <<cancelled, nextRetryAt, restartRequested, phase>>
        /\ (monitor'[generation] = "firing" => monitor[generation] = "firing")
    BY <1>0, <1>5 DEF ProbeFailed, MonitorEnds, inst, TypeOK, TableTypes
  <2>2. CommandInv'
    BY <1>0, <1>1, <2>1 DEF Intent, IntentInv, CommandInv, Pc
  <2>3. UnwantedInv' /\ WantedInv'
    BY <1>0, <1>1, <2>1 DEF Intent, IntentInv, UnwantedInv, WantedInv, Cancelled
  <2>4. RestartInv' /\ PhaseHasOwner' /\ RetryTimeIsHonest'
    BY <1>0, <2>1 DEF Intent, RestartInv, PhaseHasOwner, RetryTimeIsHonest, Pc,
                      RestartAllowed
  <2> QED BY <2>2, <2>3, <2>4 DEF Intent, IntentInv
<1>6. CASE WatchdogCancel(g)
  <2>1. /\ UNCHANGED <<nextRetryAt, restartRequested, phase>>
        /\ cancelled' = cancelled \cup {RunCtx(g)}
        /\ (monitor'[generation] = "firing" => monitor[generation] = "firing")
        /\ monitor[g] = "firing"
    <3>1. RunCtx(g) # NoCtx
      BY DEF RunCtx, NoCtx
    <3> QED BY <1>0, <1>6, <3>1 DEF WatchdogCancel, Cancel, inst, TypeOK, TableTypes
  <2>2. /\ RestartCtx(generation) \in cancelled' => RestartCtx(generation) \in cancelled
        /\ RunCtx(generation) \in cancelled' =>
             RunCtx(generation) \in cancelled \/ monitor[generation] = "firing"
    BY <2>1, CtxFacts DEF RunCtx, RestartCtx
  <2>3. CommandInv'
    BY <1>0, <1>1, <2>1 DEF Intent, IntentInv, CommandInv, Pc
  <2>4. UnwantedInv' /\ WantedInv'
    BY <1>0, <1>1, <2>1, <2>2 DEF Intent, IntentInv, UnwantedInv, WantedInv, Cancelled
  <2>5. RestartInv' /\ PhaseHasOwner' /\ RetryTimeIsHonest'
    BY <1>0, <2>1 DEF Intent, RestartInv, PhaseHasOwner, RetryTimeIsHonest, Pc,
                      RestartAllowed
  <2> QED BY <2>3, <2>4, <2>5 DEF Intent, IntentInv
<1> QED BY <1>3, <1>4, <1>5, <1>6 DEF MonitorStep

LEMMA IntentInit == Init => Intent
BY DEF Init, Intent, IntentInv, CommandInv, UnwantedInv, WantedInv, RestartInv,
       PhaseHasOwner, RetryTimeIsHonest, Active, IdleStopper

\* The restarting goroutine acts for a user who still wants the tunnel.
LEMMA RestartIsWanted ==
  ASSUME TypeOK, Ownership, Intent, NEW g \in Gens, Restart(g)
  PROVE  wanted
<1>1. g = generation /\ generation > 0 /\ Pc = "restarting"
  BY CtxFacts DEF Restart, MayReplace, Pc
<1> QED BY <1>1 DEF Intent, RestartInv, WaitPcs, RestartPcs

LEMMA IntentNext == TypeOK /\ Ownership /\ Intent /\ ~SlowCancel /\ [Next]_vars => Intent'
<1> SUFFICES ASSUME TypeOK, Ownership, Intent, ~SlowCancel, [Next]_vars PROVE Intent'
  OBVIOUS
<1>1. CASE Start
  <2>1. 0 \in 0..generation /\ ~running /\ Reserve(0) /\ wanted'
    BY <1>1 DEF TypeOK, FieldTypes, Start, Busy
  <2> QED BY <2>1, IntentReserve
<1>2. ASSUME NEW g \in Gens, Restart(g) PROVE Intent'
  <2>1. g \in 0..generation /\ ~running /\ Reserve(g) /\ wanted'
    BY <1>2, RestartIsWanted DEF TypeOK, FieldTypes, Gens, Restart, MayReplace, Busy
  <2> QED BY <2>1, IntentReserve
<1>3. CASE UNCHANGED vars
  BY <1>3, IntentKept DEF vars
<1> QED
  BY <1>1, <1>2, <1>3, Steps, IntentAdvance, IntentStopIdle, IntentStopRunning,
     IntentStopStep, IntentMonitor

\* The assumption under which a Stop is never undone: a goroutine does not sit
\* between the unlock and its cancel() for the five seconds of the shortest
\* back-off.
PromptCancel == ~SlowCancel

\* The full invariant: the instance and its goroutines agree with what the user
\* last asked for, no transitional phase is left without an owner, and no retry
\* is announced that will not come.
THEOREM InvariantHolds == PromptCancel => (Spec => []IInv)
<1>1. Spec => [](TypeOK /\ Ownership)
  BY OwnershipHolds, OwnershipParts, PTL
<1>2. Init => Intent
  BY IntentInit
<1>3. TypeOK /\ Ownership /\ Intent /\ PromptCancel /\ [Next]_vars => Intent'
  BY IntentNext DEF PromptCancel
<1>4. IInv <=> TypeOK /\ Ownership /\ Intent
  BY IInvParts
<1>5. PromptCancel => []PromptCancel
  BY DEF PromptCancel
<1> QED BY <1>1, <1>2, <1>3, <1>4, <1>5, PTL DEF Spec

-----------------------------------------------------------------------------
(***************************************************************************)
(* What follows from the invariant.                                        *)
(***************************************************************************)

\* The action of StopPreventsRestart.
RestartWanted ==
  \A g \in Gens : life[g].pc = "restarting" /\ life'[g].pc = "inStart" => wanted

LEMMA RestartWantedNext ==
  TypeOK /\ Ownership /\ Intent /\ [Next]_vars => [RestartWanted]_vars
<1> SUFFICES ASSUME TypeOK, Ownership, Intent, Next, NEW g \in Gens,
                    life[g].pc = "restarting", life'[g].pc = "inStart"
             PROVE  wanted
  BY DEF RestartWanted
<1>0. life'[g] # life[g] /\ g # 0 /\ generation \in Nat
  BY DEF Gens, TypeOK, FieldTypes
<1>1. ~Start
  <2>1. 0 \in 0..generation
    BY <1>0
  <2> QED BY <1>0, <2>1, ReserveStays DEF Start
<1>2. ASSUME NEW s \in Stoppers, StopIdle(s) PROVE FALSE
  <2>1. cancel # NoCtx /\ NewGeneration(At("void"), 0) /\ At("void") \in Life
    BY <1>0, <1>2, AtIsLife DEF StopIdle, LifePcs, EndPcs
  <2>2. 0 \in 0..generation
    BY <1>0
  <2> QED
    BY <1>0, <2>1, <2>2, NewGenerationType
<1>3. ASSUME NEW s \in Stoppers, StopRunning(s) \/ StopStep(s) PROVE FALSE
  BY <1>0, <1>3 DEF StopRunning, StopStep, StopCancel, StopDone, StopTimeout
<1>4. ASSUME NEW h \in Gens, MonitorStep(h) PROVE FALSE
  BY <1>0, <1>4 DEF MonitorStep, ProbeReady, ProbeFailed, WatchdogCancel, MonitorEnds
<1>5. ASSUME NEW h \in Gens, Advance(h) PROVE FALSE
  <2>1. PICK l : Moves(h, l)
    BY <1>5, AdvanceMoves DEF Ownership, ContextInv
  <2>2. h = g
    BY <1>0, <2>1, OthersStay DEF Moves
  <2>3. life'[g] = l
    BY <2>1, <2>2 DEF Moves, Become, TypeOK, TableTypes
  <2> QED BY <2>1, <2>3 DEF Moves
<1>6. ASSUME NEW h \in Gens, Restart(h) PROVE wanted
  BY <1>6, RestartIsWanted
<1> QED
  BY <1>1, <1>2, <1>3, <1>4, <1>5, <1>6, Steps

\* No automatic restart reserves a lifecycle after a Stop that no Start has
\* followed, however the back-off, the watchdog and Stop interleave.
THEOREM StopIsFinal == PromptCancel => (Spec => StopPreventsRestart)
<1>1. PromptCancel => (Spec => [](TypeOK /\ Ownership /\ Intent))
  BY InvariantHolds, IInvParts, PTL
<1>2. TypeOK /\ Ownership /\ Intent /\ [Next]_vars => [RestartWanted]_vars
  BY RestartWantedNext
<1>3. PromptCancel => (Spec => [][RestartWanted]_vars)
  BY <1>1, <1>2, PTL DEF Spec
<1> QED
  BY <1>3 DEF StopPreventsRestart, RestartWanted

(***************************************************************************)
(* The refinement of TunnelPromise, step by step: a reservation by Start is*)
(* a Request, the critical section of Stop a Withdraw, Publish a Launch,   *)
(* the deferred critical section of a run an Exit; every other step        *)
(* stutters.                                                               *)
(***************************************************************************)
LEMMA PromiseAdvance ==
  ASSUME TypeOK, Ownership, Intent, NEW g \in Gens, Advance(g)
  PROVE  [Promise!Next]_(Promise!vars)
<1>0. wanted' = wanted /\ running \in BOOLEAN /\ CancelInv /\ GoroutineInv /\ RunningIsOwned
  BY AdvanceMoves DEF Ownership, ContextInv, TypeOK, FlagTypes
<1>1. CASE g # generation
  BY <1>0, <1>1, OthersAdvance DEF Promise!vars, inst
<1>2. CASE g = generation /\ Publish(g)
  <2>1. /\ generation > 0 /\ life[generation].pc \in StartPcs
        /\ life[generation].pc \notin EndPcs \cup RunPcs
    BY <1>2, CtxFacts DEF Publish, StartPcs, EndPcs, RunPcs
  <2>2. wanted /\ ~running
    BY <1>2, <2>1 DEF Intent, IntentInv, CommandInv, Active, Pc, Ownership,
                      RunningIsOwned, Live
  <2>3. running' = TRUE
    BY <1>2 DEF Publish
  <2> QED BY <1>0, <2>2, <2>3 DEF Promise!Next, Promise!Launch
<1>3. CASE RunExit(g)
  <2>1. running /\ running' = FALSE
    BY <1>0, <1>3, RunExits DEF RunExit
  <2> QED BY <1>0, <2>1 DEF Promise!Next, Promise!Exit
<1>4. CASE g = generation /\ ~Publish(g) /\ ~RunExit(g)
  <2>1. running' = running
    <3>1. CASE running
      BY <1>0, <1>4, <3>1, RunAdvances DEF RunGoesOn
    <3>2. CASE ~running
      <4>1. ~running'
        BY <1>0, <1>4, <3>2, AdvanceRuns
      <4>2. TypeOK'
        BY TypeNext, <1>0, <1>4 DEF Next, Advance, RestartStep
      <4> QED BY <3>2, <4>1, <4>2 DEF TypeOK, FlagTypes
    <3> QED BY <3>1, <3>2
  <2> QED BY <1>0, <2>1 DEF Promise!vars
<1> QED BY <1>1, <1>2, <1>3, <1>4

LEMMA PromiseStep ==
  TypeOK /\ Ownership /\ Intent /\ [Next]_vars => [Promise!Next]_(Promise!vars)
<1> SUFFICES ASSUME TypeOK, Ownership, Intent, [Next]_vars
             PROVE  [Promise!Next]_(Promise!vars)
  OBVIOUS
<1>1. CASE Start
  BY <1>1 DEF Start, Busy, Reserve, Promise!Next, Promise!Request
<1>2. ASSUME NEW s \in Stoppers, StopIdle(s) \/ StopRunning(s)
      PROVE  [Promise!Next]_(Promise!vars)
  BY <1>2 DEF StopIdle, StopRunning, StopCall, Promise!Next, Promise!Withdraw
<1>3. ASSUME NEW s \in Stoppers, StopStep(s) PROVE [Promise!Next]_(Promise!vars)
  BY <1>3 DEF StopStep, StopCancel, StopDone, StopTimeout, inst, Promise!vars
<1>4. ASSUME NEW g \in Gens, Restart(g) PROVE [Promise!Next]_(Promise!vars)
  BY <1>4 DEF Restart, Reserve, Promise!vars
<1>5. ASSUME NEW g \in Gens, MonitorStep(g) PROVE [Promise!Next]_(Promise!vars)
  BY <1>5 DEF MonitorStep, ProbeReady, ProbeFailed, WatchdogCancel, MonitorEnds,
              MarkRunning, inst, Promise!vars
<1>6. CASE UNCHANGED vars
  BY <1>6 DEF vars, inst, Promise!vars
<1> QED
  BY <1>1, <1>2, <1>3, <1>4, <1>5, <1>6, Steps, PromiseAdvance

\* The instance keeps its promise as far as safety goes: at most one run, only
\* while the tunnel is wanted, and no Start accepted over a run.
THEOREM PromiseIsKept ==
  PromptCancel => (Spec => Promise!Init /\ [][Promise!Next]_(Promise!vars))
<1>1. PromptCancel => (Spec => [](TypeOK /\ Ownership /\ Intent))
  BY InvariantHolds, IInvParts, PTL
<1>2. TypeOK /\ Ownership /\ Intent /\ [Next]_vars => [Promise!Next]_(Promise!vars)
  BY PromiseStep
<1>3. Init => Promise!Init
  BY DEF Init, Promise!Init
<1> QED
  BY <1>1, <1>2, <1>3, PTL DEF Spec

(***************************************************************************)
(* The refinement of TunnelSlot, step by step.  An accepted Start fills the*)
(* slot, the critical section of Stop clears or marks it, OptionsOk,       *)
(* Publish, the deferred critical section of a run and Restart move it on, *)
(* the end of the goroutine without a run empties it.                      *)
(***************************************************************************)

\* The cases of SlotPhase, before and after a step.
LEMMA SlotNow ==
  /\ running /\ wanted => SlotPhase = "up"
  /\ running /\ ~wanted => SlotPhase = "stopping"
  /\ ~running /\ wanted /\ Active =>
       /\ Pc \in {"reserved", "options"} => SlotPhase = "launching"
       /\ Pc = "publish" => SlotPhase = "ready"
       /\ Pc \in WaitPcs => SlotPhase = "pending"
  /\ ~running /\ ~(wanted /\ Active) => SlotPhase = "idle"
BY DEF SlotPhase, WaitPcs, RestartPcs

LEMMA SlotThen ==
  /\ running' /\ wanted' => SlotPhase' = "up"
  /\ running' /\ ~wanted' => SlotPhase' = "stopping"
  /\ ~running' /\ wanted' /\ Active' =>
       /\ Pc' \in {"reserved", "options"} => SlotPhase' = "launching"
       /\ Pc' = "publish" => SlotPhase' = "ready"
       /\ Pc' \in WaitPcs => SlotPhase' = "pending"
  /\ ~running' /\ ~(wanted' /\ Active') => SlotPhase' = "idle"
BY DEF SlotPhase, WaitPcs, RestartPcs

\* Where the current goroutine is when there is no run.
LEMMA OffRun ==
  ASSUME TypeOK, Ownership, ~running, Active
  PROVE  /\ generation \in Gens /\ Active \in BOOLEAN
         /\ Pc \in {"reserved", "options", "publish"} \cup WaitPcs
         /\ Pc \in StartPcs => StillReserved(generation)
<1>1. generation \in Gens /\ Active \in BOOLEAN
  BY DEF Active, TypeOK, FieldTypes, Gens
<1>2. Pc \in LifePcs \ (EndPcs \cup RunPcs)
  BY <1>1 DEF Active, Pc, TypeOK, TableTypes, Life, Ownership, RunningIsOwned, Live
<1>3. Pc # "inStart"
  BY <1>1 DEF Pc, Ownership, ContextInv, GoroutineInv, TypeOK, FieldTypes
<1>4. Pc \in StartPcs => StillReserved(generation)
  BY <1>1 DEF Ownership, SlotInv, LaunchInv, StillReserved, Active
<1> QED BY <1>1, <1>2, <1>3, <1>4 DEF LifePcs, StartPcs, WaitPcs

\* A step of the current goroutine starts where a goroutine can be.
LEMMA AdvanceFrom ==
  ASSUME TypeOK, NEW g \in Gens, Advance(g)
  PROVE  /\ life[g].pc \notin EndPcs
         /\ life[g].pc \in StartPcs => StartStep(g)
<1> USE DEF StartPcs, EndPcs
<1>1. CASE StartStep(g)
  BY <1>1 DEF StartStep, CancelPrevious, OptionsFail, OptionsOk, Publish, PublishRefused
<1>2. CASE RunStep(g) \/ Fault(g)
  BY <1>2 DEF RunStep, Fault, Setup, RunCancelled, HandleResult, RunExit, Recheck, RunEnds, RunPanics
<1>3. CASE ~(StartStep(g) \/ RunStep(g) \/ Fault(g))
  BY <1>3 DEF Advance, RestartCanceled, AutoCheck, PolicyError, PolicyOff, Schedule,
              ScheduleStale, TimerFires, RestartRefused, RestartReturns
<1> QED BY <1>1, <1>2, <1>3

\* The launch: the options are read, then the run is published.
LEMMA SlotLaunch ==
  ASSUME TypeOK, Ownership, Intent, NEW g \in Gens, g = generation, StartStep(g),
         ~running, wanted, Active
  PROVE  \/ life[g].pc \in {"reserved", "options"} /\ life'[g].pc = "options" /\ ~Publish(g)
         \/ life[g].pc = "options" /\ life'[g].pc \in {"publish", "void"} /\ ~Publish(g)
         \/ life[g].pc = "publish" /\ Publish(g) /\ running'
<1>1. CASE CancelPrevious(g)
  BY <1>1, FinishField DEF CancelPrevious, Publish
<1>2. CASE OptionsFail(g)
  BY <1>2, FinishField DEF OptionsFail, Publish
<1>3. CASE OptionsOk(g)
  BY <1>3, GotoField DEF OptionsOk, Publish
<1>4. CASE Publish(g)
  BY <1>4 DEF Publish
<1>5. ~PublishRefused(g)
  BY OffRun DEF PublishRefused, Pc, StartPcs
<1> QED BY <1>1, <1>2, <1>3, <1>4, <1>5 DEF StartStep

\* A step of the current goroutine while there is no run.
LEMMA SlotOffRun ==
  ASSUME TypeOK, Ownership, Intent, ~running,
         NEW g \in Gens, g = generation, Advance(g)
  PROVE  [Slot!Next]_(Slot!vars)
<1>0. /\ running \in BOOLEAN /\ wanted \in BOOLEAN /\ wanted' = wanted /\ calls' = calls
      /\ generation' = generation /\ generation > 0
      /\ CancelInv /\ GoroutineInv /\ RunningIsOwned
  BY AdvanceMoves, CtxFacts DEF Ownership, ContextInv, TypeOK, FlagTypes
<1>1. running' \in BOOLEAN
  BY TypeNext DEF Next, Advance, RestartStep, TypeOK, FlagTypes
<1>2. Active /\ Active \in BOOLEAN /\ Active' \in BOOLEAN /\ Pc' = life'[g].pc
      /\ (Active' <=> life'[g].pc \notin EndPcs)
  BY <1>0, AdvanceFrom DEF Active, Pc
<1>3. Publish(g) \/ ~running'
  BY <1>0, AdvanceRuns
<1>4. CASE ~wanted
  <2>1. ~Publish(g)
    BY <1>2, <1>4 DEF Publish, Intent, IntentInv, CommandInv, Pc, StartPcs
  <2>2. SlotPhase = "idle" /\ SlotPhase' = "idle"
    BY <1>0, <1>1, <1>2, <1>3, <1>4, <2>1, SlotNow, SlotThen
  <2> QED BY <1>0, <2>2 DEF Slot!vars
<1>5. CASE wanted /\ Pc \in StartPcs
  <2>1. StartStep(g)
    BY <1>5, AdvanceFrom DEF Pc
  <2>2. CASE life[g].pc \in {"reserved", "options"} /\ life'[g].pc = "options" /\ ~Publish(g)
    <3>1. SlotPhase = "launching" /\ SlotPhase' = "launching"
      BY <1>0, <1>1, <1>2, <1>3, <1>5, <2>2, SlotNow, SlotThen DEF Pc, EndPcs
    <3> QED BY <1>0, <3>1 DEF Slot!vars
  <2>3. CASE life[g].pc = "options" /\ life'[g].pc \in {"publish", "void"} /\ ~Publish(g)
    <3>1. SlotPhase = "launching" /\ SlotPhase' \in {"ready", "idle"}
      BY <1>0, <1>1, <1>2, <1>3, <1>5, <2>3, SlotNow, SlotThen DEF Pc, EndPcs
    <3> QED
      BY <1>0, <3>1 DEF Slot!Next, Slot!Own, Slot!Progress, Slot!ReadOptions
  <2>4. CASE life[g].pc = "publish" /\ Publish(g) /\ running'
    <3>1. SlotPhase = "ready" /\ SlotPhase' = "up"
      BY <1>0, <1>1, <1>2, <1>5, <2>4, SlotNow, SlotThen DEF Pc
    <3> QED
      BY <1>0, <3>1 DEF Slot!Next, Slot!Own, Slot!Progress, Slot!Publish
  <2> QED BY <1>2, <1>5, <2>1, <2>2, <2>3, <2>4, SlotLaunch
<1>6. CASE wanted /\ Pc \notin StartPcs
  <2>1. Pc \in WaitPcs
    BY <1>2, <1>6, OffRun DEF StartPcs
  <2>2. ~running' /\ SlotPhase = "pending"
    BY <1>0, <1>2, <1>3, <1>6, <2>1, SlotNow, SlotThen DEF Publish, Pc, StartPcs
  <2>3. life'[g].pc \in WaitPcs \/ life'[g].pc \in EndPcs
    BY <1>0, <2>1, WaitAdvances
       DEF Pc, WaitPcs, RestartPcs, WaitGoesOn, Scheduled, Over
  <2>4. CASE life'[g].pc \in WaitPcs
    <3>1. SlotPhase' = "pending"
      BY <1>0, <1>1, <1>2, <1>6, <2>2, <2>4, SlotNow, SlotThen DEF WaitPcs, RestartPcs, EndPcs
    <3> QED BY <1>0, <2>2, <3>1 DEF Slot!vars
  <2>5. CASE life'[g].pc \in EndPcs
    <3>1. SlotPhase' = "idle"
      BY <1>0, <1>1, <1>2, <1>6, <2>2, <2>5, SlotNow, SlotThen
    <3> QED
      BY <1>0, <2>2, <3>1 DEF Slot!Next, Slot!Own, Slot!Progress, Slot!RestartDropped
  <2> QED BY <2>3, <2>4, <2>5
<1> QED BY <1>0, <1>4, <1>5, <1>6

\* A step of the current goroutine during its run.
LEMMA SlotOnRun ==
  ASSUME TypeOK, Ownership, Intent, running,
         NEW g \in Gens, g = generation, Advance(g)
  PROVE  [Slot!Next]_(Slot!vars)
<1>0. /\ running \in BOOLEAN /\ wanted \in BOOLEAN /\ wanted' = wanted /\ calls' = calls
      /\ generation' = generation /\ generation > 0
      /\ GoroutineInv /\ RunningIsOwned
  BY AdvanceMoves, CtxFacts DEF Ownership, ContextInv, TypeOK, FlagTypes
<1>1. running' \in BOOLEAN
  BY TypeNext DEF Next, Advance, RestartStep, TypeOK, FlagTypes
<1>2. Active \in BOOLEAN /\ Active' \in BOOLEAN /\ Pc' = life'[g].pc
  BY <1>0 DEF Active, Pc
<1>3. CASE RunGoesOn(g)
  <2>1. SlotPhase' = SlotPhase
    BY <1>0, <1>2, <1>3, SlotNow, SlotThen DEF RunGoesOn
  <2> QED BY <1>0, <2>1 DEF Slot!vars
<1>4. CASE RunExit(g)
  <2>1. ~running' /\ life'[g].pc = "recheck"
    BY <1>0, <1>4, RunExits
  <2>2. Active' /\ Pc' \in WaitPcs
    BY <1>0, <1>2, <2>1 DEF Active, Pc, EndPcs, WaitPcs, RestartPcs
  <2>3. CASE wanted
    <3>1. SlotPhase = "up" /\ SlotPhase' = "pending"
      BY <1>0, <1>1, <1>2, <2>1, <2>2, <2>3, SlotNow, SlotThen
    <3> QED BY <1>0, <3>1 DEF Slot!Next, Slot!Own, Slot!RunEnds
  <2>4. CASE ~wanted
    <3>1. SlotPhase = "stopping" /\ SlotPhase' = "idle"
      BY <1>0, <1>1, <1>2, <2>1, <2>4, SlotNow, SlotThen
    <3> QED BY <1>0, <3>1 DEF Slot!Next, Slot!Own, Slot!Progress, Slot!RunStopped
  <2> QED BY <2>3, <2>4
<1> QED BY <1>0, <1>3, <1>4, RunAdvances

\* Older goroutines do nothing to the slot.
LEMMA SlotKeptByOthers ==
  ASSUME TypeOK, Ownership, NEW g \in Gens, g # generation, Advance(g)
  PROVE  UNCHANGED Slot!vars
<1>1. calls' = calls /\ UNCHANGED <<inst, wanted>> /\ life'[generation] = life[generation]
  BY AdvanceMoves, OthersAdvance DEF Ownership, ContextInv
<1> QED BY <1>1 DEF Slot!vars, SlotPhase, Active, Pc, inst

\* A launch is reserved, by Start or by a pending restart.
LEMMA SlotReserve ==
  ASSUME TypeOK, ~running, NEW h \in 0..generation, Reserve(h), wanted'
  PROVE  SlotPhase' = "launching"
<1>1. generation \in Nat /\ running' = running /\ generation' = generation + 1
  BY DEF TypeOK, FieldTypes, Reserve, NewGeneration
<1>2. life'[generation + 1].pc = "reserved"
  BY <1>1 DEF Reserve, NewGeneration, At
<1>3. Active' /\ Pc' = "reserved"
  BY <1>1, <1>2 DEF Active, Pc, EndPcs
<1>4. ~running'
  BY <1>1
<1> QED BY <1>3, <1>4, SlotThen

\* The slot is idle, or a restart is pending, when start() may reserve it.
LEMMA SlotFree ==
  ASSUME TypeOK, Ownership, ~Busy
  PROVE  /\ SlotPhase \in {"idle", "pending"}
         /\ wanted /\ Active => SlotPhase = "pending"
<1>0. /\ ~running /\ phase # "starting" /\ Active \in BOOLEAN
      /\ running \in BOOLEAN /\ wanted \in BOOLEAN
  BY DEF Busy, Active, TypeOK, FlagTypes
<1>1. CASE wanted /\ Active
  <2>1. Pc \in WaitPcs
    BY <1>0, <1>1, OffRun DEF StillReserved, StartPcs
  <2> QED BY <1>0, <1>1, <2>1, SlotNow, SlotThen
<1>2. CASE ~(wanted /\ Active)
  BY <1>0, <1>2, SlotNow, SlotThen
<1> QED BY <1>1, <1>2

LEMMA SlotStep ==
  TypeOK /\ Ownership /\ Intent /\ [Next]_vars => [Slot!Next]_(Slot!vars)
<1> SUFFICES ASSUME TypeOK, Ownership, Intent, [Next]_vars
             PROVE  [Slot!Next]_(Slot!vars)
  OBVIOUS
<1>0. generation \in Nat /\ calls \in Nat /\ running \in BOOLEAN /\ wanted \in BOOLEAN
  BY BoundsAssumption DEF TypeOK, FieldTypes, FlagTypes
<1>1. CASE Start
  <2>1. SlotPhase \in {"idle", "pending"}
    BY <1>1, SlotFree DEF Start
  <2>2. SlotPhase' = "launching" /\ calls' = calls + 1
    BY <1>0, <1>1, SlotReserve DEF Start, Busy
  <2> QED BY <2>1, <2>2 DEF Slot!Next, Slot!Start, Slot!Fill, Slot!Command
<1>2. ASSUME NEW s \in Stoppers, StopIdle(s) PROVE [Slot!Next]_(Slot!vars)
  <2>1. SlotPhase \notin {"up", "stopping"} /\ SlotPhase' = "idle" /\ calls' = calls + 1
    BY <1>2 DEF StopIdle, StopCall, SlotPhase
  <2> QED BY <2>1 DEF Slot!Next, Slot!Stop, Slot!Clear, Slot!Command
<1>3. ASSUME NEW s \in Stoppers, StopRunning(s) PROVE [Slot!Next]_(Slot!vars)
  <2>1. SlotPhase \in {"up", "stopping"} /\ SlotPhase' = "stopping" /\ calls' = calls + 1
    BY <1>3 DEF StopRunning, StopCall, SlotPhase
  <2> QED BY <2>1 DEF Slot!Next, Slot!Stop, Slot!Clear, Slot!Command
<1>4. ASSUME NEW s \in Stoppers, StopStep(s) PROVE UNCHANGED Slot!vars
  BY <1>4 DEF StopStep, StopCancel, StopDone, StopTimeout, inst, Slot!vars, SlotPhase,
              Active, Pc
<1>5. ASSUME NEW g \in Gens, Restart(g) PROVE [Slot!Next]_(Slot!vars)
  <2>1. wanted /\ wanted' /\ calls' = calls /\ Reserve(g) /\ ~Busy
    BY <1>5, RestartIsWanted DEF Restart, MayReplace
  <2>2. g = generation /\ Active
    BY <1>5, CtxFacts DEF Restart, MayReplace, Active, Pc, EndPcs
  <2>3. SlotPhase = "pending"
    BY <2>1, <2>2, SlotFree
  <2>4. SlotPhase' = "launching"
    BY <1>0, <2>1, SlotReserve DEF Gens, Busy
  <2> QED
    BY <2>1, <2>3, <2>4 DEF Slot!Next, Slot!Own, Slot!Progress, Slot!RestartDue
<1>6. ASSUME NEW g \in Gens, MonitorStep(g) PROVE UNCHANGED Slot!vars
  BY <1>6 DEF MonitorStep, ProbeReady, ProbeFailed, WatchdogCancel, MonitorEnds, MarkRunning,
              inst, Slot!vars, SlotPhase, Active, Pc
<1>7. ASSUME NEW g \in Gens, Advance(g) PROVE [Slot!Next]_(Slot!vars)
  BY <1>7, SlotOffRun, SlotOnRun, SlotKeptByOthers
<1>8. CASE UNCHANGED vars
  BY <1>8 DEF vars, inst, Slot!vars, SlotPhase, Active, Pc
<1> QED
  BY <1>1, <1>2, <1>3, <1>4, <1>5, <1>6, <1>7, <1>8, Steps

\* The instance is a slot of module TunnelSlot, the safety half of
\* SlotImplemented: each launch has an accepted Start or a pending restart
\* before it, each Stop ends both at once, and neither a superseded goroutine
\* nor a watchdog or a Stop that times out moves the slot.
THEOREM InstanceIsSlot ==
  PromptCancel => (Spec => Slot!Init /\ [][Slot!Next]_(Slot!vars))
<1>1. PromptCancel => (Spec => [](TypeOK /\ Ownership /\ Intent))
  BY InvariantHolds, IInvParts, PTL
<1>2. TypeOK /\ Ownership /\ Intent /\ [Next]_vars => [Slot!Next]_(Slot!vars)
  BY SlotStep
<1>3. Init => Slot!Init
  BY DEF Init, Slot!Init, SlotPhase, Active
<1> QED
  BY <1>1, <1>2, <1>3, PTL DEF Spec
=============================================================================
