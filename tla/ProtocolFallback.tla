-------------------------- MODULE ProtocolFallback --------------------------
(***************************************************************************)
(* How a tunnel chooses its transport from one run to the next, and how    *)
(* many runs it starts by itself: selectProtocol, recordProtocolSuccess and*)
(* recordProtocolFailure of internal/cloudflared/instance.go, the restart  *)
(* counter of restart.go.  Module TunnelInstance has the lifecycle these   *)
(* steps are part of; runs of one tunnel do not overlap there              *)
(* (RunningIsOwned), so here a run is one state.                           *)
(*                                                                         *)
(* The error a run ends with is abstracted to what errors.go tells apart:  *)
(* related to the transport or not, retryable or not.                      *)
(***************************************************************************)
EXTENDS Naturals

CONSTANTS
  Threshold,      \* maxProtocolFailuresBeforeSwitch (3 in the code)
  MaxRestarts,    \* maxRestartAttempts (10)
  MaxFailures,    \* bound: failures counted against one protocol
  Watchdog        \* may the readiness watchdog end runs?

ASSUME ThresholdAssumption == Threshold \in Nat \ {0}
ASSUME RestartsAssumption  == MaxRestarts \in Nat /\ MaxRestarts > Threshold
ASSUME FallbackAssumption  == /\ MaxFailures \in Nat /\ MaxFailures >= Threshold
                              /\ Watchdog \in BOOLEAN

VARIABLES
  config,     \* Options.Protocol
  pc,         \* "down", "running", "ended", "pending" (a restart is due)
  currentProtocol,
  protocolFailures,
  restartCount,
  tried,      \* protocols of the runs since restartCount was zero
  endings,    \* how those runs ended
  gaveUp,     \* has automatic restart stopped at the limit since then?
  alwaysAuto  \* has the configuration never named a protocol?

vars == <<config, pc, currentProtocol, protocolFailures, restartCount,
          tried, endings, gaveUp, alwaysAuto>>

Transports == {"quic", "http2"}
Endings    == {"transport", "other", "clean", "watchdog", "stopped"}

Init ==
  /\ config \in Transports \cup {"auto"}
  /\ alwaysAuto = (config = "auto")
  /\ pc = "down" /\ currentProtocol = "auto"
  /\ protocolFailures = [p \in Transports |-> 0]
  /\ restartCount = 0
  /\ tried = {} /\ endings = {} /\ gaveUp = FALSE

-----------------------------------------------------------------------------
FailuresOf(p) == IF p \in Transports THEN protocolFailures[p] ELSE 0
Other(p)      == IF p \in {"quic", "auto"} THEN "http2" ELSE "quic"
Concrete(p)   == IF p = "auto" THEN "quic" ELSE p

\* The configuration may change at any time; a run reads it when it starts.
EditProtocol ==
  /\ config' \in (Transports \cup {"auto"}) \ {config}
  /\ alwaysAuto' = FALSE
  /\ UNCHANGED <<pc, currentProtocol, protocolFailures, restartCount, tried, endings, gaveUp>>

selectProtocol ==
  IF config # "auto"
  THEN currentProtocol' = config /\ UNCHANGED protocolFailures
  ELSE IF FailuresOf(currentProtocol) >= Threshold
  THEN /\ currentProtocol' = Other(currentProtocol)
       /\ protocolFailures' = [protocolFailures EXCEPT ![currentProtocol] = 0]
  ELSE currentProtocol' = Concrete(currentProtocol) /\ UNCHANGED protocolFailures

\* A manual start, or the restart that was due; a manual start leaves the
\* restart counter alone.
Launch ==
  /\ pc \in {"down", "pending"}
  /\ selectProtocol
  /\ pc' = "running"
  /\ tried' = tried \cup {IF config = "auto" THEN currentProtocol' ELSE "fixed"}
  /\ UNCHANGED <<config, restartCount, endings, gaveUp, alwaysAuto>>

-----------------------------------------------------------------------------
(***************************************************************************)
(* The end of a run.                                                       *)
(***************************************************************************)
RunEnds(how, next) ==
  /\ pc = "running"
  /\ pc' = next
  /\ endings' = endings \cup {how}
  /\ UNCHANGED <<config, currentProtocol, alwaysAuto>>

\* The log of the runs since the restart counter was zero is opened anew.
StartAfresh == restartCount' = 0 /\ tried' = {} /\ gaveUp' = FALSE

\* recordProtocolFailure with IsProtocolRelatedError(err): the error is
\* retryable or not, and a run that ends otherwise is not restarted.
RunFailsOnTransport ==
  /\ \E next \in {"ended", "down"} : RunEnds("transport", next)
  /\ protocolFailures[currentProtocol] < MaxFailures
  /\ protocolFailures' = [protocolFailures EXCEPT ![currentProtocol] = @ + 1]
  /\ UNCHANGED <<restartCount, tried, gaveUp>>

RunFailsOtherwise ==
  /\ \E next \in {"ended", "down"} : RunEnds("other", next)
  /\ UNCHANGED <<protocolFailures, restartCount, tried, gaveUp>>

\* recordProtocolSuccess: cloudflared returned without an error.
RunExitsCleanly ==
  /\ pc = "running" /\ pc' = "ended"
  /\ protocolFailures' = [p \in Transports |-> 0]
  /\ StartAfresh /\ endings' = {}
  /\ UNCHANGED <<config, currentProtocol, alwaysAuto>>

\* The watchdog cancels the run; runTunnel returns before it records anything.
RunIsReplaced ==
  /\ Watchdog
  /\ RunEnds("watchdog", "ended")
  /\ UNCHANGED <<protocolFailures, restartCount, tried, gaveUp>>

RunIsStopped ==
  /\ RunEnds("stopped", "down")
  /\ UNCHANGED <<protocolFailures, restartCount, tried, gaveUp>>

-----------------------------------------------------------------------------
(***************************************************************************)
(* maybeAutoRestartForRun.                                                 *)
(***************************************************************************)
RestartDisabled ==
  /\ pc = "ended" /\ pc' = "down"
  /\ UNCHANGED <<config, currentProtocol, protocolFailures, restartCount,
                 tried, endings, gaveUp, alwaysAuto>>

\* Mutant: the limit is below the threshold.
Mutant_AtLimit == restartCount >= Threshold - 1

AtLimit == restartCount >= MaxRestarts

\* restartBackoffResetAfter has passed since the last restart: the counter
\* starts again, at zero, and this restart is the first.
ScheduleFresh ==
  /\ pc = "ended"
  /\ pc' = "pending" /\ restartCount' = 1
  /\ tried' = {} /\ endings' = {} /\ gaveUp' = FALSE
  /\ UNCHANGED <<config, currentProtocol, protocolFailures, alwaysAuto>>

Schedule ==
  /\ pc = "ended" /\ ~AtLimit
  /\ pc' = "pending" /\ restartCount' = restartCount + 1
  /\ UNCHANGED <<config, currentProtocol, protocolFailures, tried, endings, gaveUp,
                 alwaysAuto>>

GiveUp ==
  /\ pc = "ended" /\ AtLimit
  /\ pc' = "down" /\ gaveUp' = TRUE
  /\ UNCHANGED <<config, currentProtocol, protocolFailures, restartCount, tried,
                 endings, alwaysAuto>>

-----------------------------------------------------------------------------
RunStep == \/ RunFailsOnTransport \/ RunFailsOtherwise \/ RunExitsCleanly
           \/ RunIsReplaced \/ RunIsStopped
ExitStep == RestartDisabled \/ ScheduleFresh \/ Schedule \/ GiveUp

Next == EditProtocol \/ Launch \/ RunStep \/ ExitStep

Spec == Init /\ [][Next]_vars

\* A run that ended is taken care of and a restart that is due is performed.
\* Runs need not end, and a tunnel that is down need not be started.
FairSpec == Spec /\ WF_vars(ExitStep) /\ WF_vars(pc = "pending" /\ Launch)

-----------------------------------------------------------------------------
(***************************************************************************)
(* Properties.                                                             *)
(***************************************************************************)
TypeOK ==
  /\ config \in Transports \cup {"auto"}
  /\ currentProtocol \in Transports \cup {"auto"}
  /\ pc \in {"down", "running", "ended", "pending"}
  /\ pc # "down" => currentProtocol \in Transports
  /\ protocolFailures \in [Transports -> 0..MaxFailures]
  /\ restartCount \in 0..MaxRestarts
  /\ tried \subseteq Transports \cup {"fixed"} /\ endings \subseteq Endings
  /\ gaveUp \in BOOLEAN /\ alwaysAuto \in BOOLEAN

\* Automatic restart does not give up on a tunnel whose transport is blocked
\* before it has tried the other one: when every run since the counter was
\* last zero chose its protocol in auto mode and ended with a transport error,
\* both have been used.
BothTriedBeforeGivingUp ==
  gaveUp /\ endings = {"transport"} /\ "fixed" \notin tried => tried = Transports

\* The same, when it is the readiness watchdog that notices.
BothTriedDespiteWatchdog ==
  gaveUp /\ endings \subseteq {"transport", "watchdog"} /\ "fixed" \notin tried
    => tried = Transports

\* Between runs of a tunnel that stays in auto mode the counters describe the
\* current protocol only, and never exceed the threshold.
OnlyCurrentIsBlamed ==
  alwaysAuto => \A p \in Transports :
                  /\ protocolFailures[p] <= Threshold
                  /\ p # currentProtocol => protocolFailures[p] = 0

=============================================================================
