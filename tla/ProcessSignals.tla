--------------------------- MODULE ProcessSignals ---------------------------
(***************************************************************************)
(* Who receives SIGTERM and SIGINT (internal/cloudflared/cloudflared.go):  *)
(* the main goroutine, and for a moment the watcher that the embedded      *)
(* cloudflared starts for every run.  A watcher that hears a signal closes *)
(* the shut-down channel all runs share, and the second close panics.  So  *)
(* a few pulses after each launch take the signals away from everybody and *)
(* give them back to main.                                                 *)
(*                                                                         *)
(* The watcher, the channel and the delivery of signals are not code of    *)
(* this repository: they are modelled as its comments and its calls take   *)
(* them (waitForSignal, signal.Notify, Reset and Stop).                    *)
(***************************************************************************)
EXTENDS Naturals

CONSTANTS
  Runs,         \* launches of a tunnel: of any instance, and restarts
  Main,         \* the channel of main()
  Pulses,       \* pulses after a launch (5 in the code)
  MaxSignals    \* bound

ASSUME MainAssumption    == Main \notin Runs
ASSUME SignalsAssumption == Pulses \in Nat \ {0} /\ MaxSignals \in Nat

VARIABLES
  receivers,   \* the channels registered for the signals
  watcher,     \* watcher[r]: the upstream watcher of run r
  pulses,      \* pulses[r]: pulses of run r still to come
  sigMu,       \* the run whose pulse holds sigMu, or Main when it is free
  graceful,    \* gracefulShutdownC is closed
  mainAt,      \* main(): serving, told to shut down, about to return
  fate,        \* of the process
  signals,     \* counter of the bound
  \* histories
  late,        \* watchers that subscribed after the last pulse of their run
  untimely     \* a signal came while a run was being launched

signalVars == <<receivers, watcher, pulses, sigMu, graceful, mainAt, fate, signals,
                late, untimely>>

\* After OwnProcessSignals, which main() calls before anything can start a tunnel.
SignalInit ==
  /\ receivers = {Main} /\ sigMu = Main
  /\ watcher = [r \in Runs |-> "none"] /\ pulses = [r \in Runs |-> 0]
  /\ graceful = FALSE /\ mainAt = "serving" /\ fate = "alive" /\ signals = 0
  /\ late = {} /\ untimely = FALSE

MoveWatcher(r, p) == watcher' = [watcher EXCEPT ![r] = p]

-----------------------------------------------------------------------------
(***************************************************************************)
(* A launch and its pulses.                                                *)
(***************************************************************************)

\* runTunnel: scheduleSignalReclaim, then RunContext.
RunLaunched(r) ==
  /\ watcher[r] = "none"
  /\ MoveWatcher(r, "entering")
  /\ pulses' = [pulses EXCEPT ![r] = Pulses]
  /\ UNCHANGED <<receivers, sigMu, graceful, mainAt, fate, signals, late, untimely>>

\* Mutant: only the channel of main is taken off, by signal.Stop.
Mutant_ResetOwn(r) ==
  /\ pulses[r] > 0 /\ sigMu = Main
  /\ sigMu' = r
  /\ pulses' = [pulses EXCEPT ![r] = @ - 1]
  /\ receivers' = receivers \ {Main}
  /\ UNCHANGED <<watcher, graceful, mainAt, fate, signals, late, untimely>>

\* reclaimProcessSignals, under sigMu: signal.Reset, ...
PulseResets(r) ==
  /\ pulses[r] > 0 /\ sigMu = Main
  /\ sigMu' = r
  /\ pulses' = [pulses EXCEPT ![r] = @ - 1]
  /\ receivers' = {}
  /\ UNCHANGED <<watcher, graceful, mainAt, fate, signals, late, untimely>>

\* ... then signal.Notify.
PulseNotifies(r) ==
  /\ sigMu = r /\ r # Main
  /\ sigMu' = Main
  /\ receivers' = receivers \cup {Main}
  /\ UNCHANGED <<watcher, pulses, graceful, mainAt, fate, signals, late, untimely>>

-----------------------------------------------------------------------------
(***************************************************************************)
(* The watcher, inside RunContext.  It outlives its run.                   *)
(***************************************************************************)
WatcherSubscribes(r) ==
  /\ watcher[r] = "entering"
  /\ MoveWatcher(r, "waiting")
  /\ receivers' = receivers \cup {r}
  /\ late' = (IF pulses[r] = 0 THEN late \cup {r} ELSE late)
  /\ UNCHANGED <<pulses, sigMu, graceful, mainAt, fate, signals, untimely>>

\* RunContext fails before it gets there.
WatcherSkipped(r) ==
  /\ watcher[r] = "entering"
  /\ MoveWatcher(r, "gone")
  /\ UNCHANGED <<receivers, pulses, sigMu, graceful, mainAt, fate, signals, late, untimely>>

\* The signal is answered by a close; the second close panics the process.
WatcherCloses(r) ==
  /\ watcher[r] = "woken"
  /\ MoveWatcher(r, "gone")
  /\ receivers' = receivers \ {r}
  /\ graceful' = TRUE
  /\ fate' = (IF graceful THEN "panicked" ELSE fate)
  /\ UNCHANGED <<pulses, sigMu, mainAt, signals, late, untimely>>

\* The channel has been closed by somebody else.
WatcherReleased(r) ==
  /\ watcher[r] \in {"waiting", "woken"} /\ graceful
  /\ MoveWatcher(r, "gone")
  /\ receivers' = receivers \ {r}
  /\ UNCHANGED <<pulses, sigMu, graceful, mainAt, fate, signals, late, untimely>>

-----------------------------------------------------------------------------
(***************************************************************************)
(* A signal, and the shut-down.                                            *)
(***************************************************************************)

\* A run is being launched: its pulses are not over, or its watcher came after
\* them and no pulse of another run has met it yet.
Launching ==
  sigMu # Main \/ late \cap receivers # {} \/ \E r \in Runs : pulses[r] > 0

\* A signal reaches every channel registered for it; when there is none the
\* process is killed.
SignalArrives ==
  /\ signals < MaxSignals /\ signals' = signals + 1
  /\ untimely' = (untimely \/ Launching)
  /\ watcher' = [r \in Runs |-> IF r \in receivers /\ watcher[r] = "waiting"
                                  THEN "woken" ELSE watcher[r]]
  /\ mainAt' = (IF Main \in receivers /\ mainAt = "serving" THEN "told" ELSE mainAt)
  /\ fate' = (IF receivers = {} THEN "killed" ELSE fate)
  /\ UNCHANGED <<receivers, pulses, sigMu, graceful, late>>

\* Runner.Shutdown, at its end: a channel that is closed already is tolerated.
ShutdownProcess ==
  /\ mainAt = "told" /\ mainAt' = "returning"
  /\ graceful' = TRUE
  /\ UNCHANGED <<receivers, watcher, pulses, sigMu, fate, signals, late, untimely>>

MainReturns ==
  /\ mainAt = "returning" /\ fate' = "exited"
  /\ UNCHANGED <<receivers, watcher, pulses, sigMu, graceful, mainAt, signals, late, untimely>>

-----------------------------------------------------------------------------
Pulse(r)       == PulseResets(r) \/ PulseNotifies(r)
WatcherStep(r) ==
  WatcherSubscribes(r) \/ WatcherSkipped(r) \/ WatcherCloses(r) \/ WatcherReleased(r)

SignalNext ==
  /\ fate = "alive"
  /\ \/ \E r \in Runs : RunLaunched(r) \/ Pulse(r) \/ WatcherStep(r)
     \/ SignalArrives \/ ShutdownProcess \/ MainReturns

SignalSpec == SignalInit /\ [][SignalNext]_signalVars

-----------------------------------------------------------------------------
SignalTypeOK ==
  /\ receivers \subseteq Runs \cup {Main}
  /\ watcher \in [Runs -> {"none", "entering", "waiting", "woken", "gone"}]
  /\ pulses \in [Runs -> 0..Pulses]
  /\ sigMu \in Runs \cup {Main}
  /\ graceful \in BOOLEAN /\ mainAt \in {"serving", "told", "returning"}
  /\ fate \in {"alive", "exited", "panicked", "killed"}
  /\ signals \in 0..MaxSignals
  /\ late \subseteq Runs /\ untimely \in BOOLEAN

\* A signal that does not fall into a launch is for main alone (cloudflared.go:
\* "cfui therefore claims exclusive signal ownership"): whatever runs have come
\* and gone, it shuts the process down and neither kills nor panics it.
SignalIsOrderly ==
  ~untimely => /\ fate \in {"alive", "exited"}
               /\ signals > 0 => mainAt # "serving"

\* "The microsecond gap in between falls back to default signal handling"
\* (reclaimProcessSignals): a signal reaches main or ends the process.
GapIsDefault == signals > 0 /\ fate = "alive" => mainAt # "serving"
=============================================================================
