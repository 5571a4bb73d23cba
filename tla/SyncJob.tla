------------------------------ MODULE SyncJob ------------------------------
(***************************************************************************)
(* One synchronisation job of internal/s3dav/sync.go: the goroutine that   *)
(* copies the files of a plan to every target mount, the requests that     *)
(* pause, resume, cancel and clear the job, and the status they all write. *)
(*                                                                         *)
(* A job has two locks: stateMu guards paused and the condition variable,  *)
(* mu guards the reported status.  pause and resume hold both; cancelJob   *)
(* takes one, releases it, cancels the context, then takes the other, so   *)
(* it is three actions.  waitForSyncTurn and waitIfPaused are one action:  *)
(* the context is only ever cancelled, so of the two looks at ctx.Err the  *)
(* one under the lock decides.                                             *)
(*                                                                         *)
(* Abstractions: files are numbered, a file system operation succeeds or   *)
(* fails, byte counts and the names of the current file are left out.      *)
(***************************************************************************)
EXTENDS Naturals

CONSTANTS
  Controllers,   \* requests that may be inside ControlSyncJob at once
  Targets,       \* number of target mounts, at least one
  MaxFiles,      \* bound: files of the plan
  MaxReads,      \* bound: reads of one file that return data
  MaxCalls,      \* bound: control requests
  LatePause      \* may a pause arrive while another request is half way
                 \* through cancelJob?

ASSUME TargetsAssumption == Targets \in Nat \ {0}
ASSUME BoundsAssumption  == MaxFiles \in Nat /\ MaxReads \in Nat /\ MaxCalls \in Nat
ASSUME PauseAssumption   == LatePause \in BOOLEAN

VARIABLES
  status,     \* resp.Status
  shown,      \* the counters of resp, what a poll of the job sees
  paused,     \* syncJob.paused
  canceled,   \* ctx.Err() # nil
  listed,     \* is the job in Service.syncJobs?
  files, overwrite,   \* the plan and the request
  worker,     \* the goroutine of StartSync: where it is in runSync
  local,      \* the counters of runSync
  dest,       \* dest[t][f]: file f on target t
  ctl,        \* ctl[c]: where request c is in cancelJob
  slips,      \* file system steps since the job was paused
  calls       \* counter of the bound

vars == <<status, shown, paused, canceled, listed, files, overwrite, worker,
          local, dest, ctl, slips, calls>>

Statuses == {"running", "paused", "completed", "failed", "canceled"}
isTerminalSyncStatus(s) == s \in {"completed", "failed", "canceled"}
Terminal == isTerminalSyncStatus(status)

Zero == [total |-> 0, processed |-> 0, copied |-> 0, skipped |-> 0, failed |-> 0]

Init ==
  /\ status = "running" /\ shown = Zero
  /\ paused = FALSE /\ canceled = FALSE /\ listed = TRUE
  /\ files \in 0..MaxFiles /\ overwrite \in BOOLEAN
  /\ worker = [pc |-> "turn", at |-> "start", target |-> 1, file |-> 0,
               reads |-> 0, err |-> "none"]
  /\ local = Zero
  /\ dest \in [1..Targets -> [1..MaxFiles -> {"absent", "old"}]]
  /\ ctl = [c \in Controllers |-> "idle"]
  /\ slips = 0 /\ calls = 0

-----------------------------------------------------------------------------
(***************************************************************************)
(* The requests.                                                           *)
(***************************************************************************)
Call(c) ==
  /\ listed /\ ctl[c] = "idle" /\ calls < MaxCalls
  /\ calls' = calls + 1

\* Broadcast: the waiting worker, if any, looks at the job again.
Woken == IF worker.pc = "wait" THEN [worker EXCEPT !.pc = "turn"] ELSE worker

Pause(c) ==
  /\ Call(c) /\ status = "running"
  /\ LatePause \/ \A d \in Controllers : ctl[d] = "idle"
  /\ paused' = TRUE /\ status' = "paused" /\ slips' = 0
  /\ UNCHANGED <<shown, canceled, listed, files, overwrite, worker, local, dest, ctl>>

\* Mutant: the worker is not told.
Mutant_ResumeSilently(c) ==
  /\ Call(c) /\ status = "paused"
  /\ paused' = FALSE /\ status' = "running"
  /\ UNCHANGED <<shown, canceled, listed, files, overwrite, worker, local, dest, ctl, slips>>

Resume(c) ==
  /\ Call(c) /\ status = "paused"
  /\ paused' = FALSE /\ status' = "running"
  /\ worker' = Woken
  /\ UNCHANGED <<shown, canceled, listed, files, overwrite, local, dest, ctl, slips>>

\* cancelJob, under stateMu.
CancelUnpauses(c) ==
  /\ Call(c)
  /\ paused' = FALSE /\ worker' = Woken
  /\ ctl' = [ctl EXCEPT ![c] = "cancel"]
  /\ UNCHANGED <<status, shown, canceled, listed, files, overwrite, local, dest, slips>>

\* cancelJob, no lock held.
CancelContext(c) ==
  /\ ctl[c] = "cancel"
  /\ canceled' = TRUE
  /\ ctl' = [ctl EXCEPT ![c] = "mark"]
  /\ UNCHANGED <<status, shown, paused, listed, files, overwrite, worker,
                 local, dest, slips, calls>>

\* cancelJob, under mu.
CancelMarks(c) ==
  /\ ctl[c] = "mark"
  /\ status' = IF Terminal THEN status ELSE "canceled"
  /\ ctl' = [ctl EXCEPT ![c] = "idle"]
  /\ UNCHANGED <<shown, paused, canceled, listed, files, overwrite, worker,
                 local, dest, slips, calls>>

\* clearSyncJob, or the retention of one hour has passed.
Clear ==
  /\ listed /\ Terminal
  /\ listed' = FALSE
  /\ UNCHANGED <<status, shown, paused, canceled, files, overwrite, worker,
                 local, dest, ctl, slips, calls>>

-----------------------------------------------------------------------------
(***************************************************************************)
(* The worker.  It takes a turn before every step on a file system.        *)
(***************************************************************************)
Count(l, field) == [l EXCEPT ![field] = @ + 1, !.processed = @ + 1]

\* update: what a poll sees follows the worker until the job is over.
Report(l) ==
  /\ local' = l
  /\ shown' = IF Terminal THEN shown ELSE l

Goto(pc, at) == [worker EXCEPT !.pc = pc, !.at = at]

Returns(err) == worker' = [worker EXCEPT !.pc = "returned", !.err = err]

\* The turn after file f of target t.
AfterFile(t, f) ==
  worker' = CASE f < files -> [Goto("turn", "file") EXCEPT !.target = t, !.file = f + 1, !.reads = 0]
              [] f >= files /\ t < Targets ->
                   [Goto("turn", "target") EXCEPT !.target = t + 1, !.file = 0]
              [] OTHER -> [worker EXCEPT !.pc = "returned", !.err = "none"]

Works(at) == worker.pc = "work" /\ worker.at = at

JobUnchanged == UNCHANGED <<status, paused, canceled, listed, files, overwrite, ctl, calls>>

\* One more step since the job was paused, counted up to two.
Slips == slips' = IF paused /\ slips < 2 THEN slips + 1 ELSE slips

\* Refused: a file whose copy was under way is counted as failed.
TurnRefused ==
  /\ worker.pc = "turn" /\ canceled
  /\ IF worker.at \in {"copy", "read"} THEN Report(Count(local, "failed"))
                                       ELSE UNCHANGED <<local, shown>>
  /\ Returns("canceled")
  /\ UNCHANGED <<dest, slips>> /\ JobUnchanged

\* Paused: wait for a broadcast.
TurnWaits ==
  /\ worker.pc = "turn" /\ ~canceled /\ paused
  /\ worker' = [worker EXCEPT !.pc = "wait"]
  /\ UNCHANGED <<shown, local, dest, slips>> /\ JobUnchanged

\* Mutant: the reader of a file does not look at the pause.
Mutant_TurnPerFile ==
  /\ worker.pc = "turn" /\ ~canceled
  /\ paused => worker.at = "read"
  /\ worker' = [worker EXCEPT !.pc = "work"]
  /\ UNCHANGED <<shown, local, dest, slips>> /\ JobUnchanged

TurnGranted ==
  /\ worker.pc = "turn" /\ ~canceled /\ ~paused
  /\ worker' = [worker EXCEPT !.pc = "work"]
  /\ UNCHANGED <<shown, local, dest, slips>> /\ JobUnchanged

\* The source file system and collectSyncPlan.
OpenSource ==
  /\ Works("start")
  /\ \/ /\ Report([local EXCEPT !.total = files * Targets])
        /\ worker' = Goto("turn", "target")
     \/ /\ Returns("error") /\ UNCHANGED <<local, shown>>
     \/ /\ canceled /\ Returns("canceled") /\ UNCHANGED <<local, shown>>
  /\ Slips /\ UNCHANGED dest /\ JobUnchanged

TargetOpens ==
  /\ Works("target")
  /\ AfterFile(worker.target, 0)
  /\ Slips /\ UNCHANGED <<local, shown, dest>> /\ JobUnchanged

\* Mutant: the files that could not be copied are not counted.
Mutant_TargetMissing ==
  /\ Works("target")
  /\ Report([local EXCEPT !.failed = @ + 1, !.processed = @ + files])
  /\ AfterFile(worker.target, files)
  /\ Slips /\ UNCHANGED dest /\ JobUnchanged

\* All files of a target that cannot be opened have failed.
TargetMissing ==
  /\ Works("target")
  /\ Report([local EXCEPT !.failed = @ + files, !.processed = @ + files])
  /\ AfterFile(worker.target, files)
  /\ Slips /\ UNCHANGED dest /\ JobUnchanged

NextFile ==
  /\ Works("file")
  /\ Report(local)
  /\ worker' = Goto("turn", "copy")
  /\ Slips /\ UNCHANGED dest /\ JobUnchanged

FileIs(outcome) ==
  /\ Report(Count(local, outcome))
  /\ AfterFile(worker.target, worker.file)

SetDest(s) == dest' = [dest EXCEPT ![worker.target][worker.file] = s]

CopySkips ==
  /\ Works("copy")
  /\ ~overwrite /\ dest[worker.target][worker.file] # "absent"
  /\ FileIs("skipped")
  /\ Slips /\ UNCHANGED dest /\ JobUnchanged

\* writeFile truncates the destination before the first read.
CopyOpens ==
  /\ Works("copy")
  /\ overwrite \/ dest[worker.target][worker.file] = "absent"
  /\ SetDest("partial")
  /\ worker' = Goto("turn", "read")
  /\ Slips /\ UNCHANGED <<local, shown>> /\ JobUnchanged

ReadData ==
  /\ Works("read") /\ worker.reads < MaxReads
  /\ Report(local)
  /\ worker' = [Goto("turn", "read") EXCEPT !.reads = @ + 1]
  /\ Slips /\ UNCHANGED dest /\ JobUnchanged

\* The last read reports the end of the file and the file is closed.
CopyEnds ==
  /\ Works("read")
  /\ SetDest("new") /\ FileIs("copied")
  /\ Slips /\ JobUnchanged

\* Mutant: the error of the copy is lost.
Mutant_CopyFails ==
  /\ Works("copy") \/ Works("read")
  /\ FileIs("copied")
  /\ Slips /\ UNCHANGED dest /\ JobUnchanged

\* An operation on either file system fails; when the job was cancelled the
\* failure may be that of its context, and ends the run.
CopyFails ==
  /\ Works("copy") \/ Works("read")
  /\ \/ FileIs("failed")
     \/ canceled /\ Report(Count(local, "failed")) /\ Returns("canceled")
  /\ Slips /\ UNCHANGED dest /\ JobUnchanged

-----------------------------------------------------------------------------
(***************************************************************************)
(* The end of the goroutine.                                               *)
(***************************************************************************)
Ends == worker' = [worker EXCEPT !.pc = "done"]

EndUnchanged == UNCHANGED <<paused, canceled, listed, files, overwrite, local,
                            dest, ctl, slips, calls>>

\* Mutant: the last writer of the status wins.
Mutant_CompleteAnyway ==
  /\ worker.pc = "returned" /\ worker.err = "none"
  /\ status' = "completed" /\ shown' = [local EXCEPT !.processed = shown.total]
  /\ Ends /\ EndUnchanged

complete ==
  /\ worker.pc = "returned" /\ worker.err = "none"
  /\ IF Terminal THEN UNCHANGED <<status, shown>>
     ELSE /\ status' = "completed"
          /\ shown' = [local EXCEPT !.processed = shown.total]
  /\ Ends /\ EndUnchanged

\* errors.Is(err, context.Canceled) && job.isCanceled()
IsCanceled ==
  /\ worker.pc = "returned" /\ worker.err = "canceled"
  /\ worker' = [worker EXCEPT !.pc = IF status = "canceled" THEN "finishing" ELSE "failing"]
  /\ UNCHANGED <<status, shown>> /\ EndUnchanged

finishCanceled ==
  /\ worker.pc = "finishing"
  /\ status' = "canceled"
  /\ shown' = [local EXCEPT !.total = shown.total, !.processed = shown.processed]
  /\ Ends /\ EndUnchanged

fail ==
  /\ \/ worker.pc = "failing"
     \/ worker.pc = "returned" /\ worker.err = "error"
  /\ status' = IF Terminal THEN status ELSE "failed"
  /\ Ends /\ UNCHANGED shown /\ EndUnchanged

-----------------------------------------------------------------------------
Turn     == TurnRefused \/ TurnWaits \/ TurnGranted
FileStep == \/ OpenSource \/ TargetOpens \/ TargetMissing \/ NextFile
            \/ CopySkips \/ CopyOpens \/ ReadData \/ CopyEnds \/ CopyFails
EndStep  == complete \/ IsCanceled \/ finishCanceled \/ fail
WorkerStep == Turn \/ FileStep \/ EndStep

CancelStep(c) == CancelContext(c) \/ CancelMarks(c)
Control(c)    == Pause(c) \/ Resume(c) \/ CancelUnpauses(c)

Next == WorkerStep \/ Clear \/ \E c \in Controllers : Control(c) \/ CancelStep(c)

Spec == Init /\ [][Next]_vars

(***************************************************************************)
(* The worker and a request that has begun are scheduled.  An operation on *)
(* a file system returns.  Nothing obliges a user to resume a paused job.  *)
(***************************************************************************)
FairSpec == Spec /\ WF_vars(WorkerStep)
                 /\ \A c \in Controllers : WF_vars(CancelStep(c))

-----------------------------------------------------------------------------
(***************************************************************************)
(* Properties.                                                             *)
(***************************************************************************)
Counters == [total: Nat, processed: Nat, copied: Nat, skipped: Nat, failed: Nat]

\* The types of the variables.
TypeOK ==
  /\ status \in Statuses
  /\ shown \in Counters /\ local \in Counters
  /\ paused \in BOOLEAN /\ canceled \in BOOLEAN /\ listed \in BOOLEAN
  /\ files \in 0..MaxFiles /\ overwrite \in BOOLEAN
  /\ worker \in [pc: {"turn", "wait", "work", "returned", "finishing", "failing", "done"},
                 at: {"start", "target", "file", "copy", "read"},
                 target: 1..Targets, file: 0..MaxFiles, reads: 0..MaxReads,
                 err: {"none", "error", "canceled"}]
  /\ dest \in [1..Targets -> [1..MaxFiles -> {"absent", "old", "partial", "new"}]]
  /\ ctl \in [Controllers -> {"idle", "cancel", "mark"}]
  /\ slips \in 0..2 /\ calls \in 0..MaxCalls

\* A job that was reported completed, failed or canceled is never reported
\* otherwise afterwards, whatever the worker and a late cancel still write
\* (finishCanceled writes the status without looking at it), and a job that
\* can no longer be polled was reported over.
TerminalIsFinal == [][(Terminal => status' = status) /\ (~listed => Terminal)]_vars

Accounted(c) == c.copied + c.skipped + c.failed

\* What a poll shows adds up: every processed file is counted once as copied,
\* skipped or failed, and a completed job has accounted for each file of each
\* target, those of targets that could not be opened included.  A canceled
\* job may count the file that was under way in addition.
PollIsConsistent ==
  /\ shown.processed <= shown.total /\ Accounted(shown) <= shown.total
  /\ IF status = "canceled" THEN shown.processed <= Accounted(shown)
                            ELSE shown.processed = Accounted(shown)
  /\ status = "completed" => shown.processed = files * Targets

\* A completed job that reports no failure has left no truncated file behind,
\* and with overwrite every destination holds what this job wrote.
CompletedCopyIsWhole ==
  status = "completed" /\ shown.failed = 0 =>
    \A t \in 1..Targets, f \in 1..files :
      dest[t][f] \in (IF overwrite THEN {"new"} ELSE {"old", "new"})

\* After Pause has returned the worker takes at most the one step that it had
\* been given its turn for; in particular it does not read on in a large file.
PausedJobIsIdle == paused => slips <= 1

\* Cancelling a job ends a pause: once its context is cancelled the worker
\* does not sleep (needs ~LatePause).
CanceledJobIsAwake == canceled => worker.pc # "wait"

\* A job that is not left paused ends.
JobEnds == <>[]~paused => <>(worker.pc = "done")
=============================================================================
