--------------------------- MODULE SyncJob_proofs ---------------------------
(***************************************************************************)
(* Proofs about SyncJob, for any number of targets, files, reads and       *)
(* requests; nothing but CanceledJobIsAwake depends on LatePause.          *)
(*                                                                         *)
(* What a poll sees is tied to what the worker has counted (ShownInv), the *)
(* counters to how far the worker has come in targets and files            *)
(* (CountInv), and so is what lies on the targets (DestInv).  The delicate *)
(* case is a job marked as canceled while its worker is at work: the       *)
(* counters shown stand still and the worker may count one file more.      *)
(***************************************************************************)
EXTENDS SyncJob, TLAPS

Active == worker.pc \in {"turn", "wait", "work"}
Total  == files * Targets

\* Whatever the worker runs on is a place of the plan.
PlaceInv ==
  Active => /\ worker.at \in {"start", "target"} => worker.file = 0
            /\ worker.at = "start" => worker.target = 1
            /\ worker.at \in {"file", "copy", "read"} => worker.file \in 1..files

\* A job whose worker is not done is over only if it was canceled, by a request
\* that had cancelled the context before.
StatusInv ==
  /\ (worker.pc # "done" /\ Terminal) => status = "canceled"
  /\ worker.pc = "done" => Terminal
  /\ worker.pc = "finishing" => status = "canceled"
  /\ status = "canceled" => canceled
  /\ \A c \in Controllers : ctl[c] = "mark" => canceled
  /\ ~listed => Terminal

\* The worker has counted every file before the one it is at, and no other.
CountInv ==
  /\ local.processed = Accounted(local) /\ local.processed <= local.total
  /\ local.total \in {0, Total}
  /\ Active =>
       CASE worker.at = "start"  -> local = Zero
         [] worker.at = "target" -> /\ local.total = Total
                                    /\ local.processed = (worker.target - 1) * files
         [] OTHER -> /\ local.total = Total
                     /\ local.processed = (worker.target - 1) * files + (worker.file - 1)
  /\ (worker.pc = "returned" /\ worker.err = "none") =>
       local.total = Total /\ local.processed = Total

\* The worker has counted nothing and will count nothing if it is refused.
Untouched ==
  /\ local.processed = 0
  /\ Active => \/ worker.at = "start"
               \/ worker.at = "target" /\ worker.pc # "work"

ShownInv ==
  /\ ~Terminal => shown = local
  /\ status = "completed" => shown = local /\ local.processed = Total
  /\ status = "failed" => shown = local
  /\ (status = "canceled" /\ worker.pc # "done") =>
       /\ shown.processed = Accounted(shown) /\ shown.processed <= local.processed
       /\ shown.processed <= shown.total
       /\ shown.total = Total \/ Untouched
  /\ (status = "canceled" /\ worker.pc = "done") =>
       shown.processed <= Accounted(shown) /\ Accounted(shown) <= shown.total

\* The worker is done with file f of target t.
Behind(t, f) ==
  IF Active THEN /\ worker.at # "start"
                 /\ t < worker.target \/ (t = worker.target /\ f < worker.file)
            ELSE TRUE

Whole(t, f) == dest[t][f] \in (IF overwrite THEN {"new"} ELSE {"old", "new"})

\* Files behind are whole unless a failure was counted; files ahead are as they
\* were, but for the one being written.
DestInv ==
  /\ (local.failed = 0 /\ (Active \/ (worker.pc = "returned" /\ worker.err = "none"))) =>
       \A t \in 1..Targets, f \in 1..files : Behind(t, f) => Whole(t, f)
  /\ Active =>
       \A t \in 1..Targets, f \in 1..files :
         ~Behind(t, f) => \/ dest[t][f] \in {"absent", "old"}
                          \/ worker.at = "read" /\ t = worker.target /\ f = worker.file
  /\ (status = "completed" /\ local.failed = 0) =>
       \A t \in 1..Targets, f \in 1..files : Whole(t, f)

JobInv == TypeOK /\ PlaceInv /\ StatusInv /\ CountInv /\ ShownInv /\ DestInv

-----------------------------------------------------------------------------
(***************************************************************************)
(* Arithmetic: files before a place of the plan.                           *)
(***************************************************************************)
LEMMA Sizes ==
  ASSUME TypeOK
  PROVE  /\ files \in Nat /\ Targets \in Nat /\ Targets >= 1 /\ Total \in Nat
         /\ files \in 0..MaxFiles /\ MaxFiles \in Nat
BY TargetsAssumption, BoundsAssumption DEF TypeOK, Total

\* f files of target t, and all of the targets before.
LEMMA PlacesFit ==
  ASSUME NEW n \in Nat, NEW T \in Nat, NEW t \in 1..T, NEW f \in 0..n
  PROVE  /\ (t - 1) * n \in Nat /\ (t - 1) * n + f \in Nat
         /\ (t - 1) * n + f <= n * T
         /\ (t - 1) * n + n = (t + 1 - 1) * n
         /\ t = T => (t - 1) * n + n = n * T
<1>1. t - 1 \in Nat /\ (t - 1) * n \in Nat
  OBVIOUS
<1>2. (t - 1) * n + n = t * n
  OBVIOUS
<1>3. T - t \in Nat /\ (T - t) * n \in Nat
  OBVIOUS
<1>4. n * T = t * n + (T - t) * n
  OBVIOUS
<1> QED
  BY <1>1, <1>2, <1>3, <1>4


-----------------------------------------------------------------------------
(***************************************************************************)
(* Types.                                                                  *)
(***************************************************************************)
WorkerTypes ==
  [pc: {"turn", "wait", "work", "returned", "finishing", "failing", "done"},
   at: {"start", "target", "file", "copy", "read"},
   target: 1..Targets, file: 0..MaxFiles, reads: 0..MaxReads,
   err: {"none", "error", "canceled"}]

Outcomes == {"copied", "skipped", "failed"}

LEMMA CountsOne ==
  ASSUME NEW l \in Counters, NEW field \in Outcomes
  PROVE  /\ Count(l, field) \in Counters
         /\ Count(l, field).total = l.total
         /\ Count(l, field).processed = l.processed + 1
         /\ Accounted(Count(l, field)) = Accounted(l) + 1
         /\ Count(l, field).failed >= l.failed
         /\ field = "failed" => Count(l, field).failed = l.failed + 1
<1>0. /\ l.total \in Nat /\ l.processed \in Nat
      /\ l.copied \in Nat /\ l.skipped \in Nat /\ l.failed \in Nat
  BY DEF Counters
<1>1. /\ l.processed + 1 \in Nat
      /\ l.copied + 1 \in Nat /\ l.skipped + 1 \in Nat /\ l.failed + 1 \in Nat
  BY <1>0
<1>2. CASE field = "copied"
  <2>1. Count(l, field) = [l EXCEPT !.copied = l.copied + 1, !.processed = l.processed + 1]
    BY <1>2 DEF Count
  <2>2. Count(l, field) \in Counters
    BY <1>1, <2>1 DEF Counters
  <2>3. /\ Count(l, field).copied = l.copied + 1
        /\ Count(l, field).total = l.total /\ Count(l, field).processed = l.processed + 1
        /\ Count(l, field).skipped = l.skipped /\ Count(l, field).failed = l.failed
    BY <2>1 DEF Counters
  <2> QED BY <1>0, <1>2, <2>2, <2>3 DEF Accounted
<1>3. CASE field = "skipped"
  <2>1. Count(l, field) = [l EXCEPT !.skipped = l.skipped + 1, !.processed = l.processed + 1]
    BY <1>3 DEF Count
  <2>2. Count(l, field) \in Counters
    BY <1>1, <2>1 DEF Counters
  <2>3. /\ Count(l, field).skipped = l.skipped + 1
        /\ Count(l, field).total = l.total /\ Count(l, field).processed = l.processed + 1
        /\ Count(l, field).copied = l.copied /\ Count(l, field).failed = l.failed
    BY <2>1 DEF Counters
  <2> QED BY <1>0, <1>3, <2>2, <2>3 DEF Accounted
<1>4. CASE field = "failed"
  <2>1. Count(l, field) = [l EXCEPT !.failed = l.failed + 1, !.processed = l.processed + 1]
    BY <1>4 DEF Count
  <2>2. Count(l, field) \in Counters
    BY <1>1, <2>1 DEF Counters
  <2>3. /\ Count(l, field).failed = l.failed + 1
        /\ Count(l, field).total = l.total /\ Count(l, field).processed = l.processed + 1
        /\ Count(l, field).copied = l.copied /\ Count(l, field).skipped = l.skipped
    BY <2>1 DEF Counters
  <2> QED BY <1>0, <1>4, <2>2, <2>3 DEF Accounted
<1> QED BY <1>2, <1>3, <1>4 DEF Outcomes

LEMMA ReportFits ==
  ASSUME TypeOK, NEW l \in Counters, Report(l)
  PROVE  local' \in Counters /\ shown' \in Counters
BY DEF Report, TypeOK

LEMMA WorkerFits ==
  ASSUME TypeOK, NEW t \in 1..Targets, NEW f \in 0..MaxFiles, AfterFile(t, f)
  PROVE  worker' \in WorkerTypes
<1>1. worker \in WorkerTypes
  BY DEF TypeOK, WorkerTypes
<1>2. CASE f < files
  <2>1. f + 1 \in 0..MaxFiles /\ 0 \in 0..MaxReads
    BY <1>2, Sizes, BoundsAssumption
  <2>2. worker' = [[worker EXCEPT !.pc = "turn", !.at = "file"] EXCEPT !.target = t, !.file = f + 1, !.reads = 0]
    BY <1>2, Sizes DEF AfterFile, Goto
  <2> QED BY <1>1, <2>1, <2>2 DEF WorkerTypes
<1>3. CASE ~(f < files) /\ t < Targets
  <2>1. t + 1 \in 1..Targets /\ 0 \in 0..MaxFiles /\ f >= files
    BY <1>3, Sizes
  <2>2. worker' = [worker EXCEPT !.pc = "turn", !.at = "target", !.target = t + 1, !.file = 0]
    BY <1>1, <1>3, <2>1 DEF AfterFile, Goto, WorkerTypes
  <2> QED BY <1>1, <2>1, <2>2 DEF WorkerTypes
<1>4. CASE ~(f < files) /\ ~(t < Targets)
  <2>1. worker' = [worker EXCEPT !.pc = "returned", !.err = "none"]
    BY <1>4 DEF AfterFile
  <2> QED BY <1>1, <2>1 DEF WorkerTypes
<1> QED BY <1>2, <1>3, <1>4

LEMMA TypeInit == Init => TypeOK
<1> SUFFICES ASSUME Init PROVE TypeOK
  OBVIOUS
<1>1. Zero \in Counters
  BY DEF Zero, Counters
<1>2. worker \in WorkerTypes
  BY TargetsAssumption, BoundsAssumption DEF Init, WorkerTypes
<1>3. dest \in [1..Targets -> [1..MaxFiles -> {"absent", "old", "partial", "new"}]]
  BY DEF Init
<1>4. ctl \in [Controllers -> {"idle", "cancel", "mark"}]
  BY DEF Init
<1>5. slips \in 0..2 /\ calls \in 0..MaxCalls
  BY BoundsAssumption DEF Init
<1>6. local \in Counters /\ shown \in Counters
  BY <1>1 DEF Init
<1> QED
  BY <1>2, <1>3, <1>4, <1>5, <1>6 DEF Init, TypeOK, WorkerTypes, Statuses

LEMMA TypeTurn == TypeOK /\ Turn => TypeOK'
<1> SUFFICES ASSUME TypeOK, Turn PROVE TypeOK'
  OBVIOUS
<1>0. local \in Counters /\ shown \in Counters /\ worker \in WorkerTypes
  BY DEF TypeOK, WorkerTypes
<1>1. UNCHANGED <<status, paused, canceled, listed, files, overwrite, ctl, calls, slips, dest>>
  BY DEF Turn, TurnRefused, TurnWaits, TurnGranted, JobUnchanged
<1>2. local' \in Counters /\ shown' \in Counters
  BY <1>0, CountsOne, ReportFits DEF Turn, TurnRefused, TurnWaits, TurnGranted, Outcomes
<1>3. worker' \in WorkerTypes
  BY <1>0 DEF Turn, TurnRefused, TurnWaits, TurnGranted, Returns, WorkerTypes
<1> QED
  BY <1>1, <1>2, <1>3 DEF TypeOK, WorkerTypes

LEMMA TypeFile == TypeOK /\ FileStep => TypeOK'
<1> SUFFICES ASSUME TypeOK, FileStep PROVE TypeOK'
  OBVIOUS
<1>0. /\ local \in Counters /\ shown \in Counters /\ worker \in WorkerTypes
      /\ worker.target \in 1..Targets /\ worker.file \in 0..MaxFiles /\ worker.reads \in 0..MaxReads
  BY DEF TypeOK, WorkerTypes
<1>1. UNCHANGED <<status, paused, canceled, listed, files, overwrite, ctl, calls>> /\ Slips
  BY DEF FileStep, OpenSource, TargetOpens, TargetMissing, NextFile, CopySkips, CopyOpens, ReadData,
     CopyEnds, CopyFails, JobUnchanged
<1>2. slips' \in 0..2
  BY <1>1 DEF TypeOK, Slips
<1>3. local' \in Counters /\ shown' \in Counters
  <2>1. [local EXCEPT !.total = files * Targets] \in Counters
    BY <1>0, Sizes DEF Counters, Total
  <2>2. [local EXCEPT !.failed = @ + files, !.processed = @ + files] \in Counters
    <3>1. local.failed + files \in Nat /\ local.processed + files \in Nat
      BY <1>0, Sizes DEF Counters
    <3> QED BY <1>0, <3>1 DEF Counters
  <2>3. \A o \in Outcomes : Count(local, o) \in Counters
    BY <1>0, CountsOne
  <2>4. UNCHANGED <<local, shown>> \/ \E l \in Counters : Report(l)
    BY <1>0, <2>1, <2>2, <2>3 DEF FileStep, OpenSource, TargetOpens, TargetMissing, NextFile, CopySkips,
       CopyOpens, ReadData, CopyEnds, CopyFails, FileIs, Outcomes
  <2> QED BY <1>0, <2>4, ReportFits
<1>4. worker' \in WorkerTypes
  <2>1. CASE OpenSource \/ NextFile \/ CopyOpens
    BY <1>0, <2>1 DEF OpenSource, NextFile, CopyOpens, Goto, Returns, WorkerTypes
  <2>2. CASE TargetOpens \/ TargetMissing
    BY <1>0, <2>2, Sizes, WorkerFits DEF TargetOpens, TargetMissing
  <2>3. CASE CopySkips \/ CopyEnds \/ CopyFails
    <3>1. AfterFile(worker.target, worker.file) \/ Returns("canceled")
      BY <2>3 DEF CopySkips, CopyEnds, CopyFails, FileIs
    <3> QED BY <1>0, <3>1, WorkerFits DEF Returns, WorkerTypes
  <2>4. CASE ReadData
    <3>1. worker.reads + 1 \in 0..MaxReads
      BY <1>0, <2>4, BoundsAssumption DEF ReadData
    <3>2. worker' = [worker EXCEPT !.pc = "turn", !.at = "read", !.reads = worker.reads + 1]
      BY <1>0, <2>4 DEF ReadData, Goto, WorkerTypes
    <3> QED BY <1>0, <3>1, <3>2 DEF WorkerTypes
  <2> QED BY <2>1, <2>2, <2>3, <2>4 DEF FileStep
<1>5. dest' \in [1..Targets -> [1..MaxFiles -> {"absent", "old", "partial", "new"}]]
  <2>1. dest' = dest \/ SetDest("partial") \/ SetDest("new")
    BY DEF FileStep, OpenSource, TargetOpens, TargetMissing, NextFile, CopySkips, CopyOpens, ReadData,
       CopyEnds, CopyFails
  <2>2. ASSUME NEW s \in {"partial", "new"}, SetDest(s)
        PROVE  dest' \in [1..Targets -> [1..MaxFiles -> {"absent", "old", "partial", "new"}]]
    <3>1. dest' = [dest EXCEPT ![worker.target] = [dest[worker.target] EXCEPT ![worker.file] = s]]
      BY <2>2 DEF SetDest
    <3>2. [dest[worker.target] EXCEPT ![worker.file] = s]
            \in [1..MaxFiles -> {"absent", "old", "partial", "new"}]
      BY <1>0 DEF TypeOK
    <3> QED BY <3>1, <3>2 DEF TypeOK
  <2> QED BY <2>1, <2>2 DEF TypeOK
<1> QED
  BY <1>1, <1>2, <1>3, <1>4, <1>5 DEF TypeOK, WorkerTypes

LEMMA TypeEnd == TypeOK /\ EndStep => TypeOK'
<1> SUFFICES ASSUME TypeOK, EndStep PROVE TypeOK'
  OBVIOUS
<1>0. local \in Counters /\ shown \in Counters /\ worker \in WorkerTypes
  BY DEF TypeOK, WorkerTypes
<1>1. EndUnchanged
  BY DEF EndStep, complete, IsCanceled, finishCanceled, fail
<1>2. worker' \in WorkerTypes
  BY <1>0 DEF EndStep, complete, IsCanceled, finishCanceled, fail, Ends, WorkerTypes
<1>3. shown' \in Counters /\ status' \in Statuses
  BY <1>0 DEF EndStep, complete, IsCanceled, finishCanceled, fail, Counters, TypeOK, Statuses
<1> QED
  BY <1>1, <1>2, <1>3 DEF EndUnchanged, TypeOK, WorkerTypes

\* The requests, and the removal of a job that is over.
Requests == Clear \/ \E c \in Controllers : Control(c) \/ CancelStep(c)

LEMMA RequestsMove ==
  ASSUME TypeOK, Requests
  PROVE  /\ UNCHANGED <<shown, files, overwrite, local, dest>>
         /\ worker' = worker \/ (worker.pc = "wait" /\ worker' = [worker EXCEPT !.pc = "turn"])
         /\ canceled => canceled'
         /\ \/ UNCHANGED status
            \/ ~Terminal /\ ~Terminal'
            \/ ~Terminal /\ status' = "canceled" /\ \E c \in Controllers : ctl[c] = "mark"
BY DEF Requests, Clear, Control, CancelStep, Pause, Resume, CancelUnpauses, CancelContext, CancelMarks,
   Woken, Terminal, isTerminalSyncStatus

LEMMA TypeRequests == TypeOK /\ Requests => TypeOK'
<1> SUFFICES ASSUME TypeOK, Requests PROVE TypeOK'
  OBVIOUS
<1>1. worker' \in WorkerTypes
  BY RequestsMove DEF TypeOK, WorkerTypes
<1>2. /\ status' \in Statuses /\ paused' \in BOOLEAN /\ canceled' \in BOOLEAN /\ listed' \in BOOLEAN
  BY DEF Requests, Clear, Control, CancelStep, Pause, Resume, CancelUnpauses, CancelContext,
     CancelMarks, Call, TypeOK, Statuses
<1>4. ctl' \in [Controllers -> {"idle", "cancel", "mark"}]
  BY DEF Requests, Clear, Control, CancelStep, Pause, Resume, CancelUnpauses, CancelContext,
     CancelMarks, TypeOK
<1>5. slips' \in 0..2
  BY DEF Requests, Clear, Control, CancelStep, Pause, Resume, CancelUnpauses, CancelContext,
     CancelMarks, TypeOK
<1>3. calls' \in 0..MaxCalls
  <2>1. calls' = calls \/ (calls < MaxCalls /\ calls' = calls + 1)
    BY DEF Requests, Clear, Control, CancelStep, Pause, Resume, CancelUnpauses, CancelContext,
       CancelMarks, Call
  <2> QED BY <2>1, BoundsAssumption DEF TypeOK
<1> QED
  BY <1>1, <1>2, <1>3, <1>4, <1>5, RequestsMove DEF TypeOK, WorkerTypes

LEMMA NextIs == [Next]_vars => Turn \/ FileStep \/ EndStep \/ Requests \/ UNCHANGED vars
BY DEF Next, WorkerStep, Requests

LEMMA TypeNext == TypeOK /\ [Next]_vars => TypeOK'
<1>1. TypeOK /\ UNCHANGED vars => TypeOK'
  BY DEF TypeOK, vars
<1> QED
  BY <1>1, NextIs, TypeTurn, TypeFile, TypeEnd, TypeRequests


\* What the groups of steps do to the place of the worker and to the job.
LEMMA TurnMoves ==
  ASSUME TypeOK, Turn
  PROVE  /\ UNCHANGED <<status, paused, canceled, listed, files, overwrite, ctl, calls, slips, dest>>
         /\ worker.pc = "turn" /\ worker'.pc \in {"wait", "work", "returned"}
         /\ worker'.pc = "wait" => paused /\ ~canceled
         /\ worker'.pc = "work" => ~paused
         /\ worker'.pc = "returned" => canceled
BY DEF Turn, TurnRefused, TurnWaits, TurnGranted, JobUnchanged, Returns, TypeOK

LEMMA FileMoves ==
  ASSUME TypeOK, FileStep
  PROVE  /\ UNCHANGED <<status, paused, canceled, listed, files, overwrite, ctl, calls>> /\ Slips
         /\ worker.pc = "work" /\ worker'.pc \in {"turn", "returned"}
<1>1. UNCHANGED <<status, paused, canceled, listed, files, overwrite, ctl, calls>> /\ Slips
      /\ worker.pc = "work"
  BY DEF FileStep, OpenSource, TargetOpens, TargetMissing, NextFile, CopySkips, CopyOpens, ReadData,
     CopyEnds, CopyFails, JobUnchanged, Works
<1>2. worker \in WorkerTypes
  BY DEF TypeOK, WorkerTypes
<1>3. ASSUME NEW t, NEW f, AfterFile(t, f) PROVE worker'.pc \in {"turn", "returned"}
  <2>1. \/ worker' = [Goto("turn", "file") EXCEPT !.target = t, !.file = f + 1, !.reads = 0]
        \/ worker' = [Goto("turn", "target") EXCEPT !.target = t + 1, !.file = 0]
        \/ worker' = [worker EXCEPT !.pc = "returned", !.err = "none"]
    BY <1>3 DEF AfterFile
  <2> QED BY <1>2, <2>1 DEF Goto, WorkerTypes
<1>4. worker'.pc \in {"turn", "returned"}
  <2>1. \/ \E at : worker' = Goto("turn", at) \/ worker' = [Goto("turn", at) EXCEPT !.reads = @ + 1]
        \/ \E e : Returns(e)
        \/ \E t, f : AfterFile(t, f)
    BY DEF FileStep, OpenSource, TargetOpens, TargetMissing, NextFile, CopySkips, CopyOpens, ReadData,
       CopyEnds, CopyFails, FileIs
  <2> QED BY <1>2, <1>3, <2>1 DEF Goto, Returns, WorkerTypes
<1> QED BY <1>1, <1>4

LEMMA EndMoves ==
  ASSUME TypeOK, EndStep
  PROVE  /\ EndUnchanged
         /\ worker.pc \in {"returned", "finishing", "failing"}
         /\ worker'.pc \in {"finishing", "failing", "done"}
BY DEF EndStep, complete, IsCanceled, finishCanceled, fail, Ends, TypeOK

-----------------------------------------------------------------------------
(***************************************************************************)
(* Pausing.                                                                *)
(***************************************************************************)
\* A paused worker that still has its turn was given it before the pause.
PauseInv ==
  /\ paused => slips <= 1
  /\ (paused /\ worker.pc = "work") => slips = 0

LEMMA PauseNext == TypeOK /\ PauseInv /\ [Next]_vars => PauseInv'
<1> SUFFICES ASSUME TypeOK, PauseInv, [Next]_vars PROVE PauseInv'
  OBVIOUS
<1>0. slips \in 0..2
  BY DEF TypeOK
<1>1. CASE Turn
  BY <1>1, TurnMoves DEF PauseInv
<1>2. CASE FileStep
  BY <1>0, <1>2, FileMoves DEF PauseInv, Slips
<1>3. CASE EndStep
  BY <1>3, EndMoves DEF PauseInv, EndUnchanged
<1>4. CASE Requests
  <2>1. worker'.pc = "work" => worker.pc = "work"
    BY <1>4, RequestsMove DEF TypeOK
  <2>2. \/ ~paused'
        \/ paused' = paused /\ slips' = slips
        \/ slips' = 0
    BY <1>4 DEF Requests, Clear, Control, CancelStep, Pause, Resume, CancelUnpauses, CancelContext,
       CancelMarks
  <2> QED BY <2>1, <2>2 DEF PauseInv
<1>5. CASE UNCHANGED vars
  BY <1>5 DEF PauseInv, vars
<1> QED BY <1>1, <1>2, <1>3, <1>4, <1>5, NextIs

\* The model is well typed.
THEOREM SyncTypeCorrect == Spec => []TypeOK
BY TypeInit, TypeNext, PTL DEF Spec

\* After a job was paused its goroutine takes at most the one step on a file
\* system that waitForSyncTurn had let it take, however large the file it reads.
THEOREM PauseIsPrompt == Spec => []PausedJobIsIdle
<1>1. Init => PauseInv
  BY DEF Init, PauseInv
<1>2. PauseInv => PausedJobIsIdle
  BY DEF PauseInv, PausedJobIsIdle
<1> QED BY <1>1, <1>2, PauseNext, SyncTypeCorrect, PTL DEF Spec

-----------------------------------------------------------------------------
(***************************************************************************)
(* The status.                                                             *)
(***************************************************************************)
LEMMA StatusInit == Init => StatusInv
BY DEF Init, StatusInv, Terminal, isTerminalSyncStatus

LEMMA StatusEnd == TypeOK /\ StatusInv /\ EndStep =>
                     StatusInv' /\ (Terminal => status' = status)
<1> SUFFICES ASSUME TypeOK, StatusInv, EndStep PROVE StatusInv' /\ (Terminal => status' = status)
  OBVIOUS
<1>0. UNCHANGED <<canceled, ctl, listed>>
  BY EndMoves DEF EndUnchanged
<1>1. CASE complete
  BY <1>0, <1>1 DEF complete, Ends, StatusInv, Terminal, isTerminalSyncStatus, TypeOK
<1>2. CASE IsCanceled
  BY <1>0, <1>2 DEF IsCanceled, StatusInv, Terminal, isTerminalSyncStatus, TypeOK
<1>3. CASE finishCanceled
  BY <1>0, <1>3 DEF finishCanceled, Ends, StatusInv, Terminal, isTerminalSyncStatus, TypeOK
<1>4. CASE fail
  BY <1>0, <1>4 DEF fail, Ends, StatusInv, Terminal, isTerminalSyncStatus, TypeOK
<1> QED BY <1>1, <1>2, <1>3, <1>4 DEF EndStep

LEMMA StatusRequests == TypeOK /\ StatusInv /\ Requests =>
                          StatusInv' /\ (Terminal => status' = status)
<1> SUFFICES ASSUME TypeOK, StatusInv, Requests PROVE StatusInv' /\ (Terminal => status' = status)
  OBVIOUS
<1>1. /\ worker'.pc = "done" <=> worker.pc = "done"
      /\ worker'.pc = "finishing" <=> worker.pc = "finishing"
  BY RequestsMove DEF TypeOK
<1>2. Terminal => status' = status
  BY RequestsMove
<1>3. status' = "canceled" => canceled'
  BY RequestsMove DEF StatusInv, Terminal, isTerminalSyncStatus
<1>4. \A c \in Controllers : ctl'[c] = "mark" => canceled'
  <2> SUFFICES ASSUME NEW c \in Controllers, ctl'[c] = "mark" PROVE canceled'
    OBVIOUS
  <2>1. ctl[c] = "mark" \/ canceled'
    BY DEF Requests, Clear, Control, CancelStep, Pause, Resume, CancelUnpauses, CancelContext,
       CancelMarks, TypeOK
  <2> QED BY <2>1, RequestsMove DEF StatusInv
<1>5. ~listed' => Terminal'
  <2>1. listed' = listed \/ (Terminal /\ status' = status)
    BY DEF Requests, Clear, Control, CancelStep, Pause, Resume, CancelUnpauses, CancelContext, CancelMarks
  <2> QED BY <1>2, <2>1 DEF StatusInv, Terminal
<1>6. (worker'.pc # "done" /\ Terminal') => status' = "canceled"
  BY <1>1, RequestsMove DEF StatusInv, Terminal
<1>7. worker'.pc = "done" => Terminal'
  BY <1>1, <1>2 DEF StatusInv, Terminal
<1>8. worker'.pc = "finishing" => status' = "canceled"
  BY <1>1, <1>2 DEF StatusInv, Terminal, isTerminalSyncStatus
<1> QED BY <1>2, <1>3, <1>4, <1>5, <1>6, <1>7, <1>8 DEF StatusInv

LEMMA StatusNext == TypeOK /\ StatusInv /\ [Next]_vars =>
                      StatusInv' /\ (Terminal => status' = status)
<1> SUFFICES ASSUME TypeOK, StatusInv, [Next]_vars PROVE StatusInv' /\ (Terminal => status' = status)
  OBVIOUS
<1>1. CASE Turn
  BY <1>1, TurnMoves DEF StatusInv, Terminal
<1>2. CASE FileStep
  BY <1>2, FileMoves DEF StatusInv, Terminal
<1>3. CASE UNCHANGED vars
  BY <1>3 DEF StatusInv, Terminal, vars
<1> QED BY <1>1, <1>2, <1>3, StatusEnd, StatusRequests, NextIs

\* Once a job was reported completed, failed or canceled it is never reported
\* otherwise, although finishCanceled writes the status without looking at it;
\* a job that was taken off the list had been reported over.
THEOREM ReportedEndIsFinal == Spec => TerminalIsFinal
<1>1. StatusInv /\ TypeOK /\ [Next]_vars => [(Terminal => status' = status) /\ (~listed => Terminal)]_vars
  BY StatusNext DEF StatusInv
<1> QED BY <1>1, StatusInit, StatusNext, SyncTypeCorrect, PTL DEF Spec, TerminalIsFinal

-----------------------------------------------------------------------------
(***************************************************************************)
(* Cancelling a paused job.                                                *)
(***************************************************************************)
\* While a request is in cancelJob the job is not paused: no other one pauses it.
CancelInv ==
  /\ \A c \in Controllers : ctl[c] # "idle" => ~paused /\ worker.pc # "wait"
  /\ worker.pc = "wait" => paused
  /\ canceled => worker.pc # "wait"

LEMMA CancelRequests == ~LatePause /\ TypeOK /\ CancelInv /\ Requests => CancelInv'
<1> SUFFICES ASSUME ~LatePause, TypeOK, CancelInv, Requests PROVE CancelInv'
  OBVIOUS
<1>1. CASE Clear
  BY <1>1 DEF Clear, CancelInv
<1>2. CASE \E c \in Controllers : Control(c)
  BY <1>2 DEF Control, Pause, Resume, CancelUnpauses, Call, Woken, CancelInv, TypeOK
<1>3. CASE \E c \in Controllers : CancelStep(c)
  BY <1>3 DEF CancelStep, CancelContext, CancelMarks, CancelInv, TypeOK
<1> QED BY <1>1, <1>2, <1>3 DEF Requests

LEMMA CancelNext == ~LatePause /\ TypeOK /\ CancelInv /\ [Next]_vars => CancelInv'
<1> SUFFICES ASSUME ~LatePause, TypeOK, CancelInv, [Next]_vars PROVE CancelInv'
  OBVIOUS
<1>1. CASE Turn
  BY <1>1, TurnMoves DEF CancelInv
<1>2. CASE FileStep
  BY <1>2, FileMoves DEF CancelInv
<1>3. CASE EndStep
  BY <1>3, EndMoves DEF CancelInv, EndUnchanged
<1>4. CASE UNCHANGED vars
  BY <1>4 DEF CancelInv, vars
<1> QED BY <1>1, <1>2, <1>3, <1>4, CancelRequests, NextIs

\* The worker of a canceled job does not sleep on the condition variable, when
\* no pause arrives while another request is half way through cancelJob (one
\* that does is what the run sync_latepause shows).
THEOREM CancelWakes == ~LatePause => (Spec => []CanceledJobIsAwake)
<1>1. Init => CancelInv
  BY DEF Init, CancelInv
<1>2. CancelInv => CanceledJobIsAwake
  BY DEF CancelInv, CanceledJobIsAwake
<1> SUFFICES ASSUME ~LatePause PROVE Spec => []CanceledJobIsAwake
  OBVIOUS
<1>3. TypeOK /\ CancelInv /\ [Next]_vars => CancelInv'
  BY CancelNext
<1> QED BY <1>1, <1>2, <1>3, SyncTypeCorrect, PTL DEF Spec


-----------------------------------------------------------------------------
(***************************************************************************)
(* How far the worker has come.                                            *)
(***************************************************************************)
LEMMA JobInit == Init => JobInv
<1> SUFFICES ASSUME Init PROVE JobInv
  OBVIOUS
<1>0. TypeOK /\ StatusInv
  BY TypeInit, StatusInit
<1>1. /\ worker.pc = "turn" /\ worker.at = "start" /\ worker.target = 1 /\ worker.file = 0
      /\ local = Zero /\ shown = Zero /\ status = "running"
  BY DEF Init
<1>2. PlaceInv
  BY <1>1 DEF PlaceInv
<1>3. CountInv
  BY <1>1 DEF CountInv, Active, Zero, Accounted
<1>4. ShownInv
  BY <1>1 DEF ShownInv, Terminal, isTerminalSyncStatus
<1>5. DestInv
  <2>1. \A t \in 1..Targets, f \in 1..files : dest[t][f] \in {"absent", "old"}
    <3>1. \A f \in 1..files : f \in 1..MaxFiles
      BY <1>0, Sizes
    <3> QED BY <3>1 DEF Init
  <2> QED BY <1>1, <2>1 DEF DestInv, Behind, Active
<1> QED BY <1>0, <1>2, <1>3, <1>4, <1>5 DEF JobInv

\* The worker stays where it is: it has got, or waits for, its turn.
LEMMA SamePlace ==
  ASSUME JobInv, Active, worker'.pc \in {"turn", "wait", "work"},
         worker'.at = worker.at, worker'.target = worker.target, worker'.file = worker.file,
         UNCHANGED <<local, files, overwrite, dest>>, status' = "completed" => status = "completed"
  PROVE  PlaceInv' /\ CountInv' /\ DestInv'
<1>1. PlaceInv'
  BY DEF JobInv, PlaceInv, Active
<1>2. CountInv'
  BY DEF JobInv, CountInv, Active, Total, Accounted
<1>3. DestInv'
  BY DEF JobInv, DestInv, Active, Behind, Whole
<1> QED BY <1>1, <1>2, <1>3

\* The worker does not go on: it leaves the job as it is, having counted one
\* file at most.
LEMMA Leaves ==
  ASSUME JobInv, Active, UNCHANGED <<status, files, overwrite, dest>>,
         worker'.pc = "returned", worker'.err # "none",
         \/ local' = local
         \/ worker.at \in {"file", "copy", "read"} /\ local' = Count(local, "failed")
  PROVE  /\ PlaceInv' /\ CountInv' /\ DestInv'
         /\ local'.processed >= local.processed
         /\ worker.at \in {"start", "target"} => local' = local
<1>0. local \in Counters /\ TypeOK
  BY DEF JobInv, TypeOK
<1>1. PlaceInv'
  BY DEF PlaceInv, Active
<1>2. DestInv'
  BY DEF DestInv, Active, Whole, JobInv, StatusInv, Terminal, isTerminalSyncStatus
<1>3. CASE local' = local
  <2>1. CountInv'
    BY <1>3 DEF JobInv, CountInv, Active, Total, Accounted
  <2> QED BY <1>0, <1>1, <1>2, <1>3, <2>1 DEF Counters
<1>4. CASE worker.at \in {"file", "copy", "read"} /\ local' = Count(local, "failed")
  <2>1. /\ local'.total = local.total /\ local'.processed = local.processed + 1
        /\ Accounted(local') = Accounted(local) + 1
    BY <1>0, <1>4, CountsOne DEF Outcomes
  <2>2. /\ local.processed = (worker.target - 1) * files + (worker.file - 1)
        /\ local.total = Total /\ local.processed = Accounted(local)
    BY <1>4 DEF JobInv, CountInv
  <2>3. worker.target \in 1..Targets /\ worker.file \in 1..files /\ local.processed \in Nat
    BY <1>0, <1>4 DEF JobInv, PlaceInv, TypeOK, Counters
  <2>4. local.processed + 1 <= Total
    <3>1. /\ (worker.target - 1) * files \in Nat
          /\ (worker.target - 1) * files + worker.file <= Total
      BY <1>0, <2>3, Sizes, PlacesFit DEF Total
    <3>2. local.processed + 1 = (worker.target - 1) * files + worker.file
      BY <1>0, <2>2, <2>3, <3>1, Sizes
    <3> QED BY <3>1, <3>2
  <2>5. CountInv'
    <3>1. Accounted(local)' = Accounted(local')
      BY DEF Accounted
    <3> QED BY <2>1, <2>2, <2>4, <3>1 DEF CountInv, Active, Total
  <2> QED BY <1>1, <1>2, <1>4, <2>1, <2>3, <2>5
<1> QED BY <1>3, <1>4

\* Where AfterFile puts the worker.
LEMMA PlaceAfter ==
  ASSUME TypeOK, NEW t \in 1..Targets, NEW f \in 0..files, AfterFile(t, f)
  PROVE  /\ f < files => /\ worker'.pc = "turn" /\ worker'.at = "file"
                         /\ worker'.target = t /\ worker'.file = f + 1
         /\ (f = files /\ t < Targets) => /\ worker'.pc = "turn" /\ worker'.at = "target"
                                          /\ worker'.target = t + 1 /\ worker'.file = 0
         /\ (f = files /\ t = Targets) => worker'.pc = "returned" /\ worker'.err = "none"
         /\ f < files \/ (f = files /\ t < Targets) \/ (f = files /\ t = Targets)
<1>0. /\ files \in Nat /\ Targets \in Nat /\ worker \in WorkerTypes
  BY Sizes DEF TypeOK, WorkerTypes
<1>1. ASSUME f < files
      PROVE  worker' = [worker EXCEPT !.pc = "turn", !.at = "file", !.target = t, !.file = f + 1, !.reads = 0]
  BY <1>0, <1>1 DEF AfterFile, Goto, WorkerTypes
<1>2. ASSUME f = files, t < Targets
      PROVE  worker' = [worker EXCEPT !.pc = "turn", !.at = "target", !.target = t + 1, !.file = 0]
  <2>1. ~(f < files) /\ f >= files
    BY <1>0, <1>2
  <2> QED BY <1>0, <1>2, <2>1 DEF AfterFile, Goto, WorkerTypes
<1>3. ASSUME f = files, t = Targets
      PROVE  worker' = [worker EXCEPT !.pc = "returned", !.err = "none"]
  BY <1>0, <1>3 DEF AfterFile
<1>4. f < files \/ (f = files /\ t < Targets) \/ (f = files /\ t = Targets)
  BY <1>0
<1> QED BY <1>0, <1>1, <1>2, <1>3, <1>4 DEF WorkerTypes

\* The worker has done with file f of target t, and has counted it.
LEMMA CountAfter ==
  ASSUME TypeOK, NEW t \in 1..Targets, NEW f \in 0..files, AfterFile(t, f),
         local' \in Counters, local'.total = Total, local'.processed = (t - 1) * files + f,
         local'.processed = Accounted(local'), files' = files
  PROVE  PlaceInv' /\ CountInv'
<1>0. /\ files \in Nat /\ Targets \in Nat /\ Total \in Nat /\ worker \in WorkerTypes
  BY Sizes DEF TypeOK, WorkerTypes
<1>1. /\ (t - 1) * files \in Nat /\ (t - 1) * files + f \in Nat /\ (t - 1) * files + f <= Total
      /\ (t - 1) * files + files = (t + 1 - 1) * files
      /\ t = Targets => (t - 1) * files + files = Total
  BY <1>0, PlacesFit DEF Total
<1>2. Accounted(local)' = Accounted(local') /\ Total' = Total
  BY DEF Accounted, Total
<1>3. CASE f < files
  <2>1. /\ worker'.pc = "turn" /\ worker'.at = "file" /\ worker'.target = t /\ worker'.file = f + 1
    BY <1>3, PlaceAfter
  <2>2. f + 1 \in 1..files /\ f + 1 - 1 = f
    BY <1>0, <1>3
  <2> QED BY <1>1, <1>2, <2>1, <2>2 DEF PlaceInv, CountInv, Active
<1>4. CASE ~(f < files) /\ t < Targets
  <2>0. f = files
    BY <1>0, <1>4
  <2>1. /\ worker'.pc = "turn" /\ worker'.at = "target" /\ worker'.target = t + 1 /\ worker'.file = 0
    BY <1>4, <2>0, PlaceAfter
  <2> QED BY <1>1, <1>2, <2>0, <2>1 DEF PlaceInv, CountInv, Active
<1>5. CASE ~(f < files) /\ ~(t < Targets)
  <2>0. f = files /\ t = Targets
    BY <1>0, <1>5
  <2>1. worker'.pc = "returned" /\ worker'.err = "none"
    BY <2>0, PlaceAfter
  <2> QED BY <1>1, <1>2, <2>0, <2>1 DEF PlaceInv, CountInv, Active
<1> QED BY <1>3, <1>4, <1>5

LEMMA BehindAfter ==
  ASSUME TypeOK, NEW t \in 1..Targets, NEW f \in 0..files, AfterFile(t, f),
         NEW u \in 1..Targets, NEW g \in 1..files
  PROVE  /\ Behind(u, g)' <=> (u < t \/ (u = t /\ g <= f))
         /\ worker'.at # "read" \/ ~Active'
         /\ Active' \/ (worker'.pc = "returned" /\ worker'.err = "none")
<1>0. files \in Nat /\ Targets \in Nat /\ worker \in WorkerTypes
  BY Sizes DEF TypeOK, WorkerTypes
<1>3. CASE f < files
  <2>1. /\ worker'.pc = "turn" /\ worker'.at = "file" /\ worker'.target = t /\ worker'.file = f + 1
    BY <1>3, PlaceAfter
  <2> QED BY <1>0, <2>1 DEF Behind, Active
<1>4. CASE ~(f < files) /\ t < Targets
  <2>0. f = files
    BY <1>0, <1>4
  <2>1. /\ worker'.pc = "turn" /\ worker'.at = "target" /\ worker'.target = t + 1 /\ worker'.file = 0
    BY <1>4, <2>0, PlaceAfter
  <2> QED BY <1>0, <2>0, <2>1 DEF Behind, Active
<1>5. CASE ~(f < files) /\ ~(t < Targets)
  <2>0. f = files /\ t = Targets
    BY <1>0, <1>5
  <2>1. worker'.pc = "returned" /\ worker'.err = "none"
    BY <2>0, PlaceAfter
  <2> QED BY <1>0, <2>0, <2>1 DEF Behind, Active
<1> QED BY <1>3, <1>4, <1>5

\* And what it has left there: a whole file, or a failure counted.
LEMMA DestAfter ==
  ASSUME JobInv, Active, worker.at # "start", UNCHANGED <<status, files, overwrite>>,
         NEW t \in 1..Targets, NEW f \in 0..files, AfterFile(t, f),
         t = worker.target, f >= worker.file,
         \A u \in 1..Targets, g \in 1..files :
           (u # t \/ g # worker.file) => dest'[u][g] = dest[u][g],
         (local'.failed = 0 /\ files # 0) =>
           /\ local.failed = 0 /\ f = worker.file
           /\ f # 0 => dest'[t][f] \in (IF overwrite THEN {"new"} ELSE {"old", "new"})
  PROVE  DestInv'
<1>0. /\ files \in Nat /\ Targets \in Nat /\ worker.file \in Nat /\ TypeOK
      /\ status # "completed" /\ worker.pc # "done"
  BY Sizes DEF JobInv, TypeOK, StatusInv, Active, Terminal, isTerminalSyncStatus
<1>1. ASSUME NEW u \in 1..Targets, NEW g \in 1..files, Behind(u, g)', local'.failed = 0
      PROVE  Whole(u, g)'
  <2>1. u < t \/ (u = t /\ g <= f)
    BY <1>0, <1>1, BehindAfter
  <2>2. local.failed = 0 /\ f = worker.file
    <3>1. files # 0
      BY <1>0
    <3> QED BY <1>1, <3>1
  <2>3. CASE u = t /\ g = f
    BY <1>0, <1>1, <2>3 DEF Whole
  <2>4. CASE ~(u = t /\ g = f)
    <3>1. Behind(u, g)
      BY <1>0, <2>1, <2>2, <2>4 DEF Behind
    <3>2. Whole(u, g)
      BY <2>2, <3>1 DEF JobInv, DestInv
    <3> QED BY <2>2, <2>4, <3>2 DEF Whole
  <2> QED BY <2>3, <2>4
<1>2. ASSUME NEW u \in 1..Targets, NEW g \in 1..files, ~Behind(u, g)', Active'
      PROVE  dest'[u][g] \in {"absent", "old"}
  <2>1. ~(u < t \/ (u = t /\ g <= f))
    BY <1>0, <1>2, BehindAfter
  <2>2. ~Behind(u, g) /\ (u # t \/ g # worker.file)
    BY <1>0, <2>1 DEF Behind, Active
  <2> QED BY <2>2 DEF JobInv, DestInv
<1>3. DestInv' <=>
        /\ (local'.failed = 0 /\ (Active' \/ (worker'.pc = "returned" /\ worker'.err = "none"))) =>
             \A u \in 1..Targets, g \in 1..files : Behind(u, g)' => Whole(u, g)'
        /\ Active' =>
             \A u \in 1..Targets, g \in 1..files :
               ~Behind(u, g)' => \/ dest'[u][g] \in {"absent", "old"}
                                 \/ worker'.at = "read" /\ u = worker'.target /\ g = worker'.file
        /\ (status' = "completed" /\ local'.failed = 0) =>
             \A u \in 1..Targets, g \in 1..files : Whole(u, g)'
  BY DEF DestInv
<1> QED BY <1>0, <1>1, <1>2, <1>3


-----------------------------------------------------------------------------
(***************************************************************************)
(* What a poll sees while the worker works.                                *)
(***************************************************************************)
LEMMA ShownMoves ==
  ASSUME JobInv, worker.pc # "done", worker'.pc # "done", UNCHANGED <<status, files>>,
         local'.processed >= local.processed, local'.processed \in Nat,
         shown' = IF Terminal THEN shown ELSE local',
         (Untouched /\ canceled) => Untouched'
  PROVE  ShownInv'
<1>1. Terminal' = Terminal /\ Total' = Total
  BY DEF Terminal, Total
<1>2. CASE ~Terminal
  BY <1>1, <1>2 DEF ShownInv, Terminal, isTerminalSyncStatus
<1>3. CASE Terminal
  <2>1. status = "canceled" /\ canceled /\ shown' = shown
    BY <1>3 DEF JobInv, StatusInv
  <2>2. /\ shown.processed = Accounted(shown) /\ shown.processed <= local.processed
        /\ shown.processed <= shown.total
        /\ shown.total = Total \/ Untouched
    BY <2>1 DEF JobInv, ShownInv
  <2>3. shown.processed \in Nat /\ local.processed \in Nat
    BY DEF JobInv, TypeOK, Counters
  <2>4. shown'.processed <= local'.processed
    BY <2>1, <2>2, <2>3
  <2>5. Accounted(shown)' = Accounted(shown)
    BY <2>1 DEF Accounted
  <2> QED BY <1>1, <1>3, <2>1, <2>2, <2>4, <2>5 DEF ShownInv
<1> QED BY <1>2, <1>3

\* The steps of the worker on the job report to a poll what they count.
LEMMA Follows ==
  ASSUME JobInv, Turn \/ FileStep
  PROVE  shown' = IF Terminal THEN shown ELSE local'
<1>1. (UNCHANGED <<local, shown>>) \/ \E l : Report(l)
  BY DEF Turn, TurnRefused, TurnWaits, TurnGranted, FileStep, OpenSource, TargetOpens, TargetMissing,
     NextFile, CopySkips, CopyOpens, ReadData, CopyEnds, CopyFails, FileIs
<1>2. ~Terminal => shown = local
  BY DEF JobInv, ShownInv
<1>3. CASE UNCHANGED <<local, shown>>
  BY <1>2, <1>3
<1>4. CASE \E l : Report(l)
  BY <1>4 DEF Report
<1> QED BY <1>1, <1>3, <1>4

LEMMA JobTurn == JobInv /\ Turn => JobInv'
<1> SUFFICES ASSUME JobInv, Turn PROVE JobInv'
  OBVIOUS
<1>0. TypeOK /\ StatusInv /\ TypeOK' /\ StatusInv'
  BY TypeTurn, StatusNext, TypeNext DEF JobInv, Next, WorkerStep
<1>1. /\ UNCHANGED <<status, files, overwrite, dest>> /\ worker.pc = "turn" /\ Active
      /\ worker'.pc # "done" /\ local'.processed \in Nat /\ worker \in WorkerTypes
      /\ local.processed \in Nat
  BY <1>0, TurnMoves DEF Active, TypeOK, Counters, WorkerTypes
<1>2. CASE TurnRefused
  <2>1. /\ worker'.pc = "returned" /\ worker'.err = "canceled"
        /\ worker'.at = worker.at
    BY <1>1, <1>2 DEF TurnRefused, Returns, WorkerTypes
  <2>2. \/ local' = local
        \/ worker.at \in {"file", "copy", "read"} /\ local' = Count(local, "failed")
    BY <1>2 DEF TurnRefused, Report
  <2>3. /\ PlaceInv' /\ CountInv' /\ DestInv'
        /\ local'.processed >= local.processed
        /\ worker.at \in {"start", "target"} => local' = local
    BY <1>1, <2>1, <2>2, Leaves
  <2>4. Untouched => Untouched'
    BY <1>1, <2>1, <2>3 DEF Untouched, Active
  <2>5. ShownInv'
    BY <1>1, <2>3, <2>4, Follows, ShownMoves
  <2> QED BY <1>0, <2>3, <2>5 DEF JobInv
<1>3. CASE TurnWaits \/ TurnGranted
  <2>1. /\ worker'.pc \in {"wait", "work"}
        /\ worker'.at = worker.at /\ worker'.target = worker.target /\ worker'.file = worker.file
        /\ local' = local /\ ~canceled
    BY <1>1, <1>3 DEF TurnWaits, TurnGranted, WorkerTypes
  <2>2. PlaceInv' /\ CountInv' /\ DestInv'
    BY <1>1, <2>1, SamePlace
  <2>3. ShownInv'
    BY <1>1, <2>1, Follows, ShownMoves
  <2> QED BY <1>0, <2>2, <2>3 DEF JobInv
<1> QED BY <1>2, <1>3 DEF Turn

-----------------------------------------------------------------------------
(***************************************************************************)
(* The steps on a file system.                                             *)
(***************************************************************************)
\* The plan has been made.
LEMMA OpenPlace ==
  ASSUME JobInv, OpenSource
  PROVE  /\ PlaceInv' /\ CountInv' /\ DestInv' /\ local'.processed = local.processed
         /\ Untouched => Untouched'
<1>0. /\ TypeOK /\ worker \in WorkerTypes /\ local \in Counters
      /\ worker.pc = "work" /\ worker.at = "start" /\ Active
      /\ UNCHANGED <<status, files, overwrite, dest>>
      /\ status # "completed"
  BY DEF JobInv, TypeOK, WorkerTypes, OpenSource, Works, JobUnchanged, Active, StatusInv, Terminal,
     isTerminalSyncStatus
<1>1. CASE Returns("error") \/ Returns("canceled")
  <2>1. local' = local /\ worker'.pc = "returned" /\ worker'.err # "none" /\ worker'.at = "start"
    BY <1>0, <1>1 DEF OpenSource, Returns, Goto, WorkerTypes
  <2>2. PlaceInv' /\ CountInv' /\ DestInv'
    BY <1>0, <2>1, Leaves
  <2>3. Untouched => Untouched'
    BY <2>1 DEF Untouched, Active
  <2> QED BY <2>1, <2>2, <2>3
<1>2. CASE local' = [local EXCEPT !.total = files * Targets] /\ worker' = Goto("turn", "target")
  <2>1. /\ worker'.pc = "turn" /\ worker'.at = "target" /\ worker'.target = worker.target
        /\ worker'.file = worker.file
    BY <1>0, <1>2 DEF Goto, WorkerTypes
  <2>2. worker.target = 1 /\ worker.file = 0 /\ local = Zero
    BY <1>0 DEF JobInv, PlaceInv, CountInv
  <2>3. /\ local'.total = Total /\ local'.processed = 0 /\ local'.copied = 0
        /\ local'.skipped = 0 /\ local'.failed = 0
    BY <1>2, <2>2 DEF Zero, Total
  <2>4. files \in Nat /\ Targets \in Nat /\ Total \in Nat
    BY <1>0, Sizes
  <2>5. PlaceInv'
    BY <2>1, <2>2 DEF PlaceInv
  <2>6. CountInv'
    <3>1. Total' = Total /\ Accounted(local') = 0 /\ Accounted(local)' = Accounted(local')
      BY <1>0, <2>3 DEF Total, Accounted
    <3>2. (1 - 1) * files = 0
      BY <2>4
    <3> QED BY <1>0, <2>1, <2>2, <2>3, <2>4, <3>1, <3>2 DEF CountInv, Active
  <2>7. DestInv'
    <3>1. \A t \in 1..Targets, f \in 1..files : ~Behind(t, f) /\ ~Behind(t, f)'
      BY <1>0, <2>1, <2>2, <2>4 DEF Behind, Active
    <3>2. \A t \in 1..Targets, f \in 1..files : dest[t][f] \in {"absent", "old"}
      BY <1>0, <3>1 DEF JobInv, DestInv
    <3> QED BY <1>0, <2>1, <3>1, <3>2 DEF DestInv, Active
  <2>8. Untouched'
    BY <2>1, <2>3 DEF Untouched
  <2> QED BY <2>2, <2>3, <2>5, <2>6, <2>7, <2>8 DEF Zero
<1> QED BY <1>1, <1>2 DEF OpenSource, Report

\* The worker goes on at the place it is at.
LEMMA StayPlace ==
  ASSUME JobInv, NextFile \/ CopyOpens \/ ReadData
  PROVE  PlaceInv' /\ CountInv' /\ DestInv' /\ local' = local /\ ~Untouched
<1>0. /\ TypeOK /\ worker \in WorkerTypes /\ local \in Counters
      /\ worker.pc = "work" /\ worker.at \in {"file", "copy", "read"} /\ Active
      /\ UNCHANGED <<status, files, overwrite>>
      /\ status # "completed"
  BY DEF JobInv, TypeOK, WorkerTypes, NextFile, CopyOpens, ReadData, Works, JobUnchanged, Active,
     StatusInv, Terminal, isTerminalSyncStatus
<1>1. /\ worker'.pc = "turn" /\ worker'.at \in {"copy", "read"}
      /\ worker'.target = worker.target /\ worker'.file = worker.file
  BY <1>0 DEF NextFile, CopyOpens, ReadData, Goto, WorkerTypes
<1>2. local' = local
  BY DEF NextFile, CopyOpens, ReadData, Report
<1>3. ~Untouched
  BY <1>0 DEF Untouched
<1>4. PlaceInv'
  BY <1>0, <1>1 DEF JobInv, PlaceInv
<1>5. CountInv'
  <2>1. Accounted(local)' = Accounted(local) /\ Total' = Total
    BY <1>0, <1>2 DEF Accounted, Total
  <2> QED BY <1>0, <1>1, <1>2, <2>1 DEF JobInv, CountInv, Active
<1>6. DestInv'
  <2>1. \A t \in 1..Targets, f \in 1..files : Behind(t, f)' <=> Behind(t, f)
    BY <1>0, <1>1 DEF Behind, Active
  <2>2. CASE dest' = dest /\ (worker.at = "read" => worker'.at = "read")
    BY <1>0, <1>1, <1>2, <2>1, <2>2 DEF JobInv, DestInv, Active, Whole
  <2>3. CASE CopyOpens
    <3>0. worker'.at = "read" /\ dest' = [dest EXCEPT ![worker.target][worker.file] = "partial"]
      BY <1>0, <2>3 DEF CopyOpens, SetDest, Goto, WorkerTypes
    <3>1. \A t \in 1..Targets, f \in 1..files :
            (t # worker.target \/ f # worker.file) => dest'[t][f] = dest[t][f]
      <4>1. \A f \in 1..files : f \in 1..MaxFiles
        BY <1>0, Sizes
      <4> QED BY <1>0, <3>0, <4>1 DEF TypeOK
    <3>2. ~Behind(worker.target, worker.file)
      <4>1. worker.target \in Nat /\ worker.file \in Nat
        BY <1>0 DEF WorkerTypes
      <4> QED BY <1>0, <4>1 DEF Behind
    <3>3. \A t \in 1..Targets, f \in 1..files : Behind(t, f) => dest'[t][f] = dest[t][f]
      BY <3>1, <3>2
    <3> QED BY <1>0, <1>1, <1>2, <2>1, <3>0, <3>1, <3>3 DEF JobInv, DestInv, Active, Whole
  <2>4. (NextFile \/ ReadData) => dest' = dest /\ (worker.at = "read" => worker'.at = "read")
    BY <1>0 DEF NextFile, ReadData, Works, Goto, WorkerTypes
  <2> QED BY <2>2, <2>3, <2>4
<1> QED BY <1>2, <1>3, <1>4, <1>5, <1>6


\* A target was opened, or all of its files have failed.
LEMMA TargetMoves ==
  ASSUME JobInv, TargetOpens \/ TargetMissing
  PROVE  /\ PlaceInv' /\ CountInv' /\ DestInv' /\ ~Untouched
         /\ local'.processed >= local.processed
<1>0. /\ TypeOK /\ local \in Counters /\ local'\in Counters
      /\ worker.pc = "work" /\ worker.at = "target" /\ Active
      /\ UNCHANGED <<status, files, overwrite, dest>>
  BY TypeFile DEF JobInv, TypeOK, TargetOpens, TargetMissing, Works, JobUnchanged, Active, FileStep
<1>1. PICK t \in 1..Targets : t = worker.target
  BY <1>0 DEF TypeOK
<1>2. files \in Nat /\ Targets \in Nat /\ 0 \in 0..files /\ files \in 0..files
  BY <1>0, Sizes
<1>3. worker.file = 0 /\ local.total = Total /\ local.processed = (t - 1) * files
      /\ local.processed = Accounted(local)
  BY <1>0, <1>1 DEF JobInv, PlaceInv, CountInv
<1>4. ~Untouched
  BY <1>0 DEF Untouched
<1>5. CASE TargetOpens
  <2>1. AfterFile(t, 0) /\ local' = local
    BY <1>1, <1>5 DEF TargetOpens
  <2>2. (t - 1) * files \in Nat /\ (t - 1) * files + 0 = (t - 1) * files
    BY <1>2
  <2>3. PlaceInv' /\ CountInv'
    BY <1>0, <1>2, <1>3, <2>1, <2>2, CountAfter
  <2>4. DestInv'
    BY <1>0, <1>1, <1>2, <1>3, <2>1, DestAfter
  <2> QED BY <1>3, <1>4, <2>1, <2>2, <2>3, <2>4
<1>6. CASE TargetMissing
  <2>1. AfterFile(t, files) /\ local' = [local EXCEPT !.failed = @ + files, !.processed = @ + files]
    BY <1>1, <1>6 DEF TargetMissing, Report
  <2>2. /\ local'.failed = local.failed + files /\ local'.processed = local.processed + files
        /\ local'.total = local.total /\ local'.copied = local.copied /\ local'.skipped = local.skipped
    BY <1>0, <2>1 DEF Counters
  <2>3. /\ local.failed \in Nat /\ local.processed \in Nat /\ local.copied \in Nat /\ local.skipped \in Nat
    BY <1>0 DEF Counters
  <2>4. Accounted(local') = Accounted(local) + files
    BY <1>2, <2>2, <2>3 DEF Accounted
  <2>5. PlaceInv' /\ CountInv'
    BY <1>0, <1>2, <1>3, <2>1, <2>2, <2>4, CountAfter
  <2>6. files # 0 => local'.failed # 0
    BY <1>2, <2>2, <2>3
  <2>7. DestInv'
    BY <1>0, <1>1, <1>2, <1>3, <2>1, <2>6, DestAfter
  <2> QED BY <1>2, <1>4, <2>2, <2>3, <2>5, <2>7
<1> QED BY <1>5, <1>6

\* A file was skipped, copied, or has failed.
LEMMA FileMovesOn ==
  ASSUME JobInv, CopySkips \/ CopyEnds \/ CopyFails
  PROVE  /\ PlaceInv' /\ CountInv' /\ DestInv' /\ ~Untouched
         /\ local'.processed >= local.processed
<1>0. /\ TypeOK /\ local \in Counters /\ local'\in Counters /\ worker \in WorkerTypes
      /\ worker.pc = "work" /\ worker.at \in {"copy", "read"} /\ Active
      /\ UNCHANGED <<status, files, overwrite>>
  BY TypeFile DEF JobInv, TypeOK, CopySkips, CopyEnds, CopyFails, Works, JobUnchanged, Active, FileStep,
     WorkerTypes
<1>1. PICK t \in 1..Targets : t = worker.target
  BY <1>0 DEF TypeOK
<1>2. files \in Nat /\ Targets \in Nat
  BY <1>0, Sizes
<1>3. /\ worker.file \in 1..files /\ local.total = Total
      /\ local.processed = (t - 1) * files + (worker.file - 1)
      /\ local.processed = Accounted(local)
  BY <1>0, <1>1 DEF JobInv, PlaceInv, CountInv
<1>4. PICK f \in 1..files : f = worker.file
  BY <1>3
<1>5. ~Untouched
  BY <1>0 DEF Untouched
<1>6. f \in 0..files /\ f >= worker.file /\ f \in 1..MaxFiles /\ f # 0
  BY <1>0, <1>2, <1>4, Sizes
<1>7. CASE Returns("canceled") /\ CopyFails
  <2>1. worker'.pc = "returned" /\ worker'.err = "canceled" /\ dest' = dest
    BY <1>0, <1>7 DEF Returns, WorkerTypes, CopyFails
  <2>2. local' = Count(local, "failed") \/ FileIs("failed")
    BY <1>7 DEF CopyFails, Report
  <2>3. local' = Count(local, "failed")
    BY <2>2 DEF FileIs, Report
  <2> QED BY <1>0, <1>5, <2>1, <2>3, Leaves
<1>8. ASSUME NEW o \in Outcomes, FileIs(o),
             \A u \in 1..Targets, g \in 1..files :
               (u # t \/ g # f) => dest'[u][g] = dest[u][g],
             o # "failed" => dest'[t][f] \in (IF overwrite THEN {"new"} ELSE {"old", "new"})
      PROVE  PlaceInv' /\ CountInv' /\ DestInv' /\ local'.processed >= local.processed
  <2>1. AfterFile(t, f) /\ local' = Count(local, o)
    BY <1>1, <1>4, <1>8 DEF FileIs, Report
  <2>2. /\ local'.total = local.total /\ local'.processed = local.processed + 1
        /\ Accounted(local') = Accounted(local) + 1
        /\ local'.failed >= local.failed
        /\ o = "failed" => local'.failed = local.failed + 1
        /\ local.failed \in Nat /\ local.processed \in Nat /\ local'.failed \in Nat
    BY <1>0, <2>1, CountsOne DEF Counters
  <2>3. local'.processed = (t - 1) * files + f
    <3>1. (t - 1) * files \in Nat
      BY <1>2
    <3> QED BY <1>2, <1>3, <1>4, <2>2, <3>1
  <2>4. PlaceInv' /\ CountInv'
    BY <1>0, <1>3, <1>6, <2>1, <2>2, <2>3, CountAfter
  <2>5. local'.failed = 0 => local.failed = 0 /\ o # "failed"
    BY <2>2
  <2>6. DestInv'
    BY <1>0, <1>1, <1>4, <1>6, <1>8, <2>1, <2>5, DestAfter
  <2> QED BY <2>2, <2>4, <2>6
<1>9. CASE CopySkips
  <2>1. FileIs("skipped") /\ dest' = dest /\ ~overwrite /\ dest[t][f] # "absent" /\ worker.at = "copy"
    BY <1>1, <1>4, <1>9 DEF CopySkips, Works
  <2>2. ~Behind(t, f)
    BY <1>0, <1>1, <1>2, <1>4 DEF Behind
  <2>3. dest[t][f] = "old"
    BY <1>0, <2>1, <2>2 DEF JobInv, DestInv
  <2> QED BY <1>5, <1>8, <2>1, <2>3 DEF Outcomes
<1>10. CASE CopyEnds
  <2>1. FileIs("copied") /\ dest' = [dest EXCEPT ![worker.target][worker.file] = "new"]
    BY <1>10 DEF CopyEnds, SetDest
  <2>2. \A g \in 1..files : g \in 1..MaxFiles
    BY <1>0, Sizes
  <2>3. dest'[t][f] = "new"
    BY <1>0, <1>1, <1>4, <1>6, <2>1 DEF TypeOK
  <2>4. \A u \in 1..Targets, g \in 1..files : (u # t \/ g # f) => dest'[u][g] = dest[u][g]
    BY <1>0, <1>1, <1>4, <2>1, <2>2 DEF TypeOK
  <2> QED BY <1>5, <1>8, <2>1, <2>3, <2>4 DEF Outcomes
<1>11. CASE CopyFails /\ FileIs("failed")
  <2>1. dest' = dest
    BY <1>11 DEF CopyFails
  <2> QED BY <1>5, <1>8, <1>11, <2>1 DEF Outcomes
<1> QED BY <1>7, <1>9, <1>10, <1>11 DEF CopyFails

LEMMA JobFile == JobInv /\ FileStep => JobInv'
<1> SUFFICES ASSUME JobInv, FileStep PROVE JobInv'
  OBVIOUS
<1>0. TypeOK /\ TypeOK' /\ StatusInv'
  BY TypeFile, StatusNext DEF JobInv, Next, WorkerStep
<1>1. /\ UNCHANGED <<status, files>> /\ worker.pc # "done" /\ worker'.pc # "done"
      /\ local'.processed \in Nat /\ local.processed \in Nat
  BY <1>0, FileMoves DEF TypeOK, Counters
<1>2. /\ PlaceInv' /\ CountInv' /\ DestInv' /\ local'.processed >= local.processed
      /\ Untouched => Untouched'
  <2>1. CASE OpenSource
    BY <1>1, <2>1, OpenPlace
  <2>2. CASE NextFile \/ CopyOpens \/ ReadData
    BY <1>1, <2>2, StayPlace
  <2>3. CASE TargetOpens \/ TargetMissing
    BY <2>3, TargetMoves
  <2>4. CASE CopySkips \/ CopyEnds \/ CopyFails
    BY <2>4, FileMovesOn
  <2> QED BY <2>1, <2>2, <2>3, <2>4 DEF FileStep
<1>3. ShownInv'
  BY <1>1, <1>2, Follows, ShownMoves
<1> QED BY <1>0, <1>2, <1>3 DEF JobInv

-----------------------------------------------------------------------------
(***************************************************************************)
(* The end of the goroutine, and the requests.                             *)
(***************************************************************************)
\* A canceled job whose worker ends shows what it showed before, or the
\* counters of the worker under the totals shown before.
LEMMA CanceledEnds ==
  ASSUME JobInv, worker.pc # "done", status = "canceled"
  PROVE  /\ shown.processed <= Accounted(shown) /\ Accounted(shown) <= shown.total
         /\ shown.processed <= Accounted(local) /\ Accounted(local) <= shown.total
<1>1. /\ shown.processed = Accounted(shown) /\ shown.processed <= local.processed
      /\ shown.processed <= shown.total
      /\ shown.total = Total \/ Untouched
  BY DEF JobInv, ShownInv
<1>2. /\ shown.processed \in Nat /\ shown.total \in Nat /\ local.processed \in Nat
      /\ local.total \in Nat /\ Total \in Nat
  BY Sizes DEF JobInv, TypeOK, Counters
<1>3. local.processed = Accounted(local) /\ local.processed <= local.total /\ local.total \in {0, Total}
  BY DEF JobInv, CountInv
<1>4. local.processed <= shown.total
  <2>1. CASE shown.total = Total
    BY <1>2, <1>3, <2>1
  <2>2. CASE Untouched
    BY <1>2, <2>2 DEF Untouched
  <2> QED BY <1>1, <2>1, <2>2
<1> QED BY <1>1, <1>2, <1>3, <1>4

LEMMA JobEnd == JobInv /\ EndStep => JobInv'
<1> SUFFICES ASSUME JobInv, EndStep PROVE JobInv'
  OBVIOUS
<1>0. TypeOK /\ TypeOK' /\ StatusInv /\ StatusInv'
  BY TypeEnd, StatusEnd DEF JobInv
<1>1. /\ UNCHANGED <<canceled, files, overwrite, local, dest>>
      /\ worker.pc \in {"returned", "finishing", "failing"}
      /\ worker'.pc \in {"finishing", "failing", "done"}
      /\ local \in Counters /\ shown \in Counters
  BY <1>0, EndMoves DEF EndUnchanged, TypeOK
<1>2. PlaceInv'
  BY <1>1 DEF PlaceInv, Active
<1>3. CountInv'
  BY <1>1 DEF JobInv, CountInv, Active, Total, Accounted
<1>4. Terminal => status = "canceled"
  BY <1>0, <1>1 DEF StatusInv
<1>5. ~Terminal => shown = local
  BY DEF JobInv, ShownInv
<1>6. CASE UNCHANGED <<status, shown>> /\ Terminal
  <2>1. DestInv'
    BY <1>1, <1>4, <1>6 DEF DestInv, Active
  <2>2. ShownInv'
    <3>1. CASE worker'.pc = "done"
      BY <1>1, <1>4, <1>6, <3>1, CanceledEnds DEF ShownInv, Terminal, isTerminalSyncStatus, Accounted
    <3>2. CASE worker'.pc # "done"
      <4>1. Untouched => Untouched'
        BY <1>1 DEF Untouched, Active
      <4>2. Terminal' = Terminal /\ Total' = Total /\ Accounted(shown)' = Accounted(shown)
        BY <1>1, <1>6 DEF Terminal, Total, Accounted
      <4> QED BY <1>1, <1>4, <1>6, <3>2, <4>1, <4>2 DEF JobInv, ShownInv
    <3> QED BY <3>1, <3>2
  <2> QED BY <1>0, <1>2, <1>3, <2>1, <2>2 DEF JobInv
<1>7. CASE complete /\ ~Terminal
  <2>1. /\ status' = "completed" /\ shown' = [local EXCEPT !.processed = shown.total]
        /\ worker.pc = "returned" /\ worker.err = "none"
    BY <1>7 DEF complete
  <2>2. local.total = Total /\ local.processed = Total /\ shown = local
    BY <1>5, <1>7, <2>1 DEF JobInv, CountInv
  <2>3. shown' = local
    <3>1. [local EXCEPT !.processed = local.processed] = local
      BY <1>1 DEF Counters
    <3> QED BY <2>1, <2>2, <3>1
  <2>4. ShownInv'
    BY <1>1, <2>1, <2>2, <2>3 DEF ShownInv, Total, Terminal, isTerminalSyncStatus
  <2>5. DestInv'
    <3>1. \A t \in 1..Targets, f \in 1..files : Behind(t, f)
      BY <2>1 DEF Behind, Active
    <3>2. local.failed = 0 => \A t \in 1..Targets, f \in 1..files : Whole(t, f)
      BY <2>1, <3>1 DEF JobInv, DestInv
    <3> QED BY <1>1, <3>2 DEF DestInv, Active, Whole
  <2> QED BY <1>0, <1>2, <1>3, <2>4, <2>5 DEF JobInv
<1>8. CASE IsCanceled /\ ~Terminal
  <2>1. UNCHANGED <<status, shown>> /\ worker'.pc \in {"finishing", "failing"} /\ status # "completed"
    BY <1>1, <1>8 DEF IsCanceled, Terminal, isTerminalSyncStatus, TypeOK
  <2>2. ShownInv'
    BY <1>1, <1>5, <1>8, <2>1 DEF ShownInv, Terminal, isTerminalSyncStatus
  <2>3. DestInv'
    BY <1>1, <2>1 DEF DestInv, Active
  <2> QED BY <1>0, <1>2, <1>3, <2>2, <2>3 DEF JobInv
<1>9. CASE finishCanceled
  <2>1. /\ status = "canceled" /\ status' = "canceled" /\ worker'.pc = "done"
        /\ shown' = [local EXCEPT !.total = shown.total, !.processed = shown.processed]
    BY <1>0, <1>9 DEF finishCanceled, StatusInv, Ends, TypeOK
  <2>2. /\ shown'.total = shown.total /\ shown'.processed = shown.processed
        /\ Accounted(shown)' = Accounted(local)
    BY <1>1, <2>1 DEF Counters, Accounted
  <2>3. ShownInv'
    BY <1>1, <2>1, <2>2, CanceledEnds DEF ShownInv, Terminal, isTerminalSyncStatus
  <2>4. DestInv'
    BY <1>1, <2>1 DEF DestInv, Active
  <2> QED BY <1>0, <1>2, <1>3, <2>3, <2>4 DEF JobInv
<1>10. CASE fail /\ ~Terminal
  <2>1. status' = "failed" /\ shown' = shown /\ worker'.pc = "done"
    BY <1>0, <1>10 DEF fail, Ends, TypeOK
  <2>2. ShownInv'
    BY <1>1, <1>5, <1>10, <2>1 DEF ShownInv, Terminal, isTerminalSyncStatus
  <2>3. DestInv'
    BY <1>1, <2>1 DEF DestInv, Active
  <2> QED BY <1>0, <1>2, <1>3, <2>2, <2>3 DEF JobInv
<1> QED BY <1>6, <1>7, <1>8, <1>9, <1>10 DEF EndStep, complete, IsCanceled, fail

LEMMA JobRequests == JobInv /\ Requests => JobInv'
<1> SUFFICES ASSUME JobInv, Requests PROVE JobInv'
  OBVIOUS
<1>0. TypeOK /\ TypeOK' /\ StatusInv /\ StatusInv'
  BY TypeRequests, StatusRequests DEF JobInv
<1>1. /\ UNCHANGED <<shown, files, overwrite, local, dest>>
      /\ worker' = worker \/ (worker.pc = "wait" /\ worker' = [worker EXCEPT !.pc = "turn"])
      /\ \/ UNCHANGED status
         \/ ~Terminal /\ ~Terminal'
         \/ ~Terminal /\ status' = "canceled"
  BY <1>0, RequestsMove
<1>2. /\ worker'.at = worker.at /\ worker'.target = worker.target /\ worker'.file = worker.file
      /\ worker'.err = worker.err
      /\ worker'.pc = worker.pc \/ (worker.pc = "wait" /\ worker'.pc = "turn")
  BY <1>0, <1>1 DEF TypeOK
<1>3. status' = "completed" => status = "completed"
  BY <1>1 DEF Terminal, isTerminalSyncStatus
<1>4. PlaceInv' /\ CountInv' /\ DestInv'
  <2>1. CASE Active
    <3>1. worker'.pc \in {"turn", "wait", "work"}
      BY <1>2, <2>1 DEF Active
    <3> QED BY <1>1, <1>2, <1>3, <2>1, <3>1, SamePlace
  <2>2. CASE ~Active
    <3>1. worker' = worker /\ ~Active'
      BY <1>1, <2>2 DEF Active
    <3>2. PlaceInv' /\ CountInv'
      BY <1>1, <3>1 DEF JobInv, PlaceInv, CountInv, Total, Accounted
    <3>3. DestInv'
      BY <1>1, <1>3, <2>2, <3>1 DEF JobInv, DestInv, Behind, Whole
    <3> QED BY <3>2, <3>3
  <2> QED BY <2>1, <2>2
<1>5. ShownInv'
  <2>1. Untouched => Untouched'
    BY <1>1, <1>2 DEF Untouched, Active
  <2>2. Accounted(shown)' = Accounted(shown) /\ Total' = Total
    BY <1>1 DEF Accounted, Total
  <2>3. worker'.pc = "done" <=> worker.pc = "done"
    BY <1>2
  <2>4. CASE UNCHANGED status
    BY <1>1, <2>1, <2>2, <2>3, <2>4 DEF JobInv, ShownInv, Terminal
  <2>5. CASE ~Terminal /\ ~Terminal'
    BY <1>1, <2>5 DEF JobInv, ShownInv, Terminal, isTerminalSyncStatus
  <2>6. CASE ~Terminal /\ status' = "canceled"
    <3>1. shown = local /\ worker.pc # "done"
      BY <1>0, <2>6 DEF JobInv, ShownInv, StatusInv
    <3>2. local.processed = Accounted(local) /\ local.processed <= local.total /\ local.total \in {0, Total}
      BY DEF JobInv, CountInv
    <3>3. local.total = Total \/ Untouched
      <4>1. local.processed \in Nat
        BY <1>0 DEF TypeOK, Counters
      <4>2. (Active /\ local.total # Total) => worker.at = "start"
        BY DEF JobInv, CountInv
      <4> QED BY <3>2, <4>1, <4>2 DEF Untouched
    <3>4. local.processed <= local.processed
      BY <1>0 DEF TypeOK, Counters
    <3> QED BY <1>1, <2>1, <2>2, <2>3, <2>6, <3>1, <3>2, <3>3, <3>4 DEF ShownInv, Terminal, isTerminalSyncStatus
  <2> QED BY <1>1, <2>4, <2>5, <2>6
<1> QED BY <1>0, <1>4, <1>5 DEF JobInv

LEMMA JobNext == JobInv /\ [Next]_vars => JobInv'
<1>1. JobInv /\ UNCHANGED vars => JobInv'
  BY DEF JobInv, TypeOK, PlaceInv, StatusInv, CountInv, ShownInv, DestInv, Active, Total, Accounted,
     Untouched, Behind, Whole, Terminal, vars
<1> QED BY <1>1, JobTurn, JobFile, JobEnd, JobRequests, NextIs

-----------------------------------------------------------------------------
(***************************************************************************)
(* The theorems.                                                           *)
(***************************************************************************)
LEMMA JobIsInvariant == Spec => []JobInv
BY JobInit, JobNext, PTL DEF Spec

\* What a poll shows adds up in every state of every job: each processed file
\* is counted once as copied, skipped or failed, never more than the plan has,
\* and a completed job has accounted for each file of each target.
THEOREM PollsAddUp == Spec => []PollIsConsistent
<1>1. JobInv => PollIsConsistent
  <2> SUFFICES ASSUME JobInv PROVE PollIsConsistent
    OBVIOUS
  <2>0. /\ TypeOK /\ StatusInv /\ ShownInv
        /\ local.processed = Accounted(local) /\ local.processed <= local.total
    BY DEF JobInv, CountInv
  <2>1. /\ shown.processed \in Nat /\ shown.total \in Nat /\ shown.copied \in Nat
        /\ shown.skipped \in Nat /\ shown.failed \in Nat
    BY <2>0 DEF TypeOK, Counters
  <2>2. CASE ~Terminal
    BY <2>0, <2>2 DEF ShownInv, PollIsConsistent, Terminal, isTerminalSyncStatus
  <2>3. CASE status = "completed"
    BY <2>0, <2>3 DEF ShownInv, PollIsConsistent, Total
  <2>4. CASE status = "failed"
    BY <2>0, <2>4 DEF ShownInv, PollIsConsistent
  <2>5. CASE status = "canceled"
    <3>1. shown.processed <= Accounted(shown) /\ Accounted(shown) <= shown.total
      BY <2>0, <2>5, CanceledEnds DEF ShownInv
    <3>2. Accounted(shown) \in Nat
      BY <2>1 DEF Accounted
    <3> QED BY <2>1, <2>5, <3>1, <3>2 DEF PollIsConsistent
  <2> QED BY <2>2, <2>3, <2>4, <2>5 DEF Terminal, isTerminalSyncStatus
<1> QED BY <1>1, JobIsInvariant, PTL

\* A completed job that reports no failure has left a whole file at every place
\* of the plan, and the one this job wrote when it was told to overwrite.
THEOREM CompletedIsWhole == Spec => []CompletedCopyIsWhole
<1>1. JobInv => CompletedCopyIsWhole
  BY DEF JobInv, ShownInv, DestInv, Whole, CompletedCopyIsWhole
<1> QED BY <1>1, JobIsInvariant, PTL
=============================================================================
