------------------------------ MODULE R2Upload ------------------------------
(***************************************************************************)
(* Chunked uploads to R2 (internal/server/r2_upload.go): a browser sends   *)
(* the chunks of an object one by one, repeats one whose answer it did not *)
(* get, and then asks for the whole to be stored; the chunks are kept in a *)
(* temporary file per upload.                                              *)
(*                                                                         *)
(* r2UploadManager.mu is held to look up and to update the table only:     *)
(* files are written, read and removed outside of it, so each of these is  *)
(* an action, a chunk is written and an object is read in several.         *)
(*                                                                         *)
(* Abstractions: what the file holds of a chunk is a hole, a part or all   *)
(* of it; a repeated chunk has the bytes of the first.  Upload ids are     *)
(* random and never reused.  A file that is removed while it is open can   *)
(* be read and written on through the handle.                              *)
(***************************************************************************)
EXTENDS Naturals

CONSTANTS
  UploadRequests,   \* requests that may be at work at once
  MaxUploads,       \* bound: uploads ever begun
  Chunks,           \* TotalChunks of every upload
  MaxUploadCalls,   \* bound: requests
  MaxUploadCrashes  \* bound: restarts of the process

ASSUME UploadAssumption ==
  /\ MaxUploads \in Nat
  /\ Chunks \in Nat \ {0} /\ MaxUploadCalls \in Nat /\ MaxUploadCrashes \in Nat

\* Upload ids, in the order they were made.
Uploads == 1..MaxUploads

VARIABLES
  listed,       \* keys of r2UploadManager.sessions
  received,     \* received[u]: chunks marked as received
  completing,   \* uploads whose Completing is set
  stale,        \* uploads not updated for r2UploadSessionTTL
  dir,          \* uploads whose temporary directory exists
  part,         \* part[u][i]: what the file holds of chunk i
  object,       \* object[u]: what R2 has stored: "none", "whole" or "torn"
  job,          \* job[r]: where request r is
  used,         \* uploads begun so far
  leftBehind,   \* history: directories that were there when the process ended
  uploadCalls, uploadCrashes

uploadVars == <<listed, received, completing, stale, dir, part, object, job,
                used, leftBehind, uploadCalls, uploadCrashes>>

NoJob == [pc |-> "idle", u |-> 0, i |-> 0, whole |-> TRUE, dirs |-> {}]

UploadInit ==
  /\ listed = {} /\ received = [u \in Uploads |-> {}]
  /\ completing = {} /\ stale = {} /\ dir = {}
  /\ part = [u \in Uploads |-> [i \in 1..Chunks |-> "hole"]]
  /\ object = [u \in Uploads |-> "none"]
  /\ job = [r \in UploadRequests |-> NoJob]
  /\ used = 0 /\ leftBehind = {}
  /\ uploadCalls = 0 /\ uploadCrashes = 0

-----------------------------------------------------------------------------
UploadCall(r) ==
  /\ job[r].pc = "idle" /\ uploadCalls < MaxUploadCalls
  /\ uploadCalls' = uploadCalls + 1

Then(r, place) == job' = [job EXCEPT ![r].pc = place]
Answer(r)      == job' = [job EXCEPT ![r] = NoJob]
TableSame == UNCHANGED <<listed, received, completing, stale>>
DiskSame  == UNCHANGED <<dir, part>>
RestSame  == UNCHANGED <<object, used, leftBehind, uploadCrashes>>

-----------------------------------------------------------------------------
(***************************************************************************)
(* start: make the file, prune expired uploads, enter the table.           *)
(***************************************************************************)
CreateFile(r) ==
  /\ UploadCall(r)
  /\ used < MaxUploads
  /\ used' = used + 1 /\ dir' = dir \cup {used'}
  /\ job' = [job EXCEPT ![r] = [NoJob EXCEPT !.pc = "prune", !.u = used']]
  /\ TableSame /\ UNCHANGED <<part, object, leftBehind, uploadCrashes>>

pruneExpired(r) ==
  /\ job[r].pc = "prune"
  /\ listed' = listed \ stale
  /\ completing' = completing \ stale
  /\ job' = [job EXCEPT ![r].pc = "enter", ![r].dirs = listed \cap stale]
  /\ DiskSame /\ RestSame /\ UNCHANGED <<received, stale, uploadCalls>>

\* Mutant: what was pruned stays on disk.
Mutant_EnterTable(r) ==
  /\ job[r].pc = "enter"
  /\ listed' = listed \cup {job[r].u}
  /\ Answer(r) /\ DiskSame
  /\ RestSame /\ UNCHANGED <<received, completing, stale, uploadCalls>>

\* The pruned directories are removed and the session becomes visible.
EnterTable(r) ==
  /\ job[r].pc = "enter"
  /\ dir' = dir \ job[r].dirs
  /\ listed' = listed \cup {job[r].u}
  /\ Answer(r)
  /\ RestSame /\ UNCHANGED <<received, completing, stale, part, uploadCalls>>

-----------------------------------------------------------------------------
(***************************************************************************)
(* writeChunk.                                                             *)
(***************************************************************************)
CheckChunk(r) ==
  /\ UploadCall(r)
  /\ \E u \in listed \ completing, i \in 1..Chunks :
       job' = [job EXCEPT ![r] = [NoJob EXCEPT !.pc = "open", !.u = u, !.i = i]]
  /\ TableSame /\ DiskSame /\ RestSame

\* Mutant: a repeated chunk starts from nothing.
Mutant_OpenClears(r) ==
  /\ job[r].pc = "open"
  /\ IF job[r].u \in dir
       THEN /\ part' = [part EXCEPT ![job[r].u][job[r].i] = "hole"]
            /\ Then(r, "write")
       ELSE Answer(r) /\ UNCHANGED part
  /\ TableSame /\ RestSame /\ UNCHANGED <<dir, uploadCalls>>

OpenPart(r) ==
  /\ job[r].pc = "open"
  /\ IF job[r].u \in dir THEN Then(r, "write") ELSE Answer(r)
  /\ TableSame /\ DiskSame /\ RestSame /\ UNCHANGED uploadCalls

\* A read of the body returns some of the bytes, and they are written.
WriteSome(r) ==
  /\ job[r].pc = "write" /\ part[job[r].u][job[r].i] = "hole"
  /\ part' = [part EXCEPT ![job[r].u][job[r].i] = "some"]
  /\ TableSame /\ RestSame /\ UNCHANGED <<job, dir, uploadCalls>>

\* The connection breaks, or the body is too short or too long.
BodyBreaks(r) ==
  /\ job[r].pc = "write"
  /\ Answer(r)
  /\ TableSame /\ DiskSame /\ RestSame /\ UNCHANGED uploadCalls

WriteRest(r) ==
  /\ job[r].pc = "write"
  /\ part' = [part EXCEPT ![job[r].u][job[r].i] = "all"]
  /\ Then(r, "mark")
  /\ TableSame /\ RestSame /\ UNCHANGED <<dir, uploadCalls>>

MarkReceived(r) ==
  /\ job[r].pc = "mark"
  /\ IF job[r].u \in listed
       THEN /\ received' = [received EXCEPT ![job[r].u] = @ \cup {job[r].i}]
            /\ stale' = stale \ {job[r].u}
       ELSE UNCHANGED <<received, stale>>
  /\ Answer(r)
  /\ DiskSame /\ RestSame /\ UNCHANGED <<listed, completing, uploadCalls>>

-----------------------------------------------------------------------------
(***************************************************************************)
(* complete.                                                               *)
(***************************************************************************)
BeginComplete(r) ==
  /\ UploadCall(r)
  /\ \E u \in listed \ completing :
       /\ received[u] = 1..Chunks
       /\ completing' = completing \cup {u}
       /\ job' = [job EXCEPT ![r] = [NoJob EXCEPT !.pc = "load", !.u = u]]
  /\ DiskSame /\ RestSame /\ UNCHANGED <<listed, received, stale>>

OpenWhole(r) ==
  /\ job[r].pc = "load"
  /\ Then(r, IF job[r].u \in dir THEN "stream" ELSE "unmark")
  /\ TableSame /\ DiskSame /\ RestSame /\ UNCHANGED uploadCalls

\* The request to R2 reads the file chunk by chunk.
StreamChunk(r) ==
  /\ job[r].pc = "stream" /\ job[r].i < Chunks
  /\ job' = [job EXCEPT ![r].i = @ + 1,
                        ![r].whole = @ /\ part[job[r].u][job[r].i + 1] = "all"]
  /\ TableSame /\ DiskSame /\ RestSame /\ UNCHANGED uploadCalls

\* The call fails: no token, the browser went away, R2 refuses.
StreamFails(r) ==
  /\ job[r].pc = "stream"
  /\ Then(r, "unmark")
  /\ TableSame /\ DiskSame /\ RestSame /\ UNCHANGED uploadCalls

markNotCompleting(r) ==
  /\ job[r].pc = "unmark"
  /\ completing' = completing \ {job[r].u}
  /\ Answer(r)
  /\ DiskSame /\ RestSame /\ UNCHANGED <<listed, received, stale, uploadCalls>>

R2Stores(r) ==
  /\ job[r].pc = "stream" /\ job[r].i = Chunks
  /\ object' = [object EXCEPT ![job[r].u] = IF job[r].whole THEN "whole" ELSE "torn"]
  /\ Then(r, "forget")
  /\ TableSame /\ DiskSame /\ UNCHANGED <<used, leftBehind, uploadCalls,
                                          uploadCrashes>>

\* remove and abort: leave the table, then remove the directory.
Forget(r) ==
  /\ \/ job[r].pc = "forget" /\ UNCHANGED uploadCalls
        /\ job' = [job EXCEPT ![r] =
                     IF job[r].u \in listed
                       THEN [NoJob EXCEPT !.pc = "clear", !.dirs = {job[r].u}] ELSE NoJob]
        /\ listed' = listed \ {job[r].u} /\ completing' = completing \ {job[r].u}
     \/ UploadCall(r)
        /\ \E u \in listed :
             /\ job' = [job EXCEPT ![r] = [NoJob EXCEPT !.pc = "clear", !.dirs = {u}]]
             /\ listed' = listed \ {u} /\ completing' = completing \ {u}
  /\ DiskSame /\ RestSame /\ UNCHANGED <<received, stale>>

RemoveDir(r) ==
  /\ job[r].pc = "clear"
  /\ dir' = dir \ job[r].dirs
  /\ Answer(r)
  /\ TableSame /\ RestSame /\ UNCHANGED <<part, uploadCalls>>

-----------------------------------------------------------------------------
(***************************************************************************)
(* Time and the process.                                                   *)
(***************************************************************************)
DayPasses ==
  /\ \E u \in listed \ stale : stale' = stale \cup {u}
  /\ DiskSame /\ RestSame
  /\ UNCHANGED <<listed, received, completing, job, uploadCalls>>

\* The table is only in memory.
UploadCrash ==
  /\ uploadCrashes < MaxUploadCrashes
  /\ uploadCrashes' = uploadCrashes + 1
  /\ listed' = {} /\ completing' = {} /\ stale' = {}
  /\ received' = [u \in Uploads |-> {}]
  /\ job' = [r \in UploadRequests |-> NoJob]
  /\ leftBehind' = leftBehind \cup dir
  /\ DiskSame /\ UNCHANGED <<object, used, uploadCalls>>

-----------------------------------------------------------------------------
StartStep(r) == CreateFile(r) \/ pruneExpired(r) \/ EnterTable(r)
ChunkStep(r) == \/ CheckChunk(r) \/ OpenPart(r) \/ WriteSome(r) \/ BodyBreaks(r)
                \/ WriteRest(r) \/ MarkReceived(r)
CompleteStep(r) == \/ BeginComplete(r) \/ OpenWhole(r) \/ StreamChunk(r)
                   \/ StreamFails(r) \/ markNotCompleting(r) \/ R2Stores(r)
ClearStep(r) == Forget(r) \/ RemoveDir(r)

UploadNext ==
  \/ \E r \in UploadRequests : StartStep(r) \/ ChunkStep(r) \/ CompleteStep(r) \/ ClearStep(r)
  \/ DayPasses \/ UploadCrash

UploadSpec == UploadInit /\ [][UploadNext]_uploadVars

-----------------------------------------------------------------------------
(***************************************************************************)
(* Properties.                                                             *)
(***************************************************************************)
\* The types of the variables.
UploadTypeOK ==
  /\ listed \subseteq Uploads /\ completing \subseteq Uploads /\ stale \subseteq Uploads
  /\ received \in [Uploads -> SUBSET (1..Chunks)]
  /\ dir \subseteq Uploads /\ used \in 0..MaxUploads /\ leftBehind \subseteq Uploads
  /\ part \in [Uploads -> [1..Chunks -> {"hole", "some", "all"}]]
  /\ object \in [Uploads -> {"none", "whole", "torn"}]
  /\ \A r \in UploadRequests : job[r].pc \in
       {"idle", "prune", "enter", "open", "write", "mark", "load", "stream",
        "unmark", "forget", "clear"}

\* An object that R2 has stored is whole: no chunk was missing or torn when it
\* was read, although a repeated chunk may pass the check before Completing is
\* set and be written while the file is read, and although the upload may be
\* aborted, or expire, at any moment.
ObjectIsWhole == \A u \in Uploads : object[u] # "torn"

\* A temporary directory belongs to an upload in the table or to a request that
\* is about to enter it there or to remove it; only a process that ended leaves
\* directories behind.
DirectoriesAreOwned ==
  dir \subseteq listed \cup leftBehind
        \cup UNION {job[r].dirs \cup (IF job[r].pc \in {"prune", "enter"}
                                        THEN {job[r].u} ELSE {}) : r \in UploadRequests}
=============================================================================
