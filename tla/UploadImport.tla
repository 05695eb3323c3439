---------------------------- MODULE UploadImport ----------------------------
(***************************************************************************)
(* The life of uploads: the multipart routes (create, complete, abort,     *)
(* selection), the expiry loop, and the durable workflow upload.import     *)
(* that downloads, inspects, waits for the selection, extracts, finalizes  *)
(* and cleans up.  Requests, the loop and the workflows interleave between *)
(* their awaits: a request that has read the row writes it back later      *)
(* without looking again.  A workflow step is executed at least once: its  *)
(* outcome is recorded after its effects.                                  *)
(*                                                                         *)
(* What finalization does inside is module UploadFinalize; here it is one  *)
(* commit and one replacement of the folders.                              *)
(***************************************************************************)
EXTENDS Naturals, FiniteSets, FiniteSetsExt

CONSTANTS
  Uploads,    \* the uploads of a behaviour
  Requests,   \* slots for requests being handled at the same time
  Size,       \* Size[u]: the workspace an upload reserves
  Workspace,  \* the workspace all admitted uploads share
  Nobody,     \* the admission lock is free
  MaxFaults   \* bound: crashes and failed calls in a behaviour

ASSUME ImportAssumption ==
  /\ IsFiniteSet(Uploads)
  /\ Size \in [Uploads -> Nat]
  /\ Workspace \in Nat
  /\ Nobody \notin Requests
  /\ MaxFaults \in Nat

VARIABLES
  row,        \* row[u]: the upload_session row
  store,      \* store[u]: the object store's side of the upload
  disk,       \* disk[u]: the work tree upload-work/<u>
  folder,     \* folder[u]: the selected trips are in the user's folder
  op,         \* op[u]: the processing operation the import creates
  sent,       \* sent[u]: a selection is in the workflow's mailbox
  wf,         \* wf[u]: the workflow's step, and where its body is
  admission,  \* holder of the lock upload-workspace-admission
  req,        \* req[r]: the request a slot is handling
  sweep,      \* the expiry loop's pass: rows still to abort, rows aborted
  faults

vars == <<row, store, disk, folder, op, sent, wf, admission, req, sweep, faults>>
imports == <<disk, folder, op>>

Statuses == {"none", "uploading", "processing", "awaiting_selection",
             "succeeded", "failed", "aborted", "deleted"}
Active   == {"processing", "awaiting_selection"}

Steps    == {"none", "download", "inspect", "announce", "recv", "extract",
             "finalize", "process", "complete", "evict", "abort", "fail", "done"}
Ended    == {"none", "done"}

\* Where a step's body begins.
FirstAt(step) == IF step = "inspect" THEN "work" ELSE "read"
At(step) == [step |-> step, at |-> FirstAt(step)]

Idle == [kind |-> "idle"]
NoFiles == [zip |-> FALSE, extracted |-> FALSE]
NoSweep == [at |-> "idle", todo |-> {}, aborted |-> {}]

Init ==
  /\ row = [u \in Uploads |-> [status |-> "none", choices |-> FALSE,
                                result |-> FALSE, expired |-> FALSE,
                                ended |-> "no"]]
  /\ store = [u \in Uploads |-> "none"]
  /\ disk = [u \in Uploads |-> NoFiles]
  /\ folder = [u \in Uploads |-> FALSE]
  /\ op = [u \in Uploads |-> "none"]
  /\ sent = [u \in Uploads |-> FALSE]
  /\ wf = [u \in Uploads |-> At("none")]
  /\ admission = Nobody
  /\ req = [r \in Requests |-> Idle]
  /\ sweep = NoSweep
  /\ faults = 0

----------------------------------------------------------------------------
(* The rows                                                                *)

Exists(u) == row[u].status \notin {"none", "deleted"}

\* An UPDATE of the row.  Of a deleted row it is an error (StaleDataError).
Write(u, changed) == Exists(u) /\ row' = [row EXCEPT ![u] = changed]
WithStatus(u, status) == [row[u] EXCEPT !.status = status]
EndedAs(u, status) == [row[u] EXCEPT !.status = status, !.ended = "recent"]

\* _ensure_uploading
Uploading(u) == ~row[u].expired /\ row[u].status = "uploading"

\* expires_at passes.
Expire(u) ==
  /\ Exists(u) /\ ~row[u].expired
  /\ row' = [row EXCEPT ![u].expired = TRUE]
  /\ UNCHANGED <<store, imports, sent, wf, admission, req, sweep, faults>>

\* A week passes since completed_at: longer than any request or workflow.
Age(u) ==
  /\ Exists(u) /\ row[u].ended = "recent"
  /\ wf[u].step \in Ended /\ \A r \in Requests : req[r] = Idle
  /\ row' = [row EXCEPT ![u].ended = "old"]
  /\ UNCHANGED <<store, imports, sent, wf, admission, req, sweep, faults>>

----------------------------------------------------------------------------
(* The routes.  A request reads the row first (_owned_upload).             *)

Begin(r, kind, u, at, seen) ==
  /\ req[r] = Idle
  /\ req' = [req EXCEPT ![r] = [kind |-> kind, upload |-> u, at |-> at, seen |-> seen]]
Goto(r, at) == req' = [req EXCEPT ![r].at = at]
Respond(r) == req' = [req EXCEPT ![r] = Idle]
Handles(r, kind, u, at) ==
  /\ req[r] # Idle
  /\ req[r].kind = kind /\ req[r].upload = u /\ req[r].at = at
Release(r) == admission' = IF admission = r THEN Nobody ELSE admission

CreateStore(r, u) ==
  /\ store[u] = "none"
  /\ Begin(r, "create", u, "insert", "none")
  /\ store' = [store EXCEPT ![u] = "open"]
  /\ UNCHANGED <<row, imports, sent, wf, admission, sweep, faults>>

CreateInsert(r, u) ==
  /\ Handles(r, "create", u, "insert")
  /\ row' = [row EXCEPT ![u].status = "uploading"]
  /\ Respond(r)
  /\ UNCHANGED <<store, imports, sent, wf, admission, sweep, faults>>

\* A completion that finds the row processing only starts the workflow again.
CompleteRead(r, u) ==
  /\ Exists(u)
  /\ \/ row[u].status = "processing" /\ Begin(r, "complete", u, "start", "processing")
     \/ Uploading(u) /\ Begin(r, "complete", u, "admit", "uploading")
  /\ UNCHANGED <<row, store, imports, sent, wf, admission, sweep, faults>>

\* upload_capacity_slot: the lock, then the sizes of the active uploads.
Reserved == MapThenSumSet(LAMBDA u : Size[u], {u \in Uploads : row[u].status \in Active})

\* Mutant: the lock does not outlive the check.
CompleteAdmit_Unlocked(r, u) ==
  /\ Handles(r, "complete", u, "admit")
  /\ IF Reserved + Size[u] <= Workspace THEN Goto(r, "store") ELSE Respond(r)
  /\ UNCHANGED <<row, store, imports, sent, wf, admission, sweep, faults>>

CompleteAdmit(r, u) ==
  /\ Handles(r, "complete", u, "admit")
  /\ IF admission = Nobody /\ Reserved + Size[u] <= Workspace
       THEN admission' = r /\ Goto(r, "store")
       ELSE UNCHANGED admission /\ Respond(r)
  /\ UNCHANGED <<row, store, imports, sent, wf, sweep, faults>>

\* store.complete: an upload that is not open any more is an error (503).
CompleteStore(r, u) ==
  /\ Handles(r, "complete", u, "store")
  /\ IF store[u] = "open"
       THEN store' = [store EXCEPT ![u] = "object"] /\ Goto(r, "head") /\ UNCHANGED admission
       ELSE UNCHANGED store /\ Respond(r) /\ Release(r)
  /\ UNCHANGED <<row, imports, sent, wf, sweep, faults>>

\* store.head: an object of another size than announced is deleted (409).
CompleteHead(r, u) ==
  /\ Handles(r, "complete", u, "head")
  /\ \/ Goto(r, "commit") /\ UNCHANGED <<store, admission>>
     \/ store' = [store EXCEPT ![u] = "gone"] /\ Respond(r) /\ Release(r)
  /\ UNCHANGED <<row, imports, sent, wf, sweep, faults>>

CompleteCommit(r, u) ==
  /\ Handles(r, "complete", u, "commit")
  /\ \/ Write(u, WithStatus(u, "processing")) /\ Goto(r, "start")
     \/ ~Exists(u) /\ UNCHANGED row /\ Respond(r)
  /\ Release(r)
  /\ UNCHANGED <<store, imports, sent, wf, sweep, faults>>

\* start_upload_workflow: an id that was started before is not started again.
CompleteStart(r, u) ==
  /\ Handles(r, "complete", u, "start")
  /\ wf' = IF wf[u].step = "none" THEN [wf EXCEPT ![u] = At("download")] ELSE wf
  /\ Respond(r)
  /\ UNCHANGED <<row, store, imports, sent, admission, sweep, faults>>

AbortRead(r, u) ==
  /\ Exists(u) /\ Uploading(u)
  /\ Begin(r, "abort", u, "store", "uploading")
  /\ UNCHANGED <<row, store, imports, sent, wf, admission, sweep, faults>>

\* Mutant: the object is deleted with the parts.
AbortStore_Deletes(r, u) ==
  /\ Handles(r, "abort", u, "store")
  /\ store' = [store EXCEPT ![u] = "gone"]
  /\ Goto(r, "commit")
  /\ UNCHANGED <<row, imports, sent, wf, admission, sweep, faults>>

\* store.abort ends an open multipart upload; for a completed one the store
\* answers NoSuchUpload, which counts as done.
AbortStore(r, u) ==
  /\ Handles(r, "abort", u, "store")
  /\ store' = IF store[u] = "open" THEN [store EXCEPT ![u] = "gone"] ELSE store
  /\ Goto(r, "commit")
  /\ UNCHANGED <<row, imports, sent, wf, admission, sweep, faults>>

AbortCommit(r, u) ==
  /\ Handles(r, "abort", u, "commit")
  /\ Write(u, EndedAs(u, "aborted")) \/ (~Exists(u) /\ UNCHANGED row)
  /\ Respond(r)
  /\ UNCHANGED <<store, imports, sent, wf, admission, sweep, faults>>

SelectRead(r, u) ==
  /\ row[u].status \in Active /\ row[u].choices
  /\ Begin(r, "select", u, "commit", row[u].status)
  /\ UNCHANGED <<row, store, imports, sent, wf, admission, sweep, faults>>

\* The status column is written if it differs from what the request has read.
SelectCommit(r, u) ==
  /\ Handles(r, "select", u, "commit")
  /\ \/ Write(u, IF req[r].seen = "awaiting_selection"
                  THEN WithStatus(u, "processing") ELSE row[u]) /\ Goto(r, "send")
     \/ ~Exists(u) /\ UNCHANGED row /\ Respond(r)
  /\ UNCHANGED <<store, imports, sent, wf, admission, sweep, faults>>

\* DBOS.send with the idempotency key selection:<u>: the first one counts.
SelectSend(r, u) ==
  /\ Handles(r, "select", u, "send")
  /\ sent' = [sent EXCEPT ![u] = TRUE]
  /\ Respond(r)
  /\ UNCHANGED <<row, store, imports, wf, admission, sweep, faults>>

Route(r, u) ==
  \/ CreateInsert(r, u)
  \/ CompleteAdmit(r, u) \/ CompleteStore(r, u) \/ CompleteHead(r, u)
  \/ CompleteCommit(r, u) \/ CompleteStart(r, u)
  \/ AbortStore(r, u) \/ AbortCommit(r, u)
  \/ SelectCommit(r, u) \/ SelectSend(r, u)

Arrival(r, u) ==
  CreateStore(r, u) \/ CompleteRead(r, u) \/ AbortRead(r, u) \/ SelectRead(r, u)

----------------------------------------------------------------------------
(* The expiry loop: one pass of cleanup_upload_sessions                    *)

SweepScan ==
  /\ sweep.at = "idle"
  /\ sweep' = [at |-> "busy", aborted |-> {},
               todo |-> {u \in Uploads : row[u].status = "uploading" /\ row[u].expired}]
  /\ UNCHANGED <<row, store, imports, sent, wf, admission, req, faults>>

\* store.abort for one row; a row whose call fails is skipped in this pass.
SweepAbort(u) ==
  /\ sweep.at = "busy" /\ u \in sweep.todo
  /\ \/ /\ store' = IF store[u] = "open" THEN [store EXCEPT ![u] = "gone"] ELSE store
        /\ sweep' = [sweep EXCEPT !.todo = @ \ {u}, !.aborted = @ \cup {u}]
        /\ UNCHANGED faults
     \/ /\ faults < MaxFaults /\ faults' = faults + 1
        /\ sweep' = [sweep EXCEPT !.todo = @ \ {u}]
        /\ UNCHANGED store
  /\ UNCHANGED <<row, imports, sent, wf, admission, req>>

\* The work trees of the rows that ended a week ago.
SweepTrees ==
  LET old == {u \in Uploads : Exists(u) /\ row[u].ended = "old"} IN
  /\ sweep.at = "busy" /\ sweep.todo = {}
  /\ disk' = [u \in Uploads |-> IF u \in old THEN NoFiles ELSE disk[u]]
  /\ sweep' = [sweep EXCEPT !.at = "commit", !.todo = old]
  /\ UNCHANGED <<row, store, folder, op, sent, wf, admission, req, faults>>

\* The pass's one commit: old rows are deleted, the aborted ones updated.
SweepCommit ==
  /\ sweep.at = "commit"
  /\ row' = [u \in Uploads |->
               IF u \in sweep.todo THEN WithStatus(u, "deleted")
               ELSE IF u \in sweep.aborted THEN EndedAs(u, "aborted")
               ELSE row[u]]
  /\ sweep' = NoSweep
  /\ UNCHANGED <<store, imports, sent, wf, admission, req, faults>>

Sweep == SweepScan \/ SweepTrees \/ SweepCommit \/ \E u \in Uploads : SweepAbort(u)

----------------------------------------------------------------------------
(* The workflow upload.import                                              *)

InStep(u, step, at) == wf[u].step = step /\ wf[u].at = at
StepAt(u, at) == wf' = [wf EXCEPT ![u].at = at]
Begins(u, step) == wf' = [wf EXCEPT ![u] = At(step)]

\* Every exception but the cancellation is handled by terminate_upload.
Fail(u) == Begins(u, "fail")

\* A step's body raises: the step is tried again from the start, or its
\* attempts are used up (extract_upload has one); when terminate_upload itself
\* gives up, the workflow ends with the error.
StepFails(u) ==
  \/ wf[u].step # "extract" /\ Begins(u, wf[u].step)
  \/ wf[u].step \notin {"abort", "fail"} /\ Fail(u)
  \/ wf[u].step \in {"abort", "fail"} /\ Begins(u, "done")

\* UploadWorkflowCancelledError: the workflow returns.  A step with retries
\* may also surface as DBOS's own error about exhausted retries, which the
\* last except clause takes.
Cancelled(u) == Begins(u, "done") \/ Fail(u)

\* _current_upload: the row has to be processing.
Current(u) == row[u].status = "processing"

\* A step whose body is done: its outcome is recorded, the next one begins.
Recorded(u) ==
  /\ wf[u].at = "record"
  /\ \/ InStep(u, "download", "record") /\ Begins(u, "inspect")
     \/ InStep(u, "inspect", "record") /\ Begins(u, "announce")
     \/ InStep(u, "extract", "record") /\ Begins(u, "finalize")
     \/ InStep(u, "finalize", "record") /\ Begins(u, "process")
     \/ InStep(u, "complete", "record") /\ Begins(u, "evict")
     \/ wf[u].step \in {"abort", "fail"} /\ Begins(u, "done")
  /\ UNCHANGED <<row, store, imports, sent, admission, req, sweep, faults>>

\* The steps that begin by reading the row with _current_upload.
ReadCurrent(u) ==
  /\ \/ InStep(u, "download", "read") \/ InStep(u, "extract", "read")
     \/ InStep(u, "finalize", "read")
  /\ IF Current(u) THEN StepAt(u, "work") ELSE Cancelled(u)
  /\ UNCHANGED <<row, store, imports, sent, admission, req, sweep, faults>>

\* download_verified_object keeps a download that is already complete.
Download(u) ==
  /\ InStep(u, "download", "work")
  /\ IF disk[u].zip \/ store[u] = "object"
       THEN disk' = [disk EXCEPT ![u].zip = TRUE] /\ StepAt(u, "record")
       ELSE UNCHANGED disk /\ Fail(u)
  /\ UNCHANGED <<row, store, folder, op, sent, admission, req, sweep, faults>>

\* The archive is read first; it may not be a valid one.
Inspect(u) ==
  /\ InStep(u, "inspect", "work")
  /\ \/ disk[u].zip /\ StepAt(u, "read")
     \/ Fail(u)
  /\ UNCHANGED <<row, store, imports, sent, admission, req, sweep, faults>>

InspectRead(u) ==
  /\ InStep(u, "inspect", "read")
  /\ IF Current(u) THEN StepAt(u, "write") ELSE Cancelled(u)
  /\ UNCHANGED <<row, store, imports, sent, admission, req, sweep, faults>>

InspectWrite(u) ==
  /\ InStep(u, "inspect", "write")
  /\ \/ /\ Write(u, [row[u] EXCEPT !.status = "awaiting_selection", !.choices = TRUE])
        /\ StepAt(u, "record")
     \/ ~Exists(u) /\ UNCHANGED row /\ StepFails(u)
  /\ UNCHANGED <<store, imports, sent, admission, req, sweep, faults>>

\* SelectionRequiredEvent goes to the progress stream.
Announce(u) ==
  /\ InStep(u, "announce", "read")
  /\ Begins(u, "recv")
  /\ UNCHANGED <<row, store, imports, sent, admission, req, sweep, faults>>

\* Mutant: the wait has no timeout.
Receive_Forever(u) ==
  /\ InStep(u, "recv", "read")
  /\ sent[u] /\ Begins(u, "extract")
  /\ UNCHANGED <<row, store, imports, sent, admission, req, sweep, faults>>

\* DBOS.recv with a timeout: the selection, or none and the upload is aborted.
Receive(u) ==
  /\ InStep(u, "recv", "read")
  /\ IF sent[u] THEN Begins(u, "extract") ELSE Begins(u, "abort")
  /\ UNCHANGED <<row, store, imports, sent, admission, req, sweep, faults>>

\* _extract_archive: an invalid archive leaves nothing extracted.
Extract(u) ==
  /\ InStep(u, "extract", "work")
  /\ \/ /\ disk[u].zip
        /\ disk' = [disk EXCEPT ![u].extracted = TRUE] /\ StepAt(u, "record")
     \/ disk' = [disk EXCEPT ![u].extracted = FALSE] /\ Fail(u)
  /\ UNCHANGED <<row, store, folder, op, sent, admission, req, sweep, faults>>

\* Mutant: a repeated call of a committed finalization returns at once.
Finalize_Once(u) ==
  /\ InStep(u, "finalize", "work")
  /\ \/ row[u].result /\ StepAt(u, "record") /\ UNCHANGED <<row, op>>
     \/ /\ ~row[u].result /\ disk[u].extracted
        /\ Write(u, [row[u] EXCEPT !.result = TRUE])
        /\ op' = [op EXCEPT ![u] = "queued"]
        /\ StepAt(u, "folders")
     \/ ~row[u].result /\ Fail(u) /\ UNCHANGED <<row, op>>
     \/ ~Exists(u) /\ StepFails(u) /\ UNCHANGED <<row, op>>
  /\ UNCHANGED <<store, disk, folder, sent, admission, req, sweep, faults>>

\* finalize_upload_session up to its commit.  Another upload of the user may
\* hold the finalization lock: that is the conflict the workflow ends with.
Finalize(u) ==
  /\ InStep(u, "finalize", "work")
  /\ \/ row[u].result /\ StepAt(u, "folders") /\ UNCHANGED <<row, op>>
     \/ /\ ~row[u].result /\ disk[u].extracted
        /\ Write(u, [row[u] EXCEPT !.result = TRUE])
        /\ op' = [op EXCEPT ![u] = "queued"]
        /\ StepAt(u, "folders")
     \/ ~row[u].result /\ Fail(u) /\ UNCHANGED <<row, op>>
     \/ ~Exists(u) /\ StepFails(u) /\ UNCHANGED <<row, op>>
  /\ UNCHANGED <<store, disk, folder, sent, admission, req, sweep, faults>>

\* The folders are replaced and the extracted tree removed.
ReplaceFolders(u) ==
  /\ InStep(u, "finalize", "folders")
  /\ folder' = [folder EXCEPT ![u] = TRUE]
  /\ disk' = [disk EXCEPT ![u].extracted = FALSE]
  /\ StepAt(u, "record")
  /\ UNCHANGED <<row, store, op, sent, admission, req, sweep, faults>>

\* The processing workflow is started under the operation's own id.
StartProcessing(u) ==
  /\ InStep(u, "process", "read")
  /\ op' = [op EXCEPT ![u] = "started"]
  /\ Begins(u, "complete")
  /\ UNCHANGED <<row, store, disk, folder, sent, admission, req, sweep, faults>>

\* complete_upload and terminate_upload read the row, ...
ReadForEnd(u) ==
  /\ wf[u].at = "read"
  /\ \/ /\ wf[u].step = "complete"
        /\ IF Current(u) /\ row[u].result THEN StepAt(u, "object") ELSE Cancelled(u)
     \/ /\ wf[u].step \in {"abort", "fail"}
        /\ IF row[u].status \in Active THEN StepAt(u, "object") ELSE Begins(u, "done")
  /\ UNCHANGED <<row, store, imports, sent, admission, req, sweep, faults>>

\* ... delete the object and the work tree, ...
DeleteObject(u) ==
  /\ wf[u].step \in {"complete", "abort", "fail"} /\ wf[u].at = "object"
  /\ store' = IF store[u] = "object" THEN [store EXCEPT ![u] = "gone"] ELSE store
  /\ StepAt(u, "files")
  /\ UNCHANGED <<row, imports, sent, admission, req, sweep, faults>>

\* Mutant: the end deletes the object and leaves the work tree.
DeleteFiles_Skipped(u) ==
  /\ wf[u].step \in {"complete", "abort", "fail"} /\ wf[u].at = "files"
  /\ StepAt(u, "write")
  /\ UNCHANGED <<row, store, imports, sent, admission, req, sweep, faults>>

DeleteFiles(u) ==
  /\ wf[u].step \in {"complete", "abort", "fail"} /\ wf[u].at = "files"
  /\ disk' = [disk EXCEPT ![u] = NoFiles]
  /\ StepAt(u, "write")
  /\ UNCHANGED <<row, store, folder, op, sent, admission, req, sweep, faults>>

\* ... and only then write the terminal status.
WriteEnd(u) ==
  /\ wf[u].step \in {"complete", "abort", "fail"} /\ wf[u].at = "write"
  /\ \/ /\ Write(u, EndedAs(u, CASE wf[u].step = "complete" -> "succeeded"
                                 [] wf[u].step = "abort" -> "aborted"
                                 [] wf[u].step = "fail" -> "failed"))
        /\ StepAt(u, "record")
     \/ ~Exists(u) /\ UNCHANGED row /\ StepFails(u)
  /\ UNCHANGED <<store, imports, sent, admission, req, sweep, faults>>

\* evict_after_upload (module Eviction) and the final event.
Evict(u) ==
  /\ InStep(u, "evict", "read")
  /\ Begins(u, "done")
  /\ UNCHANGED <<row, store, imports, sent, admission, req, sweep, faults>>

Workflow(u) ==
  \/ Recorded(u) \/ ReadCurrent(u) \/ Download(u)
  \/ Inspect(u) \/ InspectRead(u) \/ InspectWrite(u) \/ Announce(u) \/ Receive(u)
  \/ Extract(u) \/ Finalize(u) \/ ReplaceFolders(u) \/ StartProcessing(u)
  \/ ReadForEnd(u) \/ DeleteObject(u) \/ DeleteFiles(u) \/ WriteEnd(u) \/ Evict(u)

----------------------------------------------------------------------------
(* Failures                                                                *)

\* A call in a step's body fails.
StepError(u) ==
  /\ faults < MaxFaults /\ faults' = faults + 1
  /\ wf[u].step \notin Ended \cup {"announce", "recv"} /\ wf[u].at # "record"
  /\ StepFails(u)
  /\ UNCHANGED <<row, store, imports, sent, admission, req, sweep>>

\* A request's call fails, or its client disconnects: it changes nothing more.
RequestError(r) ==
  /\ faults < MaxFaults /\ faults' = faults + 1
  /\ req[r] # Idle /\ Respond(r) /\ Release(r)
  /\ UNCHANGED <<row, store, imports, sent, wf, sweep>>

\* The expiry loop's pass raises: nothing of it is committed.
SweepError ==
  /\ faults < MaxFaults /\ faults' = faults + 1
  /\ sweep # NoSweep /\ sweep' = NoSweep
  /\ UNCHANGED <<row, store, imports, sent, wf, admission, req>>

\* The process dies.  Requests and the loop's pass are lost, the lock is free;
\* the recovered workflows execute their unrecorded step again.
Crash ==
  /\ faults < MaxFaults /\ faults' = faults + 1
  /\ wf' = [u \in Uploads |-> At(wf[u].step)]
  /\ req' = [r \in Requests |-> Idle]
  /\ admission' = Nobody
  /\ sweep' = NoSweep
  /\ UNCHANGED <<row, store, imports, sent>>

Next ==
  \/ \E u \in Uploads : Workflow(u) \/ StepError(u) \/ Expire(u) \/ Age(u)
  \/ \E r \in Requests, u \in Uploads : Arrival(r, u) \/ Route(r, u)
  \/ \E r \in Requests : RequestError(r)
  \/ Sweep \/ SweepError \/ Crash

Spec == Init /\ [][Next]_vars

\* A workflow that was started, and a request that arrived, run on: the event
\* loop and DBOS's recovery see to that; the expiry loop makes its passes, and
\* time passes.  No client has to send anything.
Fairness ==
  /\ \A u \in Uploads : WF_vars(Workflow(u)) /\ SF_vars(Age(u))
  /\ \A r \in Requests : WF_vars(\E u \in Uploads : Route(r, u))
  /\ WF_vars(Sweep)

FairSpec == Spec /\ Fairness

----------------------------------------------------------------------------
(* Properties                                                              *)

Rows == [status : Statuses, choices : BOOLEAN, result : BOOLEAN,
         expired : BOOLEAN, ended : {"no", "recent", "old"}]
Files == [zip : BOOLEAN, extracted : BOOLEAN]
Points == {"read", "work", "write", "record", "folders", "object", "files"}
Places == [step : Steps, at : Points]
CallPoints == {"insert", "admit", "store", "head", "commit", "start", "send"}
Calls == [kind : {"create", "complete", "abort", "select"}, upload : Uploads,
          at : CallPoints, seen : Statuses]
Passes == [at : {"idle", "busy", "commit"},
           todo : SUBSET Uploads, aborted : SUBSET Uploads]

TypeOK ==
  /\ row \in [Uploads -> Rows]
  /\ store \in [Uploads -> {"none", "open", "object", "gone"}]
  /\ disk \in [Uploads -> Files]
  /\ folder \in [Uploads -> BOOLEAN]
  /\ op \in [Uploads -> {"none", "queued", "started"}]
  /\ sent \in [Uploads -> BOOLEAN]
  /\ wf \in [Uploads -> Places]
  /\ admission \in Requests \cup {Nobody}
  /\ req \in [Requests -> Calls \cup {Idle}]
  /\ sweep \in Passes
  /\ faults \in 0 .. MaxFaults

\* The uploads admitted at the same time and not ended since never reserve
\* more than the workspace: the sizes a completion reads stay true until its
\* own row counts, because the admission lock is held over its commit.
AdmissionBound ==
  MapThenSumSet(LAMBDA u : Size[u],
    {u \in Uploads : row[u].status \in Active /\ row[u].ended = "no"}) <= Workspace

\* A row that says succeeded or failed has no ZIP and no extracted file left:
\* the status is written after the deletions, and nothing brings them back.
FinishedLeavesNothing ==
  \A u \in Uploads :
    row[u].status \in {"succeeded", "failed"} =>
      store[u] # "object" /\ ~disk[u].zip /\ ~disk[u].extracted

\* A client told "succeeded" finds everything in place: the result committed,
\* the folders replaced, and the processing of this import started.
SucceededIsImported ==
  \A u \in Uploads :
    row[u].status = "succeeded" => row[u].result /\ folder[u] /\ op[u] = "started"

\* No request and no pass of the loop takes from a running import the archive
\* its next step needs.  Only of an upload that was aborted and then revived
\* by a late completion, the loop may delete the files a week later.
ArchiveWhileNeeded ==
  \A u \in Uploads : row[u].ended = "no" =>
    /\ wf[u].step = "download" => disk[u].zip \/ store[u] = "object"
    /\ wf[u].step \in {"inspect", "announce", "recv", "extract"} => disk[u].zip

\* A workflow that was started ends, whatever is interrupted.
WorkflowEnds ==
  \A u \in Uploads : wf[u].step # "none" ~> wf[u].step = "done"
=============================================================================
