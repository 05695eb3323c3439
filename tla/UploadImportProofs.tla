------------------------- MODULE UploadImportProofs -------------------------
(***************************************************************************)
(* Proofs about UploadImport: what the statuses succeeded and failed       *)
(* promise is true, a running import keeps its archive, and what is        *)
(* admitted fits the workspace, for any uploads, requests and failures.    *)
(***************************************************************************)
EXTENDS UploadImport, FiniteSetTheorems, TLAPS

\* A workflow on its way to the end: its body deletes and never fetches.
Late == {"complete", "evict", "abort", "fail", "done"}

\* The parts have become an object, for good.
Completed(u) == store[u] \in {"object", "gone"}
Clean(u) == store[u] = "gone" /\ ~disk[u].zip /\ ~disk[u].extracted
Imported(u) == row[u].result /\ folder[u] /\ op[u] = "started"

\* What is true of an upload while its workflow is at the place w: it was
\* completed before the workflow was started; the end deletes the object, then
\* the files, and then says so; and how far the import has come.
Placed(u, w) ==
  /\ w.step # "none" => Completed(u)
  /\ w.step \in Late /\ w.at = "files" => store[u] = "gone"
  /\ w.step \in Late /\ w.at = "write" => Clean(u)
  /\ row[u].status \in {"succeeded", "failed"} => w.step \in Late
  /\ w.step = "finalize" /\ w.at \in {"folders", "record"} => row[u].result
  /\ w.step = "finalize" /\ w.at = "record" => folder[u]
  /\ w.step = "process" => row[u].result /\ folder[u]
  /\ w.step \in {"complete", "evict"} => Imported(u)

\* What the row promises, and that it is active only of a completed upload.
UploadOK(u) ==
  /\ Placed(u, wf[u])
  /\ row[u].status \in Active => Completed(u)
  /\ row[u].choices => Completed(u)
  /\ row[u].status \in {"succeeded", "failed"} => Clean(u)
  /\ row[u].status = "succeeded" => Imported(u)

\* A request that is going to write "processing", to start the workflow or to
\* send a selection is about a completed upload.
Needs(c) == c.kind \in {"complete", "select"} /\ c.at \in {"head", "commit", "start", "send"}
RequestOK(r) == req[r] # Idle /\ Needs(req[r]) => Completed(req[r].upload)

IInv ==
  /\ TypeOK
  /\ \A u \in Uploads : UploadOK(u)
  /\ \A r \in Requests : RequestOK(r)

----------------------------------------------------------------------------
(* What the changes of a record leave alone                                *)

LEMMA StatusWritten ==
    ASSUME NEW old \in Rows, NEW s \in Statuses
    PROVE  LET new == [old EXCEPT !.status = s] IN
           /\ new \in Rows /\ new.status = s
           /\ new.choices = old.choices /\ new.result = old.result
BY DEF Rows

LEMMA EndWritten ==
    ASSUME NEW old \in Rows, NEW s \in Statuses
    PROVE  LET new == [old EXCEPT !.status = s, !.ended = "recent"] IN
           /\ new \in Rows /\ new.status = s
           /\ new.choices = old.choices /\ new.result = old.result
BY DEF Rows

LEMMA ChoicesWritten ==
    ASSUME NEW old \in Rows
    PROVE  LET new == [old EXCEPT !.status = "awaiting_selection", !.choices = TRUE] IN
           new \in Rows /\ new.status = "awaiting_selection" /\ new.result = old.result
BY DEF Rows, Statuses

LEMMA ResultWritten ==
    ASSUME NEW old \in Rows
    PROVE  LET new == [old EXCEPT !.result = TRUE] IN
           /\ new \in Rows /\ new.result
           /\ new.status = old.status /\ new.choices = old.choices
BY DEF Rows

LEMMA TimePassed ==
    ASSUME NEW old \in Rows, NEW new,
           new \in {[old EXCEPT !.expired = TRUE], [old EXCEPT !.ended = "old"]}
    PROVE  /\ new \in Rows /\ new.status = old.status
           /\ new.choices = old.choices /\ new.result = old.result
BY DEF Rows

LEMMA PointMoved ==
    ASSUME NEW old \in Places, NEW p \in Points
    PROVE  LET new == [old EXCEPT !.at = p] IN
           new \in Places /\ new.step = old.step /\ new.at = p
BY DEF Places

LEMMA StepBegun ==
    ASSUME NEW s \in Steps
    PROVE  At(s) \in Places /\ At(s).step = s /\ At(s).at \in {"read", "work"}
BY DEF Places, Points, At, FirstAt

LEMMA CallMoved ==
    ASSUME NEW old \in Calls, NEW p \in CallPoints
    PROVE  LET new == [old EXCEPT !.at = p] IN
           /\ new \in Calls /\ new.at = p
           /\ new.kind = old.kind /\ new.upload = old.upload
BY DEF Calls

LEMMA CallIsNotIdle == \A c \in Calls : c # Idle
BY DEF Calls, Idle

----------------------------------------------------------------------------
(* What a step that concerns one upload has to respect                     *)

\* Everything of the upload v is as before.
Same(v) ==
  /\ row'[v] = row[v] /\ store'[v] = store[v] /\ disk'[v] = disk[v]
  /\ folder'[v] = folder[v] /\ op'[v] = op[v] /\ wf'[v] = wf[v]

LEMMA OthersKept ==
    ASSUME IInv, NEW v \in Uploads, Same(v)
    PROVE  UploadOK(v)' /\ (Completed(v) => Completed(v)')
BY DEF IInv, UploadOK, Placed, Completed, Clean, Imported, Same

LEMMA OneUpload ==
    ASSUME IInv, TypeOK', NEW u \in Uploads, UNCHANGED req,
           \A v \in Uploads \ {u} : Same(v),
           UploadOK(u)', Completed(u) => Completed(u)'
    PROVE  IInv'
<1>1. \A v \in Uploads : UploadOK(v)' /\ (Completed(v) => Completed(v)')
  BY OthersKept
<1>2. ASSUME NEW r \in Requests PROVE RequestOK(r)'
  <2>1. req[r] # Idle => req[r].upload \in Uploads
    BY DEF IInv, TypeOK, Calls
  <2> QED BY <1>1, <2>1 DEF IInv, RequestOK
<1> QED BY <1>1, <1>2 DEF IInv

\* A workflow that only moves on.
LEMMA Moves ==
    ASSUME IInv, NEW u \in Uploads, NEW w \in Places, wf' = [wf EXCEPT ![u] = w],
           UNCHANGED <<row, store, disk, folder, op, sent, admission, req, sweep>>,
           faults' \in 0 .. MaxFaults, Placed(u, w)
    PROVE  IInv'
<1>1. TypeOK'
  BY DEF IInv, TypeOK
<1>2. \A v \in Uploads \ {u} : Same(v)
  BY DEF IInv, TypeOK, Same
<1>3. wf'[u] = w
  BY DEF IInv, TypeOK
<1>4. UploadOK(u)' /\ (Completed(u) => Completed(u)')
  BY <1>3 DEF IInv, UploadOK, Placed, Completed, Clean, Imported
<1> QED BY <1>1, <1>2, <1>4, OneUpload

\* A request r about u answers or goes on, as the call c.
LEMMA OneRequest ==
    ASSUME IInv, TypeOK', NEW u \in Uploads, NEW r \in Requests, NEW c,
           req' = [req EXCEPT ![r] = c],
           \/ c = Idle
           \/ c \in Calls /\ c.upload = u /\ (Needs(c) => Completed(u)'),
           \A v \in Uploads \ {u} : Same(v),
           UploadOK(u)', Completed(u) => Completed(u)'
    PROVE  IInv'
<1>1. \A v \in Uploads : UploadOK(v)' /\ (Completed(v) => Completed(v)')
  BY OthersKept
<1>2. ASSUME NEW q \in Requests PROVE RequestOK(q)'
  <2>1. req[q] # Idle => req[q].upload \in Uploads
    BY DEF IInv, TypeOK, Calls
  <2>2. CASE q = r
    BY <2>2, CallIsNotIdle DEF IInv, TypeOK, RequestOK
  <2>3. CASE q # r
    BY <1>1, <2>1, <2>3 DEF IInv, TypeOK, RequestOK
  <2> QED BY <2>2, <2>3
<1> QED BY <1>1, <1>2 DEF IInv

----------------------------------------------------------------------------
(* The workflow's steps                                                    *)

Others == <<row, store, disk, folder, op, sent, admission, req, sweep>>

\* A step begins, or begins again.
LEMMA BeginsKeeps ==
    ASSUME IInv, NEW u \in Uploads, NEW s \in Steps, Begins(u, s),
           UNCHANGED Others, faults' \in 0 .. MaxFaults,
           Completed(u),
           row[u].status \in {"succeeded", "failed"} => s \in Late,
           s = "process" => row[u].result /\ folder[u],
           s \in {"complete", "evict"} => Imported(u)
    PROVE  IInv'
<1> DEFINE w == At(s)
<1>1. w \in Places /\ w.step = s /\ w.at \in {"read", "work"}
  BY StepBegun
<1>2. wf' = [wf EXCEPT ![u] = w]
  BY DEF Begins
<1> HIDE DEF w
<1>3. Placed(u, w)
  BY <1>1 DEF Placed
<1> QED BY <1>1, <1>2, <1>3, Moves DEF Others

\* The body of the step goes on.
LEMMA GoesOn ==
    ASSUME IInv, NEW u \in Uploads, NEW p \in Points, StepAt(u, p),
           UNCHANGED Others, faults' = faults,
           p = "files" => store[u] = "gone",
           p = "write" => Clean(u) \/ wf[u].step = "inspect",
           p \in {"record", "folders"} => wf[u].step # "finalize"
    PROVE  IInv'
<1> DEFINE w == [wf[u] EXCEPT !.at = p]
<1>1. w \in Places /\ w.step = wf[u].step /\ w.at = p
  BY PointMoved DEF IInv, TypeOK
<1>2. wf' = [wf EXCEPT ![u] = w]
  BY DEF StepAt
<1> HIDE DEF w
<1>3. Placed(u, w)
  BY <1>1 DEF IInv, UploadOK, Placed, Late
<1> QED BY <1>1, <1>2, <1>3, Moves DEF Others, IInv, TypeOK

LEMMA StepFailsKeeps ==
    ASSUME IInv, NEW u \in Uploads, wf[u].step \notin Ended, StepFails(u),
           UNCHANGED Others, faults' \in 0 .. MaxFaults
    PROVE  IInv'
<1>1. wf[u].step \in Steps /\ Placed(u, wf[u])
  BY DEF IInv, TypeOK, Places, UploadOK
<1>2. PICK s \in {wf[u].step, "fail", "done"} : Begins(u, s)
  BY DEF StepFails, Fail
<1>3. s \in Steps /\ (s = wf[u].step \/ s \in {"fail", "done"})
  BY <1>1 DEF Steps
<1>4. /\ Completed(u)
      /\ row[u].status \in {"succeeded", "failed"} => s \in Late
      /\ s = "process" => row[u].result /\ folder[u]
      /\ s \in {"complete", "evict"} => Imported(u)
  BY <1>1, <1>3 DEF Placed, Ended, Late
<1> QED BY <1>2, <1>3, <1>4, BeginsKeeps

LEMMA CancelledKeeps ==
    ASSUME IInv, NEW u \in Uploads, wf[u].step \notin Ended, Cancelled(u) \/ Fail(u),
           UNCHANGED Others, faults' \in 0 .. MaxFaults
    PROVE  IInv'
<1>1. PICK s \in {"fail", "done"} : Begins(u, s)
  BY DEF Cancelled, Fail
<1>2. Completed(u)
  BY DEF IInv, UploadOK, Placed, Ended
<1> QED BY <1>1, <1>2, BeginsKeeps DEF Steps, Late

LEMMA FaultsStay == IInv => faults \in 0 .. MaxFaults
BY DEF IInv, TypeOK

LEMMA RecordedKeeps == ASSUME IInv, NEW u \in Uploads, Recorded(u) PROVE IInv'
<1>1. UNCHANGED Others /\ faults' \in 0 .. MaxFaults
  BY FaultsStay DEF Recorded, Others, imports
<1>2. PICK s \in {"inspect", "announce", "finalize", "process", "evict", "done"} :
        /\ Begins(u, s) /\ wf[u].step \notin Ended
        /\ s = "process" => InStep(u, "finalize", "record")
        /\ s = "evict" => wf[u].step = "complete"
        /\ wf[u].step \in Late => s \in Late
  BY DEF Recorded, InStep, Ended, Late
<1>3. Placed(u, wf[u])
  BY DEF IInv, UploadOK
<1>4. /\ Completed(u)
      /\ row[u].status \in {"succeeded", "failed"} => s \in Late
      /\ s = "process" => row[u].result /\ folder[u]
      /\ s \in {"complete", "evict"} => Imported(u)
  BY <1>2, <1>3 DEF Placed, Ended, InStep
<1> QED BY <1>1, <1>2, <1>4, BeginsKeeps DEF Steps

LEMMA ReadsKeep ==
    ASSUME IInv, NEW u \in Uploads, ReadCurrent(u) \/ InspectRead(u) \/ ReadForEnd(u)
    PROVE  IInv'
<1>1. UNCHANGED Others /\ faults' = faults /\ faults' \in 0 .. MaxFaults
  BY FaultsStay DEF ReadCurrent, InspectRead, ReadForEnd, Others, imports
<1>2. wf[u].step \notin Ended
  BY DEF ReadCurrent, InspectRead, ReadForEnd, InStep, Ended
<1>3. \/ \E p \in {"work", "object"} : StepAt(u, p)
      \/ wf[u].step = "inspect" /\ StepAt(u, "write")
      \/ Cancelled(u) \/ Begins(u, "done")
  BY DEF ReadCurrent, InspectRead, ReadForEnd, InStep
<1>4. ASSUME NEW p \in {"work", "object"}, StepAt(u, p) PROVE IInv'
  BY <1>1, <1>4, GoesOn DEF Points
<1>5. CASE wf[u].step = "inspect" /\ StepAt(u, "write")
  BY <1>1, <1>5, GoesOn DEF Points
<1>6. CASE Cancelled(u) \/ Begins(u, "done")
  BY <1>1, <1>2, <1>6, CancelledKeeps DEF Cancelled
<1> QED BY <1>3, <1>4, <1>5, <1>6

LEMMA WaitsKeep ==
    ASSUME IInv, NEW u \in Uploads, Inspect(u) \/ Announce(u) \/ Receive(u) \/ Evict(u)
    PROVE  IInv'
<1>1. UNCHANGED Others /\ faults' = faults /\ faults' \in 0 .. MaxFaults
  BY FaultsStay DEF Inspect, Announce, Receive, Evict, Others, imports
<1>2. wf[u].step \in {"inspect", "announce", "recv", "evict"}
  BY DEF Inspect, Announce, Receive, Evict, InStep
<1>3. Placed(u, wf[u])
  BY DEF IInv, UploadOK
<1>4. /\ wf[u].step \notin Ended /\ Completed(u)
      /\ wf[u].step # "evict" => row[u].status \notin {"succeeded", "failed"}
  BY <1>2, <1>3 DEF Placed, Ended, Late
<1>5. CASE Inspect(u) /\ StepAt(u, "read")
  BY <1>1, <1>5, GoesOn DEF Points
<1>6. CASE Inspect(u) /\ Fail(u)
  BY <1>1, <1>4, <1>6, CancelledKeeps
<1>7. CASE Announce(u)
  BY <1>1, <1>4, <1>7, BeginsKeeps DEF Announce, InStep, Steps
<1>8. CASE Receive(u)
  <2>1. PICK s \in {"extract", "abort"} : Begins(u, s)
    BY <1>8 DEF Receive
  <2> QED BY <1>1, <1>4, <1>8, <2>1, BeginsKeeps DEF Receive, InStep, Steps
<1>9. CASE Evict(u)
  BY <1>1, <1>4, <1>9, BeginsKeeps DEF Evict, Steps, Late
<1> QED BY <1>5, <1>6, <1>7, <1>8, <1>9 DEF Inspect

\* A failed call, which the code answers by trying again or giving up.
LEMMA StepErrorKeeps == ASSUME IInv, NEW u \in Uploads, StepError(u) PROVE IInv'
<1>1. UNCHANGED Others /\ faults' \in 0 .. MaxFaults
  BY ImportAssumption DEF StepError, Others, imports, IInv, TypeOK
<1> QED BY <1>1, StepFailsKeeps DEF StepError

\* The other steps change one upload and none of the requests.
LEMMA DownloadKeeps == ASSUME IInv, NEW u \in Uploads, Download(u) PROVE IInv'
<1>1. CASE Fail(u) /\ disk' = disk
  <2>1. UNCHANGED Others /\ faults' \in 0 .. MaxFaults /\ wf[u].step \notin Ended
    BY <1>1, FaultsStay DEF Download, Others, InStep, Ended
  <2> QED BY <1>1, <2>1, CancelledKeeps
<1>2. CASE disk' = [disk EXCEPT ![u].zip = TRUE] /\ StepAt(u, "record")
  <2> DEFINE w == [wf[u] EXCEPT !.at = "record"]
             f == [disk[u] EXCEPT !.zip = TRUE]
  <2>1. w \in Places /\ w.step = "download" /\ w.at = "record"
    BY PointMoved DEF IInv, TypeOK, Points, Download, InStep
  <2>2. f \in Files
    <3>1. disk[u] \in Files
      BY DEF IInv, TypeOK
    <3> QED BY <3>1 DEF Files
  <2>3. disk' = [disk EXCEPT ![u] = f] /\ wf' = [wf EXCEPT ![u] = w]
    BY <1>2 DEF StepAt
  <2>4. UNCHANGED <<row, store, folder, op, sent, admission, req, sweep, faults>>
    BY DEF Download
  <2> HIDE DEF w, f
  <2>5. TypeOK' /\ wf'[u] = w /\ \A v \in Uploads \ {u} : Same(v)
    BY <2>1, <2>2, <2>3, <2>4 DEF IInv, TypeOK, Same
  <2>6. Placed(u, wf[u]) /\ wf[u].step = "download"
    BY DEF IInv, UploadOK, Download, InStep
  <2>7. UploadOK(u)' /\ Completed(u)'
    BY <2>1, <2>4, <2>5, <2>6 DEF IInv, UploadOK, Placed, Completed, Late
  <2> QED BY <2>4, <2>5, <2>7, OneUpload
<1> QED BY <1>1, <1>2 DEF Download

LEMMA FilesChanged ==
    ASSUME NEW old \in Files, NEW b \in BOOLEAN
    PROVE  LET new == [old EXCEPT !.extracted = b] IN
           new \in Files /\ new.extracted = b /\ new.zip = old.zip
BY DEF Files

LEMMA ExtractKeeps == ASSUME IInv, NEW u \in Uploads, Extract(u) PROVE IInv'
<1>1. PICK b \in BOOLEAN, w \in Places :
        /\ disk' = [disk EXCEPT ![u].extracted = b] /\ wf' = [wf EXCEPT ![u] = w]
        /\ \/ w.step = "extract" /\ w.at = "record"
           \/ w.step = "fail" /\ w.at \in {"read", "work"}
  <2>1. /\ [wf[u] EXCEPT !.at = "record"] \in Places
        /\ [wf[u] EXCEPT !.at = "record"].step = "extract"
        /\ [wf[u] EXCEPT !.at = "record"].at = "record"
    BY PointMoved DEF IInv, TypeOK, Points, Extract, InStep
  <2>2. At("fail") \in Places /\ At("fail").step = "fail" /\ At("fail").at \in {"read", "work"}
    BY StepBegun DEF Steps
  <2> QED BY <2>1, <2>2 DEF Extract, StepAt, Fail, Begins
<1> DEFINE f == [disk[u] EXCEPT !.extracted = b]
<1>2. f \in Files /\ disk' = [disk EXCEPT ![u] = f]
  BY <1>1, FilesChanged DEF IInv, TypeOK
<1>3. UNCHANGED <<row, store, folder, op, sent, admission, req, sweep, faults>>
  BY DEF Extract
<1> HIDE DEF f
<1>4. TypeOK' /\ wf'[u] = w /\ \A v \in Uploads \ {u} : Same(v)
  BY <1>1, <1>2, <1>3 DEF IInv, TypeOK, Same
<1>5. Placed(u, wf[u]) /\ wf[u].step = "extract"
  BY DEF IInv, UploadOK, Extract, InStep
<1>6. UploadOK(u)' /\ Completed(u)'
  BY <1>1, <1>3, <1>4, <1>5 DEF IInv, UploadOK, Placed, Completed, Late
<1> QED BY <1>3, <1>4, <1>6, OneUpload

LEMMA ReplaceFoldersKeeps == ASSUME IInv, NEW u \in Uploads, ReplaceFolders(u) PROVE IInv'
<1> DEFINE w == [wf[u] EXCEPT !.at = "record"]
           f == [disk[u] EXCEPT !.extracted = FALSE]
<1>1. w \in Places /\ w.step = "finalize" /\ w.at = "record"
  BY PointMoved DEF IInv, TypeOK, Points, ReplaceFolders, InStep
<1>2. f \in Files
  BY FilesChanged DEF IInv, TypeOK
<1>3. /\ disk' = [disk EXCEPT ![u] = f] /\ wf' = [wf EXCEPT ![u] = w]
      /\ folder' = [folder EXCEPT ![u] = TRUE]
      /\ UNCHANGED <<row, store, op, sent, admission, req, sweep, faults>>
  BY DEF ReplaceFolders, StepAt
<1> HIDE DEF w, f
<1>4. TypeOK' /\ wf'[u] = w /\ folder'[u] /\ \A v \in Uploads \ {u} : Same(v)
  BY <1>1, <1>2, <1>3 DEF IInv, TypeOK, Same
<1>5. Placed(u, wf[u]) /\ wf[u].step = "finalize" /\ wf[u].at = "folders"
  BY DEF IInv, UploadOK, ReplaceFolders, InStep
<1>6. UploadOK(u)' /\ Completed(u)'
  BY <1>1, <1>3, <1>4, <1>5 DEF IInv, UploadOK, Placed, Completed, Late
<1> QED BY <1>3, <1>4, <1>6, OneUpload

LEMMA StartProcessingKeeps == ASSUME IInv, NEW u \in Uploads, StartProcessing(u) PROVE IInv'
<1> DEFINE w == At("complete")
<1>1. w \in Places /\ w.step = "complete" /\ w.at \in {"read", "work"}
  BY StepBegun DEF Steps
<1>2. /\ op' = [op EXCEPT ![u] = "started"] /\ wf' = [wf EXCEPT ![u] = w]
      /\ UNCHANGED <<row, store, disk, folder, sent, admission, req, sweep, faults>>
  BY DEF StartProcessing, Begins
<1> HIDE DEF w
<1>3. TypeOK' /\ wf'[u] = w /\ op'[u] = "started" /\ \A v \in Uploads \ {u} : Same(v)
  BY <1>1, <1>2 DEF IInv, TypeOK, Same
<1>4. Placed(u, wf[u]) /\ wf[u].step = "process"
  BY DEF IInv, UploadOK, StartProcessing, InStep
<1>5. UploadOK(u)' /\ Completed(u)'
  BY <1>1, <1>2, <1>3, <1>4 DEF IInv, UploadOK, Placed, Completed, Imported, Late
<1> QED BY <1>2, <1>3, <1>5, OneUpload

LEMMA DeleteKeeps ==
    ASSUME IInv, NEW u \in Uploads, DeleteObject(u) \/ DeleteFiles(u) PROVE IInv'
<1>0. PICK p \in Points :
        /\ wf' = [wf EXCEPT ![u].at = p]
        /\ p = IF DeleteObject(u) THEN "files" ELSE "write"
  BY DEF DeleteObject, DeleteFiles, StepAt, Points
<1> DEFINE w == [wf[u] EXCEPT !.at = p]
<1>1. w \in Places /\ w.step = wf[u].step /\ w.at = p
  BY PointMoved DEF IInv, TypeOK
<1>2. wf' = [wf EXCEPT ![u] = w]
      /\ UNCHANGED <<row, folder, op, sent, admission, req, sweep, faults>>
  BY <1>0 DEF DeleteObject, DeleteFiles, imports
<1>3. Placed(u, wf[u]) /\ wf[u].step \in {"complete", "abort", "fail"}
  BY DEF IInv, UploadOK, DeleteObject, DeleteFiles
<1>4. CASE DeleteObject(u)
  <2>1. p = "files" /\ UNCHANGED disk
    BY <1>0, <1>4 DEF DeleteObject, imports
  <2>2. store' = IF store[u] = "object" THEN [store EXCEPT ![u] = "gone"] ELSE store
    BY <1>4 DEF DeleteObject
  <2> HIDE DEF w
  <2>3. TypeOK' /\ wf'[u] = w /\ \A v \in Uploads \ {u} : Same(v)
    BY <1>1, <1>2, <2>1, <2>2 DEF IInv, TypeOK, Same
  <2>4. store'[u] = "gone"
    BY <1>3, <2>2 DEF Placed, Completed, IInv, TypeOK
  <2>5. UploadOK(u)' /\ Completed(u)'
    BY <1>1, <1>2, <1>3, <2>1, <2>3, <2>4
       DEF IInv, UploadOK, Placed, Completed, Clean, Imported, Late
  <2> QED BY <1>2, <2>3, <2>5, OneUpload
<1>5. CASE DeleteFiles(u) /\ ~DeleteObject(u)
  <2>1. p = "write" /\ store' = store /\ disk' = [disk EXCEPT ![u] = NoFiles]
    BY <1>0, <1>5 DEF DeleteFiles
  <2>2. NoFiles \in Files /\ ~NoFiles.zip /\ ~NoFiles.extracted
    BY DEF NoFiles, Files
  <2>3. store[u] = "gone"
    BY <1>3, <1>5 DEF Placed, DeleteFiles, Late
  <2> HIDE DEF w
  <2>4. TypeOK' /\ wf'[u] = w /\ disk'[u] = NoFiles /\ \A v \in Uploads \ {u} : Same(v)
    BY <1>1, <1>2, <2>1, <2>2 DEF IInv, TypeOK, Same
  <2>5. UploadOK(u)' /\ Completed(u)'
    BY <1>1, <1>2, <1>3, <2>1, <2>2, <2>3, <2>4
       DEF IInv, UploadOK, Placed, Completed, Clean, Imported, Late
  <2> QED BY <1>2, <2>4, <2>5, OneUpload
<1> QED BY <1>4, <1>5

\* The steps that write the row.
LEMMA InspectWriteKeeps == ASSUME IInv, NEW u \in Uploads, InspectWrite(u) PROVE IInv'
<1>1. CASE StepFails(u) /\ row' = row
  BY <1>1, FaultsStay, StepFailsKeeps DEF InspectWrite, Others, imports, InStep, Ended
<1>2. CASE Write(u, [row[u] EXCEPT !.status = "awaiting_selection", !.choices = TRUE])
           /\ StepAt(u, "record")
  <2> DEFINE w == [wf[u] EXCEPT !.at = "record"]
             new == [row[u] EXCEPT !.status = "awaiting_selection", !.choices = TRUE]
  <2>1. w \in Places /\ w.step = "inspect" /\ w.at = "record"
    BY PointMoved DEF IInv, TypeOK, Points, InspectWrite, InStep
  <2>2. new \in Rows /\ new.status = "awaiting_selection" /\ new.result = row[u].result
    BY ChoicesWritten DEF IInv, TypeOK
  <2>3. /\ row' = [row EXCEPT ![u] = new] /\ wf' = [wf EXCEPT ![u] = w]
        /\ UNCHANGED <<store, disk, folder, op, sent, admission, req, sweep, faults>>
    BY <1>2 DEF InspectWrite, Write, StepAt, imports
  <2> HIDE DEF w, new
  <2>4. TypeOK' /\ wf'[u] = w /\ row'[u] = new /\ \A v \in Uploads \ {u} : Same(v)
    BY <2>1, <2>2, <2>3 DEF IInv, TypeOK, Same
  <2>5. Placed(u, wf[u]) /\ wf[u].step = "inspect"
    BY DEF IInv, UploadOK, InspectWrite, InStep
  <2>6. UploadOK(u)' /\ Completed(u)'
    BY <2>1, <2>2, <2>3, <2>4, <2>5 DEF UploadOK, Placed, Completed, Late
  <2> QED BY <2>3, <2>4, <2>6, OneUpload
<1> QED BY <1>1, <1>2 DEF InspectWrite

LEMMA FinalizeKeeps == ASSUME IInv, NEW u \in Uploads, Finalize(u) PROVE IInv'
<1>1. Placed(u, wf[u]) /\ wf[u].step = "finalize"
  BY DEF IInv, UploadOK, Finalize, InStep
<1>2. CASE (Fail(u) \/ StepFails(u)) /\ UNCHANGED <<row, op>>
  <2>1. UNCHANGED Others /\ faults' \in 0 .. MaxFaults /\ wf[u].step \notin Ended
    BY <1>1, <1>2, FaultsStay DEF Finalize, Others, Ended
  <2> QED BY <1>2, <2>1, CancelledKeeps, StepFailsKeeps
<1>3. CASE /\ StepAt(u, "folders")
           /\ \/ row[u].result /\ UNCHANGED <<row, op>>
              \/ /\ Write(u, [row[u] EXCEPT !.result = TRUE])
                 /\ op' = [op EXCEPT ![u] = "queued"]
  <2> DEFINE w == [wf[u] EXCEPT !.at = "folders"]
             new == [row[u] EXCEPT !.result = TRUE]
  <2>1. w \in Places /\ w.step = "finalize" /\ w.at = "folders"
    BY <1>1, PointMoved DEF IInv, TypeOK, Points
  <2>2. /\ new \in Rows /\ new.result /\ new.status = row[u].status
        /\ new.choices = row[u].choices
    BY ResultWritten DEF IInv, TypeOK
  <2>3. /\ wf' = [wf EXCEPT ![u] = w]
        /\ UNCHANGED <<store, disk, folder, sent, admission, req, sweep, faults>>
    BY <1>3 DEF Finalize, StepAt
  <2>4. \/ row' = [row EXCEPT ![u] = new] /\ op' = [op EXCEPT ![u] = "queued"]
        \/ row' = row /\ op' = op /\ row[u].result
    BY <1>3 DEF Finalize, Write
  <2> HIDE DEF w, new
  <2>5. TypeOK'
    BY <2>1, <2>2, <2>3, <2>4 DEF IInv, TypeOK
  <2>6. /\ wf'[u] = w /\ \A v \in Uploads \ {u} : Same(v)
        /\ row'[u].status = row[u].status /\ row'[u].choices = row[u].choices
    BY <2>1, <2>2, <2>3, <2>4 DEF IInv, TypeOK, Same
  <2>7. row'[u].result
    BY <2>2, <2>4 DEF IInv, TypeOK
  <2>8. row[u].status \notin {"succeeded", "failed"}
    BY <1>1 DEF Placed, Late
  <2>9. UploadOK(u)' /\ Completed(u)'
    BY <1>1, <2>1, <2>3, <2>6, <2>7, <2>8 DEF IInv, UploadOK, Placed, Completed, Late
  <2> QED BY <2>3, <2>5, <2>6, <2>9, OneUpload
<1> QED BY <1>2, <1>3 DEF Finalize

\* The end is written of a clean upload, and success of an imported one.
LEMMA WriteEndKeeps == ASSUME IInv, NEW u \in Uploads, WriteEnd(u) PROVE IInv'
<1>1. Placed(u, wf[u]) /\ wf[u].step \in {"complete", "abort", "fail"} /\ wf[u].at = "write"
  BY DEF IInv, UploadOK, WriteEnd
<1>2. Completed(u) /\ Clean(u) /\ (wf[u].step = "complete" => Imported(u))
  BY <1>1 DEF Placed, Late
<1>3. CASE StepFails(u) /\ row' = row
  BY <1>1, <1>3, FaultsStay, StepFailsKeeps DEF WriteEnd, Others, imports, Ended
<1>4. ASSUME NEW s \in {"succeeded", "aborted", "failed"},
             row' = [row EXCEPT ![u] = EndedAs(u, s)], StepAt(u, "record"),
             s = "succeeded" => wf[u].step = "complete"
      PROVE  IInv'
  <2> DEFINE w == [wf[u] EXCEPT !.at = "record"]
             new == EndedAs(u, s)
  <2>2. w \in Places /\ w.step = wf[u].step /\ w.at = "record"
    BY PointMoved DEF IInv, TypeOK, Points
  <2>3. /\ new \in Rows /\ new.status = s
        /\ new.choices = row[u].choices /\ new.result = row[u].result
    <3>1. row[u] \in Rows /\ s \in Statuses
      BY DEF IInv, TypeOK, Statuses
    <3> QED BY <3>1, EndWritten DEF EndedAs
  <2>4. /\ row' = [row EXCEPT ![u] = new] /\ wf' = [wf EXCEPT ![u] = w]
        /\ UNCHANGED <<store, disk, folder, op, sent, admission, req, sweep, faults>>
    BY <1>4 DEF WriteEnd, StepAt, imports
  <2> HIDE DEF w, new
  <2>5. TypeOK' /\ wf'[u] = w /\ row'[u] = new /\ \A v \in Uploads \ {u} : Same(v)
    BY <2>2, <2>3, <2>4 DEF IInv, TypeOK, Same
  <2>6. UploadOK(u)' /\ Completed(u)'
    BY <1>1, <1>2, <1>4, <2>2, <2>3, <2>4, <2>5
       DEF UploadOK, Placed, Completed, Clean, Imported, Late
  <2> QED BY <2>4, <2>5, <2>6, OneUpload
<1>5. CASE /\ Write(u, EndedAs(u, CASE wf[u].step = "complete" -> "succeeded"
                                     [] wf[u].step = "abort" -> "aborted"
                                     [] wf[u].step = "fail" -> "failed"))
           /\ StepAt(u, "record")
  BY <1>1, <1>4, <1>5 DEF Write
<1> QED BY <1>3, <1>5 DEF WriteEnd

LEMMA WorkflowKeeps == ASSUME IInv, NEW u \in Uploads, Workflow(u) PROVE IInv'
BY RecordedKeeps, ReadsKeep, WaitsKeep, DownloadKeeps, InspectWriteKeeps, ExtractKeeps,
   FinalizeKeeps, ReplaceFoldersKeeps, StartProcessingKeeps, DeleteKeeps, WriteEndKeeps
   DEF Workflow

LEMMA TimeKeeps == ASSUME IInv, NEW u \in Uploads, Expire(u) \/ Age(u) PROVE IInv'
<1>1. PICK new \in {[row[u] EXCEPT !.expired = TRUE], [row[u] EXCEPT !.ended = "old"]} :
        row' = [row EXCEPT ![u] = new]
  BY DEF Expire, Age
<1>2. /\ new \in Rows /\ new.status = row[u].status
      /\ new.choices = row[u].choices /\ new.result = row[u].result
  <2>1. row[u] \in Rows
    BY DEF IInv, TypeOK
  <2> QED BY <2>1, TimePassed
<1>3. UNCHANGED <<store, disk, folder, op, sent, wf, admission, req, sweep, faults>>
  BY DEF Expire, Age, imports
<1>4. TypeOK' /\ row'[u] = new /\ \A v \in Uploads \ {u} : Same(v)
  BY <1>1, <1>2, <1>3 DEF IInv, TypeOK, Same
<1>5. UploadOK(u)' /\ (Completed(u) => Completed(u)')
  BY <1>2, <1>3, <1>4 DEF IInv, UploadOK, Placed, Completed, Clean, Imported
<1> QED BY <1>3, <1>4, <1>5, OneUpload

----------------------------------------------------------------------------
(* The requests                                                            *)

\* A request that arrives writes no row.  One that will go on to start the
\* workflow or to send a selection has read the row of a completed upload.
LEMMA ArrivalKeeps ==
    ASSUME IInv, NEW r \in Requests, NEW u \in Uploads, Arrival(r, u) PROVE IInv'
<1>1. PICK kind \in {"create", "complete", "abort", "select"}, at \in CallPoints,
           seen \in Statuses :
        /\ Begin(r, kind, u, at, seen)
        /\ kind \in {"complete", "select"} /\ at # "admit" => Completed(u)
  <2>1. UploadOK(u) /\ row[u].status \in Statuses
    BY DEF IInv, TypeOK, Rows
  <2>2. CASE CreateStore(r, u)
    BY <2>2 DEF CreateStore, CallPoints, Statuses
  <2>3. CASE CompleteRead(r, u)
    BY <2>1, <2>3 DEF CompleteRead, CallPoints, Statuses, UploadOK, Active
  <2>4. CASE AbortRead(r, u)
    BY <2>4 DEF AbortRead, CallPoints, Statuses
  <2>5. CASE SelectRead(r, u)
    BY <2>1, <2>5 DEF SelectRead, CallPoints, UploadOK
  <2> QED BY <2>2, <2>3, <2>4, <2>5 DEF Arrival
<1> DEFINE c == [kind |-> kind, upload |-> u, at |-> at, seen |-> seen]
<1>2. c \in Calls /\ c.upload = u /\ c.kind = kind /\ c.at = at
  BY DEF Calls
<1>3. req' = [req EXCEPT ![r] = c]
  BY <1>1 DEF Begin
<1>4. /\ UNCHANGED <<row, disk, folder, op, sent, wf, admission, sweep, faults>>
      /\ \/ store' = store
         \/ store[u] = "none" /\ store' = [store EXCEPT ![u] = "open"]
  BY DEF Arrival, CreateStore, CompleteRead, AbortRead, SelectRead, imports
<1> HIDE DEF c
<1>5. TypeOK' /\ \A v \in Uploads \ {u} : Same(v)
  BY <1>2, <1>3, <1>4 DEF IInv, TypeOK, Same
<1>6. UploadOK(u)' /\ (Completed(u) => Completed(u)')
  BY <1>4 DEF IInv, TypeOK, UploadOK, Placed, Completed, Clean, Imported
<1>7. Needs(c) => Completed(u)'
  BY <1>1, <1>2, <1>6 DEF Needs
<1> QED BY <1>2, <1>3, <1>5, <1>6, <1>7, OneRequest

\* What a request's step may do to its upload, and how it goes on.
LEMMA RouteStep ==
    ASSUME IInv, NEW r \in Requests, NEW u \in Uploads,
           req[r] # Idle, req[r].upload = u,
           Respond(r) \/ \E at \in CallPoints : Goto(r, at),
           (\E at \in {"head", "commit", "start", "send"} : Goto(r, at))
              /\ req[r].kind \in {"complete", "select"} => Completed(u)',
           row' \in [Uploads -> Rows], store' \in [Uploads -> {"none", "open", "object", "gone"}],
           sent' \in [Uploads -> BOOLEAN], wf' \in [Uploads -> Places],
           admission' \in Requests \cup {Nobody},
           UNCHANGED <<imports, sweep, faults>>,
           \A v \in Uploads \ {u} : Same(v),
           UploadOK(u)', Completed(u) => Completed(u)'
    PROVE  IInv'
<1>1. req[r] \in Calls
  BY DEF IInv, TypeOK
<1>2. CASE Respond(r)
  <2>1. TypeOK'
    BY <1>2 DEF IInv, TypeOK, Respond, imports
  <2> QED BY <1>2, <2>1, OneRequest DEF Respond
<1>3. ASSUME NEW at \in CallPoints, Goto(r, at) PROVE IInv'
  <2> DEFINE c == [req[r] EXCEPT !.at = at]
  <2>1. c \in Calls /\ c.at = at /\ c.kind = req[r].kind /\ c.upload = u
    BY <1>1, CallMoved
  <2>2. req' = [req EXCEPT ![r] = c]
    BY <1>3 DEF Goto
  <2>3. Needs(c) => Completed(u)'
    BY <1>3, <2>1 DEF Needs
  <2> HIDE DEF c
  <2>4. TypeOK'
    BY <2>1, <2>2 DEF IInv, TypeOK, imports
  <2> QED BY <2>1, <2>2, <2>3, <2>4, OneRequest
<1> QED BY <1>2, <1>3

LEMMA GotoMoves ==
    ASSUME IInv, NEW r \in Requests, req[r] # Idle, NEW at \in CallPoints, Goto(r, at)
    PROVE  req'[r] # Idle /\ req'[r].at = at
<1> DEFINE c == [req[r] EXCEPT !.at = at]
<1>1. req[r] \in Calls
  BY DEF IInv, TypeOK
<1>2. c \in Calls /\ c.at = at
  BY <1>1, CallMoved
<1>3. req'[r] = c
  BY DEF Goto, IInv, TypeOK
<1> QED BY <1>2, <1>3, CallIsNotIdle

\* The steps that change neither the row nor the workflow.
LEMMA StoreRoutesKeep ==
    ASSUME IInv, NEW r \in Requests, NEW u \in Uploads,
           CompleteAdmit(r, u) \/ CompleteStore(r, u) \/ CompleteHead(r, u) \/ AbortStore(r, u)
    PROVE  IInv'
<1> USE DEF CompleteAdmit, CompleteStore, CompleteHead, AbortStore
<1>1. req[r] # Idle /\ req[r].upload = u
  BY DEF Handles
<1>2. UNCHANGED <<row, imports, sent, wf, sweep, faults>>
  OBVIOUS
<1>3. /\ \/ store' = store
         \/ store[u] = "open" /\ store' = [store EXCEPT ![u] = "object"]
         \/ store[u] = "open" /\ store' = [store EXCEPT ![u] = "gone"]
         \/ Completed(u) /\ store' = [store EXCEPT ![u] = "gone"]
      /\ admission' \in Requests \cup {Nobody}
  <2>1. CompleteHead(r, u) => Completed(u)
    BY <1>1 DEF IInv, RequestOK, Needs, Handles
  <2>2. admission \in Requests \cup {Nobody}
    BY DEF IInv, TypeOK
  <2> QED BY <2>1, <2>2 DEF Release
<1>4. /\ store' \in [Uploads -> {"none", "open", "object", "gone"}]
      /\ \A v \in Uploads \ {u} : Same(v)
      /\ Completed(u) => store'[u] \in {store[u], "gone"}
  BY <1>2, <1>3 DEF IInv, TypeOK, Same, imports, Completed
<1>5. UploadOK(u)' /\ (Completed(u) => Completed(u)')
  BY <1>2, <1>4 DEF IInv, UploadOK, Placed, Completed, Clean, Imported, imports
<1>6. Respond(r) \/ \E at \in CallPoints : Goto(r, at)
  BY DEF CallPoints
<1>7. ASSUME NEW at \in {"head", "commit", "start", "send"}, Goto(r, at),
             req[r].kind \in {"complete", "select"}
      PROVE  Completed(u)'
  <2>1. at \in CallPoints /\ req'[r] # Idle /\ req'[r].at = at
    BY <1>1, <1>7, GotoMoves DEF CallPoints
  <2>2. CASE CompleteAdmit(r, u)
    <3>1. req'[r] = Idle \/ Goto(r, "store")
      BY <2>2 DEF IInv, TypeOK, Respond
    <3> QED BY <1>1, <1>7, <2>1, <3>1, GotoMoves DEF CallPoints
  <2>3. CASE CompleteStore(r, u)
    <3>1. store' = [store EXCEPT ![u] = "object"]
      BY <2>1, <2>3 DEF IInv, TypeOK, Respond
    <3> QED BY <3>1 DEF IInv, TypeOK, Completed
  <2>4. CASE CompleteHead(r, u)
    BY <1>1, <1>5, <2>4 DEF IInv, RequestOK, Needs, Handles
  <2>5. CASE AbortStore(r, u)
    BY <1>7, <2>5 DEF Handles
  <2> QED BY <2>2, <2>3, <2>4, <2>5
<1>8. sent' \in [Uploads -> BOOLEAN] /\ row' \in [Uploads -> Rows] /\ wf' \in [Uploads -> Places]
  BY <1>2 DEF IInv, TypeOK
<1> QED BY <1>1, <1>2, <1>3, <1>4, <1>5, <1>6, <1>7, <1>8, RouteStep

\* The steps that write the row's status: none of them an ended one's.
LEMMA RowRoutesKeep ==
    ASSUME IInv, NEW r \in Requests, NEW u \in Uploads,
           CreateInsert(r, u) \/ CompleteCommit(r, u) \/ AbortCommit(r, u) \/ SelectCommit(r, u)
    PROVE  IInv'
<1> USE DEF CreateInsert, CompleteCommit, AbortCommit, SelectCommit
<1>1. req[r] # Idle /\ req[r].upload = u
  BY DEF Handles
<1>2. UNCHANGED <<store, imports, sent, wf, sweep, faults>>
  OBVIOUS
<1>3. req[r].kind \in {"complete", "select"} => Completed(u)
  BY <1>1 DEF IInv, RequestOK, Needs, Handles
<1>4. admission' \in Requests \cup {Nobody}
  BY DEF IInv, TypeOK, Release
<1>5. row[u] \in Rows /\ UploadOK(u)
  BY DEF IInv, TypeOK
<1>6. \/ row' = row
      \/ \E s \in {"uploading", "processing"} :
           /\ row' = [row EXCEPT ![u] = WithStatus(u, s)]
           /\ s = "processing" => Completed(u)
      \/ row' = [row EXCEPT ![u] = EndedAs(u, "aborted")]
      \/ row' = [row EXCEPT ![u] = row[u]]
  BY <1>3 DEF Write, WithStatus, Handles
<1>7. PICK new \in Rows :
        /\ row' = [row EXCEPT ![u] = new]
        /\ new.choices = row[u].choices /\ new.result = row[u].result
        /\ new.status \in {row[u].status, "uploading", "processing", "aborted"}
        /\ new.status = "processing" => Completed(u)
  <2>1. CASE row' = row \/ row' = [row EXCEPT ![u] = row[u]]
    <3>1. row' = [row EXCEPT ![u] = row[u]]
      BY <2>1 DEF IInv, TypeOK
    <3> QED BY <1>5, <3>1 DEF UploadOK, Active
  <2>2. ASSUME NEW s \in {"uploading", "processing"},
               row' = [row EXCEPT ![u] = WithStatus(u, s)], s = "processing" => Completed(u)
        PROVE  \E new \in Rows :
                 /\ row' = [row EXCEPT ![u] = new]
                 /\ new.choices = row[u].choices /\ new.result = row[u].result
                 /\ new.status \in {row[u].status, "uploading", "processing", "aborted"}
                 /\ new.status = "processing" => Completed(u)
    <3>1. s \in Statuses
      BY DEF Statuses
    <3>2. /\ WithStatus(u, s) \in Rows /\ WithStatus(u, s).status = s
          /\ WithStatus(u, s).choices = row[u].choices
          /\ WithStatus(u, s).result = row[u].result
      BY <1>5, <3>1, StatusWritten DEF WithStatus
    <3> QED BY <2>2, <3>2
  <2>3. CASE row' = [row EXCEPT ![u] = EndedAs(u, "aborted")]
    BY <1>5, <2>3, EndWritten DEF EndedAs, Statuses
  <2> QED BY <1>6, <2>1, <2>2, <2>3
<1>8. row' \in [Uploads -> Rows] /\ row'[u] = new /\ \A v \in Uploads \ {u} : Same(v)
  BY <1>2, <1>7 DEF IInv, TypeOK, Same, imports
<1>9. UploadOK(u)' /\ (Completed(u) => Completed(u)')
  BY <1>2, <1>5, <1>7, <1>8 DEF UploadOK, Placed, Completed, Clean, Imported, imports, Active
<1>10. Respond(r) \/ \E at \in CallPoints : Goto(r, at)
  BY DEF CallPoints
<1>11. /\ store' \in [Uploads -> {"none", "open", "object", "gone"}]
       /\ sent' \in [Uploads -> BOOLEAN] /\ wf' \in [Uploads -> Places]
  BY <1>2 DEF IInv, TypeOK
<1> QED BY <1>1, <1>2, <1>3, <1>4, <1>8, <1>9, <1>10, <1>11, RouteStep

\* The steps that speak to the workflow and answer.
LEMMA LastRoutesKeep ==
    ASSUME IInv, NEW r \in Requests, NEW u \in Uploads, CompleteStart(r, u) \/ SelectSend(r, u)
    PROVE  IInv'
<1>1. req[r] # Idle /\ req[r].upload = u /\ Respond(r)
  BY DEF CompleteStart, SelectSend, Handles
<1>2. UNCHANGED <<row, store, imports, admission, sweep, faults>>
  BY DEF CompleteStart, SelectSend
<1>3. Completed(u) /\ UploadOK(u)
  BY <1>1 DEF CompleteStart, SelectSend, Handles, IInv, RequestOK, Needs
<1>4. sent' \in [Uploads -> BOOLEAN]
  BY DEF CompleteStart, SelectSend, IInv, TypeOK
<1>5. PICK w \in Places :
        /\ wf' = [wf EXCEPT ![u] = w]
        /\ w = wf[u] \/ (wf[u].step = "none" /\ w.step = "download" /\ w.at \in {"read", "work"})
  <2>1. CASE wf' = wf
    <3>1. wf' = [wf EXCEPT ![u] = wf[u]] /\ wf[u] \in Places
      BY <2>1 DEF IInv, TypeOK
    <3> QED BY <3>1
  <2>2. CASE wf[u].step = "none" /\ wf' = [wf EXCEPT ![u] = At("download")]
    BY <2>2, StepBegun DEF Steps
  <2> QED BY <2>1, <2>2 DEF CompleteStart, SelectSend
<1>6. wf' \in [Uploads -> Places] /\ wf'[u] = w /\ \A v \in Uploads \ {u} : Same(v)
  BY <1>2, <1>5 DEF IInv, TypeOK, Same, imports
<1>7. UploadOK(u)' /\ Completed(u)'
  BY <1>2, <1>3, <1>5, <1>6 DEF UploadOK, Placed, Completed, Clean, Imported, imports, Late
<1>8. /\ store' \in [Uploads -> {"none", "open", "object", "gone"}] /\ row' \in [Uploads -> Rows]
      /\ admission' \in Requests \cup {Nobody}
  BY <1>2 DEF IInv, TypeOK
<1> QED BY <1>1, <1>2, <1>4, <1>6, <1>7, <1>8, RouteStep

LEMMA RouteKeeps ==
    ASSUME IInv, NEW r \in Requests, NEW u \in Uploads, Route(r, u) PROVE IInv'
BY StoreRoutesKeep, RowRoutesKeep, LastRoutesKeep DEF Route

----------------------------------------------------------------------------
(* The expiry loop and the failures                                        *)

\* The loop and the failures only take: no row becomes active, succeeded or
\* failed by them, and no file comes back.
LEMMA Takes ==
    ASSUME IInv, TypeOK', UNCHANGED <<folder, op>>,
           \A u \in Uploads :
             /\ store'[u] = store[u] \/ (store[u] = "open" /\ store'[u] = "gone")
             /\ disk'[u] \in {disk[u], NoFiles}
             /\ row'[u].status \in {row[u].status, "deleted", "aborted"}
             /\ row'[u].choices = row[u].choices /\ row'[u].result = row[u].result
             /\ wf'[u] \in {wf[u], At(wf[u].step)},
           \A r \in Requests : req'[r] \in {req[r], Idle}
    PROVE  IInv'
<1>1. ASSUME NEW u \in Uploads PROVE UploadOK(u)' /\ (Completed(u) => Completed(u)')
  <2>1. UploadOK(u) /\ wf[u].step \in Steps
    BY DEF IInv, TypeOK, Places
  <2>2. ~NoFiles.zip /\ ~NoFiles.extracted
    BY DEF NoFiles
  <2>3. wf'[u] = wf[u] \/ (wf'[u].step = wf[u].step /\ wf'[u].at \in {"read", "work"})
    BY <2>1, StepBegun
  <2>4. (Completed(u) => Completed(u)') /\ (Clean(u) => Clean(u)') /\ (Imported(u) => Imported(u)')
    BY <2>2 DEF Completed, Clean, Imported
  <2>5. /\ store[u] = "gone" => store'[u] = "gone"
        /\ row'[u].status \in Active \cup {"succeeded", "failed"} => row'[u].status = row[u].status
    BY DEF Active
  <2>6. Placed(u, wf[u])'
    BY <2>1, <2>3, <2>4, <2>5 DEF UploadOK, Placed
  <2> QED BY <2>1, <2>4, <2>5, <2>6 DEF UploadOK
<1>2. ASSUME NEW r \in Requests PROVE RequestOK(r)'
  <2>1. req[r] # Idle => req[r].upload \in Uploads
    BY DEF IInv, TypeOK, Calls
  <2>2. CASE req'[r] = Idle
    BY <2>2 DEF RequestOK
  <2>3. CASE req'[r] = req[r]
    BY <1>1, <2>1, <2>3 DEF IInv, RequestOK
  <2> QED BY <2>2, <2>3
<1> QED BY <1>1, <1>2 DEF IInv

\* What the pass is about to do is a set of uploads.
LEMMA PassChanged ==
    ASSUME NEW old \in Passes, NEW t \in SUBSET Uploads, NEW a \in SUBSET Uploads
    PROVE  /\ [old EXCEPT !.todo = t] \in Passes
           /\ [old EXCEPT !.todo = t, !.aborted = a] \in Passes
           /\ [old EXCEPT !.at = "commit", !.todo = t] \in Passes
BY DEF Passes

LEMMA NoSweepIsPass == NoSweep \in Passes
BY DEF NoSweep, Passes

LEMMA SweepAbortKeeps == ASSUME IInv, NEW u \in Uploads, SweepAbort(u) PROVE IInv'
<1>1. UNCHANGED <<row, disk, folder, op, sent, wf, admission, req>>
  BY DEF SweepAbort, imports
<1>2. store' = store \/ (store[u] = "open" /\ store' = [store EXCEPT ![u] = "gone"])
  BY DEF SweepAbort
<1>3. sweep' \in Passes
  <2>1. /\ sweep \in Passes /\ sweep.todo \ {u} \in SUBSET Uploads
        /\ sweep.aborted \cup {u} \in SUBSET Uploads
    BY DEF IInv, TypeOK, Passes
  <2>2. \/ sweep' = [sweep EXCEPT !.todo = sweep.todo \ {u},
                                  !.aborted = sweep.aborted \cup {u}]
        \/ sweep' = [sweep EXCEPT !.todo = sweep.todo \ {u}]
    BY DEF SweepAbort
  <2>3. /\ [sweep EXCEPT !.todo = sweep.todo \ {u}] \in Passes
        /\ [sweep EXCEPT !.todo = sweep.todo \ {u},
                         !.aborted = sweep.aborted \cup {u}] \in Passes
    BY <2>1, PassChanged
  <2> QED BY <2>2, <2>3
<1>4. faults' \in 0 .. MaxFaults
  BY ImportAssumption DEF SweepAbort, IInv, TypeOK
<1>5. TypeOK'
  BY <1>1, <1>2, <1>3, <1>4 DEF IInv, TypeOK
<1>6. \A v \in Uploads : store'[v] = store[v] \/ (store[v] = "open" /\ store'[v] = "gone")
  BY <1>2 DEF IInv, TypeOK
<1> QED BY <1>1, <1>5, <1>6, Takes

LEMMA SweepTreesKeeps == IInv /\ SweepTrees => IInv'
<1> SUFFICES ASSUME IInv, SweepTrees PROVE IInv'
  OBVIOUS
<1>1. UNCHANGED <<row, store, folder, op, sent, wf, admission, req, faults>>
  BY DEF SweepTrees
<1>2. PICK old \in SUBSET Uploads :
        /\ disk' = [u \in Uploads |-> IF u \in old THEN NoFiles ELSE disk[u]]
        /\ sweep' = [sweep EXCEPT !.at = "commit", !.todo = old]
  BY DEF SweepTrees
<1>3. sweep' \in Passes
  <2>1. sweep \in Passes /\ sweep.aborted \in SUBSET Uploads
    BY DEF IInv, TypeOK, Passes
  <2> QED BY <1>2, <2>1, PassChanged
<1>4. NoFiles \in Files
  BY DEF NoFiles, Files
<1>5. TypeOK'
  BY <1>1, <1>2, <1>3, <1>4 DEF IInv, TypeOK
<1>6. \A u \in Uploads : disk'[u] \in {disk[u], NoFiles}
  BY <1>2
<1> QED BY <1>1, <1>5, <1>6, Takes

LEMMA SweepCommitKeeps == IInv /\ SweepCommit => IInv'
<1> SUFFICES ASSUME IInv, SweepCommit PROVE IInv'
  OBVIOUS
<1>1. UNCHANGED <<store, disk, folder, op, sent, wf, admission, req, faults>>
  BY DEF SweepCommit, imports
<1>2. sweep' = NoSweep /\ DOMAIN row' = Uploads
  BY DEF SweepCommit
<1>3. ASSUME NEW u \in Uploads
      PROVE  /\ row'[u] \in Rows /\ row'[u].status \in {row[u].status, "deleted", "aborted"}
             /\ row'[u].choices = row[u].choices /\ row'[u].result = row[u].result
  <2>1. row[u] \in Rows /\ "deleted" \in Statuses /\ "aborted" \in Statuses
    BY DEF IInv, TypeOK, Statuses
  <2>2. row'[u] = WithStatus(u, "deleted") \/ row'[u] = EndedAs(u, "aborted") \/ row'[u] = row[u]
    BY DEF SweepCommit
  <2>3. CASE row'[u] = WithStatus(u, "deleted")
    BY <2>1, <2>3, StatusWritten DEF WithStatus
  <2>4. CASE row'[u] = EndedAs(u, "aborted")
    <3>1. /\ EndedAs(u, "aborted") \in Rows /\ EndedAs(u, "aborted").status = "aborted"
          /\ EndedAs(u, "aborted").choices = row[u].choices
          /\ EndedAs(u, "aborted").result = row[u].result
      BY <2>1, EndWritten DEF EndedAs
    <3> QED BY <2>4, <3>1
  <2> QED BY <2>1, <2>2, <2>3, <2>4
<1>4. row' \in [Uploads -> Rows]
  BY <1>3 DEF SweepCommit
<1>5. TypeOK'
  BY <1>1, <1>2, <1>4, NoSweepIsPass DEF IInv, TypeOK
<1> QED BY <1>1, <1>3, <1>5, Takes

LEMMA SweepKeeps == IInv /\ Sweep => IInv'
<1> SUFFICES ASSUME IInv, Sweep PROVE IInv'
  OBVIOUS
<1>1. CASE SweepScan
  <2>1. UNCHANGED <<row, store, disk, folder, op, sent, wf, admission, req, faults>>
    BY <1>1 DEF SweepScan, imports
  <2>2. sweep' \in Passes
    BY <1>1 DEF SweepScan, Passes
  <2>3. TypeOK'
    BY <2>1, <2>2 DEF IInv, TypeOK
  <2> QED BY <2>1, <2>3, Takes
<1> QED BY <1>1, SweepAbortKeeps, SweepTreesKeeps, SweepCommitKeeps DEF Sweep

LEMMA FailuresKeep ==
    IInv /\ (SweepError \/ Crash \/ \E r \in Requests : RequestError(r)) => IInv'
<1> SUFFICES ASSUME IInv, SweepError \/ Crash \/ \E r \in Requests : RequestError(r)
             PROVE  IInv'
  OBVIOUS
<1>1. UNCHANGED <<row, store, disk, folder, op, sent>> /\ faults' \in 0 .. MaxFaults
  BY ImportAssumption DEF SweepError, Crash, RequestError, imports, IInv, TypeOK
<1>2. sweep' \in Passes /\ admission' \in Requests \cup {Nobody}
  BY NoSweepIsPass DEF SweepError, Crash, RequestError, Release, IInv, TypeOK
<1>3. \A u \in Uploads : wf'[u] \in {wf[u], At(wf[u].step)}
  BY DEF SweepError, Crash, RequestError
<1>4. wf' \in [Uploads -> Places]
  <2>1. \A u \in Uploads : At(wf[u].step) \in Places
    BY StepBegun DEF IInv, TypeOK, Places
  <2> QED BY <2>1 DEF SweepError, Crash, RequestError, IInv, TypeOK
<1>5. /\ req' \in [Requests -> Calls \cup {Idle}]
      /\ \A r \in Requests : req'[r] \in {req[r], Idle}
  BY DEF SweepError, Crash, RequestError, Respond, IInv, TypeOK
<1>6. TypeOK'
  BY <1>1, <1>2, <1>4, <1>5 DEF IInv, TypeOK
<1> QED BY <1>1, <1>3, <1>5, <1>6, Takes

----------------------------------------------------------------------------
(* The theorems                                                            *)

LEMMA InitHolds == Init => IInv
<1> SUFFICES ASSUME Init PROVE IInv
  OBVIOUS
<1>1. \A u \in Uploads :
        /\ row[u] \in Rows /\ row[u].status = "none" /\ ~row[u].choices
        /\ wf[u] \in Places /\ wf[u].step = "none" /\ wf[u].at \in {"read", "work"}
  BY StepBegun DEF Init, Rows, Statuses, Steps
<1>2. TypeOK
  <2>1. NoFiles \in Files /\ sweep \in Passes
    BY NoSweepIsPass DEF Init, NoFiles, Files
  <2>2. faults \in 0 .. MaxFaults
    BY ImportAssumption DEF Init
  <2>3. row \in [Uploads -> Rows] /\ wf \in [Uploads -> Places]
    BY <1>1 DEF Init
  <2> QED BY <2>1, <2>2, <2>3 DEF Init, TypeOK
<1>3. \A u \in Uploads : UploadOK(u)
  BY <1>1 DEF UploadOK, Placed, Late, Active
<1>4. \A r \in Requests : RequestOK(r)
  BY DEF Init, RequestOK
<1> QED BY <1>2, <1>3, <1>4 DEF IInv

LEMMA NextKeeps == IInv /\ [Next]_vars => IInv'
<1> SUFFICES ASSUME IInv, [Next]_vars PROVE IInv'
  OBVIOUS
<1>1. CASE Next
  BY <1>1, WorkflowKeeps, StepErrorKeeps, TimeKeeps, ArrivalKeeps, RouteKeeps, SweepKeeps,
     FailuresKeep DEF Next
<1>2. CASE UNCHANGED vars
  <2>1. TypeOK'
    BY <1>2 DEF vars, IInv, TypeOK
  <2> QED BY <1>2, <2>1, Takes DEF vars
<1> QED BY <1>1, <1>2

LEMMA Invariant == Spec => []IInv
BY InitHolds, NextKeeps, PTL DEF Spec

\* Every row, request, workflow and pass of the loop has its type, for any
\* number of uploads and requests and any failures.
THEOREM TypeCorrect == Spec => []TypeOK
<1>1. IInv => TypeOK
  BY DEF IInv
<1> QED BY <1>1, Invariant, PTL

\* "succeeded" and "failed" are said of an upload whose object is deleted and
\* whose work tree is empty, and both stay so: no request that comes late, no
\* repeated step and no pass of the loop brings anything back.
THEOREM Finished == Spec => []FinishedLeavesNothing
<1>1. IInv => FinishedLeavesNothing
  BY DEF IInv, UploadOK, Clean, FinishedLeavesNothing
<1> QED BY <1>1, Invariant, PTL

\* "succeeded" is said only of an upload whose result is committed, whose trips
\* are in the user's folder and whose processing was started.
THEOREM Succeeded == Spec => []SucceededIsImported
<1>1. IInv => SucceededIsImported
  BY DEF IInv, UploadOK, Imported, SucceededIsImported
<1> QED BY <1>1, Invariant, PTL

----------------------------------------------------------------------------
(* The archive of a running import                                         *)

\* A completion of u that has passed the store.
Completes(r, u) ==
  /\ req[r] # Idle /\ req[r].kind = "complete" /\ req[r].upload = u
  /\ req[r].at \in {"head", "commit", "start"}

Selects(r, u) == req[r] # Idle /\ req[r].kind = "select" /\ req[r].upload = u

\* Before its workflow is started, an import that anybody relies on is in the
\* store; and while its size is looked at, nobody else relies on it.
StartOK(u) ==
  wf[u].step = "none" =>
    /\ row[u].status \in Active \/ (\E r \in Requests : Completes(r, u)) => store[u] = "object"
    /\ ~row[u].choices /\ \A r \in Requests : ~Selects(r, u)

AloneOK(u) ==
  \A r \in Requests : Completes(r, u) /\ req[r].at = "head" =>
    /\ wf[u].step = "none" /\ row[u].status \notin Active
    /\ \A q \in Requests \ {r} : ~Completes(q, u)

\* What the workflow's next step needs is there.
Fed(u, w) ==
  row[u].ended = "no" =>
    /\ w.step = "download" => disk[u].zip \/ store[u] = "object"
    /\ w.step = "download" /\ w.at = "record" => disk[u].zip
    /\ w.step \in {"inspect", "announce", "recv", "extract"} => disk[u].zip

ArchiveOK(u) == StartOK(u) /\ AloneOK(u) /\ Fed(u, wf[u])

\* With this the archive stays where it is needed.
ArchiveInv == IInv /\ \A u \in Uploads : ArchiveOK(u)

LEMMA InitArchive == Init => \A u \in Uploads : ArchiveOK(u)
<1> SUFFICES ASSUME Init, NEW u \in Uploads PROVE ArchiveOK(u)
  OBVIOUS
<1>1. row[u].status = "none" /\ ~row[u].choices /\ wf[u].step = "none" /\ req = [r \in Requests |-> Idle]
  BY DEF Init, At
<1>2. \A r \in Requests : ~Completes(r, u) /\ ~Selects(r, u)
  BY <1>1 DEF Completes, Selects
<1> QED BY <1>1, <1>2 DEF ArchiveOK, StartOK, AloneOK, Fed, Active

\* Nobody relies on an upload whose parts are no object yet.
LEMMA NotYetCompleted ==
    ASSUME IInv, NEW u \in Uploads, store[u] \in {"none", "open"}
    PROVE  /\ wf[u].step = "none" /\ row[u].status \notin Active
           /\ \A r \in Requests : ~Completes(r, u)
<1>1. ~Completed(u)
  BY DEF Completed
<1>2. wf[u].step = "none" /\ row[u].status \notin Active
  BY <1>1 DEF IInv, UploadOK, Placed
<1>3. ASSUME NEW r \in Requests PROVE ~Completes(r, u)
  BY <1>1 DEF IInv, RequestOK, Needs, Completes
<1> QED BY <1>2, <1>3

\* A step after which nobody relies on the upload who did not before.
LEMMA NoNewDuty ==
    ASSUME IInv, NEW u \in Uploads, ArchiveOK(u),
           wf'[u].step = wf[u].step, wf'[u].at = "record" => wf[u].at = "record",
           row'[u].ended = "no" => row[u].ended = "no" /\ disk'[u].zip = disk[u].zip,
           store'[u] \in {store[u], "object"} \/ store[u] \in {"none", "open"},
           row'[u].status \in Active => row[u].status \in Active,
           row'[u].choices => row[u].choices,
           \A r \in Requests : Completes(r, u)' =>
             Completes(r, u) /\ (req'[r].at = "head" => req[r].at = "head"),
           \A r \in Requests : Selects(r, u)' => Selects(r, u)
    PROVE  ArchiveOK(u)'
<1>1. StartOK(u)'
  BY NotYetCompleted DEF ArchiveOK, StartOK
<1>2. AloneOK(u)'
  BY DEF ArchiveOK, AloneOK
<1>3. Fed(u, wf[u])'
  BY NotYetCompleted DEF ArchiveOK, Fed
<1> QED BY <1>1, <1>2, <1>3 DEF ArchiveOK

\* What another upload's request or workflow does is none of v's.
LEMMA NotMine ==
    ASSUME IInv, NEW v \in Uploads, ArchiveOK(v), Same(v),
           \A q \in Requests : req'[q] \in {req[q], Idle} \/ req'[q].upload # v
    PROVE  ArchiveOK(v)'
<1>1. ASSUME NEW q \in Requests
      PROVE  /\ Completes(q, v)' =>
                  Completes(q, v) /\ (req'[q].at = "head" => req[q].at = "head")
             /\ Selects(q, v)' => Selects(q, v)
  BY DEF Completes, Selects
<1> QED BY <1>1, NoNewDuty DEF Same

\* A place of the workflow that needs no archive the last one did not need.
LEMMA StaysFed ==
    ASSUME IInv, NEW u \in Uploads, Fed(u, wf[u]),
           row'[u].ended = "no" => row[u].ended = "no",
           disk'[u].zip = disk[u].zip, store'[u] = store[u],
           \/ wf'[u].step = wf[u].step /\ (wf'[u].at # "record" \/ wf'[u].step # "download")
           \/ wf'[u].step \in Late \cup {"finalize", "process"}
    PROVE  Fed(u, wf[u])'
BY DEF Fed, Late

LEMMA BegunAt ==
    ASSUME TypeOK, NEW u \in Uploads, NEW s \in Steps, Begins(u, s)
    PROVE  wf'[u].step = s /\ wf'[u].at # "record" /\ \A v \in Uploads \ {u} : wf'[v] = wf[v]
<1>1. wf' = [wf EXCEPT ![u] = At(s)] /\ wf \in [Uploads -> Places]
  BY DEF Begins, TypeOK
<1>2. At(s).step = s /\ At(s).at # "record"
  BY StepBegun
<1> QED BY <1>1, <1>2

LEMMA GoneOnAt ==
    ASSUME TypeOK, NEW u \in Uploads, NEW p \in Points, StepAt(u, p)
    PROVE  /\ wf'[u].step = wf[u].step /\ wf'[u].at = p
           /\ \A v \in Uploads \ {u} : wf'[v] = wf[v]
<1>1. wf' = [wf EXCEPT ![u] = [wf[u] EXCEPT !.at = p]] /\ wf[u] \in Places
  BY DEF StepAt, TypeOK
<1>2. [wf[u] EXCEPT !.at = p].step = wf[u].step /\ [wf[u] EXCEPT !.at = p].at = p
  BY <1>1, PointMoved
<1> QED BY <1>1, <1>2 DEF TypeOK

\* A step that fails is tried again from its start or given up.
LEMMA FailsTo ==
    ASSUME IInv, NEW u \in Uploads, StepFails(u) \/ Cancelled(u) \/ Fail(u)
    PROVE  /\ \/ wf'[u].step = wf[u].step /\ wf'[u].at # "record"
              \/ wf'[u].step \in {"fail", "done"}
           /\ \A v \in Uploads \ {u} : wf'[v] = wf[v]
<1>1. TypeOK /\ wf[u].step \in Steps
  BY DEF IInv, TypeOK, Places
<1>2. PICK s \in {wf[u].step, "fail", "done"} : Begins(u, s)
  BY DEF StepFails, Cancelled, Fail
<1>3. s \in Steps
  BY <1>1 DEF Steps
<1> QED BY <1>1, <1>2, <1>3, BegunAt

\* A step of u's workflow leaves the requests and the other uploads alone.
LEMMA OnlyItsOwn ==
    ASSUME IInv, NEW u \in Uploads, Workflow(u) \/ StepError(u)
    PROVE  UNCHANGED req /\ \A v \in Uploads \ {u} : Same(v)
<1>1. TypeOK
  BY DEF IInv
<1>2. \A v \in Uploads \ {u} : wf'[v] = wf[v]
  <2>1. CASE Recorded(u) \/ ReadCurrent(u) \/ Download(u) \/ Inspect(u) \/ InspectRead(u)
    BY <2>1, <1>1 DEF Recorded, ReadCurrent, Download, Inspect, InspectRead, Begins, StepAt,
           Cancelled, Fail, TypeOK
  <2>2. CASE InspectWrite(u) \/ Announce(u) \/ Receive(u) \/ Extract(u) \/ Finalize(u)
    BY <2>2, <1>1 DEF InspectWrite, Announce, Receive, Extract, Finalize, Begins, StepAt,
           StepFails, Fail, TypeOK
  <2>3. CASE ReplaceFolders(u) \/ StartProcessing(u) \/ ReadForEnd(u) \/ DeleteObject(u)
             \/ DeleteFiles(u) \/ WriteEnd(u) \/ Evict(u) \/ StepError(u)
    BY <2>3, <1>1 DEF ReplaceFolders, StartProcessing, ReadForEnd, DeleteObject, DeleteFiles,
           WriteEnd, Evict, StepError, Begins, StepAt, StepFails, Cancelled, Fail, TypeOK
  <2> QED BY <2>1, <2>2, <2>3 DEF Workflow
<1>3. UNCHANGED req
  BY DEF Workflow, Recorded, ReadCurrent, Download, Inspect, InspectRead, InspectWrite,
         Announce, Receive, Extract, Finalize, ReplaceFolders, StartProcessing, ReadForEnd,
         DeleteObject, DeleteFiles, WriteEnd, Evict, StepError
<1>4. \A v \in Uploads \ {u} : row'[v] = row[v] /\ store'[v] = store[v]
  BY <1>1 DEF Workflow, Recorded, ReadCurrent, Download, Inspect, InspectRead, InspectWrite,
         Announce, Receive, Extract, Finalize, ReplaceFolders, StartProcessing, ReadForEnd,
         DeleteObject, DeleteFiles, WriteEnd, Evict, StepError, Write, TypeOK
<1>5. \A v \in Uploads \ {u} : disk'[v] = disk[v] /\ folder'[v] = folder[v] /\ op'[v] = op[v]
  BY <1>1 DEF Workflow, Recorded, ReadCurrent, Download, Inspect, InspectRead, InspectWrite,
         Announce, Receive, Extract, Finalize, ReplaceFolders, StartProcessing, ReadForEnd,
         DeleteObject, DeleteFiles, WriteEnd, Evict, StepError, imports, TypeOK
<1> QED BY <1>2, <1>3, <1>4, <1>5 DEF Same

LEMMA NotEnded ==
    ASSUME IInv, NEW u \in Uploads, Workflow(u) \/ StepError(u), row'[u].ended = "no"
    PROVE  row[u].ended = "no"
<1>1. row \in [Uploads -> Rows]
  BY DEF IInv, TypeOK
<1>2. CASE UNCHANGED row
  BY <1>2
<1>3. CASE InspectWrite(u) /\ row' # row
  <2>1. row'[u] = [row[u] EXCEPT !.status = "awaiting_selection", !.choices = TRUE]
    BY <1>1, <1>3 DEF InspectWrite, Write
  <2> QED BY <1>1, <2>1 DEF Rows
<1>4. CASE Finalize(u) /\ row' # row
  <2>1. row'[u] = [row[u] EXCEPT !.result = TRUE]
    BY <1>1, <1>4 DEF Finalize, Write
  <2> QED BY <1>1, <2>1 DEF Rows
<1>5. CASE WriteEnd(u) /\ row' # row
  <2>1. PICK s : row'[u] = [row[u] EXCEPT !.status = s, !.ended = "recent"]
    BY <1>1, <1>5 DEF WriteEnd, Write, EndedAs
  <2> QED BY <1>1, <2>1 DEF Rows
<1> QED
  BY <1>2, <1>3, <1>4, <1>5 DEF Workflow, Recorded, ReadCurrent, Download, Inspect,
     InspectRead, Announce, Receive, Extract, ReplaceFolders, StartProcessing, ReadForEnd,
     DeleteObject, DeleteFiles, Evict, StepError

\* Each step leaves the next one what it needs.
LEMMA StepFeeds ==
    ASSUME IInv, NEW u \in Uploads, Workflow(u) \/ StepError(u), Fed(u, wf[u])
    PROVE  Fed(u, wf[u])'
<1>1. TypeOK /\ wf[u] \in Places /\ disk[u] \in Files /\ disk \in [Uploads -> Files]
  BY DEF IInv, TypeOK
<1>2. row'[u].ended = "no" => row[u].ended = "no"
  BY NotEnded
<1>3. CASE Recorded(u)
  <2>1. disk' = disk /\ store' = store
    BY <1>3 DEF Recorded, imports
  <2>2. PICK s \in Steps : /\ Begins(u, s)
                           /\ s = "inspect" => InStep(u, "download", "record")
                           /\ s = "announce" => InStep(u, "inspect", "record")
                           /\ s \in {"inspect", "announce", "finalize", "process", "evict", "done"}
    BY <1>3 DEF Recorded, Steps
  <2>3. wf'[u].step = s /\ wf'[u].at # "record"
    BY <1>1, <2>2, BegunAt
  <2> QED BY <1>2, <2>1, <2>2, <2>3 DEF Fed, InStep
<1>4. CASE ReadCurrent(u) \/ InspectRead(u)
  <2>1. disk' = disk /\ store' = store
    BY <1>4 DEF ReadCurrent, InspectRead, imports
  <2>2. (\E p \in {"work", "write"} : StepAt(u, p)) \/ Cancelled(u)
    BY <1>4 DEF ReadCurrent, InspectRead
  <2>3. \/ wf'[u].step = wf[u].step /\ wf'[u].at # "record"
        \/ wf'[u].step \in {"fail", "done"}
    BY <1>1, <2>2, GoneOnAt, FailsTo DEF Points
  <2> QED BY <1>2, <2>1, <2>3, StaysFed DEF Late
<1>5. CASE Download(u)
  <2>1. CASE Fail(u) /\ disk' = disk
    BY <1>2, <1>5, <2>1, FailsTo DEF Download, InStep, Fed
  <2>2. CASE disk' = [disk EXCEPT ![u].zip = TRUE] /\ StepAt(u, "record")
    <3>1. disk'[u].zip
      BY <1>1, <2>2 DEF Files
    <3> QED BY <3>1 DEF Fed
  <2> QED BY <1>5, <2>1, <2>2 DEF Download
<1>6. CASE Inspect(u) \/ Announce(u)
  <2>1. disk' = disk /\ store' = store
    BY <1>6 DEF Inspect, Announce, imports
  <2>2. CASE Inspect(u) /\ StepAt(u, "read")
    BY <1>1, <1>2, <2>1, <2>2, GoneOnAt, StaysFed DEF Points
  <2>3. CASE Inspect(u) /\ Fail(u)
    BY <1>2, <2>1, <2>3, FailsTo, StaysFed DEF Inspect, InStep, Late
  <2>4. CASE Announce(u)
    <3>1. wf'[u].step = "recv" /\ wf[u].step = "announce"
      BY <1>1, <2>4, BegunAt DEF Announce, InStep, Steps
    <3> QED BY <1>2, <2>1, <3>1 DEF Fed
  <2> QED BY <1>6, <2>2, <2>3, <2>4 DEF Inspect
<1>7. CASE Receive(u)
  <2>1. disk' = disk /\ wf[u].step = "recv"
    BY <1>7 DEF Receive, InStep, imports
  <2>2. wf'[u].step \in {"extract", "abort"}
    BY <1>1, <1>7, BegunAt DEF Receive, Steps
  <2> QED BY <1>2, <2>1, <2>2 DEF Fed
<1>8. CASE Extract(u)
  <2>1. \E b \in BOOLEAN : disk' = [disk EXCEPT ![u].extracted = b]
    BY <1>8 DEF Extract
  <2>2. disk'[u].zip = disk[u].zip /\ wf[u].step = "extract"
    BY <1>1, <1>8, <2>1 DEF Extract, InStep, Files
  <2>3. StepAt(u, "record") \/ Fail(u)
    BY <1>8 DEF Extract
  <2>4. wf'[u].step \in {"extract", "fail", "done"}
    BY <1>1, <2>2, <2>3, GoneOnAt, FailsTo DEF Points
  <2> QED BY <1>2, <2>2, <2>4 DEF Fed
<1>9. CASE InspectWrite(u) \/ StepError(u)
  <2>1. disk' = disk /\ store' = store
    BY <1>9 DEF InspectWrite, StepError, imports
  <2>2. CASE StepFails(u)
    BY <1>2, <2>1, <2>2, FailsTo, StaysFed DEF Late
  <2>3. CASE InspectWrite(u) /\ StepAt(u, "record")
    BY <1>1, <1>2, <2>1, <2>3, GoneOnAt, StaysFed DEF InspectWrite, InStep, Points
  <2> QED BY <1>9, <2>2, <2>3 DEF InspectWrite, StepError
<1>10. CASE Finalize(u) \/ ReplaceFolders(u) \/ StartProcessing(u) \/ ReadForEnd(u)
            \/ DeleteObject(u) \/ DeleteFiles(u) \/ WriteEnd(u) \/ Evict(u)
  <2>1. wf[u].step \in Late \cup {"finalize", "process"}
    BY <1>10 DEF Finalize, ReplaceFolders, StartProcessing, ReadForEnd, DeleteObject,
           DeleteFiles, WriteEnd, Evict, InStep, Late
  <2>2. \/ \E p \in Points : StepAt(u, p)
        \/ StepFails(u) \/ Cancelled(u) \/ Fail(u)
        \/ \E s \in {"complete", "done"} : Begins(u, s)
    BY <1>10 DEF Finalize, ReplaceFolders, StartProcessing, ReadForEnd, DeleteObject,
           DeleteFiles, WriteEnd, Evict, Points
  <2>3. \/ wf'[u].step = wf[u].step
        \/ wf'[u].step \in {"fail", "done", "complete"}
    BY <1>1, <2>2, GoneOnAt, FailsTo, BegunAt DEF Steps
  <2> QED BY <2>1, <2>3 DEF Fed, Late
<1> QED BY <1>3, <1>4, <1>5, <1>6, <1>7, <1>8, <1>9, <1>10 DEF Workflow

LEMMA Started ==
    ASSUME IInv, NEW u \in Uploads, Workflow(u) \/ StepError(u)
    PROVE  wf[u].step # "none" /\ wf'[u].step # "none"
<1>1. TypeOK /\ wf[u] \in Places
  BY DEF IInv, TypeOK
<1>2. wf[u].step # "none"
  BY DEF Workflow, Recorded, ReadCurrent, Download, Inspect, InspectRead, InspectWrite,
         Announce, Receive, Extract, Finalize, ReplaceFolders, StartProcessing, ReadForEnd,
         DeleteObject, DeleteFiles, WriteEnd, Evict, StepError, InStep, Ended
<1>3. \/ \E p \in Points : StepAt(u, p)
      \/ StepFails(u) \/ Cancelled(u) \/ Fail(u)
      \/ \E s \in Steps \ {"none"} : Begins(u, s)
  BY DEF Workflow, Recorded, ReadCurrent, Download, Inspect, InspectRead, InspectWrite,
         Announce, Receive, Extract, Finalize, ReplaceFolders, StartProcessing, ReadForEnd,
         DeleteObject, DeleteFiles, WriteEnd, Evict, StepError, Points, Steps
<1> QED BY <1>1, <1>2, <1>3, GoneOnAt, FailsTo, BegunAt

LEMMA WorkflowArchive ==
    ASSUME ArchiveInv, NEW u \in Uploads, Workflow(u) \/ StepError(u)
    PROVE  \A v \in Uploads : ArchiveOK(v)'
<1> USE DEF ArchiveInv
<1>1. UNCHANGED req /\ \A v \in Uploads \ {u} : Same(v)
  BY OnlyItsOwn
<1>2. \A v \in Uploads \ {u} : ArchiveOK(v)'
  BY <1>1, NotMine
<1>3. wf[u].step # "none" /\ wf'[u].step # "none"
  BY Started
<1>4. Fed(u, wf[u])'
  BY StepFeeds DEF ArchiveOK
<1>5. AloneOK(u)'
  BY <1>1, <1>3 DEF ArchiveOK, AloneOK, Completes
<1>6. StartOK(u)'
  BY <1>3 DEF StartOK
<1> QED BY <1>2, <1>4, <1>5, <1>6 DEF ArchiveOK

\* A request that is about u, or begins to be.
LEMMA RequestAbout ==
    ASSUME IInv, NEW r \in Requests, NEW u \in Uploads, Arrival(r, u) \/ Route(r, u)
    PROVE  /\ \A q \in Requests \ {r} : req'[q] = req[q]
           /\ req'[r] = Idle \/ req'[r].upload = u
           /\ \A v \in Uploads \ {u} : Same(v)
           /\ UNCHANGED disk
<1>1. TypeOK
  BY DEF IInv
<1>2. \E c : req' = [req EXCEPT ![r] = c] /\ (c = Idle \/ c.upload = u)
  <2>1. CASE Arrival(r, u)
    BY <2>1 DEF Arrival, CreateStore, CompleteRead, AbortRead, SelectRead, Begin
  <2>2. CASE Route(r, u) /\ Respond(r)
    BY <2>2 DEF Respond
  <2>3. CASE Route(r, u) /\ \E p \in CallPoints : Goto(r, p)
    <3> PICK p \in CallPoints : Goto(r, p)
      BY <2>3
    <3> DEFINE c == [req[r] EXCEPT !.at = p]
    <3>1. req[r] # Idle /\ req[r].upload = u
      BY <2>3 DEF Route, CreateInsert, CompleteAdmit, CompleteStore, CompleteHead,
             CompleteCommit, CompleteStart, AbortStore, AbortCommit, SelectCommit, SelectSend,
             Handles
    <3>2. c.upload = u
      BY <1>1, <3>1, CallMoved DEF TypeOK
    <3>3. req' = [req EXCEPT ![r] = c]
      BY DEF Goto
    <3> HIDE DEF c
    <3> QED BY <3>2, <3>3
  <2>4. Route(r, u) => Respond(r) \/ \E p \in CallPoints : Goto(r, p)
    BY DEF Route, CreateInsert, CompleteAdmit, CompleteStore, CompleteHead, CompleteCommit,
           CompleteStart, AbortStore, AbortCommit, SelectCommit, SelectSend, CallPoints
  <2> QED BY <2>1, <2>2, <2>3, <2>4
<1>3. (\A q \in Requests \ {r} : req'[q] = req[q]) /\ (req'[r] = Idle \/ req'[r].upload = u)
  BY <1>1, <1>2 DEF TypeOK
<1>4. \A v \in Uploads \ {u} : Same(v)
  <2>1. CASE Arrival(r, u)
    BY <1>1, <2>1 DEF Arrival, CreateStore, CompleteRead, AbortRead, SelectRead, imports,
           Same, TypeOK
  <2>2. CASE CreateInsert(r, u) \/ CompleteAdmit(r, u) \/ CompleteStore(r, u)
             \/ CompleteHead(r, u) \/ CompleteCommit(r, u) \/ CompleteStart(r, u)
    BY <1>1, <2>2 DEF CreateInsert, CompleteAdmit, CompleteStore, CompleteHead,
           CompleteCommit, CompleteStart, Write, imports, Same, TypeOK
  <2>3. CASE AbortStore(r, u) \/ AbortCommit(r, u) \/ SelectCommit(r, u) \/ SelectSend(r, u)
    BY <1>1, <2>3 DEF AbortStore, AbortCommit, SelectCommit, SelectSend, Write, imports,
           Same, TypeOK
  <2> QED BY <2>1, <2>2, <2>3 DEF Route
<1>5. UNCHANGED disk
  BY DEF Arrival, CreateStore, CompleteRead, AbortRead, SelectRead, Route, CreateInsert,
         CompleteAdmit, CompleteStore, CompleteHead, CompleteCommit, CompleteStart,
         AbortStore, AbortCommit, SelectCommit, SelectSend, imports
<1> QED BY <1>3, <1>4, <1>5

LEMMA CallGoesOn ==
    ASSUME IInv, NEW r \in Requests, req[r] # Idle, NEW p \in CallPoints, Goto(r, p)
    PROVE  /\ req'[r] # Idle /\ req'[r].at = p
           /\ req'[r].kind = req[r].kind /\ req'[r].upload = req[r].upload
<1> DEFINE c == [req[r] EXCEPT !.at = p]
<1>1. req[r] \in Calls /\ req'[r] = c
  BY DEF IInv, TypeOK, Goto
<1>2. c \in Calls /\ c.at = p /\ c.kind = req[r].kind /\ c.upload = req[r].upload
  BY <1>1, CallMoved
<1> QED BY <1>1, <1>2, CallIsNotIdle

LEMMA CallBegun ==
    ASSUME IInv, NEW r \in Requests, NEW kind, NEW u \in Uploads, NEW p, NEW seen,
           Begin(r, kind, u, p, seen)
    PROVE  /\ ~Completes(r, u) /\ ~Selects(r, u)
           /\ req'[r].kind = kind /\ req'[r].at = p /\ req'[r].upload = u
BY DEF Begin, IInv, TypeOK, Completes, Selects

\* What a request's write of the row keeps.
LEMMA RowKept ==
    ASSUME IInv, NEW r \in Requests, NEW u \in Uploads,
           CreateInsert(r, u) \/ CompleteCommit(r, u) \/ AbortCommit(r, u) \/ SelectCommit(r, u)
    PROVE  /\ row'[u].choices = row[u].choices
           /\ row'[u].ended = "no" => row[u].ended = "no"
           /\ CreateInsert(r, u) \/ AbortCommit(r, u) \/ row' = row =>
                (row'[u].status \in Active => row[u].status \in Active)
<1>1. row \in [Uploads -> Rows] /\ row[u] \in Rows
  BY DEF IInv, TypeOK
<1>2. \A s \in Statuses :
        /\ WithStatus(u, s).choices = row[u].choices /\ WithStatus(u, s).ended = row[u].ended
        /\ WithStatus(u, s).status = s
        /\ EndedAs(u, s).choices = row[u].choices /\ EndedAs(u, s).ended = "recent"
        /\ EndedAs(u, s).status = s
  BY <1>1 DEF WithStatus, EndedAs, Rows
<1>3. \/ row'[u] = row[u]
      \/ row'[u] = WithStatus(u, "uploading")
      \/ row'[u] = WithStatus(u, "processing") /\ (CompleteCommit(r, u) \/ SelectCommit(r, u))
      \/ row'[u] = EndedAs(u, "aborted")
  BY <1>1 DEF CreateInsert, CompleteCommit, AbortCommit, SelectCommit, Write, WithStatus
<1>4. CreateInsert(r, u) => row'[u] = WithStatus(u, "uploading")
  BY <1>1 DEF CreateInsert, WithStatus
<1>5. AbortCommit(r, u) => row'[u] \in {row[u], EndedAs(u, "aborted")}
  BY <1>1 DEF AbortCommit, Write
<1> QED BY <1>2, <1>3, <1>4, <1>5 DEF Statuses, Active

\* A request's step that makes nobody rely on the archive.
LEMMA QuietRequest ==
    ASSUME IInv, NEW r \in Requests, NEW u \in Uploads, ArchiveOK(u),
           UNCHANGED <<wf, disk>>, \A q \in Requests \ {r} : req'[q] = req[q],
           row' = row \/ CreateInsert(r, u) \/ AbortCommit(r, u),
           store'[u] \in {store[u], "object"} \/ store[u] \in {"none", "open"},
           Completes(r, u)' => Completes(r, u) /\ (req'[r].at = "head" => req[r].at = "head"),
           Selects(r, u)' => Selects(r, u)
    PROVE  ArchiveOK(u)'
<1>1. /\ row'[u].choices => row[u].choices
      /\ row'[u].ended = "no" => row[u].ended = "no"
      /\ row'[u].status \in Active => row[u].status \in Active
  BY RowKept
<1>2. \A q \in Requests : /\ Completes(q, u)' =>
                               Completes(q, u) /\ (req'[q].at = "head" => req[q].at = "head")
                          /\ Selects(q, u)' => Selects(q, u)
  BY DEF Completes, Selects
<1> QED BY <1>1, <1>2, NoNewDuty

\* A request's step while the workflow runs already.
LEMMA RunningRequest ==
    ASSUME IInv, NEW r \in Requests, NEW u \in Uploads, ArchiveOK(u),
           UNCHANGED <<wf, disk, store>>, \A q \in Requests \ {r} : req'[q] = req[q],
           wf[u].step # "none", ~(Completes(r, u)' /\ req'[r].at = "head"),
           row'[u].ended = "no" => row[u].ended = "no"
    PROVE  ArchiveOK(u)'
<1>1. Fed(u, wf[u])'
  BY DEF ArchiveOK, Fed
<1>2. AloneOK(u)'
  BY DEF ArchiveOK, AloneOK, Completes
<1> QED BY <1>1, <1>2 DEF ArchiveOK, StartOK

LEMMA ArrivalArchive ==
    ASSUME ArchiveInv, NEW r \in Requests, NEW u \in Uploads, Arrival(r, u)
    PROVE  ArchiveOK(u)'
<1>1. IInv /\ ArchiveOK(u)
  BY DEF ArchiveInv
<1>2. (\A q \in Requests \ {r} : req'[q] = req[q]) /\ UNCHANGED disk
  BY <1>1, RequestAbout
<1>3. UNCHANGED <<wf, row>>
  BY DEF Arrival, CreateStore, CompleteRead, AbortRead, SelectRead
<1>4. CASE CreateStore(r, u)
  <2>1. Begin(r, "create", u, "insert", "none") /\ store[u] = "none"
    BY <1>4 DEF CreateStore
  <2> QED BY <1>1, <1>2, <1>3, <2>1, CallBegun, QuietRequest DEF Completes, Selects
<1>5. CASE AbortRead(r, u)
  <2>1. Begin(r, "abort", u, "store", "uploading") /\ store' = store
    BY <1>5 DEF AbortRead
  <2> QED BY <1>1, <1>2, <1>3, <2>1, CallBegun, QuietRequest DEF Completes, Selects
<1>6. CASE CompleteRead(r, u) /\ Begin(r, "complete", u, "admit", "uploading")
  <2>1. store' = store
    BY <1>6 DEF CompleteRead
  <2> QED BY <1>1, <1>2, <1>3, <1>6, <2>1, CallBegun, QuietRequest DEF Completes, Selects
<1>7. CASE CompleteRead(r, u) /\ Begin(r, "complete", u, "start", "processing")
  <2>1. store' = store
    BY <1>7 DEF CompleteRead
  <2>2. req'[r].kind = "complete" /\ req'[r].at = "start"
    BY <1>1, <1>7, CallBegun
  <2>3. row[u].status \in Active
    BY <1>7, <2>2, <1>1, CallBegun DEF CompleteRead, Active
  <2>4. StartOK(u)' /\ Fed(u, wf[u])'
    BY <1>1, <1>2, <1>3, <2>1, <2>2, <2>3 DEF ArchiveOK, StartOK, Fed, Selects
  <2>5. AloneOK(u)'
    BY <1>1, <1>2, <1>3, <2>2, <2>3 DEF ArchiveOK, AloneOK, Completes
  <2> QED BY <2>4, <2>5 DEF ArchiveOK
<1>8. CASE SelectRead(r, u)
  <2>1. Begin(r, "select", u, "commit", row[u].status) /\ store' = store /\ row[u].choices
    BY <1>8 DEF SelectRead
  <2>2. wf[u].step # "none"
    BY <1>1, <2>1 DEF ArchiveOK, StartOK
  <2> QED BY <1>1, <1>2, <1>3, <2>1, <2>2, CallBegun, RunningRequest DEF Completes
<1> QED BY <1>4, <1>5, <1>6, <1>7, <1>8 DEF Arrival, CompleteRead

\* The steps of a request up to its commit.
LEMMA StoreRouteArchive ==
    ASSUME ArchiveInv, NEW r \in Requests, NEW u \in Uploads,
           CompleteAdmit(r, u) \/ CompleteStore(r, u) \/ CompleteHead(r, u) \/ AbortStore(r, u)
    PROVE  ArchiveOK(u)'
<1>1. IInv /\ ArchiveOK(u)
  BY DEF ArchiveInv
<1>2. (\A q \in Requests \ {r} : req'[q] = req[q]) /\ UNCHANGED disk
  BY <1>1, RequestAbout DEF Route
<1>3. UNCHANGED <<wf, row>> /\ req[r] # Idle /\ req[r].upload = u
  BY DEF CompleteAdmit, CompleteStore, CompleteHead, AbortStore, Handles
<1>4. Respond(r) => req'[r] = Idle
  BY <1>1 DEF Respond, IInv, TypeOK
<1>5. CASE CompleteAdmit(r, u)
  <2>1. req'[r] = Idle \/ (req'[r].at = "store" /\ req'[r].kind = "complete")
    BY <1>1, <1>3, <1>4, <1>5, CallGoesOn DEF CompleteAdmit, CallPoints, Handles
  <2>2. store' = store
    BY <1>5 DEF CompleteAdmit
  <2> QED BY <1>1, <1>2, <1>3, <2>1, <2>2, QuietRequest DEF Completes, Selects
<1>6. CASE AbortStore(r, u)
  <2>1. req'[r].kind = "abort"
    BY <1>1, <1>3, <1>6, CallGoesOn DEF AbortStore, CallPoints, Handles
  <2>2. store'[u] = store[u] \/ store[u] = "open"
    BY <1>6 DEF AbortStore
  <2> QED BY <1>1, <1>2, <1>3, <2>1, <2>2, QuietRequest DEF Completes, Selects
<1>7. CASE CompleteStore(r, u) /\ store[u] # "open"
  <2>1. req'[r] = Idle /\ store' = store
    BY <1>4, <1>7 DEF CompleteStore
  <2> QED BY <1>1, <1>2, <1>3, <2>1, QuietRequest DEF Completes, Selects
<1>8. CASE CompleteStore(r, u) /\ store[u] = "open"
  <2>1. store'[u] = "object" /\ req'[r].at = "head" /\ req'[r].kind = "complete"
    BY <1>1, <1>3, <1>8, CallGoesOn DEF CompleteStore, CallPoints, Handles, IInv, TypeOK
  <2>2. /\ wf[u].step = "none" /\ row[u].status \notin Active
        /\ \A q \in Requests : ~Completes(q, u)
    BY <1>1, <1>8, NotYetCompleted
  <2>3. AloneOK(u)'
    BY <1>2, <1>3, <2>2 DEF AloneOK, Completes
  <2>4. StartOK(u)' /\ Fed(u, wf[u])'
    BY <1>1, <1>2, <1>3, <2>1, <2>2 DEF ArchiveOK, StartOK, Fed, Selects
  <2> QED BY <2>3, <2>4 DEF ArchiveOK
<1>9. CASE CompleteHead(r, u)
  <2>1. Completes(r, u) /\ req[r].at = "head" /\ req[r].kind = "complete"
    BY <1>9 DEF CompleteHead, Handles, Completes
  <2>2. CASE store' = store /\ Goto(r, "commit")
    <3>1. req'[r].at = "commit" /\ req'[r].kind = "complete"
      BY <1>1, <1>3, <2>1, <2>2, CallGoesOn DEF CallPoints
    <3> QED BY <1>1, <1>2, <1>3, <2>1, <2>2, <3>1, QuietRequest DEF Selects
  <2>3. CASE req'[r] = Idle
    <3>1. /\ wf[u].step = "none" /\ row[u].status \notin Active
          /\ \A q \in Requests \ {r} : ~Completes(q, u)
      BY <1>1, <2>1 DEF ArchiveOK, AloneOK
    <3>2. \A q \in Requests : ~Completes(q, u)'
      BY <1>2, <2>3, <3>1 DEF Completes
    <3>3. StartOK(u)' /\ Fed(u, wf[u])'
      BY <1>1, <1>2, <1>3, <2>3, <3>1, <3>2 DEF ArchiveOK, StartOK, Fed, Selects
    <3> QED BY <3>2, <3>3 DEF ArchiveOK, AloneOK
  <2> QED BY <1>4, <1>9, <2>2, <2>3 DEF CompleteHead
<1> QED BY <1>5, <1>6, <1>7, <1>8, <1>9

\* The commit of a request, and what it does after.
LEMMA RowRouteArchive ==
    ASSUME ArchiveInv, NEW r \in Requests, NEW u \in Uploads,
           \/ CreateInsert(r, u) \/ CompleteCommit(r, u) \/ AbortCommit(r, u)
           \/ SelectCommit(r, u)
    PROVE  ArchiveOK(u)'
<1>1. IInv /\ ArchiveOK(u)
  BY DEF ArchiveInv
<1>2. (\A q \in Requests \ {r} : req'[q] = req[q]) /\ UNCHANGED disk
  BY <1>1, RequestAbout DEF Route
<1>3. UNCHANGED <<wf, store>> /\ req[r] # Idle /\ req[r].upload = u
  BY DEF CreateInsert, CompleteCommit, AbortCommit, SelectCommit, Handles
<1>4. row'[u].choices = row[u].choices /\ (row'[u].ended = "no" => row[u].ended = "no")
  BY <1>1, RowKept
<1>5. Respond(r) => req'[r] = Idle
  BY <1>1 DEF Respond, IInv, TypeOK
<1>6. CASE CreateInsert(r, u) \/ AbortCommit(r, u)
  <2>1. req'[r] = Idle
    BY <1>5, <1>6 DEF CreateInsert, AbortCommit
  <2> QED BY <1>1, <1>2, <1>3, <1>6, <2>1, QuietRequest DEF Completes, Selects
<1>7. CASE (CompleteCommit(r, u) \/ SelectCommit(r, u)) /\ row' = row /\ req'[r] = Idle
  BY <1>1, <1>2, <1>3, <1>7, QuietRequest DEF Completes, Selects
<1>8. CASE CompleteCommit(r, u) /\ Goto(r, "start")
  <2>1. req'[r].at = "start" /\ req'[r].kind = "complete" /\ Completes(r, u)
    BY <1>1, <1>3, <1>8, CallGoesOn DEF CompleteCommit, CallPoints, Handles, Completes
  <2>2. req[r].at = "commit"
    BY <1>8 DEF CompleteCommit, Handles
  <2>3. AloneOK(u)'
    BY <1>1, <1>2, <2>1, <2>2 DEF ArchiveOK, AloneOK, Completes
  <2>4. StartOK(u)' /\ Fed(u, wf[u])'
    BY <1>1, <1>2, <1>3, <1>4, <2>1 DEF ArchiveOK, StartOK, Fed, Selects
  <2> QED BY <2>3, <2>4 DEF ArchiveOK
<1>9. CASE SelectCommit(r, u) /\ Goto(r, "send")
  <2>1. req'[r].at = "send" /\ Selects(r, u)
    BY <1>1, <1>3, <1>9, CallGoesOn DEF SelectCommit, CallPoints, Handles, Selects
  <2>2. wf[u].step # "none"
    BY <1>1, <2>1 DEF ArchiveOK, StartOK
  <2> QED BY <1>1, <1>2, <1>3, <1>4, <2>1, <2>2, RunningRequest
<1> QED BY <1>5, <1>6, <1>7, <1>8, <1>9 DEF CompleteCommit, SelectCommit

LEMMA LastRouteArchive ==
    ASSUME ArchiveInv, NEW r \in Requests, NEW u \in Uploads,
           CompleteStart(r, u) \/ SelectSend(r, u)
    PROVE  ArchiveOK(u)'
<1>1. IInv /\ ArchiveOK(u)
  BY DEF ArchiveInv
<1>2. (\A q \in Requests \ {r} : req'[q] = req[q]) /\ UNCHANGED disk
  BY <1>1, RequestAbout DEF Route
<1>3. UNCHANGED <<store, row>> /\ req'[r] = Idle
  BY <1>1 DEF CompleteStart, SelectSend, Respond, IInv, TypeOK
<1>4. CASE wf' = wf
  BY <1>1, <1>2, <1>3, <1>4, QuietRequest DEF Completes, Selects
<1>5. CASE CompleteStart(r, u) /\ wf[u].step = "none"
  <2>1. wf'[u].step = "download" /\ wf'[u].at # "record"
    <3>1. Begins(u, "download") /\ "download" \in Steps
      BY <1>5 DEF CompleteStart, Begins, Steps
    <3> QED BY <1>1, <3>1, BegunAt DEF IInv
  <2>2. Completes(r, u) /\ req[r].at = "start"
    BY <1>5 DEF CompleteStart, Handles, Completes
  <2>3. store[u] = "object"
    BY <1>1, <1>5, <2>2 DEF ArchiveOK, StartOK
  <2>4. AloneOK(u)'
    BY <1>1, <1>2, <1>3, <2>2 DEF ArchiveOK, AloneOK, Completes
  <2>5. StartOK(u)' /\ Fed(u, wf[u])'
    BY <1>3, <2>1, <2>3 DEF StartOK, Fed
  <2> QED BY <2>4, <2>5 DEF ArchiveOK
<1> QED BY <1>4, <1>5 DEF CompleteStart, SelectSend

LEMMA RequestArchive ==
    ASSUME ArchiveInv, NEW r \in Requests, NEW u \in Uploads, Arrival(r, u) \/ Route(r, u)
    PROVE  \A v \in Uploads : ArchiveOK(v)'
<1>1. ArchiveOK(u)'
  BY ArrivalArchive, StoreRouteArchive, RowRouteArchive, LastRouteArchive DEF Route
<1>2. ASSUME NEW v \in Uploads \ {u} PROVE ArchiveOK(v)'
  BY RequestAbout, NotMine DEF ArchiveInv
<1> QED BY <1>1, <1>2

\* Time, the expiry loop and the failures make nobody rely on an archive.
LEMMA TimeArchive ==
    ASSUME ArchiveInv, NEW u \in Uploads, Expire(u) \/ Age(u)
    PROVE  \A v \in Uploads : ArchiveOK(v)'
<1> SUFFICES ASSUME NEW v \in Uploads PROVE ArchiveOK(v)'
  OBVIOUS
<1>1. IInv /\ ArchiveOK(v) /\ row[u] \in Rows /\ row \in [Uploads -> Rows]
  BY DEF ArchiveInv, IInv, TypeOK
<1>2. UNCHANGED <<wf, disk, store, req>>
  BY DEF Expire, Age, imports
<1>3. /\ row'[v].status = row[v].status /\ row'[v].choices = row[v].choices
      /\ row'[v].ended = "no" => row[v].ended = "no"
  BY <1>1 DEF Expire, Age, Rows
<1>4. \A r \in Requests : (Completes(r, v)' => Completes(r, v)) /\ (Selects(r, v)' => Selects(r, v))
  BY <1>2 DEF Completes, Selects
<1> QED BY <1>1, <1>2, <1>3, <1>4, NoNewDuty

LEMMA SweepArchive ==
    ASSUME ArchiveInv, Sweep PROVE \A v \in Uploads : ArchiveOK(v)'
<1> SUFFICES ASSUME NEW v \in Uploads PROVE ArchiveOK(v)'
  OBVIOUS
<1>1. IInv /\ ArchiveOK(v) /\ row[v] \in Rows /\ TypeOK
  BY DEF ArchiveInv, IInv, TypeOK
<1>2. UNCHANGED <<wf, req>>
  BY DEF Sweep, SweepScan, SweepAbort, SweepTrees, SweepCommit
<1>3. \/ row'[v] = row[v] \/ row'[v] = WithStatus(v, "deleted")
      \/ row'[v] = EndedAs(v, "aborted")
  BY DEF Sweep, SweepScan, SweepAbort, SweepTrees, SweepCommit
<1>4. /\ row'[v].status \in Active => row[v].status \in Active
      /\ row'[v].choices = row[v].choices
      /\ row'[v].ended = "no" => row[v].ended = "no"
  BY <1>1, <1>3 DEF WithStatus, EndedAs, Rows, Active
<1>5. store'[v] = store[v] \/ store[v] = "open"
  <2>1. ASSUME NEW u \in Uploads, SweepAbort(u) PROVE store'[v] = store[v] \/ store[v] = "open"
    BY <1>1, <2>1 DEF SweepAbort, TypeOK
  <2> QED BY <2>1 DEF Sweep, SweepScan, SweepTrees, SweepCommit
<1>6. row'[v].ended = "no" => disk'[v].zip = disk[v].zip
  <2>1. CASE SweepTrees
    <3>1. row' = row /\ (row[v].ended = "no" => disk'[v] = disk[v])
      BY <2>1 DEF SweepTrees
    <3> QED BY <3>1
  <2>2. CASE ~SweepTrees
    <3>1. disk' = disk
      BY <2>2 DEF Sweep, SweepScan, SweepAbort, SweepCommit, imports
    <3> QED BY <3>1
  <2> QED BY <2>1, <2>2
<1>7. \A r \in Requests : (Completes(r, v)' => Completes(r, v)) /\ (Selects(r, v)' => Selects(r, v))
  BY <1>2 DEF Completes, Selects
<1> QED BY <1>1, <1>2, <1>4, <1>5, <1>6, <1>7, NoNewDuty

LEMMA FailuresArchive ==
    ASSUME ArchiveInv, SweepError \/ Crash \/ UNCHANGED vars \/ \E r \in Requests : RequestError(r)
    PROVE  \A v \in Uploads : ArchiveOK(v)'
<1> SUFFICES ASSUME NEW v \in Uploads PROVE ArchiveOK(v)'
  OBVIOUS
<1>1. IInv /\ ArchiveOK(v) /\ TypeOK /\ wf[v].step \in Steps
  BY DEF ArchiveInv, IInv, TypeOK, Places
<1>2. UNCHANGED <<row, store, disk>>
  BY DEF SweepError, Crash, RequestError, vars, imports
<1>3. wf'[v].step = wf[v].step /\ (wf'[v].at = "record" => wf[v].at = "record")
  <2>1. wf'[v] = wf[v] \/ wf'[v] = At(wf[v].step)
    BY DEF SweepError, Crash, RequestError, vars
  <2> QED BY <1>1, <2>1, StepBegun
<1>4. \A q \in Requests : req'[q] \in {req[q], Idle}
  BY <1>1 DEF SweepError, Crash, RequestError, Respond, vars, TypeOK
<1>5. \A q \in Requests : /\ Completes(q, v)' =>
                               Completes(q, v) /\ (req'[q].at = "head" => req[q].at = "head")
                          /\ Selects(q, v)' => Selects(q, v)
  BY <1>4 DEF Completes, Selects
<1> QED BY <1>1, <1>2, <1>3, <1>5, NoNewDuty

LEMMA NextArchive == ArchiveInv /\ [Next]_vars => ArchiveInv'
<1> SUFFICES ASSUME ArchiveInv, [Next]_vars PROVE ArchiveInv'
  OBVIOUS
<1>1. IInv'
  BY NextKeeps DEF ArchiveInv
<1>2. \A v \in Uploads : ArchiveOK(v)'
  BY WorkflowArchive, RequestArchive, TimeArchive, SweepArchive, FailuresArchive DEF Next
<1> QED BY <1>1, <1>2 DEF ArchiveInv

LEMMA ArchiveHolds == Spec => []ArchiveInv
<1>1. Init => ArchiveInv
  BY InitHolds, InitArchive DEF ArchiveInv
<1> QED BY <1>1, NextArchive, PTL DEF Spec

\* No request, no pass of the expiry loop and no failure takes from a running
\* import the archive its next step needs, for any number of uploads, requests
\* and failures.
THEOREM ArchiveStays == Spec => []ArchiveWhileNeeded
<1>1. ArchiveInv => ArchiveWhileNeeded
  BY DEF ArchiveInv, ArchiveOK, Fed, ArchiveWhileNeeded
<1> QED BY <1>1, ArchiveHolds, PTL

----------------------------------------------------------------------------
(* The sum of the reserved sizes                                           *)

\* MapThenSumSet unfolded: a function on the subsets that takes one upload
\* after the other.  That such a function exists, and what it sums, is shown
\* with a minimal counterexample, since finite sets are well-founded.
First(s) == CHOOSE u \in s : TRUE
IsSum(f, S) ==
  f = [s \in SUBSET S |-> IF s = {} THEN 0 ELSE Size[First(s)] + f[s \ {First(s)}]]
TheSum(S) == CHOOSE f : IsSum(f, S)
Sum(S) == MapThenSumSet(LAMBDA u : Size[u], S)

LEMMA SumIsFold == \A S : Sum(S) = TheSum(S)[S]
BY DEF Sum, TheSum, IsSum, First, MapThenSumSet, MapThenFoldSet

\* Induction over sets of uploads: of the sets in T one is minimal.
LEMMA MinimalSet ==
    ASSUME NEW T, T \subseteq SUBSET Uploads, T # {}
    PROVE  \E s \in T : \A t \in T : t \subseteq s => t = s
<1>1. FiniteSubsetsOf(Uploads) = SUBSET Uploads
  BY FS_FiniteSubsetsOfFinite, ImportAssumption
<1>2. IsWellFoundedOn(StrictSubsetOrdering(Uploads), SUBSET Uploads)
  BY <1>1, FS_StrictSubsetOrderingWellFounded
<1>3. PICK s \in T : \A t \in T : <<t, s>> \notin StrictSubsetOrdering(Uploads)
  BY <1>2, WFMin
<1>4. ASSUME NEW t \in T, t \subseteq s, t # s PROVE FALSE
  <2>1. <<t, s>> \in (SUBSET Uploads) \X (SUBSET Uploads)
    OBVIOUS
  <2>2. <<t, s>> \in StrictSubsetOrdering(Uploads)
    BY <1>4, <2>1 DEF StrictSubsetOrdering
  <2> QED BY <1>3, <2>2
<1> QED BY <1>4

LEMMA FirstIn == \A s : s # {} => First(s) \in s
BY DEF First

LEMMA SumUnfolds ==
    ASSUME NEW S, NEW f, IsSum(f, S), NEW s \in SUBSET S
    PROVE  f[s] = IF s = {} THEN 0 ELSE Size[First(s)] + f[s \ {First(s)}]
BY DEF IsSum

\* Two of them agree where both are defined.
LEMMA SumsAgree ==
    ASSUME NEW S \in SUBSET Uploads, NEW R, NEW f, NEW g, IsSum(f, S), IsSum(g, R)
    PROVE  \A s \in (SUBSET S) \cap (SUBSET R) : f[s] = g[s]
<1> DEFINE T == {s \in (SUBSET S) \cap (SUBSET R) : f[s] # g[s]}
<1>1. SUFFICES ASSUME T # {} PROVE FALSE
  OBVIOUS
<1>2. PICK s \in T : \A t \in T : t \subseteq s => t = s
  <2>1. T \subseteq SUBSET Uploads
    OBVIOUS
  <2> HIDE DEF T
  <2> QED BY <1>1, <2>1, MinimalSet
<1>3. f[s] # g[s] /\ s \in SUBSET S /\ s \in SUBSET R
  OBVIOUS
<1>4. /\ f[s] = IF s = {} THEN 0 ELSE Size[First(s)] + f[s \ {First(s)}]
      /\ g[s] = IF s = {} THEN 0 ELSE Size[First(s)] + g[s \ {First(s)}]
  BY <1>3, SumUnfolds
<1>5. s # {}
  BY <1>3, <1>4
<1> DEFINE t == s \ {First(s)}
<1>6. t # s /\ t \subseteq s
  BY <1>5, FirstIn
<1>7. t \notin T
  BY <1>2, <1>6
<1>8. f[t] = g[t]
  BY <1>3, <1>7
<1> QED BY <1>3, <1>4, <1>5, <1>8

LEMMA SumOfAll ==
    ASSUME NEW S, IsSum(TheSum(S), S)
    PROVE  TheSum(S)[S] = IF S = {} THEN 0 ELSE Size[First(S)] + TheSum(S)[S \ {First(S)}]
<1>1. S \in SUBSET S
  OBVIOUS
<1> HIDE DEF TheSum
<1> QED BY <1>1, SumUnfolds

LEMMA SumOfPart ==
    ASSUME NEW S \in SUBSET Uploads, NEW R \in SUBSET S,
           IsSum(TheSum(S), S), IsSum(TheSum(R), R)
    PROVE  TheSum(S)[R] = TheSum(R)[R]
<1>1. R \in (SUBSET S) \cap (SUBSET R)
  OBVIOUS
<1> QED BY <1>1, SumsAgree

LEMMA SumExists == \A S \in SUBSET Uploads : IsSum(TheSum(S), S)
<1> DEFINE T == {S \in SUBSET Uploads : ~IsSum(TheSum(S), S)}
<1>1. SUFFICES ASSUME T # {} PROVE FALSE
  OBVIOUS
<1>2. PICK S \in T : \A t \in T : t \subseteq S => t = S
  <2>1. T \subseteq SUBSET Uploads
    OBVIOUS
  <2> HIDE DEF T
  <2> QED BY <1>1, <2>1, MinimalSet
<1>3. S \in SUBSET Uploads /\ ~IsSum(TheSum(S), S)
  OBVIOUS
<1> DEFINE Rest(s) == s \ {First(s)}
           value(s) == TheSum(Rest(s))[Rest(s)]
           f == [s \in SUBSET S |-> IF s = {} THEN 0 ELSE Size[First(s)] + value(s)]
<1>4. ASSUME NEW s \in SUBSET S, s # S PROVE IsSum(TheSum(s), s)
  <2>1. s \notin T
    BY <1>2, <1>4
  <2> QED BY <1>3, <2>1
<1>5. ASSUME NEW s \in SUBSET S, s # {} PROVE f[Rest(s)] = value(s)
  <2> DEFINE t == Rest(s)
  <2>1. t \in SUBSET S /\ t # S
    BY <1>5, FirstIn
  <2>2. IsSum(TheSum(t), t)
    BY <1>4, <2>1
  <2>3. TheSum(t)[t] = IF t = {} THEN 0 ELSE Size[First(t)] + TheSum(t)[Rest(t)]
    BY <2>2, SumOfAll
  <2>4. CASE t = {}
    BY <2>1, <2>3, <2>4
  <2>5. CASE t # {}
    <3>1. Rest(t) \in SUBSET S /\ Rest(t) # S /\ Rest(t) \in SUBSET t
      BY <2>1
    <3>2. IsSum(TheSum(Rest(t)), Rest(t))
      BY <1>4, <3>1
    <3>3. t \in SUBSET Uploads
      BY <1>3, <2>1
    <3>4. TheSum(t)[Rest(t)] = TheSum(Rest(t))[Rest(t)]
      BY <2>2, <3>1, <3>2, <3>3, SumOfPart
    <3>5. f[t] = Size[First(t)] + value(t)
      BY <2>1, <2>5
    <3> QED BY <2>3, <2>5, <3>4, <3>5
  <2> QED BY <2>4, <2>5
<1>6. \A s \in SUBSET S : s # {} => Rest(s) \in SUBSET S
  OBVIOUS
<1>7. IsSum(f, S)
  <2> HIDE DEF value
  <2>1. f = [s \in SUBSET S |-> IF s = {} THEN 0 ELSE Size[First(s)] + f[Rest(s)]]
    <3>1. \A s \in SUBSET S : f[s] = IF s = {} THEN 0 ELSE Size[First(s)] + f[Rest(s)]
      BY <1>5
    <3>2. f = [s \in SUBSET S |-> f[s]]
      OBVIOUS
    <3> HIDE DEF f
    <3> QED BY <3>1, <3>2
  <2> HIDE DEF f
  <2> QED BY <2>1 DEF IsSum
<1>8. IsSum(TheSum(S), S)
  <2> HIDE DEF f
  <2> QED BY <1>7 DEF TheSum
<1> QED BY <1>3, <1>8

LEMMA SumBegins ==
  \A S \in SUBSET Uploads :
    Sum(S) = IF S = {} THEN 0 ELSE Size[First(S)] + Sum(S \ {First(S)})
<1> SUFFICES ASSUME NEW S \in SUBSET Uploads
             PROVE  Sum(S) = IF S = {} THEN 0 ELSE Size[First(S)] + Sum(S \ {First(S)})
  OBVIOUS
<1> DEFINE R == S \ {First(S)}
<1>1. R \in SUBSET S /\ R \in SUBSET Uploads
  OBVIOUS
<1>2. IsSum(TheSum(S), S) /\ IsSum(TheSum(R), R)
  BY <1>1, SumExists
<1>3. TheSum(S)[R] = TheSum(R)[R]
  BY <1>1, <1>2, SumOfPart
<1>4. Sum(S) = TheSum(S)[S] /\ Sum(R) = TheSum(R)[R]
  BY SumIsFold
<1> QED BY <1>2, <1>3, <1>4, SumOfAll

LEMMA SumIsNat == \A S \in SUBSET Uploads : Sum(S) \in Nat
<1> DEFINE T == {S \in SUBSET Uploads : Sum(S) \notin Nat}
<1>1. SUFFICES ASSUME T # {} PROVE FALSE
  OBVIOUS
<1>2. PICK S \in T : \A t \in T : t \subseteq S => t = S
  <2>1. T \subseteq SUBSET Uploads
    OBVIOUS
  <2> HIDE DEF T
  <2> QED BY <1>1, <2>1, MinimalSet
<1>3. S \in SUBSET Uploads /\ Sum(S) \notin Nat
  OBVIOUS
<1>4. Sum(S) = IF S = {} THEN 0 ELSE Size[First(S)] + Sum(S \ {First(S)})
  BY <1>3, SumBegins
<1>5. S # {}
  BY <1>3, <1>4
<1> DEFINE R == S \ {First(S)}
<1>6. First(S) \in Uploads /\ R \subseteq S /\ R # S
  BY <1>3, <1>5, FirstIn
<1>7. R \notin T
  BY <1>2, <1>6
<1>8. Sum(R) \in Nat
  BY <1>3, <1>7
<1>9. Size[First(S)] \in Nat
  BY <1>6, ImportAssumption
<1> QED BY <1>3, <1>4, <1>5, <1>8, <1>9

\* The order of the sum does not matter: any upload may be taken out of it.
LEMMA SumTakes ==
  \A S \in SUBSET Uploads : \A u \in S : Sum(S) = Size[u] + Sum(S \ {u})
<1> DEFINE OK(S) == \A u \in S : Sum(S) = Size[u] + Sum(S \ {u})
           T == {S \in SUBSET Uploads : ~OK(S)}
<1>1. SUFFICES ASSUME T # {} PROVE FALSE
  OBVIOUS
<1>2. PICK S \in T : \A t \in T : t \subseteq S => t = S
  <2>1. T \subseteq SUBSET Uploads
    OBVIOUS
  <2> HIDE DEF T
  <2> QED BY <1>1, <2>1, MinimalSet
<1>3. S \in SUBSET Uploads /\ ~OK(S)
  OBVIOUS
<1>4. PICK u \in S : Sum(S) # Size[u] + Sum(S \ {u})
  BY <1>3
<1> DEFINE x == First(S)
<1>5. x \in S /\ Sum(S) = Size[x] + Sum(S \ {x})
  BY <1>3, SumBegins, FirstIn
<1>6. x # u
  BY <1>4, <1>5
<1> HIDE DEF x
<1> DEFINE A == S \ {x}
           B == S \ {u}
           C == S \ {x, u}
<1>7. ASSUME NEW R \in SUBSET S, R # S PROVE OK(R)
  <2>1. R \notin T
    BY <1>2, <1>7
  <2> QED BY <1>3, <2>1
<1>8. OK(A) /\ OK(B)
  <2>1. A \in SUBSET S /\ A # S /\ B \in SUBSET S /\ B # S
    BY <1>5
  <2> HIDE DEF A, B, OK
  <2> QED BY <1>7, <2>1
<1>9. u \in A /\ x \in B /\ A \ {u} = C /\ B \ {x} = C
  BY <1>5, <1>6
<1> DEFINE a == Sum(A)
           b == Sum(B)
           c == Sum(C)
<1>10. a = Size[u] + c /\ b = Size[x] + c
  <2> HIDE DEF A, B, C
  <2> QED BY <1>8, <1>9
<1>11. Size[u] \in Nat /\ Size[x] \in Nat /\ c \in Nat
  BY <1>3, <1>5, SumIsNat, ImportAssumption
<1>12. Sum(S) = Size[x] + a /\ Sum(S) # Size[u] + b
  BY <1>4, <1>5
<1> HIDE DEF a, b, c
<1> QED BY <1>10, <1>11, <1>12

LEMMA SumGrows ==
  \A S \in SUBSET Uploads : \A R \in SUBSET S : Sum(R) <= Sum(S)
<1> DEFINE OK(S) == \A R \in SUBSET S : Sum(R) <= Sum(S)
           T == {S \in SUBSET Uploads : ~OK(S)}
<1>1. SUFFICES ASSUME T # {} PROVE FALSE
  OBVIOUS
<1>2. PICK S \in T : \A t \in T : t \subseteq S => t = S
  <2>1. T \subseteq SUBSET Uploads
    OBVIOUS
  <2> HIDE DEF T
  <2> QED BY <1>1, <2>1, MinimalSet
<1>3. S \in SUBSET Uploads /\ ~OK(S)
  OBVIOUS
<1>4. PICK R \in SUBSET S : ~(Sum(R) <= Sum(S))
  BY <1>3
<1>5. Sum(R) \in Nat /\ Sum(S) \in Nat
  BY <1>3, SumIsNat
<1>6. PICK u \in S : u \notin R
  <2>1. R # S
    BY <1>4, <1>5
  <2> QED BY <2>1
<1> DEFINE B == S \ {u}
<1>7. B \in SUBSET Uploads /\ B \subseteq S /\ B # S /\ R \in SUBSET B
  BY <1>3, <1>6
<1>8. OK(B)
  <2>1. B \notin T
    BY <1>2, <1>7
  <2> QED BY <1>7, <2>1
<1>9. Sum(R) <= Sum(B)
  BY <1>7, <1>8
<1>10. Sum(S) = Size[u] + Sum(B) /\ Size[u] \in Nat /\ Sum(B) \in Nat
  BY <1>3, <1>7, SumTakes, SumIsNat, ImportAssumption
<1> QED BY <1>4, <1>5, <1>9, <1>10

----------------------------------------------------------------------------
(* Admission                                                               *)

\* An upload takes workspace from its admission to its end; it runs while it
\* has not ended, in the sense that it takes workspace or has ended.
Reserving == {u \in Uploads : row[u].status \in Active /\ row[u].ended = "no"}
Running(u) == row[u].ended = "no" => row[u].status \in Active

Inserts(r, u) == Handles(r, "create", u, "insert")

\* Requests after which the workflow runs, or goes on.
Proceeds(r, u) ==
  \/ Handles(r, "complete", u, "start")
  \/ Handles(r, "select", u, "commit") \/ Handles(r, "select", u, "send")

\* A completion between its admission and the commit of its status.
Admitted(r, u) ==
  \/ Handles(r, "complete", u, "store")
  \/ Handles(r, "complete", u, "head") \/ Handles(r, "complete", u, "commit")

\* The row is inserted once, and what has not ended is on its way to the
\* admission or past it; the workflow runs past it.
RowOK(u) ==
  /\ row[u].status = "none" => row[u].ended = "no"
  /\ row[u].ended = "no" => row[u].status \in {"none", "uploading"} \cup Active
  /\ store[u] = "none" => row[u].status = "none" /\ \A r \in Requests : ~Inserts(r, u)
  /\ wf[u].step # "none" => Running(u)
  /\ u \in sweep.todo \cup sweep.aborted => row[u].status # "none"
  /\ u \in sweep.todo /\ sweep.at = "commit" => row[u].ended # "no"

CallsOK(u) ==
  \A r \in Requests :
    /\ Inserts(r, u) => /\ row[u].status = "none" /\ store[u] # "none"
                        /\ \A q \in Requests \ {r} : ~Inserts(q, u)
    /\ Proceeds(r, u) => Running(u)

AdmissionOK(u) == RowOK(u) /\ CallsOK(u)

\* The completion that holds the lock will stay within the workspace.
WithinOK ==
  /\ Sum(Reserving) <= Workspace
  /\ \A r \in Requests, u \in Uploads :
       Admitted(r, u) => admission = r /\ Sum(Reserving \cup {u}) <= Workspace

AdmissionInv == IInv /\ (\A u \in Uploads : AdmissionOK(u)) /\ WithinOK

LEMMA InitAdmission == Init => (\A u \in Uploads : AdmissionOK(u)) /\ WithinOK
<1> SUFFICES ASSUME Init PROVE (\A u \in Uploads : AdmissionOK(u)) /\ WithinOK
  OBVIOUS
<1>1. \A r \in Requests : req[r] = Idle
  BY DEF Init
<1>2. \A u \in Uploads : AdmissionOK(u)
  BY <1>1 DEF Init, AdmissionOK, RowOK, CallsOK, Inserts, Proceeds, Handles, Running, NoSweep,
              At, Active
<1>3. Reserving = {}
  BY DEF Init, Reserving, Active
<1>4. Sum({}) = 0
  BY SumBegins
<1>5. WithinOK
  BY <1>1, <1>3, <1>4, ImportAssumption DEF WithinOK, Admitted, Handles
<1> QED BY <1>2, <1>5

\* What may become of a row that is no newcomer, but for its admission.
Quiet(u) ==
  \/ row'[u] = row[u]
  \/ /\ row[u].status # "none" /\ row'[u].status # "none"
     /\ \/ row'[u].ended # "no"
        \/ /\ row'[u].ended = row[u].ended
           /\ row'[u].status = row[u].status \/ (row'[u].status \in Active /\ Running(u))

Commits(u) ==
  /\ row[u].status # "none" /\ row'[u].status = "processing"
  /\ row'[u].ended = row[u].ended

LEMMA RowStays ==
    ASSUME NEW u \in Uploads, AdmissionOK(u), Quiet(u) \/ Commits(u),
           store'[u] = "none" => store[u] = "none",
           wf'[u].step # "none" =>
             wf[u].step # "none" \/ \E r \in Requests : Proceeds(r, u),
           u \in (sweep.todo \cup sweep.aborted)' =>
             u \in sweep.todo \cup sweep.aborted \/ row[u].status # "none",
           u \in sweep'.todo /\ sweep'.at = "commit" =>
             (u \in sweep.todo /\ sweep.at = "commit") \/ row[u].ended # "no",
           \A r \in Requests : Inserts(r, u)' => Inserts(r, u),
           \A r \in Requests : Proceeds(r, u)' =>
             Proceeds(r, u) \/ row[u].status \in Active \/ Commits(u)
    PROVE  AdmissionOK(u)'
<1> USE DEF AdmissionOK, Active
<1>1. row[u].status = "none" => row'[u] = row[u]
  BY DEF Quiet, Commits
<1>2. row[u].status # "none" => row'[u].status # "none"
  BY DEF Quiet, Commits
<1>3. row[u].ended # "no" => row'[u].ended # "no"
  BY DEF Quiet, Commits
<1>4. row'[u].ended = "no" => row'[u].status \in {"none", "uploading"} \cup Active
  BY DEF Quiet, Commits, RowOK
<1>5. Running(u) \/ row[u].status \in Active \/ Commits(u) => Running(u)'
  BY DEF Quiet, Commits, Running, RowOK
<1>6. row'[u].status = "none" => row'[u].ended = "no"
  BY <1>1, <1>2 DEF RowOK
<1>7. store'[u] = "none" => row'[u].status = "none" /\ \A r \in Requests : ~Inserts(r, u)'
  BY <1>1 DEF RowOK
<1>8. wf'[u].step # "none" => Running(u)'
  BY <1>5 DEF RowOK, CallsOK
<1>9. RowOK(u)'
  BY <1>2, <1>3, <1>4, <1>6, <1>7, <1>8 DEF RowOK
<1>10. CallsOK(u)'
  <2> SUFFICES ASSUME NEW r \in Requests
               PROVE  /\ Inserts(r, u)' => /\ row'[u].status = "none" /\ store'[u] # "none"
                                           /\ \A q \in Requests \ {r} : ~Inserts(q, u)'
                      /\ Proceeds(r, u)' => Running(u)'
    BY DEF CallsOK
  <2>1. Proceeds(r, u)' => Running(u)'
    BY <1>5 DEF CallsOK
  <2>2. Inserts(r, u)' => /\ row'[u].status = "none" /\ store'[u] # "none"
                          /\ \A q \in Requests \ {r} : ~Inserts(q, u)'
    BY <1>1 DEF CallsOK
  <2> QED BY <2>1, <2>2
<1> QED BY <1>9, <1>10

\* Rows that change this way take no more workspace.
LEMMA NoMoreReserved ==
    ASSUME TypeOK, \A v \in Uploads : Quiet(v)
    PROVE  Reserving' \subseteq Reserving
BY DEF Reserving, Quiet, Running, TypeOK

LEMMA WorkflowRow ==
    ASSUME IInv, NEW u \in Uploads, AdmissionOK(u), Workflow(u) \/ StepError(u)
    PROVE  Quiet(u)
<1>1. TypeOK /\ row[u] \in Rows /\ wf[u].step # "none"
  BY Started DEF IInv, TypeOK
<1>2. Running(u)
  BY <1>1 DEF AdmissionOK, RowOK
<1>3. CASE InspectWrite(u)
  <2>1. row' = row \/ (Exists(u) /\ row'[u] = [row[u] EXCEPT !.status = "awaiting_selection",
                                                            !.choices = TRUE])
    BY <1>1, <1>3 DEF InspectWrite, Write, TypeOK
  <2> QED BY <1>1, <1>2, <2>1 DEF Quiet, Exists, Rows, Active
<1>4. CASE Finalize(u)
  <2>1. row' = row \/ (Exists(u) /\ row'[u] = [row[u] EXCEPT !.result = TRUE])
    BY <1>1, <1>4 DEF Finalize, Write, TypeOK
  <2> QED BY <1>1, <2>1 DEF Quiet, Exists, Rows
<1>5. CASE WriteEnd(u)
  <2>1. row' = row \/ \E s \in {"succeeded", "aborted", "failed"} : Write(u, EndedAs(u, s))
    <3>1. CASE wf[u].step = "complete"
      BY <1>5, <3>1 DEF WriteEnd
    <3>2. CASE wf[u].step = "abort"
      BY <1>5, <3>2 DEF WriteEnd
    <3>3. CASE wf[u].step = "fail"
      BY <1>5, <3>3 DEF WriteEnd
    <3> QED BY <1>5, <3>1, <3>2, <3>3 DEF WriteEnd
  <2>2. ASSUME NEW s \in {"succeeded", "aborted", "failed"}, Write(u, EndedAs(u, s))
        PROVE  Quiet(u)
    <3>1. row'[u] = EndedAs(u, s) /\ Exists(u)
      BY <1>1, <2>2 DEF Write, TypeOK
    <3> QED BY <1>1, <3>1 DEF EndedAs, Exists, Quiet, Rows
  <2> QED BY <2>1, <2>2 DEF Quiet
<1>6. CASE UNCHANGED row
  BY <1>6 DEF Quiet
<1>7. InspectWrite(u) \/ Finalize(u) \/ WriteEnd(u) \/ UNCHANGED row
  BY DEF Workflow, Recorded, ReadCurrent, Download, Inspect, InspectRead, Announce, Receive,
         Extract, ReplaceFolders, StartProcessing, ReadForEnd, DeleteObject, DeleteFiles,
         Evict, StepError
<1> QED BY <1>3, <1>4, <1>5, <1>6, <1>7

LEMMA WorkflowAdmission ==
    ASSUME AdmissionInv, NEW u \in Uploads, Workflow(u) \/ StepError(u)
    PROVE  /\ \A v \in Uploads : AdmissionOK(v)' /\ Quiet(v)
           /\ UNCHANGED <<req, admission>>
<1>1. IInv /\ TypeOK /\ \A v \in Uploads : AdmissionOK(v)
  BY DEF AdmissionInv, IInv
<1>2. UNCHANGED req /\ \A v \in Uploads \ {u} : Same(v)
  BY <1>1, OnlyItsOwn
<1>3. UNCHANGED <<admission, sweep>>
  BY DEF Workflow, Recorded, ReadCurrent, Download, Inspect, InspectRead, InspectWrite,
         Announce, Receive, Extract, Finalize, ReplaceFolders, StartProcessing, ReadForEnd,
         DeleteObject, DeleteFiles, WriteEnd, Evict, StepError
<1>4. store' = store \/ store' = [store EXCEPT ![u] = "gone"]
  BY DEF Workflow, Recorded, ReadCurrent, Download, Inspect, InspectRead, InspectWrite,
         Announce, Receive, Extract, Finalize, ReplaceFolders, StartProcessing, ReadForEnd,
         DeleteObject, DeleteFiles, WriteEnd, Evict, StepError
<1>5. wf[u].step # "none"
  BY <1>1, Started
<1>6. \A v \in Uploads : Quiet(v)
  <2>1. Quiet(u)
    BY <1>1, WorkflowRow
  <2>2. \A v \in Uploads \ {u} : Quiet(v)
    BY <1>2 DEF Same, Quiet
  <2> QED BY <2>1, <2>2
<1>7. ASSUME NEW v \in Uploads PROVE AdmissionOK(v)'
  <2>1. store'[v] = "none" => store[v] = "none"
    BY <1>1, <1>4 DEF TypeOK
  <2>2. wf'[v].step # "none" => wf[v].step # "none"
    BY <1>2, <1>5 DEF Same
  <2>3. \A r \in Requests : /\ Inserts(r, v)' => Inserts(r, v)
                            /\ Proceeds(r, v)' => Proceeds(r, v)
    BY <1>2 DEF Inserts, Proceeds, Handles
  <2> QED BY <1>1, <1>3, <1>6, <2>1, <2>2, <2>3, RowStays
<1> QED BY <1>2, <1>3, <1>6, <1>7

LEMMA TimeAdmission ==
    ASSUME AdmissionInv, NEW u \in Uploads, Expire(u) \/ Age(u)
    PROVE  /\ \A v \in Uploads : AdmissionOK(v)' /\ Quiet(v)
           /\ UNCHANGED <<req, admission>>
<1>1. TypeOK /\ row[u] \in Rows /\ \A v \in Uploads : AdmissionOK(v)
  BY DEF AdmissionInv, IInv, TypeOK
<1>2. UNCHANGED <<store, wf, admission, req, sweep>>
  BY DEF Expire, Age
<1>3. Exists(u) /\ row'[u] \in {[row[u] EXCEPT !.expired = TRUE], [row[u] EXCEPT !.ended = "old"]}
  BY <1>1 DEF Expire, Age, TypeOK
<1>4. \A v \in Uploads \ {u} : row'[v] = row[v]
  BY <1>1 DEF Expire, Age, TypeOK
<1>5. \A v \in Uploads : Quiet(v)
  BY <1>1, <1>3, <1>4 DEF Quiet, Exists, Rows
<1>6. ASSUME NEW v \in Uploads PROVE AdmissionOK(v)'
  <2>1. \A r \in Requests : /\ Inserts(r, v)' => Inserts(r, v)
                            /\ Proceeds(r, v)' => Proceeds(r, v)
    BY <1>2 DEF Inserts, Proceeds, Handles
  <2> QED BY <1>1, <1>2, <1>5, <2>1, RowStays
<1> QED BY <1>2, <1>5, <1>6

LEMMA SweepAdmission ==
    ASSUME AdmissionInv, Sweep
    PROVE  /\ \A v \in Uploads : AdmissionOK(v)' /\ Quiet(v)
           /\ UNCHANGED <<req, admission>>
<1>1. TypeOK /\ \A v \in Uploads : AdmissionOK(v)
  BY DEF AdmissionInv, IInv
<1>2. UNCHANGED <<wf, req, admission>>
  BY DEF Sweep, SweepScan, SweepAbort, SweepTrees, SweepCommit
<1>3. store' = store \/ \E u \in Uploads : store' = [store EXCEPT ![u] = "gone"]
  BY DEF Sweep, SweepScan, SweepAbort, SweepTrees, SweepCommit
<1>4. ASSUME NEW v \in Uploads PROVE Quiet(v)
  <2>1. row[v] \in Rows /\ AdmissionOK(v)
    BY <1>1 DEF TypeOK
  <2>2. CASE SweepCommit
    <3>1. /\ v \in sweep.todo => row[v].status # "none" /\ row[v].ended # "no"
          /\ v \in sweep.aborted => row[v].status # "none"
      BY <2>1, <2>2 DEF SweepCommit, AdmissionOK, RowOK
    <3>2. row'[v] = IF v \in sweep.todo THEN WithStatus(v, "deleted")
                    ELSE IF v \in sweep.aborted THEN EndedAs(v, "aborted") ELSE row[v]
      BY <2>2 DEF SweepCommit
    <3>3. /\ WithStatus(v, "deleted").status = "deleted"
          /\ WithStatus(v, "deleted").ended = row[v].ended
          /\ EndedAs(v, "aborted").status = "aborted" /\ EndedAs(v, "aborted").ended = "recent"
      BY <2>1 DEF WithStatus, EndedAs, Rows
    <3> QED BY <3>1, <3>2, <3>3 DEF Quiet
  <2>3. CASE UNCHANGED row
    BY <2>3 DEF Quiet
  <2> QED BY <2>2, <2>3 DEF Sweep, SweepScan, SweepAbort, SweepTrees
<1>5. ASSUME NEW v \in Uploads PROVE AdmissionOK(v)'
  <2>1. store'[v] = "none" => store[v] = "none"
    BY <1>1, <1>3 DEF TypeOK
  <2>2. /\ v \in (sweep.todo \cup sweep.aborted)' =>
             v \in sweep.todo \cup sweep.aborted \/ row[v].status # "none"
        /\ v \in sweep'.todo /\ sweep'.at = "commit" => row[v].ended # "no"
    <3>1. sweep \in Passes
      BY <1>1 DEF TypeOK
    <3>2. CASE SweepScan
      BY <3>2 DEF SweepScan
    <3>3. CASE SweepTrees
      BY <3>1, <3>3 DEF SweepTrees, Passes, Exists
    <3>4. CASE SweepCommit
      BY <3>4 DEF SweepCommit, NoSweep
    <3>5. ASSUME NEW u \in Uploads, SweepAbort(u)
          PROVE  /\ sweep'.todo \cup sweep'.aborted \subseteq sweep.todo \cup sweep.aborted
                 /\ sweep'.at # "commit"
      BY <3>1, <3>5 DEF SweepAbort, Passes
    <3> QED BY <3>2, <3>3, <3>4, <3>5 DEF Sweep
  <2>3. \A r \in Requests : /\ Inserts(r, v)' => Inserts(r, v)
                            /\ Proceeds(r, v)' => Proceeds(r, v)
    BY <1>2 DEF Inserts, Proceeds, Handles
  <2> QED BY <1>1, <1>2, <1>4, <2>1, <2>2, <2>3, RowStays
<1> QED BY <1>2, <1>4, <1>5

LEMMA FailuresAdmission ==
    ASSUME AdmissionInv, SweepError \/ Crash \/ UNCHANGED vars \/ \E r \in Requests : RequestError(r)
    PROVE  /\ \A v \in Uploads : AdmissionOK(v)' /\ Quiet(v)
           /\ \A r \in Requests : req'[r] # Idle =>
                req'[r] = req[r] /\ (admission = r => admission' = r)
<1>1. TypeOK /\ \A v \in Uploads : AdmissionOK(v) /\ wf[v].step \in Steps
  BY DEF AdmissionInv, IInv, TypeOK, Places
<1>2. UNCHANGED <<row, store>>
  BY DEF SweepError, Crash, RequestError, vars
<1>3. sweep' = sweep \/ sweep' = NoSweep
  BY DEF SweepError, Crash, RequestError, vars
<1>4. ASSUME NEW r \in Requests, req'[r] # Idle
      PROVE  req'[r] = req[r] /\ (admission = r => admission' = r)
  BY <1>1, <1>4 DEF SweepError, Crash, RequestError, Respond, Release, vars, TypeOK
<1>5. \A v \in Uploads : Quiet(v)
  BY <1>2 DEF Quiet
<1>6. ASSUME NEW v \in Uploads PROVE AdmissionOK(v)'
  <2>1. wf'[v].step # "none" => wf[v].step # "none"
    <3>1. wf'[v] = wf[v] \/ wf'[v] = At(wf[v].step)
      BY DEF SweepError, Crash, RequestError, vars
    <3> QED BY <1>1, <3>1, StepBegun
  <2>2. \A r \in Requests : /\ Inserts(r, v)' => Inserts(r, v)
                            /\ Proceeds(r, v)' => Proceeds(r, v)
    BY <1>4 DEF Inserts, Proceeds, Handles
  <2>3. /\ v \in (sweep.todo \cup sweep.aborted)' => v \in sweep.todo \cup sweep.aborted
        /\ v \in sweep'.todo /\ sweep'.at = "commit" => v \in sweep.todo /\ sweep.at = "commit"
    BY <1>3 DEF NoSweep
  <2> QED BY <1>1, <1>2, <1>5, <2>1, <2>2, <2>3, RowStays
<1> QED BY <1>4, <1>5, <1>6

----------------------------------------------------------------------------
(* The requests                                                            *)

\* A step of r about u that goes on to the point p.
LEMMA HandledOn ==
    ASSUME IInv, NEW r \in Requests, req[r] # Idle, NEW p \in CallPoints, Goto(r, p)
    PROVE  \A kind, u, q : Handles(r, kind, u, q)' <=>
             req[r].kind = kind /\ req[r].upload = u /\ p = q
BY CallGoesOn DEF Handles

LEMMA NoAnswer ==
    ASSUME IInv, NEW r \in Requests, req[r] # Idle, NEW p \in CallPoints, Goto(r, p)
    PROVE  ~Respond(r)
BY CallGoesOn DEF Respond, IInv, TypeOK

LEMMA OthersHandle ==
    ASSUME NEW r \in Requests, req'[r] = req[r]
    PROVE  \A kind, u, p : Handles(r, kind, u, p)' <=> Handles(r, kind, u, p)
BY DEF Handles

\* An upload that a request's step is not about.
LEMMA NotAbout ==
    ASSUME AdmissionInv, NEW r \in Requests, NEW u \in Uploads, Arrival(r, u) \/ Route(r, u),
           NEW v \in Uploads \ {u}
    PROVE  AdmissionOK(v)' /\ Quiet(v)
<1>1. IInv /\ TypeOK /\ AdmissionOK(v)
  BY DEF AdmissionInv, IInv
<1>2. /\ \A q \in Requests \ {r} : req'[q] = req[q]
      /\ req'[r] = Idle \/ req'[r].upload = u
      /\ Same(v)
  BY <1>1, RequestAbout
<1>3. UNCHANGED sweep
  BY DEF Arrival, CreateStore, CompleteRead, AbortRead, SelectRead, Route, CreateInsert,
         CompleteAdmit, CompleteStore, CompleteHead, CompleteCommit, CompleteStart,
         AbortStore, AbortCommit, SelectCommit, SelectSend
<1>4. Quiet(v) /\ store'[v] = store[v] /\ wf'[v] = wf[v]
  BY <1>2 DEF Same, Quiet
<1>5. \A q \in Requests : /\ Inserts(q, v)' => Inserts(q, v)
                          /\ Proceeds(q, v)' => Proceeds(q, v)
  BY <1>2 DEF Inserts, Proceeds, Handles
<1> QED BY <1>1, <1>3, <1>4, <1>5, RowStays

LEMMA CreateStoreAdmission ==
    ASSUME AdmissionInv, NEW r \in Requests, NEW u \in Uploads, CreateStore(r, u)
    PROVE  AdmissionOK(u)' /\ Quiet(u)
<1>1. TypeOK /\ RowOK(u) /\ CallsOK(u)
  BY DEF AdmissionInv, AdmissionOK, IInv
<1>2. /\ store[u] = "none" /\ store'[u] = "open"
      /\ UNCHANGED <<row, wf, sweep>>
      /\ req' = [req EXCEPT ![r] = [kind |-> "create", upload |-> u, at |-> "insert",
                                    seen |-> "none"]]
  BY <1>1 DEF CreateStore, Begin, TypeOK
<1>3. row[u].status = "none" /\ \A q \in Requests : ~Inserts(q, u)
  BY <1>1, <1>2 DEF RowOK
<1>4. \A q \in Requests \ {r} : req'[q] = req[q]
  BY <1>1, <1>2 DEF TypeOK
<1>5. req'[r].kind = "create"
  BY <1>1, <1>2 DEF TypeOK
<1>6. \A q \in Requests \ {r} : ~Inserts(q, u)' /\ (Proceeds(q, u)' => Proceeds(q, u))
  BY <1>3, <1>4 DEF Inserts, Proceeds, Handles
<1>7. ~Proceeds(r, u)'
  BY <1>5 DEF Proceeds, Handles
<1>8. Quiet(u) /\ (Running(u) => Running(u)')
  BY <1>2 DEF Quiet, Running
<1>9. RowOK(u)'
  BY <1>1, <1>2, <1>8 DEF RowOK
<1>10. CallsOK(u)'
  <2> SUFFICES ASSUME NEW q \in Requests
               PROVE  /\ Inserts(q, u)' => /\ row'[u].status = "none" /\ store'[u] # "none"
                                           /\ \A p \in Requests \ {q} : ~Inserts(p, u)'
                      /\ Proceeds(q, u)' => Running(u)'
    BY DEF CallsOK
  <2>1. Inserts(q, u)' => q = r
    BY <1>6
  <2>2. Proceeds(q, u)' => Running(u)'
    BY <1>1, <1>6, <1>7, <1>8 DEF CallsOK
  <2> QED BY <1>2, <1>3, <1>6, <2>1, <2>2
<1> QED BY <1>8, <1>9, <1>10 DEF AdmissionOK

LEMMA CreateInsertAdmission ==
    ASSUME AdmissionInv, NEW r \in Requests, NEW u \in Uploads, CreateInsert(r, u)
    PROVE  AdmissionOK(u)' /\ (u \in Reserving' => u \in Reserving)
<1>1. TypeOK /\ RowOK(u) /\ CallsOK(u) /\ row[u] \in Rows
  BY DEF AdmissionInv, AdmissionOK, IInv, TypeOK
<1>2. /\ row'[u].status = "uploading" /\ row'[u].ended = row[u].ended
      /\ req'[r] = Idle /\ \A q \in Requests \ {r} : req'[q] = req[q]
      /\ UNCHANGED <<store, wf, sweep>>
  BY <1>1 DEF CreateInsert, Respond, TypeOK, Rows
<1>3. /\ row[u].status = "none" /\ store[u] # "none"
      /\ \A q \in Requests \ {r} : ~Inserts(q, u)
  BY <1>1 DEF CreateInsert, CallsOK, Inserts
<1>4. row[u].ended = "no" /\ ~Running(u)
  BY <1>1, <1>3 DEF RowOK, Running, Active
<1>5. wf[u].step = "none" /\ \A q \in Requests : ~Proceeds(q, u)
  BY <1>1, <1>4 DEF RowOK, CallsOK
<1>6. \A q \in Requests : ~Inserts(q, u)' /\ ~Proceeds(q, u)'
  BY <1>2, <1>3, <1>5 DEF Inserts, Proceeds, Handles
<1>7. u \notin sweep.todo \cup sweep.aborted
  BY <1>1, <1>3 DEF RowOK
<1>8. RowOK(u)' /\ CallsOK(u)'
  BY <1>2, <1>3, <1>5, <1>6, <1>7 DEF RowOK, CallsOK
<1> QED BY <1>2, <1>8 DEF AdmissionOK, Reserving, Active

\* The requests that begin with what is there.
LEMMA ArrivalAdmission ==
    ASSUME AdmissionInv, NEW r \in Requests, NEW u \in Uploads, Arrival(r, u)
    PROVE  AdmissionOK(u)' /\ Quiet(u)
<1>1. TypeOK /\ AdmissionOK(u)
  BY DEF AdmissionInv, IInv
<1>2. CASE CreateStore(r, u)
  BY <1>2, CreateStoreAdmission
<1>3. CASE CompleteRead(r, u) \/ AbortRead(r, u) \/ SelectRead(r, u)
  <2>1. UNCHANGED <<row, store, wf, sweep>>
    BY <1>3 DEF CompleteRead, AbortRead, SelectRead
  <2>2. \E kind, at, seen :
          /\ kind \in {"complete", "abort", "select"}
          /\ Begin(r, kind, u, at, seen)
          /\ row[u].status \in Active \/ kind = "abort" \/ (kind = "complete" /\ at = "admit")
    BY <1>3 DEF CompleteRead, AbortRead, SelectRead, Active
  <2>3. PICK kind, at, seen :
          /\ kind \in {"complete", "abort", "select"}
          /\ Begin(r, kind, u, at, seen)
          /\ row[u].status \in Active \/ kind = "abort" \/ (kind = "complete" /\ at = "admit")
    BY <2>2
  <2>4. /\ \A q \in Requests \ {r} : req'[q] = req[q]
        /\ req'[r].kind = kind /\ req'[r].at = at
    BY <1>1, <2>3 DEF Begin, TypeOK
  <2>5. ASSUME NEW q \in Requests
        PROVE  /\ Inserts(q, u)' => Inserts(q, u)
               /\ Proceeds(q, u)' => Proceeds(q, u) \/ row[u].status \in Active
    <3>1. CASE q = r
      BY <2>3, <2>4, <3>1 DEF Inserts, Proceeds, Handles
    <3>2. CASE q # r
      BY <2>4, <3>2, OthersHandle DEF Inserts, Proceeds
    <3> QED BY <3>1, <3>2
  <2>6. Quiet(u)
    BY <2>1 DEF Quiet
  <2> QED BY <1>1, <2>1, <2>5, <2>6, RowStays
<1> QED BY <1>2, <1>3 DEF Arrival

\* The requests that go on.
LEMMA RouteAdmission ==
    ASSUME AdmissionInv, NEW r \in Requests, NEW u \in Uploads, Route(r, u), ~CreateInsert(r, u)
    PROVE  AdmissionOK(u)' /\ (Quiet(u) \/ (CompleteCommit(r, u) /\ Commits(u)))
<1>1. TypeOK /\ IInv /\ AdmissionOK(u) /\ row[u] \in Rows
  BY DEF AdmissionInv, IInv, TypeOK
<1>2. UNCHANGED sweep /\ (store' = store \/ \E s \in {"gone", "object"} : store' = [store EXCEPT ![u] = s])
  BY DEF Route, CompleteAdmit, CompleteStore, CompleteHead, CompleteCommit, CompleteStart,
         AbortStore, AbortCommit, SelectCommit, SelectSend
<1>3. store'[u] = "none" => store[u] = "none"
  BY <1>1, <1>2 DEF TypeOK
<1>4. /\ req[r] # Idle /\ req[r].upload = u
      /\ Respond(r) \/ \E p \in CallPoints : Goto(r, p)
      /\ req[r].kind \in {"complete", "abort", "select"}
  BY DEF Route, CompleteAdmit, CompleteStore, CompleteHead, CompleteCommit, CompleteStart,
         AbortStore, AbortCommit, SelectCommit, SelectSend, Handles, CallPoints
<1>5. Goto(r, "start") => CompleteCommit(r, u) /\ Write(u, WithStatus(u, "processing"))
  <2>1. ASSUME NEW p \in CallPoints, Goto(r, p), Goto(r, "start") PROVE p = "start"
    BY <1>1, <1>4, <2>1, CallGoesOn DEF CallPoints
  <2>2. ASSUME Goto(r, "start") PROVE ~Respond(r)
    BY <1>1, <1>4, <2>2, NoAnswer DEF CallPoints
  <2> QED BY <2>1, <2>2 DEF Route, CompleteAdmit, CompleteStore, CompleteHead, CompleteCommit,
         CompleteStart, AbortStore, AbortCommit, SelectCommit, SelectSend, CallPoints
<1>6. wf'[u].step # "none" => wf[u].step # "none" \/ Proceeds(r, u)
  BY DEF Route, CompleteAdmit, CompleteStore, CompleteHead, CompleteCommit, CompleteStart,
         AbortStore, AbortCommit, SelectCommit, SelectSend, Proceeds
<1>7. Quiet(u) \/ (CompleteCommit(r, u) /\ Commits(u))
  <2>1. CASE CompleteCommit(r, u)
    <3>1. row' = row \/ (Exists(u) /\ row'[u] = WithStatus(u, "processing"))
      BY <1>1, <2>1 DEF CompleteCommit, Write, TypeOK
    <3> QED BY <1>1, <2>1, <3>1 DEF WithStatus, Exists, Quiet, Commits, Rows
  <2>2. CASE AbortCommit(r, u)
    <3>1. row' = row \/ (Exists(u) /\ row'[u] = EndedAs(u, "aborted"))
      BY <1>1, <2>2 DEF AbortCommit, Write, TypeOK
    <3> QED BY <1>1, <3>1 DEF EndedAs, Exists, Quiet, Rows
  <2>3. CASE SelectCommit(r, u)
    <3>1. Running(u)
      BY <1>1, <2>3 DEF SelectCommit, AdmissionOK, CallsOK, Proceeds
    <3>2. \/ row'[u] = row[u]
          \/ Exists(u) /\ row'[u] = WithStatus(u, "processing")
      BY <1>1, <2>3 DEF SelectCommit, Write, TypeOK
    <3> QED BY <1>1, <3>1, <3>2 DEF WithStatus, Exists, Quiet, Rows, Active
  <2>4. CASE UNCHANGED row
    BY <2>4 DEF Quiet
  <2> QED BY <2>1, <2>2, <2>3, <2>4 DEF Route, CompleteAdmit, CompleteStore, CompleteHead,
         CompleteStart, AbortStore, SelectSend
<1>8. \A q \in Requests \ {r} : req'[q] = req[q]
  BY <1>1, RequestAbout
<1>9. ASSUME NEW q \in Requests
      PROVE  /\ Inserts(q, u)' => Inserts(q, u)
             /\ Proceeds(q, u)' => Proceeds(q, u) \/ Commits(u)
  <2>1. CASE q # r
    BY <1>8, <2>1, OthersHandle DEF Inserts, Proceeds
  <2>2. CASE q = r /\ Respond(r)
    BY <1>1, <2>2 DEF Respond, Inserts, Proceeds, Handles, TypeOK
  <2>3. CASE q = r /\ ~Respond(r)
    <3>1. PICK p \in CallPoints : Goto(r, p)
      BY <1>4, <2>3
    <3>2. \A kind, v, at : Handles(r, kind, v, at)' <=> kind = req[r].kind /\ v = u /\ at = p
      BY <1>1, <1>4, <3>1, HandledOn
    <3>3. ~Inserts(r, u)'
      BY <1>4, <3>2 DEF Inserts
    <3>4. CASE p = "start"
      BY <1>1, <1>5, <2>3, <3>1, <3>3, <3>4 DEF Write, WithStatus, Commits, Exists, TypeOK, Rows
    <3>5. CASE p # "start" /\ req[r].kind # "select"
      BY <2>3, <3>2, <3>3, <3>5 DEF Proceeds
    <3>6. CASE req[r].kind = "select"
      <4>1. Proceeds(r, u)
        BY <3>6 DEF Route, CompleteAdmit, CompleteStore, CompleteHead, CompleteCommit,
               CompleteStart, AbortStore, AbortCommit, SelectCommit, SelectSend, Proceeds,
               Handles
      <4> QED BY <2>3, <3>3, <4>1
    <3> QED BY <3>4, <3>5, <3>6
  <2> QED BY <2>1, <2>2, <2>3
<1>10. AdmissionOK(u)'
  BY <1>1, <1>2, <1>3, <1>6, <1>7, <1>9, RowStays
<1> QED BY <1>7, <1>10

----------------------------------------------------------------------------
(* The lock                                                                *)

LEMMA WithinStays ==
    ASSUME AdmissionInv, Reserving' \subseteq Reserving,
           \A r \in Requests, v \in Uploads :
             Admitted(r, v)' => Admitted(r, v) /\ (admission = r => admission' = r)
    PROVE  WithinOK'
<1> USE DEF AdmissionInv, WithinOK
<1>1. Workspace \in Nat
  BY ImportAssumption
<1>2. Reserving \in SUBSET Uploads
  BY DEF Reserving
<1> DEFINE R == Reserving'
<1>3. R \in SUBSET Uploads /\ R \subseteq Reserving
  BY <1>2
<1> HIDE DEF R
<1>4. Sum(R) \in Nat /\ Sum(Reserving) \in Nat /\ Sum(R) <= Sum(Reserving)
  BY <1>2, <1>3, SumIsNat, SumGrows
<1>5. Sum(R) <= Workspace
  BY <1>1, <1>4
<1>6. ASSUME NEW r \in Requests, NEW v \in Uploads, Admitted(r, v)'
      PROVE  admission' = r /\ Sum(R \cup {v}) <= Workspace
  <2>1. admission = r /\ admission' = r /\ Sum(Reserving \cup {v}) <= Workspace
    BY <1>6
  <2> DEFINE S == Reserving \cup {v}
             Q == R \cup {v}
  <2>2. S \in SUBSET Uploads /\ Q \in SUBSET S /\ Q \in SUBSET Uploads
    BY <1>2, <1>3
  <2> HIDE DEF S, Q
  <2>3. Sum(S) \in Nat /\ Sum(Q) \in Nat /\ Sum(Q) <= Sum(S)
    BY <2>2, SumIsNat, SumGrows
  <2>4. Sum(S) <= Workspace
    BY <2>1 DEF S
  <2> QED BY <1>1, <2>1, <2>3, <2>4 DEF Q
<1> QED BY <1>5, <1>6 DEF R

\* The lock is taken with enough workspace left.
LEMMA AdmitWithin ==
    ASSUME AdmissionInv, NEW r \in Requests, NEW u \in Uploads, CompleteAdmit(r, u), Goto(r, "store")
    PROVE  WithinOK'
<1>1. TypeOK /\ IInv
  BY DEF AdmissionInv, IInv
<1>2. /\ admission = Nobody /\ Reserved + Size[u] <= Workspace /\ admission' = r
      /\ row' = row /\ Handles(r, "complete", u, "admit")
  <2>1. req[r] # Idle
    BY DEF CompleteAdmit, Handles
  <2>2. ~Respond(r)
    BY <1>1, <2>1, NoAnswer DEF CallPoints
  <2> QED BY <2>2 DEF CompleteAdmit
<1>3. Reserving' = Reserving
  BY <1>2 DEF Reserving
<1>4. \A q \in Requests, v \in Uploads : ~Admitted(q, v)
  BY <1>2, ImportAssumption DEF AdmissionInv, WithinOK
<1>5. \A q \in Requests \ {r} : req'[q] = req[q]
  BY <1>1 DEF Goto, TypeOK
<1>6. \A q \in Requests, v \in Uploads : Admitted(q, v)' => q = r /\ v = u
  <2>1. \A q \in Requests \ {r}, v \in Uploads : ~Admitted(q, v)'
    BY <1>4, <1>5, OthersHandle DEF Admitted
  <2>2. req[r] # Idle /\ req[r].upload = u
    BY <1>2 DEF Handles
  <2>3. \A kind, v, at : Handles(r, kind, v, at)' => v = u
    BY <1>1, <2>2, HandledOn DEF CallPoints
  <2> QED BY <2>1, <2>3 DEF Admitted
<1> DEFINE A == {v \in Uploads : row[v].status \in Active}
           B == Reserving
           C == Reserving \cup {u}
           D == A \cup {u}
<1>7. A \in SUBSET Uploads /\ B \in SUBSET Uploads /\ D \in SUBSET Uploads /\ C \in SUBSET D
      /\ C \in SUBSET Uploads
  BY DEF Reserving
<1>8. Reserved = Sum(A)
  BY DEF Reserved, Sum
<1> HIDE DEF B, C
<1>9. Sum(D) <= Sum(A) + Size[u]
  <2>1. CASE u \in A
    <3>1. D = A
      BY <2>1
    <3> HIDE DEF A, D
    <3> QED BY <1>7, <3>1, SumIsNat, ImportAssumption
  <2>2. CASE u \notin A
    <3>1. D \ {u} = A /\ u \in D
      BY <2>2
    <3> HIDE DEF A, D
    <3>2. Sum(D) = Size[u] + Sum(A)
      BY <1>7, <3>1, SumTakes
    <3> QED BY <1>7, <3>2, SumIsNat, ImportAssumption
  <2> QED BY <2>1, <2>2
<1> HIDE DEF A, D
<1>10. Sum(C) <= Workspace
  <2>1. Sum(C) <= Sum(D) /\ Sum(C) \in Nat /\ Sum(D) \in Nat /\ Sum(A) \in Nat
    BY <1>7, SumGrows, SumIsNat
  <2>2. Sum(A) + Size[u] <= Workspace /\ Size[u] \in Nat /\ Workspace \in Nat
    BY <1>2, <1>8, ImportAssumption
  <2> QED BY <1>9, <2>1, <2>2
<1>11. Sum(Reserving) <= Workspace
  BY DEF AdmissionInv, WithinOK
<1> QED BY <1>2, <1>3, <1>6, <1>10, <1>11 DEF WithinOK, C

\* The commit of the status uses up what the lock has kept.
LEMMA CommitWithin ==
    ASSUME AdmissionInv, NEW r \in Requests, NEW u \in Uploads, CompleteCommit(r, u)
    PROVE  WithinOK'
<1>1. TypeOK /\ IInv
  BY DEF AdmissionInv, IInv
<1>2. Handles(r, "complete", u, "commit") /\ req[r] # Idle
  BY DEF CompleteCommit, Handles
<1>3. admission = r /\ Sum(Reserving \cup {u}) <= Workspace
  BY <1>2 DEF AdmissionInv, WithinOK, Admitted
<1>4. Reserving' \subseteq Reserving \cup {u}
  BY <1>1, RequestAbout DEF Reserving, Same, Route
<1>5. ASSUME NEW q \in Requests, NEW v \in Uploads PROVE ~Admitted(q, v)'
  <2>1. CASE q # r
    <3>1. req'[q] = req[q]
      BY <1>1, <2>1, RequestAbout DEF Route
    <3>2. ~Admitted(q, v)
      BY <1>3, <2>1 DEF AdmissionInv, WithinOK
    <3> QED BY <3>1, <3>2, OthersHandle DEF Admitted
  <2>2. CASE q = r /\ Respond(r)
    BY <1>1, <2>2 DEF Respond, Admitted, Handles, TypeOK
  <2>3. CASE q = r /\ Goto(r, "start")
    BY <1>1, <1>2, <2>3, HandledOn DEF Admitted, CallPoints
  <2> QED BY <2>1, <2>2, <2>3 DEF CompleteCommit
<1> DEFINE R == Reserving'
           S == Reserving \cup {u}
<1>6. R \in SUBSET S /\ R \in SUBSET Uploads /\ S \in SUBSET Uploads
  BY <1>4 DEF Reserving
<1> HIDE DEF R, S
<1>7. Sum(R) <= Sum(S) /\ Sum(R) \in Nat /\ Sum(S) \in Nat
  BY <1>6, SumGrows, SumIsNat
<1>8. Sum(R) <= Workspace
  BY <1>3, <1>7, ImportAssumption DEF S
<1> QED BY <1>5, <1>8 DEF WithinOK, R

LEMMA RouteWithin ==
    ASSUME AdmissionInv, NEW r \in Requests, NEW u \in Uploads, Arrival(r, u) \/ Route(r, u)
    PROVE  (\A v \in Uploads : AdmissionOK(v)') /\ WithinOK'
<1>1. TypeOK /\ IInv
  BY DEF AdmissionInv, IInv
<1>2. \A v \in Uploads \ {u} : AdmissionOK(v)' /\ Quiet(v)
  BY NotAbout
<1>3. AdmissionOK(u)'
  BY ArrivalAdmission, CreateInsertAdmission, RouteAdmission
<1>4. \A q \in Requests \ {r} : req'[q] = req[q]
  BY <1>1, RequestAbout
<1>5. CASE CompleteCommit(r, u)
  BY <1>2, <1>3, <1>5, CommitWithin
<1>6. CASE CompleteAdmit(r, u) /\ Goto(r, "store")
  BY <1>2, <1>3, <1>6, AdmitWithin
<1>7. CASE ~CompleteCommit(r, u) /\ ~(CompleteAdmit(r, u) /\ Goto(r, "store"))
  <2>1. Reserving' \subseteq Reserving
    <3>1. u \in Reserving' => u \in Reserving
      <4>1. CASE Quiet(u)
        BY <4>1 DEF Reserving, Quiet, Running
      <4>2. CASE CreateInsert(r, u)
        BY <4>2, CreateInsertAdmission
      <4> QED BY <1>7, <4>1, <4>2, ArrivalAdmission, RouteAdmission
    <3>2. \A v \in Uploads \ {u} : v \in Reserving' => v \in Reserving
      BY <1>2 DEF Reserving, Quiet, Running
    <3> QED BY <3>1, <3>2 DEF Reserving
  <2>2. UNCHANGED admission \/ (Respond(r) /\ Release(r))
    BY <1>7 DEF Arrival, CreateStore, CompleteRead, AbortRead, SelectRead, Route, CreateInsert,
         CompleteAdmit, CompleteStore, CompleteHead, CompleteStart, AbortStore, AbortCommit,
         SelectCommit, SelectSend
  <2>3. ASSUME NEW q \in Requests, NEW v \in Uploads, Admitted(q, v)'
        PROVE  Admitted(q, v) /\ (admission = q => admission' = q)
    <3>1. CASE q # r
      <4>1. req'[q] = req[q] /\ (admission = q => admission' = q)
        BY <1>4, <2>2, <3>1 DEF Release
      <4> QED BY <2>3, <4>1, OthersHandle DEF Admitted
    <3>2. CASE q = r /\ Respond(r)
      BY <1>1, <2>3, <3>2 DEF Respond, Admitted, Handles, TypeOK
    <3>3. CASE q = r /\ Arrival(r, u)
      <4>1. \E kind, at, seen : Begin(r, kind, u, at, seen) /\ (kind = "complete" => at \in {"start", "admit"})
        BY <3>3 DEF Arrival, CreateStore, CompleteRead, AbortRead, SelectRead
      <4>2. PICK kind, at, seen : Begin(r, kind, u, at, seen)
                                  /\ (kind = "complete" => at \in {"start", "admit"})
        BY <4>1
      <4>3. req'[r].kind = kind /\ req'[r].at = at
        BY <1>1, <4>2 DEF Begin, TypeOK
      <4> QED BY <2>3, <3>3, <4>2, <4>3 DEF Admitted, Handles
    <3>4. CASE q = r /\ Route(r, u) /\ ~Respond(r)
      <4>1. \/ CompleteStore(r, u) /\ Goto(r, "head") /\ UNCHANGED admission
            \/ CompleteHead(r, u) /\ Goto(r, "commit") /\ UNCHANGED admission
            \/ /\ \E p \in CallPoints : Goto(r, p)
               /\ req[r] # Idle /\ req[r].kind \in {"abort", "select"}
        BY <1>7, <3>4 DEF Route, CreateInsert, CompleteAdmit, CompleteStore, CompleteHead,
           CompleteStart, AbortStore, AbortCommit, SelectCommit, SelectSend, Handles, CallPoints
      <4>2. CASE \/ CompleteStore(r, u) /\ Goto(r, "head") /\ UNCHANGED admission
                 \/ CompleteHead(r, u) /\ Goto(r, "commit") /\ UNCHANGED admission
        <5>1. req[r] # Idle /\ Admitted(r, u) /\ req[r].upload = u
          BY <4>2 DEF CompleteStore, CompleteHead, Handles, Admitted
        <5>2. v = u
          BY <1>1, <2>3, <3>4, <4>2, <5>1, HandledOn DEF Admitted, CallPoints
        <5> QED BY <3>4, <4>2, <5>1, <5>2
      <4>3. CASE /\ \E p \in CallPoints : Goto(r, p)
                 /\ req[r] # Idle /\ req[r].kind \in {"abort", "select"}
        BY <1>1, <2>3, <3>4, <4>3, HandledOn DEF Admitted
      <4> QED BY <4>1, <4>2, <4>3
    <3> QED BY <3>1, <3>2, <3>3, <3>4
  <2> QED BY <1>2, <1>3, <2>1, <2>3, WithinStays
<1> QED BY <1>5, <1>6, <1>7

LEMMA NextAdmission == AdmissionInv /\ [Next]_vars => AdmissionInv'
<1> SUFFICES ASSUME AdmissionInv, [Next]_vars PROVE AdmissionInv'
  OBVIOUS
<1>1. IInv'
  BY NextKeeps DEF AdmissionInv
<1>2. ASSUME \A v \in Uploads : AdmissionOK(v)' /\ Quiet(v),
             \A r \in Requests : req'[r] # Idle =>
               req'[r] = req[r] /\ (admission = r => admission' = r)
      PROVE  AdmissionInv'
  <2>1. Reserving' \subseteq Reserving
    BY <1>2, NoMoreReserved DEF AdmissionInv, IInv
  <2>2. \A r \in Requests, v \in Uploads :
          Admitted(r, v)' => Admitted(r, v) /\ (admission = r => admission' = r)
    BY <1>2 DEF Admitted, Handles
  <2>3. WithinOK'
    BY <2>1, <2>2, WithinStays
  <2> QED BY <1>1, <1>2, <2>3 DEF AdmissionInv
<1>3. ASSUME NEW u \in Uploads, Workflow(u) \/ StepError(u) PROVE AdmissionInv'
  BY <1>2, <1>3, WorkflowAdmission
<1>4. ASSUME NEW u \in Uploads, Expire(u) \/ Age(u) PROVE AdmissionInv'
  BY <1>2, <1>4, TimeAdmission
<1>5. ASSUME NEW r \in Requests, NEW u \in Uploads, Arrival(r, u) \/ Route(r, u)
      PROVE  AdmissionInv'
  BY <1>1, <1>5, RouteWithin DEF AdmissionInv
<1>6. CASE Sweep
  BY <1>2, <1>6, SweepAdmission
<1>7. CASE SweepError \/ Crash \/ UNCHANGED vars \/ \E r \in Requests : RequestError(r)
  BY <1>2, <1>7, FailuresAdmission
<1> QED BY <1>3, <1>4, <1>5, <1>6, <1>7 DEF Next

\* The uploads admitted and not ended never reserve more than the workspace,
\* for any number of uploads of any sizes and of requests, although requests
\* write statuses back that they have read long before: what a completion
\* reads under the lock stays an upper bound until its own row counts.
THEOREM AdmissionStays == Spec => []AdmissionBound
<1>1. AdmissionInv => AdmissionBound
  BY DEF AdmissionInv, WithinOK, AdmissionBound, Sum, Reserving
<1>2. Init => AdmissionInv
  BY InitHolds, InitAdmission DEF AdmissionInv
<1> QED BY <1>1, <1>2, NextAdmission, PTL DEF Spec
=============================================================================
