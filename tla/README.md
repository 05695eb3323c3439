# Verification of Wanderbound

TLA+ models of the concurrent and fault-prone parts of Wanderbound, the TLC
configurations that check them on small instances, and TLAPS proofs of the
properties that matter most. Paths below are relative to the repository;
`PROJECT.json` maps each definition to the lines it models, lists the hazards
with the properties that cover it, and every mutant that shows a property can
fail.

1. [The system](#1-the-system)
2. [Where it is hard](#2-where-it-is-hard)
3. [The modules](#3-the-modules)
4. [The runs](#4-the-runs)
5. [Fairness](#5-fairness)
6. [What is proved](#6-what-is-proved)
7. [Disagreements found](#7-disagreements-found)
8. [What does not hold, and why no run says so](#8-what-does-not-hold-and-why-no-run-says-so)
9. [Not modelled](#9-not-modelled)
10. [Plan](#10-plan)

## 1. The system

Wanderbound turns a Polarsteps export into a photo album. A FastAPI server
(`backend/app`) runs one process with PostgreSQL, an S3-like object store, the
file system and DBOS, which executes durable workflows: each step at least
once, its outcome recorded after its effects. A Vue client (`frontend/src`)
uploads, follows streams of server-sent events, and edits.

| Part | State it keeps | Operations | What makes it correct |
|---|---|---|---|
| Upload sessions (`routes/uploads.py`, `logic/uploads/{capacity,cleanup}.py`, `services/upload_store.py`) | `upload_session` rows, multipart uploads and objects in the store | create, sign, complete, abort, choose trips, expire | the workspace is not over-admitted; a terminal status is true; nothing is left behind |
| Import workflow (`logic/workflows/uploads.py`) | the work tree `upload-work/<id>`, the workflow's recorded steps, its mailbox | download, inspect, wait for a choice, extract, finalize, start processing, clean up | ends; keeps the archive while it needs it |
| Finalization (`logic/uploads/{finalize,files}.py`) | user, album and upload rows; the trip folders and their backups | one commit, then a rename protocol per trip folder | an album is never lost, a repeated step does no harm |
| Processing operations (`logic/processing_operations.py`, `logic/workflows/processing.py`, `logic/session.py`) | `processing_operation` and `processing_event` rows | create, run, append event, save, go stale, stream | one active operation; an overtaken run saves nothing; a stream tells the outcome and ends |
| A processing run (`logic/{trip_pipeline,trip_processing,reconcile,chapters,step_media,upload}.py`, `logic/layout`) | the trip folder, album, step, slot and media rows | load, phases in parallel, flatten the folder, build or reconcile, save | every photo has its place; what the user made survives another upload |
| Album editing (`routes/{albums,assets}.py`), adding media (`logic/media_import.py`, `logic/external_media/operations.py`) | the same rows and folder | replace a layout, change chapters, import files | rows can be read back, files and rows agree after failures |
| Photo of an album (`logic/external_media`, `logic/media_upgrade`, `logic/workflows/media_hashes.py`, `routes/{external_media,photo_edits,google_photos_upgrade}.py`) | the file, the `album_media` row, the undo snapshot row and its file | replace, undo, crop, upgrade from Google Photos, hash, prune | row, hash, crop and snapshot belong to the picture in the file |
| Route enrichment (`logic/segment_routes.py`, `services/mapbox.py`) | `segment`, `segment_route_enrichment` | plan a batch, match, record; move a boundary | an outcome is recorded for the points it was computed from; requests stay in the budget; no segment is forgotten |
| Eviction and account removal (`logic/eviction.py`, `routes/users.py`) | album folders, `.evictions` | scan, remove, rename, resume | a deleted account has left nothing; a demo account goes as a whole |
| Artifacts (`core/tokens.py`, `logic/{pdf,pdf_chapters,export}.py`) | tokens with an expiry and their files, the shared Chromium, the PDF slot | render, export, store, pop, clean up | a token that was told has its file; slots, leases and files come back |
| Panoramas, Google Photos picker, OAuth, matching | files; sessions at Google | render; list, match | see section 9 |
| Frontend state (`composables/*`) | undo stack, upload and stream state | push, undo, redo, reconnect | see section 9 |

How they interact: completing an upload starts `upload.import`; its finalize
step commits the imported user and a new processing operation, marks the older
operations stale and then replaces the trip folders; its next step starts
`processing.upload`, which reads the folders, stores events and saves the album.
A client's stream (`GET /users/process`) may start the same operation, or
create another one after a failure. The save schedules the enrichment of the
album's segments, and so does each boundary edit. Photos are changed by requests
and by two background parties (upgrade stream, hash workflow) through the file
system and the rows. Every upload and every new demo is followed by an eviction
over all accounts. Prints and exports read the album and share nothing but
Chromium, a slot and the token table. Only rows are transactional.

## 2. Where it is hard

* A request reads a row, awaits the object store or the mailbox, and writes the
  row back without looking again (`routes/uploads.py`).
* A DBOS step is executed again after a crash or an exception, with its
  effects already there.
* Files and rows change at different instants, in an order chosen by hand:
  folders of trips, added media, replaced photos, artifacts, evicted demos.
* An advisory lock is held over a commit but not over the folder replacement
  that follows, nor by a repeated step (`finalize.py`).
* A save must notice that a newer import has overtaken it; row locks and
  `READ COMMITTED` decide what it sees.
* A run reads the album at its start and writes it at its end, beside the editor.
* A thread outlives the task or the stream that waits for it (flattening the
  folder, writing an export).
* A stream may be left at any of its awaits, and what runs then depends on the
  `finally` clauses passed so far.
* Minutes-long computations (hashes, downloads, road matching) are stored into
  rows that may have moved on.
* Resources are shared by counting: slots, leases, request budgets, storage.

Each hazard at its line, with the properties that would catch it going wrong, is
under `hazards` in `PROJECT.json`.

## 3. The modules

| Module | Models | Used by |
|---|---|---|
| `AlbumSwap` | the abstract promise of a trip folder: its content changes at single instants, once per upload | `UploadFinalize` (refinement) |
| `UploadFinalize` | `finalize_upload_session`, `replace_folder_once`, as a step executed at least once | `MCUploadFinalize`, `UploadFinalizeProofs` |
| `UploadImport` | routes, expiry loop and workflow of uploads | `MCUploadImport`, `UploadImportProofs` |
| `Processing` | operations, workflow, stream, and finalization as they see it | `MCProcessing`, `ProcessingProofs` |
| `PagePacking` | how photos are packed into pages, pure | `AlbumLayout` |
| `AlbumLayout` | rows of an album as values; layouts, chapters, reconciliation, pure | `AlbumProcessing` |
| `AlbumProcessing` | a run from folder to rows beside the editor and added media | `MCAlbumProcessing`, `AlbumProcessingProofs` |
| `AlbumPhoto` | one photo of an album | `MCAlbumPhoto`, `AlbumPhotoProofs` |
| `RoutePlan` | requests, budgets and outcomes of road matching, pure | `RouteEnrichment` |
| `RouteEnrichment` | the workflows of an album's segments beside edits | `MCRoutes`, `RouteEnrichmentProofs` |
| `Artifacts` | PDF, chapter and export streams, tokens, slot, Chromium | `MCArtifacts`, `ArtifactsProofs` |
| `Accounts` | accounts, demos, uploads, deletion and evictions over one storage | `MCAccounts`, `AccountsProofs` |

`UploadImport` treats finalization as one commit and one folder replacement;
`UploadFinalize` is what happens inside it. `Processing` takes from an import
only the transaction that marks, creates and commits, the replacement of the
folders, and the start; `AlbumProcessing` is what happens inside one of its runs,
`Accounts` sees of an import and its processing only that folders and rows
appear. The modules are linked by these shared events rather than by one product
specification, which would be out of TLC's reach.

### UploadFinalize

One action per file-system call, test of the directory, or commit. `target`,
`backup[u]`, `source[u]` are directory trees `[data, whole, marker]`: whose
content it is, whether a removal (`rmtree`) has begun on it, and the content of
`.wanderbound-upload-id`. `result[u]`, `newest` are the rows. `pc[u]` is the
point in `_finalize_upload_session_locked` and `replace_folder_once`; `lock` is
the session's advisory lock, released by a crash. `TransientError` is an I/O error;
a failed step is retried up to `MaxAttempts`, and a retry that finds the
committed result goes directly to the folders, as the code does *without* the
lock. All uploads of an instance share a user and a trip, the interesting case:
uploads of different trips touch different folders. Posters and reconciliation
of metadata are points where an error can occur, their content is left out.

`SerialSpec` adds that finalizations do not overlap, which the per-user lock
guarantees until a step is repeated.

### UploadImport

`row[u]` is the `upload_session` row (with `expired`: its deadline has passed;
`ended`: how long ago it was completed, as far as the 7-day rule looks at it),
`store[u]` the object store's side, `disk[u]` the work tree, `op[u]` the
processing operation the import creates, `wf[u]` the workflow: its step, and
where the body is. Each step's body is split at its awaits and commits; `record`
is the instant between a step's effects and the recording of its outcome, where
a crash executes it again. `req[r]` is one request being handled: create,
complete, abort or select. What it read is in `seen`, what it writes is the
whole row's status, as the ORM does. `sweep` is the expiry loop's pass.
A failed call (`RequestError`, `StepError`) and `Crash` cost a fault each.

### Processing

`op[o]`, `events[o]` are the rows; `born[o]` is `created_at`, by which the latest
operation is chosen. `wf[o]` is the durable workflow: marking, loading, emitting
events, the guard, the save that is one transaction with the guard and the
status, the error path, the finish, and the failure handler. An error of the
transactions around the run, before it or after it, or of the failure handler's, ends
the workflow (`WorkflowDies`): DBOS records it and never executes it again. `fin` is a
finalization: it reads which operations there are, writes the user row or not
(`profile`, decided by the archive), and commits; then the folders are replaced
and the operation is started. `req[c]` is a stream, from the user lock to the
polling loop. Row locks are predicates over who has an uncommitted update
(`RequestHoldsUser`, `FinHoldsUser`). One finalization runs at a time here (what
overlapping ones do is the subject of `UploadFinalize`). What a run computes
is abstracted to the import whose folders it loaded.

Two history variables say what is not claimed: `missed` has the operations that a
request created between the marking and the commit of the latest import, which only
happens when the archive leaves the user row as it is, and `early` those that a stream
started between that commit and the replacement of the folders. Both kinds are in the
run; section 8 has what becomes of them.

### AlbumProcessing, AlbumLayout, PagePacking

`disk` is the set of media files, each with its folder (a step's, or the top) and
its shape (portrait, landscape, panorama, video: what a probe says); `meta` says
that `trip.json` and `locations.json` are still there. `db` is the album as one
value: chapters, steps with their pages of slots, unused media and cover, and the
media rows. `run` is a run in the order of `trip_pipeline.py`: load rows and
export, scan the step folders, then the tasks of `run_processing` (elevations,
weather, and layouts followed by the flattening in a first run), the queue's
sentinel and the drain, the flattening of an existing album's folder, the build
or the reconciliation, one saving transaction, and the removal of the metadata.
`thread` says that the run's flattening thread is at work. It moves one file per step,
and a file of the same name is overwritten.

An import may come at any point of a run (`ImportAgain`): finalization replaces the
folder and marks the operation stale, and nothing stops the run. What an overtaken
run still does in the folder is in `others`: a thread that flattens, or that a later
call of the run starts (`"flatten"`), and the removal of the metadata (`"cleanup"`). A
task that fails leaves its thread there as well. Such a thread moves files of the folder
that is there now (`OtherFlattens`), which the run of the new export may miss
(`"moved"`, `MissesFile`): then the run fails, or worse, finds step folders empty. The
overtaken run's rows are never saved, which is the guard of `Processing`. An import's
inputs lie in the album's folder too, so one that the folder is replaced under
writes no more files.

The editor is a tab that has read the album some time ago (`view`) and sends layouts
and chapters; a slot is known by its id and `replace_step_media_layout` decides its
priority. Chapters are validated in one read and stored by a later statement
(`patch`). `add` is an import of media: files are written one by one, then rows and
step in one shielded transaction; a Google stream may be left at any await.

`AlbumLayout` has the pure functions of these modules, each an operator with the
source's name; `PagePacking` is `layout/builder.py`, exactly. History variables
(`troubled`, `crossed`, `overtaken`, `withdrawn`) say under which circumstances a
property is claimed.

Abstracted: names are numbers in name order, so the widest portrait is the first
one; a probe never fails; texts, weather values and maps.

### AlbumPhoto

A file's content is a picture in its small or large version. `row` has what the
code keeps about it: the dimensions, the byte size (both as the content they were
measured of), the hash and the crop (as the picture they were computed or made for),
`upgrade_candidate` and a counter for `updated_at`. `snap` is the undo row and
`copy` its file. A replacement is: lock, copy, move, measure, commit; an undo:
lock and checks, move, commit. `up` is one upgrade: candidates read, file
replaced (or the item failed), row read, file measured, row written, without a lock
until the UPDATE itself; only the columns that differ from what was read are
written, as the ORM does. `hash` is the backfill: enqueued under an id of the row's
revision, select, stat, compare, compute, compare, conditional UPDATE. `prune` is
the pruner, whose DELETE by primary key waits for a replacement that has deleted the
same row.

Abstracted: panorama renders, video posters, several photos per upgrade or
backfill; a `FileIdentity` is the file's content (the real one has inode and
mtime too, so the model's comparison is weaker); a hash computation always
succeeds; one pruner stands for the loop and for the tasks after each
replacement. A crop is made for the picture in the file when it is validated.

### RoutePlan and RouteEnrichment

A trace is the sequence of its fixes' times; the traveller moves at unit speed, so
times also measure length. `RoutePlan` translates `services/mapbox.py`: which requests
a trace needs (directions for two fixes, overlapping chunks for more), when it is
refused without asking, the budget's `Reserve`, what an answer means, and how the
parts of a trace become one outcome. `RouteEnrichment` has the rows (`segs`), the
workflows (`wf[w]`: plan, match, asking, wrote or fallback, mark), the advisory lock
`locker`, `pending` starts that background tasks have yet to make, and `lost`: a
start or a workflow failed, and only a restart looks again. A workflow asks for rows
read under the lock and writes each outcome after reading the row again. The
boundary edit (`SplitSegments`) and another import change the rows meanwhile.

Abstracted: simplification of coordinates and the shift across the antimeridian,
the client's limiter and its retries below one attempt. A road that Mapbox returns
leads through fixes it was asked for, so that a road of other fixes shows; an answer with
one match may leave out the beginning or the end of its part (`head`, `tail` of an
answer: null tracepoints at the ends, or a geometry that misses one), which the code
takes for matched as long as two points are left, and joins in a straight line with
the parts around it.

### Artifacts

A stream makes one artifact. `pc[s]` is its generator: lease of the shared browser
(`Acquire`), queue for a render slot, load, print (once, or per chapter with `parts`
on the disk), store the token, tell, close. An export's generator drains a queue that
a thread fills; `stop` asks the thread to end. `row`, `expired`, `swept` are the token,
and the sweep of the loop that deletes files first and rows at its commit. `get[s]`
is the download: the row is deleted, then the file served. A client may leave at any
yield or await, and the clauses that run then are those of the code at that point;
`owned` is the local by which the `finally` clause decides whether to unlink.

### Accounts

`user` and `album` are rows, `older` the order of the albums' `last_active_at` (rows
saved together have no order among them), `media` the album folders with files, one unit
each, `staged` the folders in `.evictions`, `ev[e]` an eviction's locals: what it
resumes, the sizes it has measured, the albums it may remove and their order as it has
read them, what it has freed. A demo's row is committed before its copy; a deletion removes
the row, then the folder; an eviction removes albums one by one and a demo by rename,
commit, removal, with a crash or an error possible between any two. The removal of a
deleted account's folder ignores errors, so it may leave any part of it
(`RemoveFolder`); a removal or commit of an eviction that raises ends the eviction
(`EvictionFails`). `cut` collects users whose files in the users' folder a crash, a
failed copy or a removal has left to nobody, `pending` those whose staged folder a crash
or an error has left to the next eviction, which begins with them (`found`, `todo`).

## 4. The runs

`expect: pass` runs are exhaustive on the given instance. Deadlock checking is
off throughout because each system may stop: bounded faults and requests are
spent, and nobody has to send another request.

| Run | Instance | Shows |
|---|---|---|
| `finalize_faults` | 2 uploads of the same trip, first import, 3 attempts, 4 faults, fairness | `MarkerTellsContent`, `OneCopy`, `AtRest`, `AllSettle`, with overlapping finalizations |
| `finalize_serial` | 3 uploads over an old album, 4 faults, `SerialSpec` | `AlbumKept`, `NewestInPlace`, and that the folder implements `AlbumSwap` |
| `finalize_retry` | 2 uploads, 1 fault | violation: two finalizations of a user overlap (section 7) |
| `import_faults` | 1 upload, 2 requests, expiry loop, 1 fault, fairness | what terminal statuses promise, the archive while it is needed, and that a workflow ends |
| `import_admission` | 2 uploads, workspace for one, 2 requests, 1 fault, up to the choice | `AdmissionBound` |
| `processing_serial` | 3 operations, 1 stream at any time that may come back, 1 progress event, 1 import that changes the user row or not, 1 fault of any kind, fairness | `OneActive`, `SavedOnce`, `SucceededIsSaved`, `SavesLatestImport`, and of the stream `EventsGapFree`, `AllDelivered`, `OutcomeTold`, `StreamEnds` |
| `photo_calm` | 2 pictures in 2 versions, 1 request at a time, 2 changes of the row, 1 failure, fairness | `RowOfPicture`, `UndoRestores`, `HashArrives` |
| `album_edits` | 2 exports with 3 steps and 3 photos together, the second at any point, 2 added media, up to 2 edits and failures (of a task, the save or the server) together | `LayoutsReadable`, `FilesMatchRows`, `ChaptersCoverSteps`, `EveryPhotoPlaced`, `EditsSurvive` |
| `album_retry` | 1 export of 2 photos, 1 failed weather call | violation: the retry saves an album without photos (section 7) |
| `routes_edits` | 3 or 4 segments, 2 workflows, budget of 2 requests, chunks of 3 fixes, roads whole, late at the start or early at the end, 1 boundary edit or import, 2 attempts, 1 crash | `RouteOfPoints`, `AtRestResolved`, `BatchFits`, `OutcomeStays` |
| `artifacts` | 2 streams (two PDFs, a PDF with chapters or an export, chapters with an export), 1 slot, 2 chapters, 1 failure, fairness | `DeliveredHasFile`, `DownloadServes`, `Released`, `SettlesDown` |
| `accounts` | a real and a demo account with 2 albums each, storage for one, 2 evictions, 2 uploads, 1 crash, failed call or incomplete removal | `DeletedLeavesNothing`, `DemoWhole`, `EvictsInOrder` |

Why the bounds are enough to be interesting:

* Two uploads suffice for one finalization to overtake another; the third in
  `finalize_serial` makes a replaced content older than the last one, so that a
  wrong restore would show. Four faults allow a crash in each of two
  finalizations and again in their repetitions.
* Three operations are: one before the import, the import's, and one created by
  a request after a failure. With fewer, creation is blocked by the model and
  not by the code.
* Two requests at a time give every pair of complete, abort and select on a
  row. Races of two uploads exist only in the admission, which has its own run;
  its constraint cuts behaviours at the choice of trips and leaves the expiry
  loop out because `AdmissionBound` counts rows that have not ended and only the
  completion adds any.
* Two changes of a photo's row are a replacement and its undo, two replacements
  in a row, a replacement with a crop, or an upgrade with one of them. The row
  lock serialises requests, so one slot loses only the waiting.
* The two exports share a step, drop one, add one, drop a photo and change the
  pixels under a name; two steps share a photo name, so flattening overwrites. Two
  edits are an edit and one that was made on an older view of it, or an edit and
  an import of two files; two failures a run that fails and whose retry fails;
  `MaxEvents` bounds both together, so each pair of them occurs. The second export
  comes before, during and after any step of the first one's run, its retry, its
  thread and the edits.
* One progress event is enough for a repeated run to number it again, and for an
  event to come between the stream's reads.
* A budget of two requests and chunks of three fixes make one segment need a whole
  batch and another more than one; an edit between plan and match then decides
  whether a batch still fits. Two workflows are one that holds the lock and one that
  finds it taken.
* One slot with two streams is the contention; two chapters are a first and a later
  one. Two evictions are what two uploads start; one of them works with sizes that
  the other has made obsolete.
* Symmetry is used only in runs without liveness properties.

`MaxWrites`, `MaxImports`, `MaxEdits`, `MaxUploads` are bounds of the model.
`MaxFaults`, `MaxFailures` and `MaxCrashes` bound crashes and errors: properties that
are stated for behaviours without failures say so.

## 5. Fairness

Fairness is asserted only of steps the runtime takes by itself: a started
finalization step or workflow (DBOS executes and recovers it), the request
handlers already running, the expiry loop's pass, the polling loop of an open
stream, the upgrade once started, the hash reconciliation loop (it wakes on a
timer), the generator of an artifact's stream and its thread, the sweep of tokens,
and the passing of a token's time to live. Nothing is assumed of clients: no
fairness for creating, completing, choosing, cancelling, connecting, replacing,
cropping, leaving or downloading; only a download that has begun goes on. Faults are
bounded and unfair. Strong fairness is used where a lock is contended by others for
ever (`AlbumPhoto`: the UPDATE statements of upgrade and backfill; PostgreSQL's lock
queue grants them) and for the passing of the seven days after which the expiry loop
deletes an ended row (`Age` in `UploadImport`: time passes whatever else happens).

In `Artifacts` a print of a PDF ends, because the code bounds it by a timeout and the
wait for a slot too; the prints of a ZIP of chapters have no such bound, and none is
assumed: `SettlesDown` holds of PDFs and exports also when chapters hold the slot
for ever.

## 6. What is proved

Proofs hold for every value of the constants that meets the modules' `ASSUME`s:
any number of uploads, operations, streams, pictures, segments, accounts and faults.

**`UploadFinalizeProofs`**, from `FinalizeAssumption` and `AbsentAssumption`.

* `TypeCorrect`, `MarkerCorrect`: `Spec => []TypeOK`, `Spec => []MarkerTellsContent`.
  The marker property is not inductive: a folder comes back from a backup or in
  from an extracted trip, so the invariant `BaseInv` says the same of all
  backups (`Carried`) and that an extracted folder is whole, its upload's own,
  and marked before it is moved (`Sourced`).
* `AlbumNeverLost`: `SerialSpec => []AlbumKept`. `SerialInv` adds one
  finalization at a time and `Stages`: which folders exist at which point of
  the protocol. One lemma per kind of step.
* `FolderImplementsSwap`: `SerialSpec => SwapsOnce`, the refinement: initial
  state, and each step is the switch of `MoveIn` or a stutter. It needs that an
  upload that has arrived has no extracted folder left (`Consumed`), so that it
  cannot arrive twice.
* `CopiedNever`, `FolderAtRest`: `Spec => []OneCopy`, `Spec => []AtRest`, for any
  overlap of finalizations. `Apart` says that no two places of the disk, folder,
  backups and extracted trips, hold the same content; `OneCopy` alone counts places and
  says nothing of which. `Answered` is what keeps an album from being left aside: while no
  folder is in place, some finalization that has moved one aside has not ended
  (`Responsible`), and `Cleared` says in which order a success tidies up.
* `NewestWins`: `SerialSpec => []NewestInPlace`. `NewestOnly`: the only finalization
  under way is that of the current operation, whose own folder is in place from its
  move on.

**`UploadImportProofs`**, from `ImportAssumption`.

* `TypeCorrect`; `Finished`: `Spec => []FinishedLeavesNothing`; `Succeeded`:
  `Spec => []SucceededIsImported`. The invariant has, per upload, `UploadOK`: what
  row, store, work tree and workflow may be together at each step of the workflow,
  the re-execution of a step included; and per request, that one which was let
  through by a status it has read still finds that status's promises true when it
  writes.
* `ArchiveStays`: `Spec => []ArchiveWhileNeeded`, from `ArchiveInv`, which adds
  `StartOK` (before the workflow is started, an upload that is active or that a
  completion has stored is an object in the store, and no selection of it exists),
  `AloneOK` (while a completion looks at the object's size, after which it may delete
  it, nobody else relies on the upload) and `Fed` (each step of the workflow leaves the
  next one its archive). `AloneOK` is what makes the deletion for a wrong size safe:
  only the completion that closed the multipart upload gets there, and it does before
  any row is active.
* `AdmissionStays`: `Spec => []AdmissionBound`. Requests write back statuses that they
  have read long before, so the sum can grow outside the admission lock, except that
  it does not: `AdmissionInv` says that a row that has not ended is uploading or already
  counted (`RowOK`), that a request that goes on is about one that runs (`CallsOK`), and
  that between its check and its commit a completion holds the lock and what it has
  read, with its own size, is still within the workspace (`WithinOK`). The sum is a
  fold of the community modules; that its function exists, that it does not depend
  on the order in which it takes the uploads, and that it grows with the set, are
  lemmas of this module, each by a minimal counterexample.

**`ProcessingProofs`**, from `ProcessingAssumption`.

* `TypeCorrect` with `TypeInv = TypeOK /\ StreamRefers` (a stream past its
  creation refers to an operation that exists).
* `SavesOnce`, `SuccessIsSaved`: `SaveInv` adds per operation `Life(o)`: how often it
  has saved, given its status and where its workflow is, and `FinLocks`: the
  operation a finalization is creating is not yet anybody's. The save is
  counted with the status in one transaction, so a repeated run that finds a
  terminal status never reaches its save.
* `EndedIsFinal`: `Spec => EndedStays`, an action property from the same
  invariant.
* `NumbersWithoutGap`, `DeliversAll`: `Spec => []EventsGapFree`,
  `Spec => []AllDelivered`. `Numbered`: the stored numbers are an initial segment and
  the counter of a workflow, which a repeated run begins anew, never skips one.
  `Quiet`: an operation that has succeeded or failed stores nothing more, which is
  why the stream's last read, after it has seen the status, misses nothing.
  `Passed`: what a stream has passed on is what is stored up to its counter.
* `TellsOutcome`: `MaxFaults <= 1 => (Spec => []OutcomeTold)`. `Straight`: a run that
  nothing has interrupted counts the stored events, so its error gets a new number. With
  a second failure the repeated run's error is stored under a number that is taken
  (section 8): the condition is the code's, not the proof's.
* `OneIsActive`: `Spec => []OneActive`, without a condition. `Order`: of the operations
  that the latest import has not missed, what is queued or running is the latest;
  `UserRow`: a request that decides and an import that writes the user row exclude
  each other by it; `Decides`: a request that decides sees the latest operation. An
  import that leaves the user row unchanged locks nothing, and the operations that
  escape it are the `missed` ones.
* `SavesLatest`: `Spec => SavesLatestImport`. `Read`: between the commit of an import and
  its folder a run that has read anything is of an operation in `missed` or `early`;
  what a run has read otherwise comes from the latest import.

**`AlbumPhotoProofs`**, from `PhotoAssumption`.

* `TypeCorrect`, with `UpTyped`: what the upgrade's next step reads is there.
* `RowCorrect`, `UndoCorrect`: `Spec => []RowOfPicture`, `Spec => []UndoRestores`, both
  for `Overlap = FALSE`. `LockOK` says that only the lock's holder has a request and
  nobody during an upgrade. `RowOK` follows the row through every request and the
  upgrade, where file and row disagree between the move and the commit; `SnapOK` says
  the same of the snapshot and its file, whatever the pruner takes away; `HashOK`
  says why a hash that passes its conditional UPDATE is of the picture in the file:
  whoever has moved a file since the row was read has also changed `updated_at`
  before the lock is free.

**`RouteEnrichmentProofs`**, from `SegmentConstants` (an import's segments have a key each
and at least two fixes in time order; a boundary cannot cut off a piece without length),
the assumptions of `RoutePlan`, and that an answer leaves out some number of fixes at
either end of its part; any numbers, also all of them.

* `TypeCorrect`; `NobodyForgotten`: `Spec => []AtRestResolved`. `HolderAsks`: the lock
  belongs to a workflow that is asking; `SomebodyLooks`: while a segment waits for a
  road, a start is pending, a failure has been noted, or an active workflow will
  still plan. A workflow that finds the lock taken may end because the holder is such
  a workflow.
* `RoadsFollow`: `Spec => []RouteOfPoints`. `RowsInv` says of every row (`RowCorrect`) that
  its fixes are in order and span some time, that its route follows its fixes
  (`Follows`) when its status is `matched` and is empty otherwise, and that its key is its
  own: the key is how an outcome finds its row again. `PartIsPiece`: a part that is
  matched has a piece of two or more of the fixes it was asked about, without a hole.
  `RoadIsThrough` follows a trace through the road matching: the parts begin where the
  one before ends and cover the trace (`PartsOfTrace`), `Stitch` appends piece to piece
  (`StitchThrough`, by the least part where it would go wrong), and drops the first
  fix of each piece after the first one, whether or not it is the one the pieces
  share; so the road still rises, and jumps only where two parts meet (`SeamsOf`).
  `WriteOutcome`, which looks at the row's fixes again, gives it to no other row.
  `SplitIsCorrect` shows that the two pieces of a moved boundary are again such rows,
  under keys that differ.
* `OutcomesStay`: `Spec => OutcomeStays`, from the same invariant, one lemma per action:
  only a row that has no outcome is waiting, written or marked.
* `BatchesFit`: `Spec => []BatchFits`. `Admitted` says of a batch that its keys differ and
  that there is a run of the budget that grants each of its rows (`Planned`); `InOrder`
  that rows are read again in the order of the batch. A part of a batch is then granted by
  simulation (`AheadNext`): at each of its rows no less is left, and no more used, than
  the plan had at that row (`Richer`), the route that may exceed the target included.
* The folds over sequences that plan a batch, read it again, grant it, write its
  outcomes and join a road are recursive functions of the community modules. `FoldExists`
  and `FoldRuns` state for every sequence that such a function exists and how it
  goes on by one element, by a minimal counterexample.

**`ArtifactsProofs`**, from `ArtifactsAssumption`.

* `TypeCorrect`, `Delivered`, `Served`, `EndReleases`: `TypeOK`, `DeliveredHasFile`,
  `DownloadServes`, `Released`. The invariant is a statement per stream (`StreamOK`:
  token, file, who takes care of the file, the render's slot and lease, the
  export's thread) and `BrowserOK`; a step of one stream leaves every other one as it
  was (`Same`), so each action is looked at for one stream only.

**`AccountsProofs`**, from `AccountsAssumption`.

* `DemosWhole`: `Spec => []DemoWhole`; `DeletionComplete`:
  `Spec => []DeletedLeavesNothing`. A demo is copied once: whatever is staged, and whatever
  an eviction stages or resumes, is `Emptied` and stays so (`StagedOK`, `Holds`), so a
  folder in `.evictions` never belongs to a demo that is in use, and two evictions that
  hold the same demo do no more than one. `StagedOK` also says who is going to remove
  what is staged: the eviction that staged it, or the next one (`pending`), which has
  it in `found` and, until it is gone with its account, in `todo`. `FilesOwned` says that
  files without an account have somebody who removes them, or that an error, a crash or
  an import past its commit has left or brings them (`cut`).
* `LeastRecentGoFirst`: `Spec => []EvictsInOrder`, from `OrderInv`, whose part per
  eviction (`Turn`) is about that eviction's locals alone: the rows and the order it
  read are a copy, so nothing that happens meanwhile can disturb it, and only its own
  removals have to be looked at.

**`AlbumProcessingProofs`**, from `ExportsAssumption`: there is an export, and each has
finitely many steps and files. A media name is two UUIDs (`MediaName` in
`layout/media.py`, `_generated_name` in `media_import.py`), so within an export a name
stands for one photo or video, and no export has a name that an import generates. The
trip's cover is a photo (`cover_photo_path` in `models/polarsteps.py:81`), so a file of
its name is no video.

* `ChaptersWhole`: `Spec => []ChaptersCoverSteps`. The property of the rows alone is not
  inductive: a save writes what a run has built from what it had read before, and a tab
  stores chapters that were compared with the rows at another time. `IInv` therefore
  says the same of all copies: the rows, the tab, what the run has read, what it has
  built and the checked chapters are sequences of chapters without a step twice, and,
  until a save overtakes checked chapters, each but the tab's covers its steps.
  `NewStepsAssigned` and `FixedCovers` say what the reconciliation does to chapters,
  `EditedChapters` that splits and joins give chapters; that these still have every step
  once is what validation checks, so a tab as stale as it likes can do no harm.
  `AscendingIs` (a finite set of numbers in its order has each of them once) rests on
  ranks: the number of those below is an injection into as many places, so it is onto.
* `StepsReadable`: `Spec => []LayoutsReadable`. A tab may send the layout of a step as it
  was two uploads ago, and the server keeps the priorities it has for ids it knows, so
  "no two slots agree" has to hold of every album that can become the source of a
  write: the rows, the tab's copy, what a run has read and what it has built (`RInv`,
  each `AlbumReadable`; `MediaThere` says that their media have rows). That new slots
  differ from the old ones is `ReplacedIs` (they are numbered after the greatest
  priority that exists, by a rank that grows along the places, `RankGrows`) and
  `FreshIdIs`; that no page is empty is `BuildPagesAre` for the packing of new steps and
  `KeptPagesAre` for a reconciliation, which drops pages that lost all their photos; that
  what a reconciliation mentions is on disk, so that it gets a row, is `ReconciledIs` and
  `PickCoverIs`. Of a new step they need that the layout was built of the export's files:
  `DInv` has where these are, that no step of the run lacks its layout, and that the
  folder is flat from the build on, for the thread of another run too: once no file is
  left in a step's folder it has nothing to move.
* `FilesKept`: `Spec => []FilesMatchRows`. The property speaks of a run that is done, and
  of an album nobody adds to; `FInv` says what leads there. What a run has built matches
  the files before it is saved (`FirstBuilt`, `AgainBuilt`), and stays so while imports
  write files with names that nothing else has (`FImportOne`), commit (`FPersist`) and are
  given up (`FRemoved`). An added file has a row, or belongs to the import that is under
  way (`Adding`, `NoStray`); a save keeps the rows a run has read, and unless an import
  has committed meanwhile (`crossed`) these are all there are (`RunKnows`). A run that
  fails without trouble does not exist: its tasks end well (`TasksSound`). A file that
  another run's thread moves keeps its name and shape; media whose folder an import of
  an export replaces are `withdrawn`.
  The steps are two dozen, but most either let the run go on, leave files and media
  alone, or remove what an import wrote: `FRunGoesOn`, `FRowsChange`, `FRemoved`.
* `PhotosSaved`: `Spec => EveryPhotoPlaced`. `PInv` says what a run has seen of the export
  as long as nothing is `troubled`, which a failure of this export's run sets, and a file
  that an overtaken run's thread moves; stage by stage: until the folder is moved (`Early`) all its files are
  in the steps' folders, so a scan names them all and a layout has the media of its step;
  every medium of a layout is on a page or its cover (`LayoutPlaced`); the cover that was
  chosen is a photo of the export; and what waits to be saved is `Complete`. That no photo
  falls between two pages is `BuildPagesHas`, the converse of `BuildPagesAre`, down to
  the cut of the landscapes into fours and threes (`LandscapeCut`, `PagesOfHas`).
  `NewPlaced` follows a photo into a new step, `OldStepsAre` into a reconciled one,
  which has what the step mentioned and what was scanned, as far as it is on disk.
* `EditsKept`: `Spec => EditsSurvive`. `EInv`: unless something crossed, a run's copy
  of the album is the album, and what waits to be saved keeps it (`Keeps`). `KeptPagesAre`
  gives an embedding of the pages that are left into the old ones which respects the
  order of places (`EmbedsPages`), `KeptPagesHave` that no slot is lost besides; as ids
  differ, the embedding is the only one, so these are the same slots in the same order
  (`KeptSame`). Chapters only get longer at their ends (`ChaptersLonger`). Between build
  and save files come and go, but none that the album mentions (`EStays`).

So every safety property of a run that passes is a theorem.

**Only model-checked**:

* all liveness properties: `WF_`, `SF_` and `ENABLED` are outside the prover's reach;
* the two violations of section 7: `RetryKeepsMedia` of `AlbumProcessing` and the
  concurrent finalization are what the code does, so there is nothing to prove.

No module uses `RECURSIVE`.

## 7. Disagreements found

With a run:

* `finalize_retry`: a test is named *rejects a concurrent upload for the same
  user*; a step repeated after its commit goes to the folders without the lock,
  and another upload of the user finalizes beside it. The runs with overlapping
  finalizations show what still holds then.
* `album_retry`: a comment in `session.py:159-160` says that a session that ended in
  error is replaced with a fresh run so that the user can retry without uploading
  again. In a first run the media task flattens the folder, beside the weather
  call and before anything is saved; if that call fails, or the save, the retry is a
  first run again but finds no step folders, and succeeds with an album without
  photos.

Met while modelling, without a run of their own:

* `PRIVACY.md:53` promises that the ZIP is deleted from object storage after
  cancellation. If the store has completed the multipart upload and the request
  then fails before its commit, the row is still `uploading`; abort and expiry
  abort a multipart upload that no longer exists, take that for success, and leave
  the object.
* The docstring of `_persist_upgrade` (`upgrade.py:96`) says that drift after a failed
  commit heals with the next upgrade. The file that is skipped as not larger is not
  counted as replaced, and persist returns without reading anything.
* A boundary edit at the time of a shared fix keeps that fix twice when the two
  segments both had it; the duplicate time is refused (`mapbox.py:353-354`,
  `invalid_timestamps`), and the segment is recorded as failed for good.
* The docstring of `lifespan` in `pdf.py` (line 232) speaks of cleaning up the temporary
  directory; `TokenStore.lifespan` (`core/tokens.py:58-69`) only creates it, and a file
  that a previous process left without a row is never removed.
* `users.py:184` removes the folder of a deleted account with `ignore_errors=True`: what it
  meets an error at, or what a thread moves into a directory that was already listed, stays
  for ever, against the same promise as in the next point.
* Deleting an account while its import is past its commit: the replacement of the
  folders follows without a look at the account and brings the files back, against
  `PRIVACY.md`'s promise that deletion removes all files.

## 8. What does not hold, and why no run says so

Facts that TLC finds when the constants or the conditions are widened. The
repository promises nothing to the contrary, so they are no disagreements; the
properties are stated with the condition under which they hold.

Uploads and processing:

* `Processing`, an archive that leaves the user row unchanged: the finalization then locks
  nothing that a request waits for, and a request that has read a failed operation
  creates one beside the import's; two are active, and both may save. `OneActive`
  and `SavesLatestImport` except these operations (`missed`), by the interval in which
  they were created and not by what they do.
* `Processing`, a stream opened between the commit and the folder replacement, for which
  a reload of the upload page is enough (`UploadView.vue:52`): it starts the new operation
  on the old folders, which are then what is saved (`early`).
* `Processing`, an error of the database before the run (`workflows/processing.py:99-115`),
  after it (131-140) or in the failure handler: the workflow ends, DBOS does not execute
  it again, and the operation stays queued or running. The stream polls on, and each
  new one joins it, until another import. `StreamEnds` has this case as its second way.
* `Processing`, one crash and one error of a run: `OutcomeTold` fails. The repeated
  run numbers its events from 0 and stored events win. The stream of an operation
  that goes stale ends without an outcome, too.
* `UploadImport`: a crash between a commit and the start of the workflow, or between
  `inspect_upload`'s commit and its recording, leaves an active row, which reserves
  workspace until it is deleted. A choice that arrives late turns an ended row back
  to processing. A crash between the processing commit and the start of its workflow
  leaves an operation that only a client's stream starts.

Albums:

* `AlbumProcessing`: an import does not wait for a run that it overtakes. The run's
  flattening thread, or one it starts later, moves files of the new folder; when the
  next run has scanned the folder, and its layouts find step folders empty, it saves an
  album without photos and succeeds (`EveryPhotoPlaced` fails without `troubled`).
  If the overtaken run has already saved, its clean-up may remove the new export's
  metadata, and the next run fails. Media that are being added lose their files, and
  those already written may get rows.
* `AlbumProcessing`: edits made while a run is under way are overwritten by its save,
  and media added meanwhile lose their rows (`crossed`). Chapters stored after a save
  that came between their check and their statement may lack steps (`overtaken`).
  Steps that an upload has dropped stay in the chapters, so later saves of chapters
  are refused until the tab is opened again. A portrait that was the cover disappears
  from the album when another cover is chosen, until the next upload.
* A Google import that is left right after its commit deletes the files of committed
  rows (`withdrawn`).
* `AlbumPhoto`, `Overlap = TRUE`: a photo that is replaced or cropped while an
  upgrade downloads is overwritten with Google's version of the old picture; row,
  crop and file then disagree. The editor's dialog prevents it in one tab.
* `AlbumPhoto`: a replacement that reuses the path and key of an expired snapshot
  can lose its undo to a pruner that has read the expired one. `UndoRestores`
  speaks of snapshots that can still be restored.
* `AlbumPhoto` after a failure between a file move and the commit: the row
  describes the previous file until the next replacement.

Artifacts and accounts:

* `Artifacts`: a client that leaves right after the event of a ZIP of chapters loses
  the file behind its token; an export left by its client, or given up while its
  thread still waits to start, leaves its file to nobody (the cancellation is not
  caught). A print of chapters has no timeout and may hold its slot. A launch that
  fails after the browser died leaves leases without a browser, which is harmless.
* `Accounts`: an album opened or imported after the scan may be evicted, and two
  evictions at the same time may remove more than one would. A copy of fixtures that
  fails leaves the partial folder. A staged folder whose removal failed, its account
  gone or not, waits for the next upload's or new demo's eviction (the `cleanup` and
  `commit` cases of `test_eviction.py`), and one that belongs to the demo whose eviction
  this is, for the one after.
* Liveness holds for the stated number of faults; each further fault may cost another
  attempt, and attempts are finite.

## 9. Not modelled

See `components` in `PROJECT.json` for each part and its reason. In short:

* geometry, parsing and image work (spatial analysis, panorama projection, photo
  matching): pure functions over floating-point data without shared state;
* authentication, configuration, observability, HTTP transports; deployment and
  migrations; rendering in the browser;
* the in-memory `ProcessingSession`, which only runs without a database session;
* the frontend's undo stack and streams: their calls are the clients' actions of the
  modules;
* panoramas: a render is written and removed around a commit as an import's files are.

Left out inside modelled components: the claiming of a finished upload by a new
account, and uploads by demo accounts; the photos of an album other than the one of
`AlbumPhoto`; signing and listing of upload parts; texts, maps and colours of an album.

## 10. Plan

1. **UndoStack** (frontend): stack, replay, rollback, suspended replays; abstract
   specification: the server's state is the last acknowledged entry.
2. **Panoramas** as a further request of `AlbumPhoto`, with the render beside the crop.
3. Claiming of an upload by a new account, in `UploadImport` and `Accounts` together.

A safety property that comes with them gets its theorem, as all have now.
