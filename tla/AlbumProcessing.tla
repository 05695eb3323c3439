-------------------------- MODULE AlbumProcessing --------------------------
(***************************************************************************)
(* One album from its export on: a processing run (trip_pipeline.py,       *)
(* trip_processing.py, reconcile.py) reads the export's folders and the    *)
(* rows, moves the media to the top of the folder and writes all rows      *)
(* again, while the editor changes layouts and chapters (step_media.py,    *)
(* chapters.py) and adds media (media_import.py), requests fail and the    *)
(* server restarts.                                                        *)
(***************************************************************************)
EXTENDS AlbumLayout

CONSTANTS
    Exports,     \* the exports that are uploaded, in this order
    AddedMedia,  \* names of media the user adds
    Failures,    \* what may fail: subset of {"weather", "media", "save", "crash"}
    MaxFailures, \* bound: failures
    MaxEdits,    \* bound: edits and added media
    MaxEvents    \* bound: all of these together

\* There is an export to start with; steps and names are numbers, finitely many.
\* A name is made of two UUIDs: in an export it stands for one photo or video,
\* and no export has a name that is generated here.  A trip's cover is a photo.
ASSUME ExportsAssumption ==
    /\ Len(Exports) \in Nat \ {0}
    /\ AddedMedia \subseteq Nat \ {None}
    /\ \A e \in 1 .. Len(Exports) :
          LET steps == Exports[e].steps
          IN  /\ DOMAIN steps \subseteq Nat \ {0} /\ IsFiniteSet(DOMAIN steps)
              /\ \A s \in DOMAIN steps :
                    /\ IsFiniteSet(steps[s])
                    /\ {f.name : f \in steps[s]} \subseteq Nat \ (AddedMedia \cup {None})
              /\ \A s, t \in DOMAIN steps : \A f \in steps[s], g \in steps[t] :
                    f.name = g.name => f.shape = g.shape
              /\ \A s \in DOMAIN steps : \A f \in steps[s] :
                    f.name = Exports[e].cover => f.shape \in {"p", "l", "pano"}

VARIABLES
    export,    \* which export is in the folder
    disk,      \* the media files: folder (TopDir or a step), name, shape
    meta,      \* trip.json and locations.json are there
    db,        \* the album's rows
    view,      \* what a browser tab has read
    add,       \* the media being added: where the request is, what it has written
    patch,     \* chapters that were checked and are not stored yet
    run,       \* the processing run
    thread,    \* the run's thread that flattens the folder: "mine", or "none"
    others,    \* what threads and runs that nobody waits for may still do in the
               \* folder ("flatten", "cleanup"), and whether one has "moved" a file
    edits, failures,
    troubled,  \* history: since the upload a run has failed or crashed, or a
               \* thread nobody waits for has moved a file
    crossed,   \* history: a row, or its file, was changed after the run had read it
    overtaken, \* history: a run saved while checked chapters waited
    withdrawn  \* history: added media whose request was cancelled after its
               \* commit, or whose files an import has replaced with the folder

vars == <<export, disk, meta, db, view, add, patch, run, thread, others, edits, failures,
          troubled, crossed, overtaken, withdrawn>>
editor == <<view, add, patch, edits, withdrawn>>

NoAlbum == [exists |-> FALSE, chapters |-> <<>>, steps |-> <<>>, media |-> <<>>]

TopDir == 0

NoAdd == [pc |-> "none", via |-> "device", step |-> 0, more |-> 0, written |-> <<>>]

NoRun == [pc |-> "idle", old |-> NoAlbum, scan |-> <<>>, tasks |-> <<>>, layouts |-> <<>>,
          sentinel |-> FALSE, cover |-> None, result |-> NoAlbum]

Top == {f \in disk : f.dir = TopDir}

TripSteps == DOMAIN Exports[export].steps

ExportFiles(e) ==
    UNION {{[dir |-> s, name |-> f.name, shape |-> f.shape] : f \in Exports[e].steps[s]} :
             s \in DOMAIN Exports[e].steps}

NewSteps == TripSteps \ DOMAIN run.old.steps

Init ==
    /\ export = 1
    /\ disk = ExportFiles(1)
    /\ meta = TRUE
    /\ db = NoAlbum
    /\ view = NoAlbum
    /\ add = NoAdd
    /\ patch = <<>>
    /\ run = NoRun
    /\ thread = "none"
    /\ others = {}
    /\ edits = 0
    /\ failures = 0
    /\ troubled = FALSE
    /\ crossed = FALSE
    /\ overtaken = FALSE
    /\ withdrawn = {}

\* What a run that an import overtakes may still do in the folder: nothing
\* stops it before its save is refused, or before it has cleaned up.
LeftBehind ==
    (IF run.pc \in {"idle", "scan", "phases", "prepare", "flatten"} THEN {"flatten"} ELSE {})
      \cup (IF run.pc = "cleanup" THEN {"cleanup"} ELSE {})

\* Finalization puts the next export in the place of the folder and marks the
\* operation stale, whatever its run is doing; media being added lose their files.
ImportAgain ==
    /\ export < Len(Exports)
    /\ export' = export + 1
    /\ disk' = ExportFiles(export + 1)
    /\ meta' = TRUE
    /\ run' = NoRun
    /\ thread' = "none"
    /\ others' = (others \ {"moved"}) \cup LeftBehind
    /\ troubled' = FALSE
    /\ withdrawn' = withdrawn \cup ToSet(add.written)
    /\ UNCHANGED <<db, view, add, patch, edits, failures, crossed, overtaken>>

-----------------------------------------------------------------------------
(* The run: reading *)

\* _load_existing and load_trip_data; a failed operation is run again as a new one.
LoadTrip ==
    /\ run.pc \in {"idle", "failed"}
    /\ run' = IF meta THEN [NoRun EXCEPT !.pc = "scan", !.old = db]
              ELSE [NoRun EXCEPT !.pc = "failed"]
    /\ troubled' = (troubled \/ ~meta)
    /\ crossed' = FALSE
    /\ others' = others \ {"moved"}
    /\ UNCHANGED <<export, disk, meta, db, editor, thread, failures, overtaken>>

\* Which media each step's folders hold; then the phases start for the steps
\* that are new, all of them in a first run.
ScanSteps ==
    /\ run.pc = "scan"
    /\ run' = [run EXCEPT
          !.scan = [s \in TripSteps |-> {f.name : f \in FolderMedia(disk, s)}],
          !.pc = IF NewSteps = {} THEN "prepare" ELSE "phases",
          !.tasks = [elevations |-> "run", weather |-> "run", media |-> "run"]]
    /\ UNCHANGED <<export, disk, meta, db, editor, thread, others, failures, troubled,
                   crossed, overtaken>>

-----------------------------------------------------------------------------
(* The run: three tasks and a queue *)

FetchElevations ==
    /\ run.pc = "phases" /\ run.tasks.elevations = "run"
    /\ run' = [run EXCEPT !.tasks.elevations = "done"]
    /\ UNCHANGED <<export, disk, meta, db, editor, thread, others, failures, troubled,
                   crossed, overtaken>>

FetchWeather ==
    /\ run.pc = "phases" /\ run.tasks.weather = "run"
    /\ run' = [run EXCEPT !.tasks.weather = "done"]
    /\ UNCHANGED <<export, disk, meta, db, editor, thread, others, failures, troubled,
                   crossed, overtaken>>

\* Layouts are built one by one, in any order.
FetchLayout(s) ==
    /\ run.pc = "phases" /\ run.tasks.media = "run"
    /\ s \in NewSteps \ DOMAIN run.layouts
    /\ run' = [run EXCEPT !.layouts = [t \in DOMAIN @ \cup {s} |->
                  IF t = s THEN BuildStepLayout(FolderMedia(disk, s)) ELSE @[t]]]
    /\ UNCHANGED <<export, disk, meta, db, editor, thread, others, failures, troubled,
                   crossed, overtaken>>

\* Mutant: the folder is flattened while layouts are still being built.
LayoutsDone_Early ==
    /\ run.pc = "phases" /\ run.tasks.media = "run"
    /\ run.layouts # <<>>
    /\ IF run.old.exists
       THEN /\ run' = [run EXCEPT !.tasks.media = "done"]
            /\ UNCHANGED thread
       ELSE /\ thread' = "mine"
            /\ run' = [run EXCEPT !.tasks.media = "flatten", !.layouts =
                          [s \in NewSteps |-> IF s \in DOMAIN @ THEN @[s] ELSE BuildStepLayout({})]]
    /\ UNCHANGED <<export, disk, meta, db, editor, others, failures, troubled, crossed, overtaken>>

\* In a first run the media task goes on with the flattening.
LayoutsDone ==
    /\ run.pc = "phases" /\ run.tasks.media = "run"
    /\ DOMAIN run.layouts = NewSteps
    /\ IF run.old.exists
       THEN /\ run' = [run EXCEPT !.tasks.media = "done"]
            /\ UNCHANGED thread
       ELSE /\ run' = [run EXCEPT !.tasks.media = "flatten"]
            /\ thread' = "mine"
    /\ UNCHANGED <<export, disk, meta, db, editor, others, failures, troubled, crossed, overtaken>>

\* flatten_media moves one file; one of the same name is overwritten.
MoveFile ==
    \E f \in disk \ Top :
        disk' = {g \in disk \ {f} : g.dir # TopDir \/ g.name # f.name}
                  \cup {[f EXCEPT !.dir = TopDir]}

FlattenFile ==
    /\ thread = "mine"
    /\ MoveFile
    /\ UNCHANGED <<export, meta, db, editor, run, thread, others, failures, troubled, crossed,
                   overtaken>>

\* The thread ends, and with it what waits for it; the cover is chosen.
FlattenEnds ==
    /\ thread = "mine" /\ disk = Top
    /\ thread' = "none"
    /\ \E cover \in PreparedCovers(Top, Exports[export].cover) :
          run' = IF run.pc = "phases" THEN [run EXCEPT !.tasks.media = "done", !.cover = cover]
                 ELSE [run EXCEPT !.pc = "build", !.cover = cover]
    /\ UNCHANGED <<export, disk, meta, db, editor, others, failures, troubled, crossed, overtaken>>

Fails(kind) ==
    /\ kind \in Failures
    /\ failures < MaxFailures /\ edits + failures < MaxEvents
    /\ failures' = failures + 1
    /\ troubled' = TRUE

\* A file has been moved by somebody else between its listing and its use.
MissesFile ==
    /\ "moved" \in others
    /\ troubled' = TRUE
    /\ UNCHANGED failures

\* A task raises; the group cancels the others, but not a thread.
TaskFails(task) ==
    /\ Fails(task) \/ (task = "media" /\ MissesFile)
    /\ run.pc = "phases" /\ run.tasks[task] \in {"run", "flatten"}
    /\ run' = [run EXCEPT !.tasks = [t \in DOMAIN @ |->
                  CASE t = task -> "failed" [] @[t] = "done" -> "done" [] OTHER -> "cancelled"]]
    /\ thread' = "none"
    /\ others' = others \cup (IF thread = "mine" THEN {"flatten"} ELSE {})
    /\ UNCHANGED <<export, disk, meta, db, editor, crossed, overtaken>>

\* The thread of an existing album's run raises, and with it the run.
FlattenFails ==
    /\ Fails("media") \/ MissesFile
    /\ run.pc = "flatten"
    /\ run' = [NoRun EXCEPT !.pc = "failed"]
    /\ thread' = "none"
    /\ UNCHANGED <<export, disk, meta, db, editor, others, crossed, overtaken>>

\* A thread that a failed run has left, or of a run that an import has
\* overtaken, moves a file of the folder that is there now ...
OtherFlattens ==
    /\ "flatten" \in others
    /\ MoveFile
    /\ others' = others \cup {"moved"}
    /\ troubled' = TRUE
    /\ UNCHANGED <<export, meta, db, editor, run, thread, failures, crossed, overtaken>>

\* ... or ends: it finds no more files, misses one, or its run is refused.
OtherEnds ==
    /\ "flatten" \in others
    /\ others' = others \ {"flatten"}
    /\ UNCHANGED <<export, disk, meta, db, editor, run, thread, failures, troubled, crossed,
                   overtaken>>

\* A run that has saved before the import cleans up behind it.
OtherCleansUp ==
    /\ "cleanup" \in others
    /\ others' = others \ {"cleanup"}
    /\ meta' = FALSE
    /\ UNCHANGED <<export, disk, db, editor, run, thread, failures, troubled, crossed,
                   overtaken>>

\* The finally clause of _phases: the group is over, and the queue is closed.
PhasesEnd ==
    /\ run.pc = "phases" /\ ~run.sentinel
    /\ \A t \in DOMAIN run.tasks : run.tasks[t] \notin {"run", "flatten"}
    /\ run' = [run EXCEPT !.sentinel = TRUE]
    /\ UNCHANGED <<export, disk, meta, db, editor, thread, others, failures, troubled,
                   crossed, overtaken>>

\* drain_queue ends and the runner's outcome is awaited.
DrainQueue ==
    /\ run.pc = "phases" /\ run.sentinel
    /\ run' = [run EXCEPT !.pc = IF \E t \in DOMAIN run.tasks : run.tasks[t] # "done" THEN "failed"
                                ELSE IF run.old.exists THEN "prepare" ELSE "build"]
    /\ UNCHANGED <<export, disk, meta, db, editor, thread, others, failures, troubled,
                   crossed, overtaken>>

\* An existing album's folder is flattened when the new steps have their layouts.
PrepareMedia ==
    /\ run.pc = "prepare"
    /\ run' = [run EXCEPT !.pc = "flatten"]
    /\ thread' = "mine"
    /\ UNCHANGED <<export, disk, meta, db, editor, others, failures, troubled, crossed, overtaken>>

-----------------------------------------------------------------------------
(* The run: building and saving *)

\* An id nobody has used.
FreshId == 1 + Max({0} \cup UNION {SlotIds(a.steps) : a \in {db, view, run.old}})

BuiltSteps == [s \in NewSteps |-> NewStep(run.layouts[s], FreshId)]

\* build_trip_objects: one chapter with every step.
BuildTripObjects ==
    LET files == UNION {run.layouts[s].media : s \in TripSteps}
    IN  [exists |-> TRUE,
         chapters |-> <<[steps |-> Ascending(TripSteps), front |-> run.cover, back |-> run.cover]>>,
         steps |-> BuiltSteps,
         media |-> MediaRows(files, {f.name : f \in files})]

\* _probe_media: what the steps mention, and the old rows that still have a file.
ProbedNames(steps, retained) ==
    retained \cup UNION {LayoutNames(steps[s]) : s \in DOMAIN steps}

\* reconcile_trip from its fourth phase on: the steps of the export, their
\* media as the files are now, and the album's chapters.
ReconcileTrip ==
    LET old == run.old
        onDisk == {f.name : f \in Top}
        steps == [s \in TripSteps |->
                    IF s \in NewSteps THEN BuiltSteps[s]
                    ELSE ReconcileStep(old.steps[s], run.scan[s], onDisk, old.media)]
        rows == MediaRows(Top, ProbedNames(steps, DOMAIN old.media \cap onDisk))
        eligible == EligibleCovers(rows)
    IN  {[exists |-> TRUE,
          chapters |-> FixAlbumCovers(AssignNewSteps(old.chapters, NewSteps), eligible, fallback),
          steps |-> steps, media |-> rows] :
         fallback \in CoverFallbacks(eligible, run.cover, steps)}

BuildObjects ==
    /\ run.pc = "build"
    /\ \E result \in (IF run.old.exists THEN ReconcileTrip ELSE {BuildTripObjects}) :
          run' = [NoRun EXCEPT !.pc = "save", !.old = run.old, !.result = result]
    /\ UNCHANGED <<export, disk, meta, db, editor, thread, others, failures, troubled,
                   crossed, overtaken>>

\* One transaction writes the rows of the run; those of an album that exists
\* are deleted first.
Saved ==
    /\ run.pc = "save"
    /\ db' = run.result
    /\ run' = [NoRun EXCEPT !.pc = "cleanup"]
    /\ overtaken' = (overtaken \/ patch # <<>>)
    /\ UNCHANGED <<export, disk, meta, editor, thread, others, failures, troubled, crossed>>

SaveNew == ~run.old.exists /\ Saved

SaveReupload == run.old.exists /\ Saved

SaveFails ==
    /\ Fails("save")
    /\ run.pc = "save"
    /\ run' = [NoRun EXCEPT !.pc = "failed"]
    /\ UNCHANGED <<export, disk, meta, db, editor, thread, others, crossed, overtaken>>

CleanupMetadata ==
    /\ run.pc = "cleanup"
    /\ meta' = FALSE
    /\ run' = [NoRun EXCEPT !.pc = "done"]
    /\ UNCHANGED <<export, disk, db, editor, thread, others, failures, troubled, crossed, overtaken>>

\* The workflow runs again, unless its operation has succeeded with the save.
Crash ==
    /\ Fails("crash")
    /\ \/ run.pc \notin {"idle", "done", "failed"} \/ others # {}
       \/ add # NoAdd \/ patch # <<>>
    /\ run' = [NoRun EXCEPT !.pc = CASE run.pc = "cleanup" -> "done"
                                     [] run.pc \in {"done", "failed"} -> run.pc
                                     [] OTHER -> "idle"]
    /\ thread' = "none"
    /\ others' = {}
    /\ add' = NoAdd
    /\ patch' = <<>>
    /\ UNCHANGED <<export, disk, meta, db, view, edits, crossed, overtaken, withdrawn>>

-----------------------------------------------------------------------------
(* The editor *)

OpenAlbum ==
    /\ db.exists
    /\ view # db
    /\ view' = db
    /\ UNCHANGED <<export, disk, meta, db, add, patch, run, thread, others, edits, failures,
                   troubled, crossed, overtaken, withdrawn>>

\* What a tab may send: a photo put aside, an unused one placed on a page of
\* its own, another cover, or a text beside the first photo.
LayoutEdits(step) ==
    {[step EXCEPT !.pages = KeptPages(@, SlotsOn(@) \ {slot}), !.unused = Append(@, slot.name)] :
        slot \in {s \in SlotsOn(step.pages) : s.name # Text}}
    \cup {[step EXCEPT !.unused = Kept(@, ToSet(@) \ {name}),
                       !.pages = <<<<Slot(FreshId, name, 0)>>>> \o @] : name \in ToSet(step.unused)}
    \cup {[step EXCEPT !.cover = name] : name \in LayoutNames(step) \ {step.cover}}
    \cup {[step EXCEPT !.pages[1] = Append(@, Slot(FreshId, Text, 0))] :
            i \in {1} \cap DOMAIN step.pages}

Edited ==
    /\ edits < MaxEdits /\ edits + failures < MaxEvents
    /\ edits' = edits + 1
    /\ crossed' = (crossed \/ run.old.exists)

\* _validate_media_names: every medium the layout mentions is the album's.
MediaNamesKnown(layout) == LayoutNames(layout) \subseteq DOMAIN db.media

\* Mutant: the names are not looked up.
EditLayout_Unchecked ==
    /\ Edited
    /\ \E s \in DOMAIN view.steps \cap DOMAIN db.steps, layout \in UNION {LayoutEdits(view.steps[t]) : t \in DOMAIN view.steps} :
          /\ layout \in LayoutEdits(view.steps[s])
          /\ db' = [db EXCEPT !.steps[s] = ReplaceStepMediaLayout(@, layout)]
          /\ view' = [view EXCEPT !.steps[s] = db'.steps[s]]
    /\ UNCHANGED <<export, disk, meta, add, patch, run, thread, others, failures, troubled, overtaken, withdrawn>>

\* The layout is replaced if its media are the album's; the answer is read back.
EditLayout ==
    /\ Edited
    /\ \E s \in DOMAIN view.steps \cap DOMAIN db.steps : \E layout \in LayoutEdits(view.steps[s]) :
          /\ MediaNamesKnown(layout)
          /\ db' = [db EXCEPT !.steps[s] = ReplaceStepMediaLayout(@, layout)]
          /\ view' = [view EXCEPT !.steps[s] = db'.steps[s]]
    /\ UNCHANGED <<export, disk, meta, add, patch, run, thread, others, failures, troubled, overtaken, withdrawn>>

\* A chapter cut in two, or joined with the next.
ChapterEdits(chapters) ==
    LET split(i, k) == SubSeq(chapters, 1, i - 1)
            \o <<[chapters[i] EXCEPT !.steps = SubSeq(@, 1, k)],
                 [chapters[i] EXCEPT !.steps = SubSeq(@, k + 1, Len(@))]>>
            \o SubSeq(chapters, i + 1, Len(chapters))
        join(i) == SubSeq(chapters, 1, i - 1)
            \o <<[chapters[i] EXCEPT !.steps = @ \o chapters[i + 1].steps]>>
            \o SubSeq(chapters, i + 2, Len(chapters))
    IN  {join(i) : i \in 1 .. Len(chapters) - 1}
        \cup UNION {{split(i, k) : k \in 1 .. Len(chapters[i].steps) - 1} : i \in DOMAIN chapters}

\* Mutant: the chapters are not compared with the steps.
ValidateChapters_Unchecked ==
    /\ patch = <<>>
    /\ edits < MaxEdits /\ edits + failures < MaxEvents
    /\ edits' = edits + 1
    /\ db.exists
    /\ patch' \in ChapterEdits(view.chapters)
    /\ UNCHANGED <<export, disk, meta, db, view, add, run, thread, others, failures,
                   troubled, crossed, overtaken, withdrawn>>

\* validate_album_chapters reads the steps ...
ValidateChapters ==
    /\ patch = <<>>
    /\ edits < MaxEdits /\ edits + failures < MaxEvents
    /\ edits' = edits + 1
    /\ db.exists
    /\ patch' \in {chapters \in ChapterEdits(view.chapters) :
                      ChaptersValid(chapters, DOMAIN db.steps)}
    /\ UNCHANGED <<export, disk, meta, db, view, add, run, thread, others, failures,
                   troubled, crossed, overtaken, withdrawn>>

\* ... and update_album_settings then stores the chapters, whatever is there by now.
UpdateAlbum ==
    /\ patch # <<>>
    /\ db' = [db EXCEPT !.chapters = patch]
    /\ view' = [view EXCEPT !.chapters = patch]
    /\ patch' = <<>>
    /\ crossed' = (crossed \/ run.old.exists)
    /\ UNCHANGED <<export, disk, meta, add, run, thread, others, edits, failures, troubled, overtaken, withdrawn>>

-----------------------------------------------------------------------------
(* Added media: add_device, or the stream add_google_media *)

\* _generated_name: one that no file and no row has.
FreshNames ==
    AddedMedia \ ({f.name : f \in disk} \cup withdrawn
                    \cup UNION {DOMAIN a.media : a \in {db, view, run.old, run.result}})

\* validate_import_target: a step that is there, of those the tab shows.
ImportTargets == DOMAIN view.steps \cap DOMAIN db.steps

\* The target is looked up before the inputs are received or downloaded.
StartImport ==
    /\ add = NoAdd
    /\ edits < MaxEdits /\ edits + failures < MaxEvents
    /\ edits' = edits + 1
    /\ \E s \in ImportTargets, files \in 1 .. Cardinality(FreshNames),
          via \in {"device", "google"} :
          add' = [pc |-> "process", via |-> via, step |-> s, more |-> files, written |-> <<>>]
    /\ UNCHANGED <<export, disk, meta, db, view, patch, run, thread, others, failures, troubled,
                   crossed, overtaken, withdrawn>>

\* _import_one: a photo or a video, written into the album's folder, where its
\* input lies as well: an import between two inputs has removed that.
ImportOne ==
    /\ add.pc = "process" /\ add.more > 0 /\ FreshNames # {}
    /\ ToSet(add.written) \cap withdrawn = {}
    /\ LET name == CHOOSE n \in FreshNames : TRUE
       IN  /\ disk' = disk \cup {[dir |-> TopDir, name |-> name, shape |-> "l"]}
           /\ add' = [add EXCEPT !.more = @ - 1, !.written = Append(@, name)]
    /\ UNCHANGED <<export, meta, db, view, patch, run, thread, others, edits, failures, troubled,
                   crossed, overtaken, withdrawn>>

\* cleanup_imported_paths
CleanupImported == disk' = {f \in disk : f.name \notin ToSet(add.written)}

\* Mutant: only the input that fails is cleaned up.
ImportFails_OwnOnly ==
    /\ add.pc = "process" /\ add.more > 0
    /\ add' = NoAdd
    /\ UNCHANGED <<export, disk, meta, db, view, patch, run, thread, others, edits, failures, troubled,
                   crossed, overtaken, withdrawn>>

\* An input is too large, corrupt, or cannot be downloaded.
ImportFails ==
    /\ add.pc = "process" /\ add.more > 0
    /\ add' = NoAdd
    /\ CleanupImported
    /\ UNCHANGED <<export, meta, db, view, patch, run, thread, others, edits, failures, troubled,
                   crossed, overtaken, withdrawn>>

\* Rows and step in one transaction; if the step is gone the files are removed.
\* Google's stream has still to close its session and to tell the client.
PersistImportedMedia ==
    /\ add.pc = "process" /\ add.more = 0
    /\ IF add.step \in DOMAIN db.steps
       THEN /\ db' = [db EXCEPT !.media = [n \in ToSet(add.written) \cup DOMAIN @ |->
                                              IF n \in ToSet(add.written) THEN "l" ELSE @[n]],
                                !.steps[add.step] = PrependUnused(@, add.written)]
            /\ crossed' = (crossed \/ run.old.exists)
            /\ add' = IF add.via = "google" THEN [add EXCEPT !.pc = "committed"] ELSE NoAdd
            /\ UNCHANGED disk
       ELSE /\ CleanupImported
            /\ add' = NoAdd
            /\ UNCHANGED <<db, crossed>>
    /\ UNCHANGED <<export, meta, view, patch, run, thread, others, edits, failures, troubled,
                   overtaken, withdrawn>>

ImportCompleted ==
    /\ add.pc = "committed"
    /\ add' = NoAdd
    /\ UNCHANGED <<export, disk, meta, db, view, patch, run, thread, others, edits, failures, troubled,
                   crossed, overtaken, withdrawn>>

\* The client of the stream disconnects.  The commit is shielded, the end of
\* the session behind it is not: then the files of committed rows are removed.
CancelImport ==
    /\ add.pc # "none" /\ add.via = "google"
    /\ add' = NoAdd
    /\ CleanupImported
    /\ withdrawn' = withdrawn \cup (IF add.pc = "committed" THEN ToSet(add.written) ELSE {})
    /\ crossed' = (crossed \/ (add.pc = "committed" /\ run.old.exists))
    /\ UNCHANGED <<export, meta, db, view, patch, run, thread, others, edits, failures, troubled,
                   overtaken>>

-----------------------------------------------------------------------------

RunStep ==
    \/ LoadTrip \/ ScanSteps \/ FetchElevations \/ FetchWeather
    \/ (\E s \in TripSteps : FetchLayout(s)) \/ LayoutsDone \/ FlattenFile \/ FlattenEnds
    \/ PhasesEnd \/ DrainQueue \/ PrepareMedia \/ BuildObjects \/ SaveNew \/ SaveReupload
    \/ CleanupMetadata

EditorStep ==
    \/ OpenAlbum \/ EditLayout \/ ValidateChapters \/ UpdateAlbum \/ StartImport
    \/ ImportOne \/ ImportFails \/ PersistImportedMedia \/ ImportCompleted \/ CancelImport

OtherStep == OtherFlattens \/ OtherEnds \/ OtherCleansUp

Next ==
    \/ RunStep \/ EditorStep \/ OtherStep \/ ImportAgain
    \/ FlattenFails \/ SaveFails \/ Crash
    \/ \E task \in {"weather", "media"} : TaskFails(task)

Spec == Init /\ [][Next]_vars

-----------------------------------------------------------------------------
(* Properties *)

\* Every saved step can be read back: its media have rows, no page is empty,
\* and its slots differ in id and in priority, whatever tabs with old data and
\* repeated uploads have made of it.
LayoutsReadable ==
    \A s \in DOMAIN db.steps :
        LET pages == db.steps[s].pages
        IN  /\ LayoutNames(db.steps[s]) \subseteq DOMAIN db.media
            /\ \A i \in DOMAIN pages : pages[i] # <<>>
            /\ \A x, y \in Places(pages) : x # y =>
                  /\ At(pages, x).id # At(pages, y).id
                  /\ At(pages, x).priority # At(pages, y).priority

\* After a run that succeeded, until the next upload, a row has its file at the
\* top of the folder, and its shape is the file's; retries, crashes, threads
\* left behind, edits and added media change nothing about it.  Only media lose
\* their files that were being added when an import replaced the folder, or that
\* a client leaves right after Google's import has committed them.  And a medium that
\* was added has a row or no file, once nobody is adding: several inputs go in
\* or none does; only a crash, or a run that had read the rows before, may
\* leave a file without one.
FilesMatchRows ==
    /\ run.pc = "done" => \A name \in DOMAIN db.media \ withdrawn :
           \E f \in Top : f.name = name /\ f.shape = db.media[name]
    /\ (add = NoAdd /\ ~troubled /\ ~crossed) =>
           \A f \in disk : f.name \in AddedMedia => f.name \in DOMAIN db.media

\* A run saves every file of the export: it has a row and is on a page, unused or
\* the cover of some step, and every cover of a chapter is a photo of the album
\* that is no panorama.  That holds after imports at any point of earlier runs,
\* unless this export's run has failed, or a thread that an overtaken run left
\* has moved a file of the new folder.
EveryPhotoPlaced ==
    [][(run.pc = "save" /\ run'.pc = "cleanup" /\ ~troubled) =>
         /\ \A f \in ExportFiles(export) :
               /\ f.name \in DOMAIN db'.media
               /\ \E s \in DOMAIN db'.steps : f.name \in LayoutNames(db'.steps[s])
         /\ \A i \in DOMAIN db'.chapters :
               {db'.chapters[i].front, db'.chapters[i].back} \subseteq
                   EligibleCovers(db'.media) \cup {None}]_vars

\* Every step of the album is in exactly one chapter, once, whatever steps an
\* upload adds or drops and however stale the chapters are that a tab sends,
\* as long as no run saves between a request's check and its commit.
ChaptersCoverSteps ==
    ~overtaken => NoDuplicates(db.chapters) /\ DOMAIN db.steps \subseteq Assigned(db.chapters)

\* A run that no edit crosses keeps what the user made: of a step that is still
\* in the export, every text and every photo whose file is still there keep
\* their slots in their order, and the steps keep their chapters.
EditsSurvive ==
    [][(run.pc = "save" /\ run'.pc = "cleanup" /\ ~crossed) =>
         LET there(pages) == {slot \in SlotsOn(pages) : slot.name = Text \/ \E f \in Top : f.name = slot.name}
         IN  /\ \A s \in DOMAIN db.steps \cap DOMAIN db'.steps :
                  SameSlots(db'.steps[s].pages, db.steps[s].pages, there(db.steps[s].pages))
             /\ \A i \in DOMAIN db.chapters : IsPrefix(db.chapters[i].steps, db'.chapters[i].steps)]_vars

\* A run that succeeds after a failed one has lost nothing of the upload.
RetryKeepsMedia ==
    run.pc = "cleanup" => \A f \in ExportFiles(export) : f.name \in DOMAIN db.media
=============================================================================
