--------------------------- MODULE UploadFinalize ---------------------------
(***************************************************************************)
(* The finalization of uploads that import the same trip of the same user: *)
(* finalize_upload_session (the per-user advisory lock and the one         *)
(* database commit) and replace_folder_once (the rename protocol on the    *)
(* trip's folder), run as the durable step finalize_upload, which is       *)
(* executed at least once: a crash or an exception starts it again.        *)
(*                                                                         *)
(* One action is one file-system call, one commit or one test of the       *)
(* directory; other finalizations and crashes come in between.             *)
(***************************************************************************)
EXTENDS Naturals, FiniteSets

CONSTANTS
  Uploads,      \* the uploads, all of one user and with one trip in common
  Old,          \* the album content that is on disk before any of them
  Nobody,       \* "no holder" of the lock, "no operation yet"
  Absent,       \* a path that does not exist
  HadAlbum,     \* the user had this album before
  MaxAttempts,  \* attempts of the step before its exception is final
  MaxFaults     \* bound: crashes and transient I/O errors in a behaviour

ASSUME FinalizeAssumption ==
  /\ Old \notin Uploads
  /\ Nobody \notin Uploads
  /\ HadAlbum \in BOOLEAN
  /\ MaxAttempts \in Nat \ {0}
  /\ MaxFaults \in Nat

\* A directory tree: whose content it is, whether a removal has begun on it,
\* and the upload its .wanderbound-upload-id file names.
Tree(data, marker) == [data |-> data, whole |-> TRUE, marker |-> marker]

Trees == [data : Uploads \cup {Old}, whole : BOOLEAN,
          marker : Uploads \cup {Nobody}]

ASSUME AbsentAssumption == Absent \notin Trees

VARIABLES
  target,     \* the trip's folder under the user's trips folder
  backup,     \* backup[u]: the folder <trip>.upload-backup-<u>
  source,     \* source[u]: the extracted trip of upload u
  result,     \* result[u]: the upload row's result is committed
  newest,     \* the upload whose processing operation is not stale
  lock,       \* holder of the advisory lock upload-finalize:<user>
  pc,         \* pc[u]: where the step of upload u is
  attempts,   \* attempts[u]: failed attempts since the step was last started
  arrived,    \* history: the uploads whose folder has been moved in
  faults      \* faults spent so far

dirs == <<target, backup, source>>
rows == <<result, newest>>
vars == <<target, backup, source, result, newest, lock, pc, attempts, arrived,
          faults>>

\* The points at which the step is between two calls of replace_folder_once.
InReplace ==
  {"check", "findSource", "findTarget", "dropBackup", "aside", "posters",
   "mark", "move", "restore", "putBack", "dropSource", "dropOld"}
Settled == {"done", "conflict", "failed"}
Points  == InReplace \cup Settled \cup {"idle", "locked", "finished", "raised"}

\* The points from which the backup of an upload is being removed.
Dropping == {"dropBackup", "dropSource", "dropOld"}

\* The finalization of u has committed its result and has not ended.
Underway(u) == result[u] /\ pc[u] \notin Settled

Init ==
  /\ target = IF HadAlbum THEN Tree(Old, Nobody) ELSE Absent
  /\ backup = [u \in Uploads |-> Absent]
  /\ source = [u \in Uploads |-> Tree(u, Nobody)]
  /\ result = [u \in Uploads |-> FALSE]
  /\ newest = Nobody
  /\ lock = Nobody
  /\ pc = [u \in Uploads |-> "idle"]
  /\ attempts = [u \in Uploads |-> 0]
  /\ arrived = {}
  /\ faults = 0

Goto(u, point) == pc' = [pc EXCEPT ![u] = point]

\* Leaving the `async with try_advisory_lock` block, normally or not.
ReleaseIfHeld(u) == lock' = IF lock = u THEN Nobody ELSE lock

----------------------------------------------------------------------------
(* finalize_upload_session and the commit                                  *)

\* An attempt of an upload without a result tries the lock without waiting.
TryLock(u) ==
  /\ pc[u] = "idle" /\ ~result[u]
  /\ IF lock = Nobody
       THEN lock' = u /\ Goto(u, "locked")
       ELSE UNCHANGED lock /\ Goto(u, "conflict")
  /\ UNCHANGED <<dirs, rows, attempts, faults, arrived>>

\* An attempt that finds the result committed goes on without the lock.
Resume(u) ==
  /\ pc[u] = "idle" /\ result[u]
  /\ Goto(u, "check")
  /\ UNCHANGED <<dirs, rows, lock, attempts, faults, arrived>>

\* Mutant: earlier operations of the user are not made stale.
Commit_KeepsOperation(u) ==
  /\ pc[u] = "locked"
  /\ result' = [result EXCEPT ![u] = TRUE]
  /\ newest' = IF newest = Nobody THEN u ELSE newest
  /\ Goto(u, "check")
  /\ UNCHANGED <<dirs, lock, attempts, faults, arrived>>

\* One commit: earlier operations stale, this upload's operation, its result.
Commit(u) ==
  /\ pc[u] = "locked"
  /\ result' = [result EXCEPT ![u] = TRUE]
  /\ newest' = u
  /\ Goto(u, "check")
  /\ UNCHANGED <<dirs, lock, attempts, faults, arrived>>

----------------------------------------------------------------------------
(* replace_folder_once(source, target, marker = u)                         *)

CheckMarker(u) ==
  /\ pc[u] = "check"
  /\ Goto(u, IF target # Absent /\ target.marker = u THEN "dropSource"
                                                     ELSE "findSource")
  /\ UNCHANGED <<dirs, rows, lock, attempts, faults, arrived>>

FindSource(u) ==
  /\ pc[u] = "findSource"
  /\ \/ source[u] # Absent /\ Goto(u, "findTarget") /\ UNCHANGED lock
     \/ /\ source[u] = Absent /\ backup[u] # Absent /\ target = Absent
        /\ Goto(u, "putBack") /\ UNCHANGED lock
     \/ /\ source[u] = Absent /\ (backup[u] = Absent \/ target # Absent)
        /\ Goto(u, "raised") /\ ReleaseIfHeld(u)
  /\ UNCHANGED <<dirs, rows, attempts, faults, arrived>>

\* backup.rename(target): onto a folder another finalization has put there
\* meanwhile it fails and changes nothing; either way the caller raises.
PutBack(u) ==
  /\ pc[u] = "putBack"
  /\ IF target = Absent
       THEN target' = backup[u] /\ backup' = [backup EXCEPT ![u] = Absent]
       ELSE UNCHANGED <<target, backup>>
  /\ Goto(u, "raised") /\ ReleaseIfHeld(u)
  /\ UNCHANGED <<source, rows, attempts, faults, arrived>>

\* Mutant: the old backup is dropped whether or not the folder is in place.
FindTarget_Unguarded(u) ==
  /\ pc[u] = "findTarget"
  /\ Goto(u, IF target # Absent \/ backup[u] # Absent THEN "dropBackup"
                                                      ELSE "posters")
  /\ UNCHANGED <<dirs, rows, lock, attempts, faults, arrived>>

FindTarget(u) ==
  /\ pc[u] = "findTarget"
  /\ Goto(u, IF target # Absent THEN "dropBackup" ELSE "posters")
  /\ UNCHANGED <<dirs, rows, lock, attempts, faults, arrived>>

\* remove_tree_if_present(backup) is many unlinks: it begins (the tree is no
\* longer whole) and it ends.  It runs at three places of the function.
BackupRemoved(u, next) ==
  \/ /\ backup[u] # Absent /\ backup[u].whole
     /\ backup' = [backup EXCEPT ![u].whole = FALSE]
     /\ UNCHANGED pc
  \/ /\ backup[u] # Absent => ~backup[u].whole
     /\ backup' = [backup EXCEPT ![u] = Absent]
     /\ Goto(u, next)

DropBackup(u) ==
  /\ pc[u] = "dropBackup"
  /\ BackupRemoved(u, "aside")
  /\ UNCHANGED <<target, source, rows, lock, attempts, faults, arrived>>

\* Mutant: the folder is removed instead of being moved aside.
MoveAside_Removes(u) ==
  /\ pc[u] = "aside"
  /\ target' = Absent
  /\ Goto(u, "posters")
  /\ UNCHANGED <<backup, source, rows, lock, attempts, faults, arrived>>

\* target.rename(backup), outside the try: it raises if the folder is gone.
MoveAside(u) ==
  /\ pc[u] = "aside"
  /\ IF target # Absent
       THEN /\ backup' = [backup EXCEPT ![u] = target]
            /\ target' = Absent
            /\ Goto(u, "posters") /\ UNCHANGED lock
       ELSE /\ UNCHANGED <<target, backup>>
            /\ Goto(u, "raised") /\ ReleaseIfHeld(u)
  /\ UNCHANGED <<source, rows, attempts, faults, arrived>>

\* _retain_video_posters only copies posters from the backup to the source.
RetainPosters(u) ==
  /\ pc[u] = "posters"
  /\ Goto(u, "mark")
  /\ UNCHANGED <<dirs, rows, lock, attempts, faults, arrived>>

\* Mutant: the marker is not written before the move.
WriteMarker_Skipped(u) ==
  /\ pc[u] = "mark"
  /\ Goto(u, "move")
  /\ UNCHANGED <<dirs, rows, lock, attempts, faults, arrived>>

WriteMarker(u) ==
  /\ pc[u] = "mark"
  /\ source' = [source EXCEPT ![u].marker = u]
  /\ Goto(u, "move")
  /\ UNCHANGED <<target, backup, rows, lock, attempts, faults, arrived>>

\* Mutant: the extracted folder is copied to its place, not renamed.
MoveIn_Copies(u) ==
  /\ pc[u] = "move"
  /\ IF target = Absent
       THEN /\ target' = source[u] /\ arrived' = arrived \cup {u}
            /\ Goto(u, "dropOld")
       ELSE UNCHANGED <<target, arrived>> /\ Goto(u, "restore")
  /\ UNCHANGED <<source, backup, rows, lock, attempts, faults>>

\* source.rename(target): fails onto a folder that is there and not empty.
MoveIn(u) ==
  /\ pc[u] = "move"
  /\ IF target = Absent
       THEN /\ target' = source[u] /\ arrived' = arrived \cup {u}
            /\ source' = [source EXCEPT ![u] = Absent]
            /\ Goto(u, "dropOld")
       ELSE UNCHANGED <<target, source, arrived>> /\ Goto(u, "restore")
  /\ UNCHANGED <<backup, rows, lock, attempts, faults>>

\* Mutant: the except clause re-raises without putting the backup back.
Restore_Skipped(u) ==
  /\ pc[u] = "restore"
  /\ Goto(u, "raised") /\ ReleaseIfHeld(u)
  /\ UNCHANGED <<dirs, rows, attempts, faults, arrived>>

\* The except clause: the test that decides whether the backup is put back.
Restore(u) ==
  /\ pc[u] = "restore"
  /\ IF backup[u] # Absent /\ target = Absent
       THEN Goto(u, "putBack") /\ UNCHANGED lock
       ELSE Goto(u, "raised") /\ ReleaseIfHeld(u)
  /\ UNCHANGED <<dirs, rows, attempts, faults, arrived>>

DropOld(u) ==
  /\ pc[u] = "dropOld"
  /\ BackupRemoved(u, "finished")
  /\ UNCHANGED <<target, source, rows, lock, attempts, faults, arrived>>

\* The repeated call: what is left of the source goes, then the backup.
DropSource(u) ==
  /\ pc[u] = "dropSource"
  /\ source' = [source EXCEPT ![u] = Absent]
  /\ Goto(u, "dropOld")
  /\ UNCHANGED <<target, backup, rows, lock, attempts, faults, arrived>>

----------------------------------------------------------------------------
(* The end of the step, its failures, and crashes                          *)

\* The extracted folder goes, the lock is released, the step's outcome is
\* recorded: from here on the step is not executed again.
Finish(u) ==
  /\ pc[u] = "finished"
  /\ source' = [source EXCEPT ![u] = Absent]
  /\ ReleaseIfHeld(u) /\ Goto(u, "done")
  /\ UNCHANGED <<target, backup, rows, attempts, faults, arrived>>

\* An I/O or database error, where bytes are written or trees removed or the
\* database is used; renaming a folder fails only for the reasons above.
\* Inside the try the error reaches the except clause.
TransientError(u) ==
  /\ faults < MaxFaults
  /\ faults' = faults + 1
  /\ \/ pc[u] \in {"posters", "mark"} /\ Goto(u, "restore") /\ UNCHANGED lock
     \/ /\ pc[u] \in {"locked", "dropBackup", "dropSource", "dropOld", "finished"}
        /\ Goto(u, "raised") /\ ReleaseIfHeld(u)
  /\ UNCHANGED <<dirs, rows, attempts, arrived>>

\* Mutant: the retry does not count.
Retry_Uncounted(u) ==
  /\ pc[u] = "raised"
  /\ Goto(u, "idle")
  /\ UNCHANGED <<dirs, rows, lock, attempts, faults, arrived>>

Retry(u) ==
  /\ pc[u] = "raised" /\ attempts[u] + 1 < MaxAttempts
  /\ attempts' = [attempts EXCEPT ![u] = @ + 1]
  /\ Goto(u, "idle")
  /\ UNCHANGED <<dirs, rows, lock, faults, arrived>>

\* The workflow's exception handler: terminate_upload removes the work tree.
GiveUp(u) ==
  /\ pc[u] = "raised" /\ attempts[u] + 1 = MaxAttempts
  /\ source' = [source EXCEPT ![u] = Absent]
  /\ Goto(u, "failed")
  /\ UNCHANGED <<target, backup, rows, lock, attempts, faults, arrived>>

\* The process dies and recovery executes every unrecorded step again; the
\* advisory locks go with their connections.
Crash ==
  /\ faults < MaxFaults
  /\ faults' = faults + 1
  /\ lock' = Nobody
  /\ pc' = [u \in Uploads |-> IF pc[u] \in Settled THEN pc[u] ELSE "idle"]
  /\ attempts' = [u \in Uploads |-> 0]
  /\ UNCHANGED <<dirs, rows, arrived>>

Step(u) ==
  \/ TryLock(u) \/ Resume(u) \/ Commit(u)
  \/ CheckMarker(u) \/ FindSource(u) \/ PutBack(u) \/ FindTarget(u)
  \/ DropBackup(u) \/ MoveAside(u) \/ RetainPosters(u) \/ WriteMarker(u)
  \/ MoveIn(u) \/ Restore(u) \/ DropOld(u) \/ DropSource(u)
  \/ Finish(u) \/ Retry(u) \/ GiveUp(u)

Next == Crash \/ \E u \in Uploads : Step(u) \/ TransientError(u)

Spec == Init /\ [][Next]_vars

\* The behaviours in which no finalization commits while another is under way.
\* The lock gives this as long as no step is executed twice: Resume does not
\* take it again.
OneAtATime == \A u, v \in Uploads : Underway(u) /\ Underway(v) => u = v

SerialSpec == Init /\ [][Next /\ OneAtATime']_vars

\* The step's code keeps running, and DBOS executes it again after a crash.
FairSpec == Spec /\ \A u \in Uploads : WF_vars(Step(u))
----------------------------------------------------------------------------
(* Properties                                                              *)

TypeOK ==
  /\ target \in Trees \cup {Absent}
  /\ backup \in [Uploads -> Trees \cup {Absent}]
  /\ source \in [Uploads -> Trees \cup {Absent}]
  /\ result \in [Uploads -> BOOLEAN]
  /\ newest \in Uploads \cup {Nobody}
  /\ lock \in Uploads \cup {Nobody}
  /\ pc \in [Uploads -> Points]
  /\ attempts \in [Uploads -> 0..(MaxAttempts - 1)]
  /\ arrived \subseteq Uploads
  /\ faults \in 0..MaxFaults

\* A backup that is complete and that no removal is about to touch.
Kept(u) == backup[u] # Absent /\ backup[u].whole /\ pc[u] \notin Dropping

\* An album that was on disk, or that an upload has put there, is never lost:
\* at every instant, wherever the process dies, the folder is in place and
\* complete, or the finalization under way keeps a complete backup of it
\* (replace_folder_once drops a backup only behind a folder that is in place).
AlbumKept ==
  \/ target # Absent /\ target.whole
  \/ target = Absent /\ \E u \in Uploads : Underway(u) /\ Kept(u)
  \/ target = Absent /\ ~HadAlbum /\ \A u \in Uploads : backup[u] = Absent

\* The marker a retry trusts: a folder that is in place carries the marker of
\* the upload whose content it is, so a repeated call neither moves a folder
\* it has already moved nor takes another upload's folder for its own.
MarkerTellsContent ==
  target # Absent => \A u \in Uploads : target.marker = u <=> target.data = u

\* An upload brings its content once: the copies of it on disk (extracted, in
\* place, aside as somebody's backup) are never two, so a step executed again
\* cannot put back a folder a later upload has replaced.
Copies(u) ==
  {<<"source", v>> : v \in {w \in Uploads : source[w] # Absent /\ source[w].data = u}}
    \cup {<<"backup", v>> : v \in {w \in Uploads : backup[w] # Absent /\ backup[w].data = u}}
    \cup (IF target # Absent /\ target.data = u THEN {<<"target", u>>} ELSE {})

OneCopy == \A u \in Uploads : Cardinality(Copies(u)) <= 1

\* A finalization that reported success leaves neither its extracted trip nor
\* its backup behind (test_upload_finalization.py looks for the backups); and
\* once every finalization has ended, with whatever outcome, the folder is at
\* its place: no outcome leaves the album only under a backup's name.
AtRest ==
  /\ \A u \in Uploads : pc[u] = "done" => source[u] = Absent /\ backup[u] = Absent
  /\ (\A u \in Uploads : pc[u] \in Settled) =>
       target # Absent \/ (~HadAlbum /\ \A u \in Uploads : pc[u] # "done")

\* "rejects a concurrent upload for the same user"
\* (tests/test_upload_finalization.py): two uploads are never both inside
\* the finalization that the per-user lock protects.
OneFinalizationPerUser ==
  \A u, v \in Uploads :
    pc[u] \in InReplace /\ pc[v] \in InReplace => u = v

\* The folder and the database agree: when all have ended, and the upload
\* whose processing operation is the current one has ended well, the album in
\* place is that upload's (an older upload does not come back on top of it).
NewestInPlace ==
  /\ \A u \in Uploads : pc[u] \in Settled
  /\ newest # Nobody /\ pc[newest] = "done"
  => target # Absent /\ target.data = newest

\* Every finalization ends, the crashes and errors being finitely many.
AllSettle == <>(\A u \in Uploads : pc[u] \in Settled)

\* One finalization at a time: the folder goes through the switches of
\* AlbumSwap, whatever crashes and errors interrupt the calls.
Live ==
  IF target # Absent THEN target.data
  ELSE IF \E u \in Uploads : Underway(u) /\ backup[u] # Absent
    THEN backup[CHOOSE u \in Uploads : Underway(u) /\ backup[u] # Absent].data
    ELSE Absent

Swap == INSTANCE AlbumSwap
          WITH First <- IF HadAlbum THEN Old ELSE Absent,
               live <- Live

SwapsOnce == Swap!Spec
=============================================================================
