----------------------------- MODULE AlbumPhoto -----------------------------
(***************************************************************************)
(* One photo of an album: its file, its album_media row and the undo       *)
(* snapshot of its last replacement.  Requests replace the photo, undo     *)
(* that and edit it, under the row's lock; the Google Photos upgrade puts  *)
(* a larger version of the picture in place and updates the row without    *)
(* the lock; a durable workflow fills in missing perceptual hashes; the    *)
(* pruner removes expired snapshots.  The file system has no transactions: *)
(* files change at once, rows at the commit.                               *)
(***************************************************************************)
EXTENDS Naturals, FiniteSets

CONSTANTS
  Pictures,   \* the pictures a user has
  Requests,   \* slots for requests handled at the same time
  None,       \* no value: NULL, no row, no file, nobody
  Overlap,    \* whether the user works on the photo while an upgrade runs
  MaxWrites,  \* bound: changes of the row
  MaxFaults   \* bound: failures

ASSUME PhotoAssumption ==
  /\ None \notin Pictures \cup Requests
  /\ Overlap \in BOOLEAN
  /\ MaxWrites \in Nat /\ MaxFaults \in Nat

VARIABLES
  file,    \* what the photo's file holds
  row,     \* the album_media row
  snap,    \* the album_media_undo_snapshot row
  copy,    \* the file .undo/<name>
  lock,    \* the request that holds the row FOR UPDATE
  req,     \* req[r]: a request and its uncommitted changes
  up,      \* the upgrade and what it has read
  hash,    \* the hash workflow and what it has read
  hashed,  \* revisions for which the hash workflow has completed
  prune,   \* the pruner and the expired row it has read
  faults

vars == <<file, row, snap, copy, lock, req, up, hash, hashed, prune, faults>>
database == <<row, snap>>
hashing == <<hash, hashed>>

\* A picture in its small or large version; no two have the same byte size.
Contents == [pic : Pictures, large : BOOLEAN]

Idle   == [at |-> "idle"]
NoUp   == [at |-> "idle", pic |-> None, replaced |-> FALSE, read |-> None, probed |-> None]
NoHash == [at |-> "idle", revision |-> 0, read |-> None, identity |-> None, value |-> None]
NoPrune == [at |-> "idle", seen |-> None]

Init ==
  /\ file \in Contents
  /\ \E known, candidate \in BOOLEAN :
       row = [dims |-> file, size |-> file, hash |-> IF known THEN file.pic ELSE None,
              edit |-> None, candidate |-> candidate, updated |-> 0]
  /\ snap = None /\ copy = None
  /\ lock = None /\ req = [r \in Requests |-> Idle]
  /\ up = NoUp /\ hash = NoHash /\ hashed = {} /\ prune = NoPrune
  /\ faults = 0

----------------------------------------------------------------------------
(* Requests                                                                *)

\* SELECT ... FOR UPDATE; an UPDATE of the row waits for it too.
Unlocked == lock = None
UserMayWork == Overlap \/ up.at = "idle"
MayWrite == row.updated < MaxWrites

At(r, kind, at) == req[r] # Idle /\ req[r].kind = kind /\ req[r].at = at
Release(r) == lock' = None /\ req' = [req EXCEPT ![r] = Idle]

\* A change of the row gets a new updated_at.
Changed(new) == row' = [new EXCEPT !.updated = row.updated + 1]

\* replace_album_media_from_saved, once the new file is downloaded.
ReplaceLock(r, new) ==
  /\ req[r] = Idle /\ Unlocked /\ UserMayWork /\ MayWrite
  /\ lock' = r
  /\ req' = [req EXCEPT ![r] = [kind |-> "replace", at |-> "snapshot", new |-> new,
                                row |-> row, snap |-> snap]]
  /\ UNCHANGED <<file, database, copy, up, hashing, prune, faults>>

\* Mutant: the file of an earlier snapshot is kept.
ReplaceSnapshot_Reuses(r) ==
  /\ At(r, "replace", "snapshot")
  /\ copy' = IF copy = None THEN file ELSE copy
  /\ req' = [req EXCEPT ![r].at = "move",
               ![r].snap = [of |-> file, hash |-> row.hash, edit |-> row.edit,
                            candidate |-> row.candidate, expired |-> FALSE,
                            created |-> row.updated]]
  /\ UNCHANGED <<file, database, lock, up, hashing, prune, faults>>

\* create_undo_snapshot: an earlier snapshot, expired or not, is replaced.
ReplaceSnapshot(r) ==
  /\ At(r, "replace", "snapshot")
  /\ copy' = file
  /\ req' = [req EXCEPT ![r].at = "move",
               ![r].snap = [of |-> file, hash |-> row.hash, edit |-> row.edit,
                            candidate |-> row.candidate, expired |-> FALSE,
                            created |-> row.updated]]
  /\ UNCHANGED <<file, database, lock, up, hashing, prune, faults>>

ReplaceMove(r) ==
  /\ At(r, "replace", "move")
  /\ file' = req[r].new
  /\ req' = [req EXCEPT ![r].at = "record"]
  /\ UNCHANGED <<database, copy, lock, up, hashing, prune, faults>>

\* The dimensions are those of the decoded file, size and hash of the target.
ReplaceRecord(r) ==
  /\ At(r, "replace", "record")
  /\ req' = [req EXCEPT ![r].at = "commit",
               ![r].row = [@ EXCEPT !.dims = req[r].new, !.size = file, !.hash = file.pic,
                                    !.edit = None, !.candidate = FALSE]]
  /\ UNCHANGED <<file, database, copy, lock, up, hashing, prune, faults>>

ReplaceCommit(r) ==
  /\ At(r, "replace", "commit")
  /\ Changed(req[r].row)
  /\ snap' = req[r].snap
  /\ Release(r)
  /\ UNCHANGED <<file, copy, up, hashing, prune, faults>>

\* restore_undo_snapshot: refused if there is no snapshot, if it has expired,
\* or if its file is missing.
UndoLock(r) ==
  /\ req[r] = Idle /\ Unlocked /\ UserMayWork /\ MayWrite
  /\ snap # None /\ ~snap.expired /\ copy # None
  /\ lock' = r
  /\ req' = [req EXCEPT ![r] = [kind |-> "undo", at |-> "move", snap |-> snap]]
  /\ UNCHANGED <<file, database, copy, up, hashing, prune, faults>>

UndoMove(r) ==
  /\ At(r, "undo", "move")
  /\ \/ /\ copy # None
        /\ file' = copy /\ copy' = None
        /\ req' = [req EXCEPT ![r].at = "commit"]
        /\ UNCHANGED lock
     \/ copy = None /\ Release(r) /\ UNCHANGED <<file, copy>>
  /\ UNCHANGED <<database, up, hashing, prune, faults>>

UndoCommit(r) ==
  /\ At(r, "undo", "commit")
  /\ Changed([row EXCEPT !.dims = file, !.size = file, !.hash = req[r].snap.hash,
                         !.edit = req[r].snap.edit, !.candidate = req[r].snap.candidate])
  /\ snap' = None
  /\ Release(r)
  /\ UNCHANGED <<file, copy, up, hashing, prune, faults>>

\* A crop fits the picture it was made for; None resets it.
ValidEdits == {file.pic, None}

\* update_photo_edit and reset_photo_edit: the crop is validated against the
\* file and saved under the row's lock.
EditPhoto ==
  /\ Unlocked /\ UserMayWork /\ MayWrite
  /\ \E edit \in ValidEdits : Changed([row EXCEPT !.edit = edit])
  /\ UNCHANGED <<file, snap, copy, lock, req, up, hashing, prune, faults>>

Request(r) ==
  \/ ReplaceSnapshot(r) \/ ReplaceMove(r) \/ ReplaceRecord(r) \/ ReplaceCommit(r)
  \/ UndoMove(r) \/ UndoCommit(r)

----------------------------------------------------------------------------
(* The upgrade                                                             *)

\* The upgrade candidates and their dimensions are read; Google's picture
\* has been matched with the file.  Where its dimensions are known and not
\* larger than the row's, nothing is downloaded.
UpStart ==
  /\ up.at = "idle" /\ row.candidate /\ MayWrite
  /\ Overlap \/ Unlocked
  /\ up' = [NoUp EXCEPT !.at = "replace", !.pic = file.pic]
  /\ UNCHANGED <<file, database, copy, lock, req, hashing, prune, faults>>

\* replace_photo: a file that is not smaller stays (_skip_smaller).
SkipSmaller == file.large

UpReplace ==
  /\ up.at = "replace"
  /\ IF SkipSmaller
       THEN up' = [up EXCEPT !.at = "select"] /\ UNCHANGED file
       ELSE /\ file' = [pic |-> up.pic, large |-> TRUE]
            /\ up' = [up EXCEPT !.at = "select", !.replaced = TRUE]
  /\ UNCHANGED <<database, copy, lock, req, hashing, prune, faults>>

\* _upgrade_one: the download or the processing of a photo fails, and the
\* others go on without it.
UpItemFails ==
  /\ up.at = "replace"
  /\ up' = [up EXCEPT !.at = "select"]
  /\ UNCHANGED <<file, database, copy, lock, req, hashing, prune, faults>>

\* _persist_upgrade, only of what was replaced: the row is read, ...
UpSelect ==
  /\ up.at = "select"
  /\ up' = IF up.replaced THEN [up EXCEPT !.at = "probe", !.read = row] ELSE NoUp
  /\ UNCHANGED <<file, database, copy, lock, req, hashing, prune, faults>>

\* ... the file measured, ...
UpProbe ==
  /\ up.at = "probe"
  /\ up' = [up EXCEPT !.at = "commit", !.probed = file]
  /\ UNCHANGED <<file, database, copy, lock, req, hashing, prune, faults>>

\* ... and the columns updated that differ from what was read.
Merge(new, read, now) == IF new # read THEN new ELSE now

UpRow(edit) ==
  [row EXCEPT !.dims = Merge(up.probed, up.read.dims, @),
              !.size = Merge(up.probed, up.read.size, @),
              !.hash = Merge(None, up.read.hash, @),
              !.candidate = Merge(FALSE, up.read.candidate, @),
              !.edit = edit]

\* fit_photo_edit: a crop that was read and has to shrink is written back; one
\* that fits stays as it is in the row by now.
FittedEdits == {row.edit} \cup IF up.read.edit = None THEN {} ELSE {up.read.edit}

\* Mutant: the change has no new updated_at.
UpCommit_Undated ==
  /\ up.at = "commit" /\ Unlocked
  /\ \E edit \in FittedEdits : row' = UpRow(edit)
  /\ up' = NoUp
  /\ UNCHANGED <<file, snap, copy, lock, req, hashing, prune, faults>>

UpCommit ==
  /\ up.at = "commit" /\ Unlocked
  /\ \E edit \in FittedEdits : Changed(UpRow(edit))
  /\ up' = NoUp
  /\ UNCHANGED <<file, snap, copy, lock, req, hashing, prune, faults>>

Upgrade == UpReplace \/ UpItemFails \/ UpSelect \/ UpProbe \/ UpCommit

----------------------------------------------------------------------------
(* The hash backfill                                                       *)

\* missing_media_hash_backfill_targets: albums with a photo without a hash.
Missing == row.hash = None

\* The digest of the rows' times of change.
Revision == row.updated

\* The reconciliation loop enqueues a workflow whose id holds the revision:
\* one that has completed is not executed again.
HashStart ==
  /\ hash.at = "idle" /\ Missing /\ Revision \notin hashed
  /\ hash' = [NoHash EXCEPT !.at = "select", !.revision = Revision]
  /\ UNCHANGED <<file, database, copy, lock, req, up, hashed, prune, faults>>

HashEnds == hash' = NoHash /\ hashed' = hashed \cup {hash.revision}
HashGoesOn(next) == hash' = next /\ UNCHANGED hashed

\* _discover_candidates: rows without a hash, ...
HashSelect ==
  /\ hash.at = "select"
  /\ IF row.hash = None
       THEN HashGoesOn([hash EXCEPT !.at = "stat", !.read = row]) ELSE HashEnds
  /\ UNCHANGED <<file, database, copy, lock, req, up, prune, faults>>

\* ... and their files, if they have the row's size.
HashStat ==
  /\ hash.at = "stat"
  /\ IF file = hash.read.size
       THEN HashGoesOn([hash EXCEPT !.at = "current", !.identity = file]) ELSE HashEnds
  /\ UNCHANGED <<file, database, copy, lock, req, up, prune, faults>>

\* The file is the one whose inode, size and time of change were read.
StillSame == file = hash.identity

\* _current_candidates: a file that has changed by now is left out.
HashCurrent ==
  /\ hash.at = "current"
  /\ IF StillSame THEN HashGoesOn([hash EXCEPT !.at = "compute"]) ELSE HashEnds
  /\ UNCHANGED <<file, database, copy, lock, req, up, prune, faults>>

HashCompute ==
  /\ hash.at = "compute"
  /\ HashGoesOn([hash EXCEPT !.at = "check", !.value = file.pic])
  /\ UNCHANGED <<file, database, copy, lock, req, up, prune, faults>>

\* persist_media_hash_batch: only of a file that is still the same, ...
HashCheck ==
  /\ hash.at = "check"
  /\ IF StillSame THEN HashGoesOn([hash EXCEPT !.at = "persist"]) ELSE HashEnds
  /\ UNCHANGED <<file, database, copy, lock, req, up, prune, faults>>

\* Mutant: the hash is written whatever the row says by now.
HashPersist_Always ==
  /\ hash.at = "persist" /\ Unlocked
  /\ row' = [row EXCEPT !.hash = hash.value]
  /\ HashEnds
  /\ UNCHANGED <<file, snap, copy, lock, req, up, prune, faults>>

\* ... and only into a row that is still as it was read.
HashPersist ==
  /\ hash.at = "persist" /\ Unlocked
  /\ row' = IF /\ row.hash = None
               /\ row.updated = hash.read.updated /\ row.size = hash.read.size
              THEN [row EXCEPT !.hash = hash.value] ELSE row
  /\ HashEnds
  /\ UNCHANGED <<file, snap, copy, lock, req, up, prune, faults>>

Backfill ==
  \/ HashStart \/ HashSelect \/ HashStat \/ HashCurrent
  \/ HashCompute \/ HashCheck \/ HashPersist

----------------------------------------------------------------------------
(* Expiry                                                                  *)

\* UNDO_TTL passes.
Expire ==
  /\ snap # None /\ ~snap.expired
  /\ snap' = [snap EXCEPT !.expired = TRUE]
  /\ UNCHANGED <<file, row, copy, lock, req, up, hashing, prune, faults>>

\* prune_all_expired_undo_snapshots: the expired row is read, ...
PruneScan ==
  /\ prune.at = "idle" /\ snap # None /\ snap.expired
  /\ prune' = [at |-> "unlink", seen |-> snap]
  /\ UNCHANGED <<file, database, copy, lock, req, up, hashing, faults>>

\* ... its file removed, ...
PruneUnlink ==
  /\ prune.at = "unlink"
  /\ copy' = None
  /\ prune' = [prune EXCEPT !.at = "delete"]
  /\ UNCHANGED <<file, database, lock, req, up, hashing, faults>>

\* ... and the row deleted by its key.  A replacement that has deleted it is
\* waited for; then only the row that was read is deleted, if it is left.
Deletes(r) == req[r] # Idle /\ req[r].kind = "replace" /\ req[r].at \in {"move", "record", "commit"}

PruneDelete ==
  /\ prune.at = "delete"
  /\ \/ /\ \A r \in Requests : ~Deletes(r)
        /\ snap' = None /\ prune' = NoPrune
     \/ /\ \E r \in Requests : Deletes(r)
        /\ prune' = [prune EXCEPT !.at = "wait"] /\ UNCHANGED snap
  /\ UNCHANGED <<file, row, copy, lock, req, up, hashing, faults>>

PruneResume ==
  /\ prune.at = "wait" /\ \A r \in Requests : ~Deletes(r)
  /\ snap' = IF snap = prune.seen THEN None ELSE snap
  /\ prune' = NoPrune
  /\ UNCHANGED <<file, row, copy, lock, req, up, hashing, faults>>

Prune == PruneScan \/ PruneUnlink \/ PruneDelete \/ PruneResume

----------------------------------------------------------------------------
(* Failures                                                                *)

Fault == faults < MaxFaults /\ faults' = faults + 1

\* A request fails and rolls back; files stay as they are.
RequestFails(r) ==
  /\ Fault
  /\ req[r] # Idle /\ Release(r)
  /\ UNCHANGED <<file, database, copy, up, hashing, prune>>

\* The upgrade's transaction fails, or its client has gone.
UpFails ==
  /\ Fault
  /\ up.at # "idle" /\ up' = NoUp
  /\ UNCHANGED <<file, database, copy, lock, req, hashing, prune>>

\* The process dies; the hash workflow is executed again.
Crash ==
  /\ Fault
  /\ lock' = None /\ req' = [r \in Requests |-> Idle]
  /\ up' = NoUp /\ prune' = NoPrune
  /\ hash' = IF hash.at = "idle" THEN hash
             ELSE [NoHash EXCEPT !.at = "select", !.revision = hash.revision]
  /\ UNCHANGED <<file, database, copy, hashed>>

Next ==
  \/ \E r \in Requests, new \in Contents : ReplaceLock(r, new)
  \/ \E r \in Requests : UndoLock(r) \/ Request(r) \/ RequestFails(r)
  \/ EditPhoto \/ UpStart \/ Upgrade \/ Backfill \/ Expire \/ Prune
  \/ UpFails \/ Crash

Spec == Init /\ [][Next]_vars

\* What has begun goes on, and the reconciliation loop looks for rows without
\* a hash; nobody has to send a request.
FairSpec ==
  /\ Spec
  /\ \A r \in Requests : WF_vars(Request(r))
  /\ WF_vars(Upgrade) /\ SF_vars(UpCommit)
  /\ WF_vars(Backfill) /\ SF_vars(HashPersist)

----------------------------------------------------------------------------
(* Properties                                                              *)

Rows == [dims : Contents, size : Contents, hash : Pictures \cup {None},
         edit : Pictures \cup {None}, candidate : BOOLEAN, updated : Nat]
Snaps == [of : Contents, hash : Pictures \cup {None}, edit : Pictures \cup {None},
          candidate : BOOLEAN, expired : BOOLEAN, created : Nat]

Replacements == [kind : {"replace"}, at : {"snapshot", "move", "record", "commit"},
                 new : Contents, row : Rows, snap : Snaps \cup {None}]
Undos == [kind : {"undo"}, at : {"move", "commit"}, snap : Snaps]

Ups == [at : {"idle", "replace", "select", "probe", "commit"},
        pic : Pictures \cup {None}, replaced : BOOLEAN,
        read : Rows \cup {None}, probed : Contents \cup {None}]
Hashes == [at : {"idle", "select", "stat", "current", "compute", "check", "persist"},
           revision : Nat, read : Rows \cup {None},
           identity : Contents \cup {None}, value : Pictures \cup {None}]
Prunes == [at : {"idle", "unlink", "delete", "wait"}, seen : Snaps \cup {None}]

TypeOK ==
  /\ file \in Contents /\ copy \in Contents \cup {None}
  /\ row \in Rows /\ snap \in Snaps \cup {None}
  /\ lock \in Requests \cup {None}
  /\ req \in [Requests -> {Idle} \cup Replacements \cup Undos]
  /\ up \in Ups /\ hash \in Hashes /\ hashed \subseteq Nat /\ prune \in Prunes
  /\ faults \in 0..MaxFaults

\* Nobody is about to change the photo, and nothing has failed.
Settled == lock = None /\ up.at = "idle" /\ faults = 0

\* The dimensions and the size in the row are those of the file, although the
\* file is moved first and the row committed later; a stored hash and a crop
\* belong to the picture in the file, whenever they were computed or drawn and
\* whatever has replaced the file meanwhile.
RowOfPicture ==
  Settled => /\ row.dims = file /\ row.size = file
             /\ row.hash \in {None, file.pic} /\ row.edit \in {None, file.pic}

\* What an undo would bring back is the photo before the last replacement,
\* with the crop and the hash that belong to it.
UndoRestores ==
  Settled /\ snap # None /\ copy # None =>
    /\ copy = snap.of
    /\ snap.edit \in {None, copy.pic} /\ snap.hash \in {None, copy.pic}

\* A photo does not stay without a hash: each change of the row gets a
\* workflow of its own, also when an earlier one found the file changing.
HashArrives == [](faults = 0) => (row.hash = None ~> row.hash # None)
=============================================================================
