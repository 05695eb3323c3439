-------------------------- MODULE AlbumPhotoProofs --------------------------
(***************************************************************************)
(* Proofs about AlbumPhoto: its types, and, as long as nobody works on the *)
(* photo during an upgrade and nothing fails, that the row belongs to the  *)
(* picture in the file and that a snapshot restores what was replaced, for *)
(* any number of pictures, requests and changes.                           *)
(***************************************************************************)
EXTENDS AlbumPhoto, TLAPS

\* An upgrade has what its next step needs.
UpTyped ==
  /\ up.at = "replace" => up.pic \in Pictures
  /\ up.at \in {"probe", "commit"} => up.read \in Rows
  /\ up.at = "commit" => up.probed \in Contents

TypeInv == TypeOK /\ UpTyped

LEMMA InitTyped == Init => TypeInv
  BY PhotoAssumption DEF Init, TypeInv, Ups, Hashes, Prunes, TypeOK, UpTyped, Rows, NoUp,
         NoHash, NoPrune, Contents, Idle

LEMMA ChangedTyped == ASSUME TypeInv, NEW new \in Rows, Changed(new) PROVE row' \in Rows
<1>1. row.updated + 1 \in Nat
  BY DEF TypeInv, TypeOK, Rows
<1> QED BY <1>1 DEF Changed, Rows

LEMMA UpRowTyped ==
    ASSUME TypeInv, up.read \in Rows, up.probed \in Contents,
           NEW edit \in Pictures \cup {None}
    PROVE  UpRow(edit) \in Rows
<1>1. /\ Merge(up.probed, up.read.dims, row.dims) \in Contents
      /\ Merge(up.probed, up.read.size, row.size) \in Contents
  BY DEF Merge, TypeInv, TypeOK, Rows
<1>2. /\ Merge(None, up.read.hash, row.hash) \in Pictures \cup {None}
      /\ Merge(FALSE, up.read.candidate, row.candidate) \in BOOLEAN
  BY DEF Merge, TypeInv, TypeOK, Rows
<1>3. row \in Rows
  BY DEF TypeInv, TypeOK
<1> QED BY <1>1, <1>2, <1>3 DEF UpRow, Rows

LEMMA StepTyped ==
    ASSUME TypeInv, [Next]_vars
    PROVE  TypeInv'
<1>1. CASE \E r \in Requests, new \in Contents : ReplaceLock(r, new)
  BY <1>1 DEF ReplaceLock, database, hashing, Unlocked, UserMayWork, MayWrite, TypeInv,
         TypeOK, UpTyped, Replacements
<1>2. CASE \E r \in Requests : UndoLock(r)
  BY <1>2 DEF UndoLock, database, hashing, Unlocked, UserMayWork, MayWrite, TypeInv, TypeOK,
         UpTyped, Undos
<1>3. CASE \E r \in Requests : ReplaceSnapshot(r)
  <2> PICK r \in Requests : ReplaceSnapshot(r)
    BY <1>3
  <2> USE DEF ReplaceSnapshot, database, hashing
  <2>1. req[r] \in Replacements
    BY DEF At, TypeInv, TypeOK, Undos
  <2> DEFINE s == [of |-> file, hash |-> row.hash, edit |-> row.edit,
                   candidate |-> row.candidate, expired |-> FALSE, created |-> row.updated]
  <2>2. s \in Snaps
    BY DEF TypeInv, TypeOK, Rows, Snaps
  <2> HIDE DEF s
  <2>3. [req[r] EXCEPT !.at = "move", !.snap = s] \in Replacements
    BY <2>1, <2>2 DEF Replacements
  <2>4. req' = [req EXCEPT ![r] = [req[r] EXCEPT !.at = "move", !.snap = s]]
    BY DEF s, TypeInv, TypeOK
  <2> QED BY <2>3, <2>4 DEF TypeInv, TypeOK, UpTyped
<1>4. CASE \E r \in Requests : ReplaceMove(r)
  BY <1>4 DEF ReplaceMove, database, hashing, At, Release, TypeInv, TypeOK, UpTyped,
         Replacements, Undos
<1>5. CASE \E r \in Requests : ReplaceRecord(r)
  <2> PICK r \in Requests : ReplaceRecord(r)
    BY <1>5
  <2> USE DEF ReplaceRecord, database, hashing
  <2>1. req[r] \in Replacements
    BY DEF At, TypeInv, TypeOK, Undos
  <2> DEFINE new == [req[r].row EXCEPT !.dims = req[r].new, !.size = file, !.hash = file.pic,
                                       !.edit = None, !.candidate = FALSE]
  <2>2. new \in Rows
    <3>1. req[r].row \in Rows /\ req[r].new \in Contents
      BY <2>1 DEF Replacements
    <3> QED BY <3>1 DEF TypeInv, TypeOK, Rows, Contents
  <2> HIDE DEF new
  <2>3. [req[r] EXCEPT !.at = "commit", !.row = new] \in Replacements
    BY <2>1, <2>2 DEF Replacements
  <2>4. req' = [req EXCEPT ![r] = [req[r] EXCEPT !.at = "commit", !.row = new]]
    BY DEF new, TypeInv, TypeOK
  <2> QED BY <2>3, <2>4 DEF TypeInv, TypeOK, UpTyped
<1>6. CASE \E r \in Requests : ReplaceCommit(r)
  BY <1>6 DEF ReplaceCommit, hashing, At, Release, Changed, TypeInv, TypeOK, UpTyped,
         Replacements, Undos, Rows
<1>7. CASE \E r \in Requests : UndoMove(r)
  BY <1>7 DEF UndoMove, database, hashing, At, Release, TypeInv, TypeOK, UpTyped,
         Replacements, Undos
<1>8. CASE \E r \in Requests : UndoCommit(r)
  <2> PICK r \in Requests : UndoCommit(r)
    BY <1>8
  <2> USE DEF UndoCommit, hashing, Release
  <2>1. req[r].snap \in Snaps
    BY DEF At, TypeInv, TypeOK, Undos, Replacements
  <2>2. row' \in Rows
    <3> DEFINE new == [row EXCEPT !.dims = file, !.size = file, !.hash = req[r].snap.hash,
                         !.edit = req[r].snap.edit, !.candidate = req[r].snap.candidate]
    <3>1. new \in Rows
      BY <2>1 DEF TypeInv, TypeOK, Rows, Snaps
    <3> QED BY <3>1, ChangedTyped
  <2> QED BY <2>2 DEF TypeInv, TypeOK, UpTyped
<1>9. CASE \E r \in Requests : RequestFails(r)
  BY <1>9, PhotoAssumption DEF RequestFails, database, hashing, Release, Fault, TypeInv,
         TypeOK, UpTyped
<1>10. CASE EditPhoto
  <2> USE <1>10 DEF EditPhoto, hashing
  <2>1. row' \in Rows
    <3> PICK edit \in ValidEdits : Changed([row EXCEPT !.edit = edit])
      OBVIOUS
    <3>1. edit \in Pictures \cup {None}
      BY DEF ValidEdits, TypeInv, TypeOK, Contents
    <3>2. [row EXCEPT !.edit = edit] \in Rows
      BY <3>1 DEF TypeInv, TypeOK, Rows
    <3> QED BY <3>2, ChangedTyped
  <2> QED BY <2>1 DEF TypeInv, TypeOK, UpTyped
<1>11. CASE UpStart
  BY <1>11 DEF UpStart, database, hashing, Unlocked, UserMayWork, MayWrite, TypeInv, TypeOK,
         UpTyped, Ups, Contents, NoUp
<1>12. CASE UpReplace
  <2> USE <1>12 DEF UpReplace, database, hashing
  <2>1. up' \in Ups
    BY DEF TypeInv, TypeOK, Ups
  <2>2. file' \in Contents
    <3>1. [pic |-> up.pic, large |-> TRUE] \in Contents
      BY DEF TypeInv, UpTyped, Contents
    <3> QED BY <3>1 DEF TypeInv, TypeOK
  <2>3. up'.at = "select"
    BY DEF TypeInv, TypeOK, Ups
  <2> QED BY <2>1, <2>2, <2>3 DEF TypeInv, TypeOK, UpTyped
<1>13. CASE UpItemFails
  BY <1>13 DEF UpItemFails, database, hashing, TypeInv, TypeOK, UpTyped, Ups
<1>14. CASE UpSelect
  BY <1>14, PhotoAssumption DEF UpSelect, database, hashing, TypeInv, TypeOK, UpTyped, Ups,
         NoUp
<1>15. CASE UpProbe
  BY <1>15 DEF UpProbe, database, hashing, TypeInv, TypeOK, UpTyped, Ups
<1>16. CASE UpCommit
  <2> USE <1>16 DEF UpCommit, hashing
  <2>1. up' \in Ups /\ up'.at = "idle"
    BY DEF TypeInv, TypeOK, Ups, NoUp
  <2> PICK edit \in FittedEdits : Changed(UpRow(edit))
    OBVIOUS
  <2>2. up.read \in Rows /\ up.probed \in Contents
    BY DEF TypeInv, UpTyped
  <2>3. edit \in Pictures \cup {None}
    BY <2>2 DEF FittedEdits, TypeInv, TypeOK, Rows
  <2>4. UpRow(edit) \in Rows
    BY <2>2, <2>3, UpRowTyped
  <2>5. row' \in Rows
    BY <2>4, ChangedTyped
  <2> QED BY <2>1, <2>5 DEF TypeInv, TypeOK, UpTyped
<1>17. CASE HashStart
  <2> USE <1>17 DEF HashStart, database
  <2>1. row.updated \in Nat
    BY DEF TypeInv, TypeOK, Rows
  <2>2. hash' \in Hashes
    BY <2>1 DEF Revision, Hashes, NoHash
  <2> QED BY <2>2 DEF TypeInv, TypeOK, UpTyped
<1>18. CASE HashSelect
  <2> USE <1>18 DEF HashSelect, database, hashing, HashEnds, HashGoesOn
  <2>1. hash' \in Hashes
    <3>1. NoHash \in Hashes
      BY DEF NoHash, Hashes
    <3>2. [hash EXCEPT !.at = "stat", !.read = row] \in Hashes
      BY DEF TypeInv, TypeOK, Hashes
    <3> QED BY <3>1, <3>2
  <2>2. hashed' \subseteq Nat
    BY DEF TypeInv, TypeOK, Hashes
  <2> QED BY <2>1, <2>2 DEF TypeInv, TypeOK, UpTyped
<1>19. CASE HashStat
  <2> USE <1>19 DEF HashStat, database, hashing, HashEnds, HashGoesOn
  <2>1. hash' \in Hashes
    <3>1. NoHash \in Hashes
      BY DEF NoHash, Hashes
    <3>2. [hash EXCEPT !.at = "current", !.identity = file] \in Hashes
      BY DEF TypeInv, TypeOK, Hashes
    <3> QED BY <3>1, <3>2
  <2>2. hashed' \subseteq Nat
    BY DEF TypeInv, TypeOK, Hashes
  <2> QED BY <2>1, <2>2 DEF TypeInv, TypeOK, UpTyped
<1>20. CASE HashCurrent
  BY <1>20 DEF HashCurrent, database, hashing, HashEnds, HashGoesOn, StillSame, TypeInv,
         TypeOK, UpTyped, Hashes, NoHash
<1>21. CASE HashCompute
  BY <1>21 DEF HashCompute, database, hashing, HashGoesOn, TypeInv, TypeOK, UpTyped, Hashes,
         Contents
<1>22. CASE HashCheck
  BY <1>22 DEF HashCheck, database, hashing, HashEnds, HashGoesOn, StillSame, TypeInv,
         TypeOK, UpTyped, Hashes, NoHash
<1>23. CASE HashPersist
  BY <1>23 DEF HashPersist, Unlocked, UserMayWork, MayWrite, HashEnds, HashGoesOn, TypeInv,
         TypeOK, UpTyped, Hashes, NoHash, Rows
<1>24. CASE Expire
  BY <1>24 DEF Expire, hashing, TypeInv, TypeOK, UpTyped, Snaps
<1>25. CASE PruneScan
  BY <1>25 DEF PruneScan, database, hashing, TypeInv, TypeOK, UpTyped, Prunes
<1>26. CASE PruneUnlink
  BY <1>26 DEF PruneUnlink, database, hashing, TypeInv, TypeOK, UpTyped, Prunes
<1>27. CASE PruneDelete
  BY <1>27 DEF PruneDelete, hashing, Deletes, TypeInv, TypeOK, UpTyped, Prunes, NoPrune
<1>28. CASE PruneResume
  BY <1>28 DEF PruneResume, hashing, Deletes, TypeInv, TypeOK, UpTyped, Prunes, NoPrune
<1>29. CASE UpFails
  BY <1>29, PhotoAssumption DEF UpFails, database, hashing, Fault, TypeInv, TypeOK, UpTyped,
         Ups, NoUp
<1>30. CASE Crash
  <2> USE <1>30, PhotoAssumption DEF Crash, database, hashing, Fault
  <2>1. hash' \in Hashes
    BY DEF TypeInv, TypeOK, Hashes, NoHash
  <2>2. up' \in Ups /\ up'.at = "idle" /\ prune' \in Prunes
    BY DEF Ups, NoUp, Prunes, NoPrune
  <2> QED BY <2>1, <2>2 DEF TypeInv, TypeOK, UpTyped
<1>31. CASE UNCHANGED vars
  BY <1>31 DEF vars, database, hashing, TypeInv, TypeOK, UpTyped
<1> QED
  BY <1>1, <1>2, <1>3, <1>4, <1>5, <1>6, <1>7, <1>8, <1>9, <1>10, <1>11, <1>12, <1>13,
     <1>14, <1>15, <1>16, <1>17, <1>18, <1>19, <1>20, <1>21, <1>22, <1>23, <1>24, <1>25,
     <1>26, <1>27, <1>28, <1>29, <1>30, <1>31 DEF Next, Request, Upgrade, Backfill, Prune

\* Every variable keeps its type, whatever overlaps and fails.
THEOREM TypeCorrect == Spec => []TypeOK
<1>1. Init => TypeInv
  BY InitTyped
<1>2. TypeInv /\ [Next]_vars => TypeInv'
  BY StepTyped
<1>3. TypeInv => TypeOK
  BY DEF TypeInv
<1> QED BY <1>1, <1>2, <1>3, PTL DEF Spec

----------------------------------------------------------------------------
(* Row, file and snapshot                                                  *)

\* What the code relies on: the editor's dialog keeps the user from working on
\* a photo while an upgrade runs.
NoOverlap == Overlap = FALSE

\* Only the holder of the lock has a request, and nobody during an upgrade.
LockOK ==
  /\ \A r \in Requests : lock # r => req[r] = Idle
  /\ up.at # "idle" => lock = None

\* A hash and a crop are of the picture in f.
Fits(f, value) == value.hash \in {None, f.pic} /\ value.edit \in {None, f.pic}

\* The row describes the file.
RowTrue == row.dims = file /\ row.size = file /\ Fits(file, row)

\* The request that holds the lock, by where it is.
Moved(r) == At(r, "replace", "record") \/ At(r, "replace", "commit") \/ At(r, "undo", "commit")

HolderOK(r) ==
  lock = r =>
    /\ ~Moved(r) => RowTrue
    /\ At(r, "replace", "snapshot") \/ At(r, "replace", "move") => req[r].row = row
    /\ At(r, "replace", "record") => file = req[r].new
    /\ At(r, "replace", "commit") =>
          req[r].row.dims = file /\ req[r].row.size = file /\ Fits(file, req[r].row)
    /\ At(r, "undo", "commit") => Fits(file, req[r].snap)

\* The upgrade changes the size of the picture, then the row.
UpgradeOK ==
  up.at # "idle" =>
    /\ Fits(file, row)
    /\ ~up.replaced => row.dims = file /\ row.size = file
    /\ up.at = "replace" => up.pic = file.pic /\ ~up.replaced
    /\ up.at \in {"probe", "commit"} =>
          up.read.dims = row.dims /\ up.read.size = row.size /\ up.read.edit = row.edit
    /\ up.at = "commit" => up.probed = file

RowOK ==
  /\ lock = None /\ up.at = "idle" => RowTrue
  /\ \A r \in Requests : HolderOK(r)
  /\ UpgradeOK

\* A snapshot and the file beside it.
Replaces(r) == req[r] # Idle /\ req[r].kind = "replace" /\ req[r].at # "snapshot"

Keeps(s) == Fits(s.of, s) /\ copy \in {None, s.of}

SnapOK ==
  /\ snap # None => Fits(snap.of, snap)
  /\ snap # None /\ (\A r \in Requests : ~Replaces(r)) => copy \in {None, snap.of}
  /\ \A r \in Requests : Replaces(r) => Keeps(req[r].snap)
  /\ \A r \in Requests : At(r, "undo", "move") => Keeps(req[r].snap)

\* A hash that may be written has been computed of the picture in the file.
HashOK ==
  /\ hash.at \notin {"idle", "select"} => hash.read \in Rows /\ hash.read.updated <= row.updated
  /\ /\ hash.at \in {"check", "persist"} /\ hash.read.updated = row.updated
     /\ \A r \in Requests : ~Moved(r)
     => hash.value = file.pic

Calm == faults = 0 => RowOK /\ SnapOK /\ HashOK

IInv == TypeInv /\ LockOK /\ Calm

LEMMA InitHolds == Init => IInv
<1> SUFFICES ASSUME Init PROVE IInv
  OBVIOUS
<1> USE PhotoAssumption DEF Init, NoUp, NoHash, Idle
<1>1. LockOK
  BY DEF LockOK
<1>2. RowOK
  BY DEF RowOK, RowTrue, Fits, HolderOK, UpgradeOK, Contents
<1>3. SnapOK /\ HashOK
  BY DEF SnapOK, HashOK, Replaces, At
<1> QED BY <1>1, <1>2, <1>3, InitTyped DEF IInv, Calm

LEMMA StepLock ==
    ASSUME NoOverlap, TypeInv, LockOK, [Next]_vars
    PROVE  LockOK'
<1>1. CASE \E r \in Requests, new \in Contents : ReplaceLock(r, new)
  BY <1>1, PhotoAssumption DEF ReplaceLock, database, hashing, Unlocked, UserMayWork,
         MayWrite, NoOverlap, LockOK, NoUp, TypeInv, TypeOK
<1>2. CASE \E r \in Requests : UndoLock(r)
  BY <1>2, PhotoAssumption DEF UndoLock, database, hashing, Unlocked, UserMayWork, MayWrite,
         NoOverlap, LockOK, NoUp, TypeInv, TypeOK
<1>3. CASE \E r \in Requests : ReplaceSnapshot(r)
  BY <1>3, PhotoAssumption DEF ReplaceSnapshot, database, hashing, At, Release, NoOverlap,
         LockOK, NoUp, TypeInv, TypeOK
<1>4. CASE \E r \in Requests : ReplaceMove(r)
  BY <1>4, PhotoAssumption DEF ReplaceMove, database, hashing, At, Release, NoOverlap,
         LockOK, NoUp, TypeInv, TypeOK
<1>5. CASE \E r \in Requests : ReplaceRecord(r)
  BY <1>5, PhotoAssumption DEF ReplaceRecord, database, hashing, At, Release, NoOverlap,
         LockOK, NoUp, TypeInv, TypeOK
<1>6. CASE \E r \in Requests : ReplaceCommit(r)
  BY <1>6, PhotoAssumption DEF ReplaceCommit, hashing, At, Release, Changed, NoOverlap,
         LockOK, NoUp, TypeInv, TypeOK
<1>7. CASE \E r \in Requests : UndoMove(r)
  BY <1>7, PhotoAssumption DEF UndoMove, database, hashing, At, Release, NoOverlap, LockOK,
         NoUp, TypeInv, TypeOK
<1>8. CASE \E r \in Requests : UndoCommit(r)
  BY <1>8, PhotoAssumption DEF UndoCommit, hashing, At, Release, Changed, NoOverlap, LockOK,
         NoUp, TypeInv, TypeOK
<1>9. CASE \E r \in Requests : RequestFails(r)
  BY <1>9, PhotoAssumption DEF RequestFails, database, hashing, Release, Fault, NoOverlap,
         LockOK, NoUp, TypeInv, TypeOK
<1>10. CASE EditPhoto
  BY <1>10 DEF EditPhoto, hashing, Unlocked, UserMayWork, MayWrite, Changed, ValidEdits,
         NoOverlap, LockOK, NoUp, TypeInv, TypeOK
<1>11. CASE UpStart
  BY <1>11 DEF UpStart, database, hashing, Unlocked, UserMayWork, MayWrite, NoOverlap,
         LockOK, NoUp, TypeInv, TypeOK
<1>12. CASE UpReplace
  BY <1>12 DEF UpReplace, database, hashing, SkipSmaller, NoOverlap, LockOK, NoUp, TypeInv,
         TypeOK
<1>13. CASE UpItemFails
  BY <1>13 DEF UpItemFails, database, hashing, NoOverlap, LockOK, NoUp, TypeInv, TypeOK
<1>14. CASE UpSelect
  BY <1>14 DEF UpSelect, database, hashing, NoOverlap, LockOK, NoUp, TypeInv, TypeOK
<1>15. CASE UpProbe
  BY <1>15 DEF UpProbe, database, hashing, NoOverlap, LockOK, NoUp, TypeInv, TypeOK
<1>16. CASE UpCommit
  BY <1>16 DEF UpCommit, hashing, Unlocked, UserMayWork, MayWrite, Changed, Merge, UpRow,
         FittedEdits, NoOverlap, LockOK, NoUp, TypeInv, TypeOK
<1>17. CASE HashStart
  BY <1>17 DEF HashStart, database, hashing, Missing, Revision, NoOverlap, LockOK, NoUp,
         TypeInv, TypeOK
<1>18. CASE HashSelect
  BY <1>18 DEF HashSelect, database, hashing, HashEnds, HashGoesOn, NoOverlap, LockOK, NoUp,
         TypeInv, TypeOK
<1>19. CASE HashStat
  BY <1>19 DEF HashStat, database, hashing, HashEnds, HashGoesOn, NoOverlap, LockOK, NoUp,
         TypeInv, TypeOK
<1>20. CASE HashCurrent
  BY <1>20 DEF HashCurrent, database, hashing, HashEnds, HashGoesOn, StillSame, NoOverlap,
         LockOK, NoUp, TypeInv, TypeOK
<1>21. CASE HashCompute
  BY <1>21 DEF HashCompute, database, hashing, HashGoesOn, NoOverlap, LockOK, NoUp, TypeInv,
         TypeOK
<1>22. CASE HashCheck
  BY <1>22 DEF HashCheck, database, hashing, HashEnds, HashGoesOn, StillSame, NoOverlap,
         LockOK, NoUp, TypeInv, TypeOK
<1>23. CASE HashPersist
  BY <1>23 DEF HashPersist, Unlocked, UserMayWork, MayWrite, HashEnds, HashGoesOn,
         NoOverlap, LockOK, NoUp, TypeInv, TypeOK
<1>24. CASE Expire
  BY <1>24 DEF Expire, hashing, NoOverlap, LockOK, NoUp, TypeInv, TypeOK
<1>25. CASE PruneScan
  BY <1>25 DEF PruneScan, database, hashing, NoOverlap, LockOK, NoUp, TypeInv, TypeOK
<1>26. CASE PruneUnlink
  BY <1>26 DEF PruneUnlink, database, hashing, NoOverlap, LockOK, NoUp, TypeInv, TypeOK
<1>27. CASE PruneDelete
  BY <1>27 DEF PruneDelete, hashing, Deletes, NoOverlap, LockOK, NoUp, TypeInv, TypeOK
<1>28. CASE PruneResume
  BY <1>28 DEF PruneResume, hashing, Deletes, NoOverlap, LockOK, NoUp, TypeInv, TypeOK
<1>29. CASE UpFails
  BY <1>29 DEF UpFails, database, hashing, Fault, NoOverlap, LockOK, NoUp, TypeInv, TypeOK
<1>30. CASE Crash
  BY <1>30 DEF Crash, database, hashing, Fault, NoOverlap, LockOK, NoUp, TypeInv, TypeOK
<1>31. CASE UNCHANGED vars
  BY <1>31 DEF vars, database, hashing, NoOverlap, LockOK, NoUp, TypeInv, TypeOK
<1> QED
  BY <1>1, <1>2, <1>3, <1>4, <1>5, <1>6, <1>7, <1>8, <1>9, <1>10, <1>11, <1>12, <1>13,
     <1>14, <1>15, <1>16, <1>17, <1>18, <1>19, <1>20, <1>21, <1>22, <1>23, <1>24, <1>25,
     <1>26, <1>27, <1>28, <1>29, <1>30, <1>31 DEF Next, Request, Upgrade, Backfill, Prune

\* The request that has the lock, and what it is.
LEMMA Holder ==
    ASSUME TypeInv, LockOK, NEW r \in Requests, req[r] # Idle
    PROVE  /\ lock = r /\ up.at = "idle"
           /\ req[r] \in Replacements \/ req[r] \in Undos
           /\ \A v \in Requests \ {r} : req[v] = Idle
BY PhotoAssumption DEF TypeInv, TypeOK, LockOK

LEMMA Recorded ==
    ASSUME NEW old \in Rows, NEW new \in Contents, NEW pic
    PROVE  LET value == [old EXCEPT !.dims = new, !.size = file, !.hash = pic,
                                    !.edit = None, !.candidate = FALSE]
           IN  value.dims = new /\ value.size = file /\ value.hash = pic /\ value.edit = None
BY DEF Rows

LEMMA StepRow ==
    ASSUME NoOverlap, TypeInv, LockOK, RowOK, SnapOK, HashOK, [Next]_vars, faults' = 0
    PROVE  RowOK'
<1>1. CASE \E r \in Requests, new \in Contents : ReplaceLock(r, new)
  BY <1>1, PhotoAssumption DEF ReplaceLock, database, hashing, Unlocked, UserMayWork,
         MayWrite, TypeInv, TypeOK, UpTyped, LockOK, NoOverlap, RowOK, RowTrue, Fits, Moved,
         HolderOK, UpgradeOK, At, Idle, NoUp
<1>2. CASE \E r \in Requests : UndoLock(r)
  <2> PICK r \in Requests : UndoLock(r)
    BY <1>2
  <2>1. lock = None /\ up.at = "idle" /\ UNCHANGED <<file, row, up>>
    BY DEF UndoLock, database, Unlocked, UserMayWork, NoOverlap
  <2>2. lock' = r /\ req'[r] = [kind |-> "undo", at |-> "move", snap |-> snap]
    BY DEF UndoLock, TypeInv, TypeOK
  <2>3. RowTrue'
    BY <2>1 DEF RowOK, RowTrue, Fits
  <2>4. \A v \in Requests : HolderOK(v)'
    BY <2>2, <2>3 DEF HolderOK, At, Moved
  <2>5. UpgradeOK'
    BY <2>1 DEF UpgradeOK
  <2> QED BY <2>3, <2>4, <2>5 DEF RowOK
<1>3. CASE \E r \in Requests : ReplaceSnapshot(r)
  <2> PICK r \in Requests : ReplaceSnapshot(r)
    BY <1>3
  <2>1. lock = r /\ up.at = "idle" /\ req[r] \in Replacements
    BY Holder DEF ReplaceSnapshot, At, Undos
  <2>2. UNCHANGED <<file, row, lock, up>>
    BY DEF ReplaceSnapshot, database
  <2>3. req'[r].kind = "replace" /\ req'[r].at = "move" /\ req'[r].row = req[r].row
    BY <2>1 DEF ReplaceSnapshot, At, TypeInv, TypeOK, Replacements
  <2>4. RowTrue /\ req[r].row = row
    BY <2>1 DEF ReplaceSnapshot, RowOK, HolderOK, At, Moved
  <2>5. RowTrue'
    BY <2>2, <2>4 DEF RowTrue, Fits
  <2>6. HolderOK(r)'
    BY <2>2, <2>3, <2>4, <2>5 DEF HolderOK, At, Moved
  <2>7. \A v \in Requests : HolderOK(v)'
    BY <2>1, <2>2, <2>6 DEF HolderOK
  <2> QED BY <2>1, <2>2, <2>5, <2>7 DEF RowOK, UpgradeOK
<1>4. CASE \E r \in Requests : ReplaceMove(r)
  BY <1>4, PhotoAssumption DEF ReplaceMove, database, hashing, At, Release, TypeInv, TypeOK,
         UpTyped, LockOK, NoOverlap, RowOK, RowTrue, Fits, Moved, HolderOK, UpgradeOK, Idle,
         NoUp
<1>5. CASE \E r \in Requests : ReplaceRecord(r)
  <2> PICK r \in Requests : ReplaceRecord(r)
    BY <1>5
  <2> USE DEF ReplaceRecord, database, hashing
  <2>1. req[r] \in Replacements /\ lock = r /\ up.at = "idle" /\ lock # None
    BY Holder, PhotoAssumption DEF At, Undos
  <2>2. file = req[r].new
    BY <2>1 DEF RowOK, HolderOK
  <2>3. req[r].row \in Rows /\ req[r].new \in Contents
    BY <2>1 DEF Replacements
  <2>4. /\ At(r, "replace", "commit")'
        /\ req'[r].row = [req[r].row EXCEPT !.dims = req[r].new, !.size = file,
                             !.hash = file.pic, !.edit = None, !.candidate = FALSE]
    BY <2>1 DEF At, Idle, TypeInv, TypeOK, Replacements
  <2>5. /\ req'[r].row.dims = file /\ req'[r].row.size = file
        /\ req'[r].row.hash = file.pic /\ req'[r].row.edit = None
    <3> DEFINE new == [req[r].row EXCEPT !.dims = req[r].new, !.size = file,
                         !.hash = file.pic, !.edit = None, !.candidate = FALSE]
    <3>1. new.dims = req[r].new /\ new.size = file /\ new.hash = file.pic /\ new.edit = None
      BY <2>3, Recorded
    <3> QED BY <2>2, <2>4, <3>1
  <2>6. HolderOK(r)'
    BY <2>4, <2>5 DEF HolderOK, Moved, At, Fits
  <2>7. \A v \in Requests \ {r} : HolderOK(v)'
    BY <2>1 DEF HolderOK
  <2> QED BY <2>1, <2>6, <2>7 DEF RowOK, UpgradeOK
<1>6. CASE \E r \in Requests : ReplaceCommit(r)
  BY <1>6, PhotoAssumption DEF ReplaceCommit, hashing, At, Release, Changed, TypeInv,
         TypeOK, UpTyped, LockOK, NoOverlap, RowOK, RowTrue, Fits, Moved, HolderOK,
         UpgradeOK, Idle, NoUp
<1>7. CASE \E r \in Requests : UndoMove(r)
  <2> PICK r \in Requests : UndoMove(r)
    BY <1>7
  <2> USE DEF UndoMove, database, hashing
  <2>1. req[r] \in Undos /\ lock = r /\ up.at = "idle" /\ lock # None
    BY Holder, PhotoAssumption DEF At, Replacements
  <2>2. RowTrue
    BY <2>1 DEF RowOK, HolderOK, Moved, At
  <2>3. CASE copy = None
    <3>1. UNCHANGED file /\ lock' = None
      BY <2>3 DEF Release
    <3> QED BY <2>1, <2>2, <3>1, PhotoAssumption DEF RowOK, RowTrue, Fits, HolderOK, UpgradeOK
  <2>4. CASE copy # None
    <3>1. /\ file' = copy /\ UNCHANGED lock
          /\ At(r, "undo", "commit")' /\ req'[r].snap = req[r].snap
      BY <2>1, <2>4 DEF At, Idle, TypeInv, TypeOK, Undos
    <3>2. Fits(copy, req[r].snap)
      BY <2>4 DEF SnapOK, Keeps
    <3>3. HolderOK(r)'
      BY <3>1, <3>2 DEF HolderOK, Moved, At, Fits
    <3>4. \A v \in Requests \ {r} : HolderOK(v)'
      BY <2>1, <3>1 DEF HolderOK
    <3> QED BY <2>1, <3>1, <3>3, <3>4 DEF RowOK, UpgradeOK
  <2> QED BY <2>3, <2>4
<1>8. CASE \E r \in Requests : UndoCommit(r)
  BY <1>8, PhotoAssumption DEF UndoCommit, hashing, At, Release, Changed, TypeInv, TypeOK,
         UpTyped, LockOK, NoOverlap, RowOK, RowTrue, Fits, Moved, HolderOK, UpgradeOK, Idle,
         NoUp
<1>9. CASE \E r \in Requests : RequestFails(r)
  BY <1>9, PhotoAssumption DEF RequestFails, database, hashing, Release, Fault, TypeInv,
         TypeOK, UpTyped, LockOK, NoOverlap, RowOK, RowTrue, Fits, Moved, HolderOK,
         UpgradeOK, At, Idle, NoUp
<1>10. CASE EditPhoto
  BY <1>10, PhotoAssumption DEF EditPhoto, hashing, Unlocked, UserMayWork, MayWrite,
         Changed, ValidEdits, TypeInv, TypeOK, UpTyped, LockOK, NoOverlap, RowOK, RowTrue,
         Fits, Moved, HolderOK, UpgradeOK, At, Idle, NoUp
<1>11. CASE UpStart
  BY <1>11, PhotoAssumption DEF UpStart, database, hashing, Unlocked, UserMayWork, MayWrite,
         TypeInv, TypeOK, UpTyped, LockOK, NoOverlap, RowOK, RowTrue, Fits, Moved, HolderOK,
         UpgradeOK, At, Idle, NoUp
<1>12. CASE UpReplace
  <2> USE <1>12 DEF UpReplace, database, hashing
  <2>1. up.pic = file.pic /\ lock = None /\ RowTrue
    BY DEF RowOK, UpgradeOK, LockOK, RowTrue
  <2>2. up'.at = "select" /\ file'.pic = file.pic /\ (~up'.replaced => file' = file)
    <3>1. CASE SkipSmaller
      BY <2>1, <3>1 DEF RowOK, UpgradeOK, TypeInv, TypeOK, Ups
    <3>2. CASE ~SkipSmaller
      <4>1. up'.at = "select" /\ up'.replaced
        BY <3>2 DEF TypeInv, TypeOK, Ups
      <4>2. file'.pic = up.pic
        BY <3>2
      <4> QED BY <2>1, <4>1, <4>2
    <3> QED BY <3>1, <3>2
  <2>3. UpgradeOK'
    BY <2>1, <2>2 DEF UpgradeOK, RowTrue, Fits
  <2>4. \A r \in Requests : HolderOK(r)'
    BY <2>1, PhotoAssumption DEF HolderOK
  <2> QED BY <2>2, <2>3, <2>4 DEF RowOK
<1>13. CASE UpItemFails
  BY <1>13, PhotoAssumption DEF UpItemFails, database, hashing, TypeInv, TypeOK, UpTyped,
         LockOK, NoOverlap, RowOK, RowTrue, Fits, Moved, HolderOK, UpgradeOK, At, Idle, NoUp
<1>14. CASE UpSelect
  BY <1>14, PhotoAssumption DEF UpSelect, database, hashing, TypeInv, TypeOK, UpTyped,
         LockOK, NoOverlap, RowOK, RowTrue, Fits, Moved, HolderOK, UpgradeOK, At, Idle, NoUp
<1>15. CASE UpProbe
  BY <1>15, PhotoAssumption DEF UpProbe, database, hashing, TypeInv, TypeOK, UpTyped,
         LockOK, NoOverlap, RowOK, RowTrue, Fits, Moved, HolderOK, UpgradeOK, At, Idle, NoUp
<1>16. CASE UpCommit
  BY <1>16, PhotoAssumption DEF UpCommit, hashing, Unlocked, UserMayWork, MayWrite, Changed,
         Merge, UpRow, FittedEdits, TypeInv, TypeOK, UpTyped, LockOK, NoOverlap, RowOK,
         RowTrue, Fits, Moved, HolderOK, UpgradeOK, At, Idle, NoUp
<1>17. CASE HashStart
  BY <1>17, PhotoAssumption DEF HashStart, database, hashing, Missing, Revision, TypeInv,
         TypeOK, UpTyped, LockOK, NoOverlap, RowOK, RowTrue, Fits, Moved, HolderOK,
         UpgradeOK, At, Idle, NoUp
<1>18. CASE HashSelect
  BY <1>18, PhotoAssumption DEF HashSelect, database, hashing, HashEnds, HashGoesOn,
         TypeInv, TypeOK, UpTyped, LockOK, NoOverlap, RowOK, RowTrue, Fits, Moved, HolderOK,
         UpgradeOK, At, Idle, NoUp
<1>19. CASE HashStat
  BY <1>19, PhotoAssumption DEF HashStat, database, hashing, HashEnds, HashGoesOn, TypeInv,
         TypeOK, UpTyped, LockOK, NoOverlap, RowOK, RowTrue, Fits, Moved, HolderOK,
         UpgradeOK, At, Idle, NoUp
<1>20. CASE HashCurrent
  BY <1>20, PhotoAssumption DEF HashCurrent, database, hashing, HashEnds, HashGoesOn,
         StillSame, TypeInv, TypeOK, UpTyped, LockOK, NoOverlap, RowOK, RowTrue, Fits,
         Moved, HolderOK, UpgradeOK, At, Idle, NoUp
<1>21. CASE HashCompute
  BY <1>21, PhotoAssumption DEF HashCompute, database, hashing, HashGoesOn, TypeInv, TypeOK,
         UpTyped, LockOK, NoOverlap, RowOK, RowTrue, Fits, Moved, HolderOK, UpgradeOK, At,
         Idle, NoUp
<1>22. CASE HashCheck
  BY <1>22, PhotoAssumption DEF HashCheck, database, hashing, HashEnds, HashGoesOn,
         StillSame, TypeInv, TypeOK, UpTyped, LockOK, NoOverlap, RowOK, RowTrue, Fits,
         Moved, HolderOK, UpgradeOK, At, Idle, NoUp
<1>23. CASE HashPersist
  <2> USE <1>23 DEF HashPersist, Unlocked
  <2>1. \A r \in Requests : ~Moved(r) /\ lock # r
    BY PhotoAssumption DEF LockOK, Moved, At
  <2>2. /\ row'.dims = row.dims /\ row'.size = row.size /\ row'.edit = row.edit
        /\ row'.hash \in {row.hash, file.pic}
    <3>1. row.updated = hash.read.updated => hash.value = file.pic
      BY <2>1 DEF HashOK
    <3> QED BY <3>1 DEF TypeInv, TypeOK, Rows
  <2>3. \A r \in Requests : HolderOK(r)'
    BY <2>1 DEF HolderOK
  <2> QED BY <2>2, <2>3 DEF RowOK, RowTrue, Fits, UpgradeOK
<1>24. CASE Expire
  BY <1>24, PhotoAssumption DEF Expire, hashing, TypeInv, TypeOK, UpTyped, LockOK,
         NoOverlap, RowOK, RowTrue, Fits, Moved, HolderOK, UpgradeOK, At, Idle, NoUp
<1>25. CASE PruneScan
  BY <1>25, PhotoAssumption DEF PruneScan, database, hashing, TypeInv, TypeOK, UpTyped,
         LockOK, NoOverlap, RowOK, RowTrue, Fits, Moved, HolderOK, UpgradeOK, At, Idle, NoUp
<1>26. CASE PruneUnlink
  BY <1>26, PhotoAssumption DEF PruneUnlink, database, hashing, TypeInv, TypeOK, UpTyped,
         LockOK, NoOverlap, RowOK, RowTrue, Fits, Moved, HolderOK, UpgradeOK, At, Idle, NoUp
<1>27. CASE PruneDelete
  BY <1>27, PhotoAssumption DEF PruneDelete, hashing, Deletes, TypeInv, TypeOK, UpTyped,
         LockOK, NoOverlap, RowOK, RowTrue, Fits, Moved, HolderOK, UpgradeOK, At, Idle, NoUp
<1>28. CASE PruneResume
  BY <1>28, PhotoAssumption DEF PruneResume, hashing, Deletes, TypeInv, TypeOK, UpTyped,
         LockOK, NoOverlap, RowOK, RowTrue, Fits, Moved, HolderOK, UpgradeOK, At, Idle, NoUp
<1>29. CASE UpFails
  BY <1>29, PhotoAssumption DEF UpFails, database, hashing, Fault, TypeInv, TypeOK, UpTyped,
         LockOK, NoOverlap, RowOK, RowTrue, Fits, Moved, HolderOK, UpgradeOK, At, Idle, NoUp
<1>30. CASE Crash
  BY <1>30, PhotoAssumption DEF Crash, database, hashing, Fault, TypeInv, TypeOK, UpTyped,
         LockOK, NoOverlap, RowOK, RowTrue, Fits, Moved, HolderOK, UpgradeOK, At, Idle, NoUp
<1>31. CASE UNCHANGED vars
  BY <1>31 DEF vars, database, hashing, TypeInv, TypeOK, UpTyped, LockOK, NoOverlap, RowOK,
         RowTrue, Fits, Moved, HolderOK, UpgradeOK, At, Idle, NoUp
<1> QED
  BY <1>1, <1>2, <1>3, <1>4, <1>5, <1>6, <1>7, <1>8, <1>9, <1>10, <1>11, <1>12, <1>13,
     <1>14, <1>15, <1>16, <1>17, <1>18, <1>19, <1>20, <1>21, <1>22, <1>23, <1>24, <1>25,
     <1>26, <1>27, <1>28, <1>29, <1>30, <1>31 DEF Next, Request, Upgrade, Backfill, Prune

LEMMA StepSnap ==
    ASSUME NoOverlap, TypeInv, LockOK, RowOK, SnapOK, HashOK, [Next]_vars, faults' = 0
    PROVE  SnapOK'
<1>1. CASE \E r \in Requests, new \in Contents : ReplaceLock(r, new)
  BY <1>1, PhotoAssumption DEF ReplaceLock, database, hashing, Unlocked, UserMayWork,
         MayWrite, TypeInv, TypeOK, UpTyped, LockOK, RowOK, RowTrue, Fits, SnapOK, Replaces,
         Keeps, HolderOK, At, Moved, Idle
<1>2. CASE \E r \in Requests : UndoLock(r)
  BY <1>2, PhotoAssumption DEF UndoLock, database, hashing, Unlocked, UserMayWork, MayWrite,
         TypeInv, TypeOK, UpTyped, LockOK, RowOK, RowTrue, Fits, SnapOK, Replaces, Keeps,
         HolderOK, At, Moved, Idle
<1>3. CASE \E r \in Requests : ReplaceSnapshot(r)
  <2> PICK r \in Requests : ReplaceSnapshot(r)
    BY <1>3
  <2> USE DEF ReplaceSnapshot, database, hashing
  <2>1. req[r] \in Replacements /\ lock = r /\ \A v \in Requests \ {r} : req[v] = Idle
    BY Holder DEF At, Undos
  <2>2. Fits(file, row)
    BY <2>1 DEF RowOK, HolderOK, RowTrue, Moved, At
  <2>3. req'[r].kind = "replace" /\ req'[r].at = "move"
    BY <2>1 DEF At, TypeInv, TypeOK, Replacements
  <2>4. req'[r].snap.of = file /\ req'[r].snap.hash = row.hash /\ req'[r].snap.edit = row.edit
    BY <2>1 DEF At, TypeInv, TypeOK, Replacements
  <2>5. Keeps(req[r].snap)'
    BY <2>2, <2>4 DEF Keeps, Fits
  <2>6. Replaces(r)'
    BY <2>1 DEF Replaces, At, Idle, TypeInv, TypeOK, Replacements
  <2>7. \A v \in Requests \ {r} : req'[v] = Idle
    BY <2>1 DEF TypeInv, TypeOK
  <2> QED BY <2>3, <2>5, <2>6, <2>7 DEF SnapOK, Replaces, At, Fits
<1>4. CASE \E r \in Requests : ReplaceMove(r)
  <2> PICK r \in Requests : ReplaceMove(r)
    BY <1>4
  <2>1. req[r] \in Replacements /\ Replaces(r) /\ \A v \in Requests \ {r} : req[v] = Idle
    BY Holder DEF ReplaceMove, At, Undos, Replaces
  <2>2. UNCHANGED <<snap, copy>>
    BY DEF ReplaceMove, database
  <2>3. /\ req'[r].kind = "replace" /\ req'[r].at = "record" /\ req'[r].snap = req[r].snap
        /\ req'[r] # Idle
    BY <2>1 DEF ReplaceMove, At, Idle, TypeInv, TypeOK, Replacements
  <2>4. \A v \in Requests \ {r} : req'[v] = Idle
    BY <2>1 DEF ReplaceMove, TypeInv, TypeOK
  <2>5. Keeps(req[r].snap)'
    BY <2>1, <2>2, <2>3 DEF SnapOK, Keeps, Fits
  <2> QED BY <2>2, <2>3, <2>4, <2>5 DEF SnapOK, Replaces, At, Fits
<1>5. CASE \E r \in Requests : ReplaceRecord(r)
  <2> PICK r \in Requests : ReplaceRecord(r)
    BY <1>5
  <2> USE DEF ReplaceRecord, database, hashing
  <2>1. req[r] \in Replacements /\ Replaces(r) /\ \A v \in Requests \ {r} : req[v] = Idle
    BY Holder DEF At, Undos, Replaces
  <2>2. req'[r].kind = "replace" /\ req'[r].at = "commit" /\ req'[r].snap = req[r].snap
    BY <2>1 DEF At, TypeInv, TypeOK, Replacements
  <2>3. \A v \in Requests \ {r} : req'[v] = Idle
    BY <2>1 DEF TypeInv, TypeOK
  <2>4. Replaces(r)'
    BY <2>1 DEF Replaces, At, Idle, TypeInv, TypeOK, Replacements
  <2>5. Keeps(req[r].snap)'
    BY <2>1, <2>2 DEF SnapOK, Keeps, Fits
  <2> QED BY <2>2, <2>3, <2>4, <2>5 DEF SnapOK, Replaces, At, Fits
<1>6. CASE \E r \in Requests : ReplaceCommit(r)
  BY <1>6, PhotoAssumption DEF ReplaceCommit, hashing, At, Release, Changed, TypeInv,
         TypeOK, UpTyped, LockOK, RowOK, RowTrue, Fits, SnapOK, Replaces, Keeps, HolderOK,
         Moved, Idle
<1>7. CASE \E r \in Requests : UndoMove(r)
  <2> PICK r \in Requests : UndoMove(r)
    BY <1>7
  <2> USE DEF UndoMove, database, hashing
  <2>1. req[r] \in Undos /\ \A v \in Requests \ {r} : req[v] = Idle
    BY Holder DEF At, Replacements
  <2>2. copy' = None
    OBVIOUS
  <2>3. \A v \in Requests : ~Replaces(v)' /\ ~At(v, "undo", "move")'
    BY <2>1 DEF Release, Replaces, At, Idle, TypeInv, TypeOK, Undos
  <2> QED BY <2>2, <2>3 DEF SnapOK, Fits
<1>8. CASE \E r \in Requests : UndoCommit(r)
  <2> PICK r \in Requests : UndoCommit(r)
    BY <1>8
  <2>1. \A v \in Requests \ {r} : req[v] = Idle
    BY Holder DEF UndoCommit, At
  <2>2. \A v \in Requests : req'[v] = Idle
    BY <2>1 DEF UndoCommit, Release, TypeInv, TypeOK
  <2>3. snap' = None
    BY DEF UndoCommit
  <2> QED BY <2>2, <2>3 DEF SnapOK, Replaces, At
<1>9. CASE \E r \in Requests : RequestFails(r)
  BY <1>9, PhotoAssumption DEF RequestFails, database, hashing, Release, Fault, TypeInv,
         TypeOK, UpTyped, LockOK, RowOK, RowTrue, Fits, SnapOK, Replaces, Keeps, HolderOK,
         At, Moved, Idle
<1>10. CASE EditPhoto
  BY <1>10, PhotoAssumption DEF EditPhoto, hashing, Unlocked, UserMayWork, MayWrite,
         Changed, ValidEdits, TypeInv, TypeOK, UpTyped, LockOK, RowOK, RowTrue, Fits,
         SnapOK, Replaces, Keeps, HolderOK, At, Moved, Idle
<1>11. CASE UpStart
  BY <1>11, PhotoAssumption DEF UpStart, database, hashing, Unlocked, UserMayWork, MayWrite,
         TypeInv, TypeOK, UpTyped, LockOK, RowOK, RowTrue, Fits, SnapOK, Replaces, Keeps,
         HolderOK, At, Moved, Idle
<1>12. CASE UpReplace
  BY <1>12, PhotoAssumption DEF UpReplace, database, hashing, SkipSmaller, TypeInv, TypeOK,
         UpTyped, LockOK, RowOK, RowTrue, Fits, SnapOK, Replaces, Keeps, HolderOK, At,
         Moved, Idle
<1>13. CASE UpItemFails
  BY <1>13, PhotoAssumption DEF UpItemFails, database, hashing, TypeInv, TypeOK, UpTyped,
         LockOK, RowOK, RowTrue, Fits, SnapOK, Replaces, Keeps, HolderOK, At, Moved, Idle
<1>14. CASE UpSelect
  BY <1>14, PhotoAssumption DEF UpSelect, database, hashing, TypeInv, TypeOK, UpTyped,
         LockOK, RowOK, RowTrue, Fits, SnapOK, Replaces, Keeps, HolderOK, At, Moved, Idle
<1>15. CASE UpProbe
  BY <1>15, PhotoAssumption DEF UpProbe, database, hashing, TypeInv, TypeOK, UpTyped,
         LockOK, RowOK, RowTrue, Fits, SnapOK, Replaces, Keeps, HolderOK, At, Moved, Idle
<1>16. CASE UpCommit
  BY <1>16, PhotoAssumption DEF UpCommit, hashing, Unlocked, UserMayWork, MayWrite, Changed,
         Merge, UpRow, FittedEdits, TypeInv, TypeOK, UpTyped, LockOK, RowOK, RowTrue, Fits,
         SnapOK, Replaces, Keeps, HolderOK, At, Moved, Idle
<1>17. CASE HashStart
  BY <1>17, PhotoAssumption DEF HashStart, database, hashing, Missing, Revision, TypeInv,
         TypeOK, UpTyped, LockOK, RowOK, RowTrue, Fits, SnapOK, Replaces, Keeps, HolderOK,
         At, Moved, Idle
<1>18. CASE HashSelect
  BY <1>18, PhotoAssumption DEF HashSelect, database, hashing, HashEnds, HashGoesOn,
         TypeInv, TypeOK, UpTyped, LockOK, RowOK, RowTrue, Fits, SnapOK, Replaces, Keeps,
         HolderOK, At, Moved, Idle
<1>19. CASE HashStat
  BY <1>19, PhotoAssumption DEF HashStat, database, hashing, HashEnds, HashGoesOn, TypeInv,
         TypeOK, UpTyped, LockOK, RowOK, RowTrue, Fits, SnapOK, Replaces, Keeps, HolderOK,
         At, Moved, Idle
<1>20. CASE HashCurrent
  BY <1>20, PhotoAssumption DEF HashCurrent, database, hashing, HashEnds, HashGoesOn,
         StillSame, TypeInv, TypeOK, UpTyped, LockOK, RowOK, RowTrue, Fits, SnapOK,
         Replaces, Keeps, HolderOK, At, Moved, Idle
<1>21. CASE HashCompute
  BY <1>21, PhotoAssumption DEF HashCompute, database, hashing, HashGoesOn, TypeInv, TypeOK,
         UpTyped, LockOK, RowOK, RowTrue, Fits, SnapOK, Replaces, Keeps, HolderOK, At,
         Moved, Idle
<1>22. CASE HashCheck
  BY <1>22, PhotoAssumption DEF HashCheck, database, hashing, HashEnds, HashGoesOn,
         StillSame, TypeInv, TypeOK, UpTyped, LockOK, RowOK, RowTrue, Fits, SnapOK,
         Replaces, Keeps, HolderOK, At, Moved, Idle
<1>23. CASE HashPersist
  BY <1>23, PhotoAssumption DEF HashPersist, Unlocked, UserMayWork, MayWrite, HashEnds,
         HashGoesOn, TypeInv, TypeOK, UpTyped, LockOK, RowOK, RowTrue, Fits, SnapOK,
         Replaces, Keeps, HolderOK, At, Moved, Idle
<1>24. CASE Expire
  BY <1>24, PhotoAssumption DEF Expire, hashing, TypeInv, TypeOK, UpTyped, LockOK, RowOK,
         RowTrue, Fits, SnapOK, Replaces, Keeps, HolderOK, At, Moved, Idle
<1>25. CASE PruneScan
  BY <1>25, PhotoAssumption DEF PruneScan, database, hashing, TypeInv, TypeOK, UpTyped,
         LockOK, RowOK, RowTrue, Fits, SnapOK, Replaces, Keeps, HolderOK, At, Moved, Idle
<1>26. CASE PruneUnlink
  BY <1>26, PhotoAssumption DEF PruneUnlink, database, hashing, TypeInv, TypeOK, UpTyped,
         LockOK, RowOK, RowTrue, Fits, SnapOK, Replaces, Keeps, HolderOK, At, Moved, Idle
<1>27. CASE PruneDelete
  BY <1>27, PhotoAssumption DEF PruneDelete, hashing, Deletes, TypeInv, TypeOK, UpTyped,
         LockOK, RowOK, RowTrue, Fits, SnapOK, Replaces, Keeps, HolderOK, At, Moved, Idle
<1>28. CASE PruneResume
  BY <1>28, PhotoAssumption DEF PruneResume, hashing, Deletes, TypeInv, TypeOK, UpTyped,
         LockOK, RowOK, RowTrue, Fits, SnapOK, Replaces, Keeps, HolderOK, At, Moved, Idle
<1>29. CASE UpFails
  BY <1>29, PhotoAssumption DEF UpFails, database, hashing, Fault, TypeInv, TypeOK, UpTyped,
         LockOK, RowOK, RowTrue, Fits, SnapOK, Replaces, Keeps, HolderOK, At, Moved, Idle
<1>30. CASE Crash
  BY <1>30, PhotoAssumption DEF Crash, database, hashing, Fault, TypeInv, TypeOK, UpTyped,
         LockOK, RowOK, RowTrue, Fits, SnapOK, Replaces, Keeps, HolderOK, At, Moved, Idle
<1>31. CASE UNCHANGED vars
  BY <1>31 DEF vars, database, hashing, TypeInv, TypeOK, UpTyped, LockOK, RowOK, RowTrue,
         Fits, SnapOK, Replaces, Keeps, HolderOK, At, Moved, Idle
<1> QED
  BY <1>1, <1>2, <1>3, <1>4, <1>5, <1>6, <1>7, <1>8, <1>9, <1>10, <1>11, <1>12, <1>13,
     <1>14, <1>15, <1>16, <1>17, <1>18, <1>19, <1>20, <1>21, <1>22, <1>23, <1>24, <1>25,
     <1>26, <1>27, <1>28, <1>29, <1>30, <1>31 DEF Next, Request, Upgrade, Backfill, Prune

LEMMA StepHash ==
    ASSUME NoOverlap, TypeInv, LockOK, RowOK, SnapOK, HashOK, [Next]_vars, faults' = 0
    PROVE  HashOK'
<1>1. CASE \E r \in Requests, new \in Contents : ReplaceLock(r, new)
  BY <1>1, PhotoAssumption DEF ReplaceLock, database, hashing, Unlocked, UserMayWork,
         MayWrite, TypeInv, TypeOK, UpTyped, LockOK, HashOK, Moved, At, Idle, NoHash, Rows,
         Contents, RowOK, UpgradeOK
<1>2. CASE \E r \in Requests : UndoLock(r)
  BY <1>2, PhotoAssumption DEF UndoLock, database, hashing, Unlocked, UserMayWork, MayWrite,
         TypeInv, TypeOK, UpTyped, LockOK, HashOK, Moved, At, Idle, NoHash, Rows, Contents,
         RowOK, UpgradeOK
<1>3. CASE \E r \in Requests : ReplaceSnapshot(r)
  BY <1>3, PhotoAssumption DEF ReplaceSnapshot, database, hashing, At, Release, TypeInv,
         TypeOK, UpTyped, LockOK, HashOK, Moved, Idle, NoHash, Rows, Contents, RowOK,
         UpgradeOK
<1>4. CASE \E r \in Requests : ReplaceMove(r)
  BY <1>4, PhotoAssumption DEF ReplaceMove, database, hashing, At, Release, TypeInv, TypeOK,
         UpTyped, LockOK, HashOK, Moved, Idle, NoHash, Rows, Contents, RowOK, UpgradeOK
<1>5. CASE \E r \in Requests : ReplaceRecord(r)
  <2> PICK r \in Requests : ReplaceRecord(r)
    BY <1>5
  <2> USE DEF ReplaceRecord, database, hashing
  <2>1. req[r] \in Replacements
    BY Holder DEF At, Undos
  <2>2. At(r, "replace", "commit")'
    BY <2>1 DEF At, Idle, TypeInv, TypeOK, Replacements
  <2> QED BY <2>2 DEF HashOK, Moved
<1>6. CASE \E r \in Requests : ReplaceCommit(r)
  BY <1>6, PhotoAssumption DEF ReplaceCommit, hashing, At, Release, Changed, TypeInv,
         TypeOK, UpTyped, LockOK, HashOK, Moved, Idle, NoHash, Rows, Contents, RowOK,
         UpgradeOK
<1>7. CASE \E r \in Requests : UndoMove(r)
  <2> PICK r \in Requests : UndoMove(r)
    BY <1>7
  <2> USE DEF UndoMove, database, hashing
  <2>1. req[r] \in Undos /\ \A v \in Requests \ {r} : req[v] = Idle
    BY Holder DEF At, Replacements
  <2>2. CASE copy = None
    <3>1. \A v \in Requests : ~Moved(v)
      BY <2>1 DEF Moved, At
    <3> QED BY <2>2, <3>1 DEF HashOK
  <2>3. CASE copy # None
    <3>1. At(r, "undo", "commit")'
      BY <2>1, <2>3 DEF At, Idle, TypeInv, TypeOK, Undos
    <3> QED BY <3>1 DEF HashOK, Moved
  <2> QED BY <2>2, <2>3
<1>8. CASE \E r \in Requests : UndoCommit(r)
  BY <1>8, PhotoAssumption DEF UndoCommit, hashing, At, Release, Changed, TypeInv, TypeOK,
         UpTyped, LockOK, HashOK, Moved, Idle, NoHash, Rows, Contents, RowOK, UpgradeOK
<1>9. CASE \E r \in Requests : RequestFails(r)
  BY <1>9, PhotoAssumption DEF RequestFails, database, hashing, Release, Fault, TypeInv,
         TypeOK, UpTyped, LockOK, HashOK, Moved, At, Idle, NoHash, Rows, Contents, RowOK,
         UpgradeOK
<1>10. CASE EditPhoto
  BY <1>10, PhotoAssumption DEF EditPhoto, hashing, Unlocked, UserMayWork, MayWrite,
         Changed, ValidEdits, TypeInv, TypeOK, UpTyped, LockOK, HashOK, Moved, At, Idle,
         NoHash, Rows, Contents, RowOK, UpgradeOK
<1>11. CASE UpStart
  BY <1>11, PhotoAssumption DEF UpStart, database, hashing, Unlocked, UserMayWork, MayWrite,
         TypeInv, TypeOK, UpTyped, LockOK, HashOK, Moved, At, Idle, NoHash, Rows, Contents,
         RowOK, UpgradeOK
<1>12. CASE UpReplace
  BY <1>12, PhotoAssumption DEF UpReplace, database, hashing, SkipSmaller, TypeInv, TypeOK,
         UpTyped, LockOK, HashOK, Moved, At, Idle, NoHash, Rows, Contents, RowOK, UpgradeOK
<1>13. CASE UpItemFails
  BY <1>13, PhotoAssumption DEF UpItemFails, database, hashing, TypeInv, TypeOK, UpTyped,
         LockOK, HashOK, Moved, At, Idle, NoHash, Rows, Contents, RowOK, UpgradeOK
<1>14. CASE UpSelect
  BY <1>14, PhotoAssumption DEF UpSelect, database, hashing, TypeInv, TypeOK, UpTyped,
         LockOK, HashOK, Moved, At, Idle, NoHash, Rows, Contents, RowOK, UpgradeOK
<1>15. CASE UpProbe
  BY <1>15, PhotoAssumption DEF UpProbe, database, hashing, TypeInv, TypeOK, UpTyped,
         LockOK, HashOK, Moved, At, Idle, NoHash, Rows, Contents, RowOK, UpgradeOK
<1>16. CASE UpCommit
  BY <1>16, PhotoAssumption DEF UpCommit, hashing, Unlocked, UserMayWork, MayWrite, Changed,
         Merge, UpRow, FittedEdits, TypeInv, TypeOK, UpTyped, LockOK, HashOK, Moved, At,
         Idle, NoHash, Rows, Contents, RowOK, UpgradeOK
<1>17. CASE HashStart
  BY <1>17, PhotoAssumption DEF HashStart, database, hashing, Missing, Revision, TypeInv,
         TypeOK, UpTyped, LockOK, HashOK, Moved, At, Idle, NoHash, Rows, Contents, RowOK,
         UpgradeOK
<1>18. CASE HashSelect
  <2> USE <1>18 DEF HashSelect, database, hashing, HashEnds, HashGoesOn
  <2>1. \/ hash'.at = "idle"
        \/ hash'.at = "stat" /\ hash'.read = row
    <3>1. hash' = NoHash \/ hash' = [hash EXCEPT !.at = "stat", !.read = row]
      OBVIOUS
    <3>2. NoHash.at = "idle"
      BY DEF NoHash
    <3>3. LET next == [hash EXCEPT !.at = "stat", !.read = row]
          IN  next.at = "stat" /\ next.read = row
      BY DEF TypeInv, TypeOK, Hashes
    <3> QED BY <3>1, <3>2, <3>3
  <2> QED BY <2>1 DEF HashOK, Moved, At, TypeInv, TypeOK, Rows
<1>19. CASE HashStat
  <2> USE <1>19 DEF HashStat, database, hashing, HashEnds, HashGoesOn
  <2>1. \/ hash'.at = "idle"
        \/ hash'.at = "current" /\ hash'.read = hash.read
    <3>1. hash' = NoHash \/ hash' = [hash EXCEPT !.at = "current", !.identity = file]
      OBVIOUS
    <3>2. NoHash.at = "idle"
      BY DEF NoHash
    <3>3. LET next == [hash EXCEPT !.at = "current", !.identity = file]
          IN  next.at = "current" /\ next.read = hash.read
      BY DEF TypeInv, TypeOK, Hashes
    <3> QED BY <3>1, <3>2, <3>3
  <2> QED BY <2>1 DEF HashOK, Moved, At, TypeInv, TypeOK
<1>20. CASE HashCurrent
  <2> USE <1>20 DEF HashCurrent, database, hashing, HashEnds, HashGoesOn, StillSame
  <2>1. \/ hash'.at = "idle"
        \/ hash'.at = "compute" /\ hash'.read = hash.read
    <3>1. hash' = NoHash \/ hash' = [hash EXCEPT !.at = "compute"]
      OBVIOUS
    <3>2. NoHash.at = "idle"
      BY DEF NoHash
    <3>3. LET next == [hash EXCEPT !.at = "compute"]
          IN  next.at = "compute" /\ next.read = hash.read
      BY DEF TypeInv, TypeOK, Hashes
    <3> QED BY <3>1, <3>2, <3>3
  <2> QED BY <2>1 DEF HashOK, Moved, At, TypeInv, TypeOK
<1>21. CASE HashCompute
  BY <1>21, PhotoAssumption DEF HashCompute, database, hashing, HashGoesOn, TypeInv, TypeOK,
         UpTyped, LockOK, HashOK, Moved, At, Idle, NoHash, Rows, Contents, RowOK, UpgradeOK
<1>22. CASE HashCheck
  <2> USE <1>22 DEF HashCheck, database, hashing, HashEnds, HashGoesOn, StillSame
  <2>1. \/ hash'.at = "idle"
        \/ hash'.at = "persist" /\ hash'.read = hash.read /\ hash'.value = hash.value
    <3>1. hash' = NoHash \/ hash' = [hash EXCEPT !.at = "persist"]
      OBVIOUS
    <3>2. NoHash.at = "idle"
      BY DEF NoHash
    <3>3. LET next == [hash EXCEPT !.at = "persist"]
          IN  next.at = "persist" /\ next.read = hash.read /\ next.value = hash.value
      BY DEF TypeInv, TypeOK, Hashes
    <3> QED BY <3>1, <3>2, <3>3
  <2> QED BY <2>1 DEF HashOK, Moved, At, TypeInv, TypeOK
<1>23. CASE HashPersist
  BY <1>23, PhotoAssumption DEF HashPersist, Unlocked, UserMayWork, MayWrite, HashEnds,
         HashGoesOn, TypeInv, TypeOK, UpTyped, LockOK, HashOK, Moved, At, Idle, NoHash,
         Rows, Contents, RowOK, UpgradeOK
<1>24. CASE Expire
  BY <1>24, PhotoAssumption DEF Expire, hashing, TypeInv, TypeOK, UpTyped, LockOK, HashOK,
         Moved, At, Idle, NoHash, Rows, Contents, RowOK, UpgradeOK
<1>25. CASE PruneScan
  BY <1>25, PhotoAssumption DEF PruneScan, database, hashing, TypeInv, TypeOK, UpTyped,
         LockOK, HashOK, Moved, At, Idle, NoHash, Rows, Contents, RowOK, UpgradeOK
<1>26. CASE PruneUnlink
  BY <1>26, PhotoAssumption DEF PruneUnlink, database, hashing, TypeInv, TypeOK, UpTyped,
         LockOK, HashOK, Moved, At, Idle, NoHash, Rows, Contents, RowOK, UpgradeOK
<1>27. CASE PruneDelete
  BY <1>27, PhotoAssumption DEF PruneDelete, hashing, Deletes, TypeInv, TypeOK, UpTyped,
         LockOK, HashOK, Moved, At, Idle, NoHash, Rows, Contents, RowOK, UpgradeOK
<1>28. CASE PruneResume
  BY <1>28, PhotoAssumption DEF PruneResume, hashing, Deletes, TypeInv, TypeOK, UpTyped,
         LockOK, HashOK, Moved, At, Idle, NoHash, Rows, Contents, RowOK, UpgradeOK
<1>29. CASE UpFails
  BY <1>29, PhotoAssumption DEF UpFails, database, hashing, Fault, TypeInv, TypeOK, UpTyped,
         LockOK, HashOK, Moved, At, Idle, NoHash, Rows, Contents, RowOK, UpgradeOK
<1>30. CASE Crash
  BY <1>30, PhotoAssumption DEF Crash, database, hashing, Fault, TypeInv, TypeOK, UpTyped,
         LockOK, HashOK, Moved, At, Idle, NoHash, Rows, Contents, RowOK, UpgradeOK
<1>31. CASE UNCHANGED vars
  BY <1>31 DEF vars, database, hashing, TypeInv, TypeOK, UpTyped, LockOK, HashOK, Moved, At,
         Idle, NoHash, Rows, Contents, RowOK, UpgradeOK
<1> QED
  BY <1>1, <1>2, <1>3, <1>4, <1>5, <1>6, <1>7, <1>8, <1>9, <1>10, <1>11, <1>12, <1>13,
     <1>14, <1>15, <1>16, <1>17, <1>18, <1>19, <1>20, <1>21, <1>22, <1>23, <1>24, <1>25,
     <1>26, <1>27, <1>28, <1>29, <1>30, <1>31 DEF Next, Request, Upgrade, Backfill, Prune

LEMMA FaultsGrow == ASSUME TypeOK, [Next]_vars, faults' = 0 PROVE faults = 0
<1>1. CASE \E r \in Requests, new \in Contents : ReplaceLock(r, new)
  BY <1>1 DEF ReplaceLock
<1>2. CASE \E r \in Requests : UndoLock(r) \/ Request(r)
  BY <1>2 DEF UndoLock, Request, ReplaceSnapshot, ReplaceMove, ReplaceRecord, ReplaceCommit,
         UndoMove, UndoCommit
<1>3. CASE \E r \in Requests : RequestFails(r)
  BY <1>3 DEF RequestFails, Fault, TypeOK
<1>4. CASE EditPhoto \/ UpStart \/ Upgrade
  BY <1>4 DEF EditPhoto, UpStart, Upgrade, UpReplace, UpItemFails, UpSelect, UpProbe,
         UpCommit
<1>5. CASE Backfill
  BY <1>5 DEF Backfill, HashStart, HashSelect, HashStat, HashCurrent, HashCompute,
         HashCheck, HashPersist
<1>6. CASE Expire \/ Prune
  BY <1>6 DEF Expire, Prune, PruneScan, PruneUnlink, PruneDelete, PruneResume
<1>7. CASE UpFails \/ Crash
  BY <1>7 DEF UpFails, Crash, Fault, TypeOK
<1>8. CASE UNCHANGED vars
  BY <1>8 DEF vars
<1> QED
  BY <1>1, <1>2, <1>3, <1>4, <1>5, <1>6, <1>7, <1>8 DEF Next

LEMMA NextKeeps == ASSUME NoOverlap PROVE IInv /\ [Next]_vars => IInv'
<1> SUFFICES ASSUME IInv, [Next]_vars PROVE IInv'
  OBVIOUS
<1>1. TypeInv' /\ LockOK'
  BY StepTyped, StepLock DEF IInv
<1>2. ASSUME faults' = 0 PROVE faults = 0
  BY <1>2, FaultsGrow DEF IInv, TypeInv
<1>3. Calm'
  BY <1>2, StepRow, StepSnap, StepHash DEF IInv, Calm
<1> QED BY <1>1, <1>3 DEF IInv

LEMMA Invariant == ASSUME NoOverlap PROVE Spec => []IInv
<1>1. Init => IInv
  BY InitHolds
<1>2. IInv /\ [Next]_vars => IInv'
  BY NextKeeps
<1> QED BY <1>1, <1>2, PTL DEF Spec

\* What settles agrees: as long as nobody works on the photo during an upgrade,
\* the row is that of the picture in the file, its hash and its crop too.
THEOREM RowCorrect == ASSUME NoOverlap PROVE Spec => []RowOfPicture
<1>1. IInv => RowOfPicture
  BY DEF IInv, Calm, RowOK, RowTrue, Fits, RowOfPicture, Settled
<1> QED BY <1>1, Invariant, PTL

\* A snapshot that can be restored is of the photo that was replaced, with its
\* crop and hash, whatever the pruner has done meanwhile.
THEOREM UndoCorrect == ASSUME NoOverlap PROVE Spec => []UndoRestores
<1>1. IInv => UndoRestores
  <2> SUFFICES ASSUME IInv, Settled, snap # None, copy # None PROVE UndoRestores
    BY DEF UndoRestores
  <2>1. \A r \in Requests : ~Replaces(r)
    BY PhotoAssumption DEF IInv, LockOK, Settled, Replaces
  <2> QED BY <2>1 DEF IInv, Calm, SnapOK, Fits, UndoRestores, Settled
<1> QED BY <1>1, Invariant, PTL
=============================================================================
