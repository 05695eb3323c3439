------------------------ MODULE UploadFinalizeProofs ------------------------
(***************************************************************************)
(* Proofs about UploadFinalize, for any set of uploads and any number of   *)
(* crashes, errors and attempts.                                           *)
(***************************************************************************)
EXTENDS UploadFinalize, FiniteSetTheorems, TLAPS

----------------------------------------------------------------------------
(* The inductive invariant of every behaviour                              *)

\* The calls that use the extracted folder: the source was found and nobody
\* else removes it.
UsesSource == {"findTarget", "dropBackup", "aside", "posters", "mark", "move"}

\* An extracted folder is whole, its own upload's, and marked before it moves.
Sourced ==
  \A u \in Uploads :
    /\ pc[u] \in UsesSource => source[u] # Absent
    /\ source[u] # Absent => source[u].data = u /\ source[u].whole
    /\ source[u] # Absent => source[u].marker \in {u, Nobody}
    /\ pc[u] = "move" => source[u].marker = u

\* A tree that carries an upload's marker exactly if it has its content.
Proper(t) == t # Absent => \A u \in Uploads : t.marker = u <=> t.data = u

Carried == Proper(target) /\ \A v \in Uploads : Proper(backup[v])

BaseInv == TypeOK /\ Sourced /\ Carried

\* A change of one field of a tree gives a tree.
LEMMA TreeUpdates ==
  ASSUME NEW t \in Trees, NEW m \in Uploads
  PROVE  /\ [t EXCEPT !.whole = FALSE] \in Trees
         /\ [t EXCEPT !.marker = m] \in Trees
         /\ [t EXCEPT !.whole = FALSE].marker = t.marker
         /\ [t EXCEPT !.whole = FALSE].data = t.data
         /\ [t EXCEPT !.marker = m].marker = m
         /\ [t EXCEPT !.marker = m].data = t.data
         /\ [t EXCEPT !.marker = m].whole = t.whole
  BY DEF Trees

LEMMA InitBase == Init => BaseInv
<1> SUFFICES ASSUME Init PROVE BaseInv
  OBVIOUS
<1>1. Tree(Old, Nobody) \in Trees /\ \A u \in Uploads : Tree(u, Nobody) \in Trees
  BY DEF Tree, Trees
<1>2. TypeOK
  BY <1>1, FinalizeAssumption DEF Init, TypeOK, Points, Settled, InReplace
<1>3. Sourced
  BY FinalizeAssumption DEF Init, Sourced, Tree, UsesSource
<1>4. Carried
  BY FinalizeAssumption DEF Init, Carried, Proper, Tree
<1> QED
  BY <1>2, <1>3, <1>4 DEF BaseInv

\* The removal of a backup, at any of its places, keeps the trees proper.
LEMMA RemovalBase ==
  ASSUME BaseInv, NEW u \in Uploads, NEW next \in Points \ {"move"},
         next \in UsesSource => source[u] # Absent,
         BackupRemoved(u, next),
         UNCHANGED <<target, source, result, newest, lock, attempts, faults, arrived>>
  PROVE  BaseInv'
<1>1. CASE /\ backup[u] # Absent /\ backup[u].whole
           /\ backup' = [backup EXCEPT ![u].whole = FALSE]
           /\ UNCHANGED pc
  <2>1. backup[u] \in Trees
    BY <1>1 DEF BaseInv, TypeOK
  <2>2. backup' = [backup EXCEPT ![u] = [backup[u] EXCEPT !.whole = FALSE]]
    BY <1>1
  <2>3. backup'[u] \in Trees /\ backup'[u].marker = backup[u].marker
          /\ backup'[u].data = backup[u].data
    BY <2>1, <2>2, TreeUpdates DEF BaseInv, TypeOK
  <2>4. TypeOK'
    BY <1>1, <2>2, <2>3 DEF BaseInv, TypeOK
  <2>5. Sourced'
    BY <1>1 DEF BaseInv, Sourced
  <2>6. Carried'
    BY <1>1, <2>2, <2>3 DEF BaseInv, TypeOK, Carried, Proper
  <2> QED
    BY <2>4, <2>5, <2>6 DEF BaseInv
<1>2. CASE /\ backup' = [backup EXCEPT ![u] = Absent]
           /\ Goto(u, next)
  <2>1. TypeOK'
    BY <1>2 DEF BaseInv, TypeOK, Goto
  <2>2. Sourced'
    BY <1>2 DEF BaseInv, TypeOK, Sourced, Goto
  <2>3. Carried'
    BY <1>2 DEF BaseInv, TypeOK, Carried, Proper
  <2> QED
    BY <2>1, <2>2, <2>3 DEF BaseInv
<1> QED
  BY <1>1, <1>2 DEF BackupRemoved

LEMMA StepBase ==
  ASSUME BaseInv, NEW u \in Uploads, Step(u) \/ TransientError(u)
  PROVE  BaseInv'
<1> USE DEF BaseInv, Goto, ReleaseIfHeld, dirs, rows
<1>p. {"idle", "raised", "done", "conflict", "failed", "locked", "finished"}
        \cup InReplace = Points
  BY DEF Points, Settled, InReplace
<1>q. Points \cap UsesSource = UsesSource /\ UsesSource \subseteq InReplace
  BY <1>p DEF UsesSource, InReplace
<1>1. CASE TryLock(u)
  BY <1>1, <1>p DEF TryLock, TypeOK, Sourced, UsesSource, Carried
<1>2. CASE Resume(u)
  BY <1>2, <1>p DEF Resume, TypeOK, Sourced, UsesSource, Carried, InReplace
<1>3. CASE Commit(u)
  BY <1>3, <1>p DEF Commit, TypeOK, Sourced, UsesSource, Carried, InReplace
<1>4. CASE CheckMarker(u)
  BY <1>4, <1>p DEF CheckMarker, TypeOK, Sourced, UsesSource, Carried, InReplace
<1>5. CASE FindSource(u)
  BY <1>5, <1>p DEF FindSource, TypeOK, Sourced, UsesSource, Carried, InReplace
<1>6. CASE PutBack(u)
  <2>1. TypeOK' /\ Sourced'
    BY <1>6, <1>p DEF PutBack, TypeOK, Sourced, UsesSource
  <2>2. Carried'
    BY <1>6 DEF PutBack, TypeOK, Carried, Proper
  <2> QED
    BY <2>1, <2>2
<1>7. CASE FindTarget(u)
  BY <1>7, <1>p DEF FindTarget, TypeOK, Sourced, UsesSource, Carried, InReplace
<1>8. CASE DropBackup(u)
  BY <1>8, <1>p, RemovalBase DEF DropBackup, Sourced, UsesSource, InReplace
<1>9. CASE MoveAside(u)
  <2>1. TypeOK' /\ Sourced'
    BY <1>9, <1>p DEF MoveAside, TypeOK, Sourced, UsesSource, InReplace
  <2>2. Carried'
    BY <1>9 DEF MoveAside, TypeOK, Carried, Proper
  <2> QED
    BY <2>1, <2>2
<1>10. CASE RetainPosters(u)
  BY <1>10, <1>p DEF RetainPosters, TypeOK, Sourced, UsesSource, Carried, InReplace
<1>11. CASE WriteMarker(u)
  <2>1. source[u] # Absent /\ source[u] \in Trees
    BY <1>11 DEF WriteMarker, TypeOK, Sourced, UsesSource
  <2>2. source' = [source EXCEPT ![u] = [source[u] EXCEPT !.marker = u]]
    BY <1>11 DEF WriteMarker
  <2>3. /\ source'[u] \in Trees /\ source'[u].marker = u
        /\ source'[u].data = u /\ source'[u].whole
    <3>1. source'[u] = [source[u] EXCEPT !.marker = u]
      BY <2>2 DEF TypeOK
    <3>2. source[u].data = u /\ source[u].whole
      BY <2>1 DEF Sourced
    <3>3. /\ [source[u] EXCEPT !.marker = u] \in Trees
          /\ [source[u] EXCEPT !.marker = u].marker = u
          /\ [source[u] EXCEPT !.marker = u].data = source[u].data
          /\ [source[u] EXCEPT !.marker = u].whole = source[u].whole
      BY <2>1, TreeUpdates
    <3> QED
      BY <3>1, <3>2, <3>3
  <2>4. TypeOK'
    BY <1>11, <1>p, <2>2, <2>3 DEF WriteMarker, TypeOK, InReplace
  <2>5. Sourced'
    <3>1. \A v \in Uploads \ {u} : source'[v] = source[v] /\ pc'[v] = pc[v]
      BY <1>11, <2>2 DEF WriteMarker, TypeOK
    <3>2. source'[u] # Absent
      BY <2>3, AbsentAssumption
    <3>3. pc'[u] = "move"
      BY <1>11 DEF WriteMarker, TypeOK
    <3> QED
      BY <2>3, <3>1, <3>2, <3>3 DEF Sourced
  <2>6. Carried'
    BY <1>11 DEF WriteMarker, Carried
  <2> QED
    BY <2>4, <2>5, <2>6
<1>12. CASE MoveIn(u)
  <2>1. TypeOK'
    BY <1>12, <1>p DEF MoveIn, TypeOK, Sourced, UsesSource, InReplace
  <2>2. Sourced'
    BY <1>12 DEF MoveIn, TypeOK, Sourced, UsesSource
  <2>3. Carried'
    BY <1>12 DEF MoveIn, TypeOK, Carried, Proper, Sourced, UsesSource
  <2> QED
    BY <2>1, <2>2, <2>3
<1>13. CASE Restore(u)
  BY <1>13, <1>p DEF Restore, TypeOK, Sourced, UsesSource, Carried, InReplace
<1>14. CASE DropOld(u)
  BY <1>14, <1>p, RemovalBase DEF DropOld, UsesSource
<1>15. CASE DropSource(u)
  BY <1>15, <1>p DEF DropSource, TypeOK, Sourced, UsesSource, Carried, InReplace
<1>16. CASE Finish(u)
  BY <1>16, <1>p DEF Finish, TypeOK, Sourced, UsesSource, Carried
<1>17. CASE Retry(u)
  BY <1>17, <1>p, FinalizeAssumption
  DEF Retry, TypeOK, Sourced, UsesSource, Carried
<1>18. CASE GiveUp(u)
  BY <1>18, <1>p DEF GiveUp, TypeOK, Sourced, UsesSource, Carried
<1>19. CASE TransientError(u)
  BY <1>19, <1>p, FinalizeAssumption
  DEF TransientError, TypeOK, Sourced, UsesSource, Carried, InReplace
<1> QED
  BY <1>1, <1>2, <1>3, <1>4, <1>5, <1>6, <1>7, <1>8, <1>9, <1>10, <1>11,
     <1>12, <1>13, <1>14, <1>15, <1>16, <1>17, <1>18, <1>19 DEF Step

LEMMA CrashBase == BaseInv /\ Crash => BaseInv'
<1> SUFFICES ASSUME BaseInv, Crash PROVE BaseInv'
  OBVIOUS
<1> USE DEF BaseInv, Crash, dirs, rows
<1>1. TypeOK'
  BY FinalizeAssumption DEF TypeOK, Points, Settled
<1>2. Sourced'
  BY DEF TypeOK, Sourced, UsesSource, Settled
<1>3. Carried'
  BY DEF Carried
<1> QED
  BY <1>1, <1>2, <1>3

LEMMA StutterBase == BaseInv /\ UNCHANGED vars => BaseInv'
  BY DEF BaseInv, TypeOK, Sourced, Carried, Proper, vars

LEMMA NextBase == BaseInv /\ [Next]_vars => BaseInv'
  BY StepBase, CrashBase, StutterBase DEF Next

\* Every behaviour keeps the types of all the variables of the finalization.
THEOREM TypeCorrect == Spec => []TypeOK
<1>1. BaseInv => TypeOK
  BY DEF BaseInv
<1> QED
  BY InitBase, NextBase, <1>1, PTL DEF Spec

\* The folder in place carries the marker of the upload it comes from, and of
\* no other, however finalizations overlap and wherever they are interrupted.
THEOREM MarkerCorrect == Spec => []MarkerTellsContent
<1>1. BaseInv => MarkerTellsContent
  BY DEF BaseInv, Carried, Proper, MarkerTellsContent
<1> QED
  BY InitBase, NextBase, <1>1, PTL DEF Spec

----------------------------------------------------------------------------
(* One finalization at a time: no album is lost                            *)

\* What each point of the step knows of its result, its backup and the folder.
Stages ==
  \A u \in Uploads :
    /\ pc[u] \in InReplace \cup {"finished", "done"} => result[u]
    /\ pc[u] = "locked" => ~result[u]
    /\ pc[u] = "putBack" => backup[u] # Absent
    /\ pc[u] = "finished" => backup[u] = Absent
    /\ pc[u] \in {"dropBackup", "aside", "dropSource", "dropOld", "finished"}
         => target # Absent
    /\ pc[u] = "raised" /\ result[u] /\ target = Absent => backup[u] = Absent

SerialInv == BaseInv /\ OneAtATime /\ Stages /\ AlbumKept

LEMMA InitSerial == Init => SerialInv
<1> SUFFICES ASSUME Init PROVE SerialInv
  OBVIOUS
<1>1. OneAtATime
  BY DEF Init, OneAtATime, Underway
<1>2. Stages
  BY DEF Init, Stages, InReplace
<1>3. AlbumKept
  <2>1. Tree(Old, Nobody) # Absent
    <3>1. Tree(Old, Nobody) \in Trees
      BY DEF Tree, Trees
    <3> QED
      BY <3>1, AbsentAssumption
  <2>2. Tree(Old, Nobody).whole
    BY DEF Tree
  <2> QED
    BY <2>1, <2>2, FinalizeAssumption DEF Init, AlbumKept
<1> QED
  BY InitBase, <1>1, <1>2, <1>3 DEF SerialInv

\* What the points know survives each step of the one that is under way.
LEMMA StepStages ==
  ASSUME SerialInv, BaseInv', OneAtATime',
         NEW u \in Uploads, Step(u) \/ TransientError(u)
  PROVE  Stages'
<1> USE DEF SerialInv, BaseInv, TypeOK, Stages, InReplace, Settled,
            OneAtATime, Underway, Goto, ReleaseIfHeld, dirs, rows
<1>1. CASE TryLock(u)
  BY <1>1 DEF TryLock
<1>2. CASE Resume(u)
  BY <1>2 DEF Resume
<1>3. CASE Commit(u)
  BY <1>3 DEF Commit
<1>4. CASE CheckMarker(u)
  BY <1>4 DEF CheckMarker
<1>5. CASE FindSource(u)
  BY <1>5 DEF FindSource
<1>6. CASE PutBack(u)
  BY <1>6 DEF PutBack
<1>7. CASE FindTarget(u)
  BY <1>7 DEF FindTarget
<1>8. CASE DropBackup(u)
  BY <1>8 DEF DropBackup, BackupRemoved
<1>9. CASE MoveAside(u)
  BY <1>9 DEF MoveAside
<1>10. CASE RetainPosters(u)
  BY <1>10 DEF RetainPosters
<1>11. CASE WriteMarker(u)
  BY <1>11 DEF WriteMarker
<1>12. CASE MoveIn(u)
  BY <1>12 DEF MoveIn, Sourced, UsesSource
<1>13. CASE Restore(u)
  BY <1>13 DEF Restore
<1>14. CASE DropOld(u)
  BY <1>14 DEF DropOld, BackupRemoved
<1>15. CASE DropSource(u)
  BY <1>15 DEF DropSource
<1>16. CASE Finish(u)
  BY <1>16 DEF Finish
<1>17. CASE Retry(u)
  BY <1>17 DEF Retry
<1>18. CASE GiveUp(u)
  BY <1>18 DEF GiveUp
<1>19. CASE TransientError(u)
  BY <1>19 DEF TransientError
<1> QED
  BY <1>1, <1>2, <1>3, <1>4, <1>5, <1>6, <1>7, <1>8, <1>9, <1>10, <1>11,
     <1>12, <1>13, <1>14, <1>15, <1>16, <1>17, <1>18, <1>19 DEF Step

\* The album survives each step of the one that is under way.
LEMMA StepKept ==
  ASSUME SerialInv, BaseInv', OneAtATime',
         NEW u \in Uploads, Step(u) \/ TransientError(u)
  PROVE  AlbumKept'
<1> USE DEF SerialInv, BaseInv, TypeOK, Stages, AlbumKept, Kept, Dropping,
            InReplace, Settled, OneAtATime, Underway, Goto, dirs, rows
<1>1. CASE TryLock(u)
  BY <1>1 DEF TryLock
<1>2. CASE Resume(u)
  BY <1>2 DEF Resume
<1>3. CASE Commit(u)
  BY <1>3 DEF Commit
<1>4. CASE CheckMarker(u)
  BY <1>4 DEF CheckMarker
<1>5. CASE FindSource(u)
  BY <1>5 DEF FindSource
<1>6. CASE PutBack(u)
  BY <1>6 DEF PutBack
<1>7. CASE FindTarget(u)
  BY <1>7 DEF FindTarget
<1>8. CASE DropBackup(u)
  BY <1>8 DEF DropBackup, BackupRemoved
<1>9. CASE MoveAside(u)
  BY <1>9 DEF MoveAside
<1>10. CASE RetainPosters(u)
  BY <1>10 DEF RetainPosters
<1>11. CASE WriteMarker(u)
  BY <1>11 DEF WriteMarker
<1>12. CASE MoveIn(u)
  BY <1>12 DEF MoveIn, Sourced, UsesSource
<1>13. CASE Restore(u)
  BY <1>13 DEF Restore
<1>14. CASE DropOld(u)
  BY <1>14 DEF DropOld, BackupRemoved
<1>15. CASE DropSource(u)
  BY <1>15 DEF DropSource
<1>16. CASE Finish(u)
  BY <1>16 DEF Finish
<1>17. CASE Retry(u)
  BY <1>17 DEF Retry
<1>18. CASE GiveUp(u)
  BY <1>18 DEF GiveUp
<1>19. CASE TransientError(u)
  BY <1>19 DEF TransientError
<1> QED
  BY <1>1, <1>2, <1>3, <1>4, <1>5, <1>6, <1>7, <1>8, <1>9, <1>10, <1>11,
     <1>12, <1>13, <1>14, <1>15, <1>16, <1>17, <1>18, <1>19 DEF Step

LEMMA CrashSerial ==
  ASSUME SerialInv, OneAtATime', Crash
  PROVE  SerialInv'
<1>1. BaseInv'
  BY CrashBase DEF SerialInv
<1>2. Stages'
  BY DEF SerialInv, BaseInv, TypeOK, Crash, Stages, InReplace, Settled, dirs, rows
<1>3. AlbumKept'
  BY DEF SerialInv, BaseInv, TypeOK, Crash, AlbumKept, Kept, Dropping,
         Underway, Settled, dirs, rows
<1> QED
  BY <1>1, <1>2, <1>3 DEF SerialInv

LEMMA StutterSerial == SerialInv /\ UNCHANGED vars => SerialInv'
<1> SUFFICES ASSUME SerialInv, UNCHANGED vars PROVE SerialInv'
  OBVIOUS
<1>1. BaseInv'
  BY StutterBase DEF SerialInv
<1>2. OneAtATime' /\ Stages' /\ AlbumKept'
  BY DEF SerialInv, OneAtATime, Stages, AlbumKept, Kept, Underway, vars
<1> QED
  BY <1>1, <1>2 DEF SerialInv

LEMMA NextSerial == SerialInv /\ [Next /\ OneAtATime']_vars => SerialInv'
<1> SUFFICES ASSUME SerialInv, [Next /\ OneAtATime']_vars PROVE SerialInv'
  OBVIOUS
<1>1. CASE Crash /\ OneAtATime'
  BY <1>1, CrashSerial
<1>2. ASSUME NEW u \in Uploads, Step(u) \/ TransientError(u), OneAtATime'
      PROVE  SerialInv'
  <2>1. BaseInv'
    BY <1>2, StepBase DEF SerialInv
  <2> QED
    BY <1>2, <2>1, StepStages, StepKept DEF SerialInv
<1>3. CASE UNCHANGED vars
  BY <1>3, StutterSerial
<1> QED
  BY <1>1, <1>2, <1>3 DEF Next

\* As long as finalizations follow one another, no crash, error or retry
\* loses the album: the folder or the backup of the one under way is complete.
THEOREM AlbumNeverLost == SerialSpec => []AlbumKept
<1>1. SerialInv => AlbumKept
  BY DEF SerialInv
<1> QED
  BY InitSerial, NextSerial, <1>1, PTL DEF SerialSpec

----------------------------------------------------------------------------
(* One finalization at a time: the folder implements AlbumSwap             *)

\* The extracted folder of an upload that has arrived is gone.
Consumed == \A u \in arrived : source[u] = Absent

SwapInv == SerialInv /\ Consumed

Holds(u) == Underway(u) /\ backup[u] # Absent

\* Without a folder in place, the only backup held is the live content.
LEMMA LiveHeld ==
  ASSUME OneAtATime, target = Absent, NEW u \in Uploads, Holds(u)
  PROVE  Live = backup[u].data
<1>1. (CHOOSE v \in Uploads : Underway(v) /\ backup[v] # Absent) = u
  BY DEF OneAtATime, Holds
<1> QED
  BY <1>1 DEF Live, Holds

LEMMA LiveHeldNext ==
  ASSUME OneAtATime', target' = Absent, NEW u \in Uploads, Holds(u)'
  PROVE  Live' = backup'[u].data
<1>1. (CHOOSE v \in Uploads : Underway(v)' /\ backup'[v] # Absent) = u
  BY DEF OneAtATime, Holds
<1> QED
  BY <1>1 DEF Live, Holds

\* A step that moves no folder and leaves the holders alone keeps it live.
LEMMA LiveKept ==
  ASSUME target' = target,
         target = Absent =>
           \A v \in Uploads : /\ Holds(v)' <=> Holds(v)
                              /\ Holds(v) => backup'[v].data = backup[v].data,
         OneAtATime, OneAtATime'
  PROVE  Live' = Live
<1>1. CASE target # Absent
  BY <1>1 DEF Live
<1>2. CASE target = Absent /\ \E v \in Uploads : Holds(v)
  BY <1>2, LiveHeld, LiveHeldNext
<1>3. CASE target = Absent /\ ~\E v \in Uploads : Holds(v)
  BY <1>3 DEF Live, Holds
<1> QED
  BY <1>1, <1>2, <1>3

LEMMA InitSwap == Init => SwapInv /\ Swap!Init
<1> SUFFICES ASSUME Init PROVE SwapInv /\ Swap!Init
  OBVIOUS
<1>1. SwapInv
  BY InitSerial DEF SwapInv, Consumed, Init
<1>2. Tree(Old, Nobody) # Absent
  <2>1. Tree(Old, Nobody) \in Trees
    BY DEF Tree, Trees
  <2> QED
    BY <2>1, AbsentAssumption
<1>3. Live = IF HadAlbum THEN Old ELSE Absent
  <2>1. Tree(Old, Nobody).data = Old
    BY DEF Tree
  <2> QED
    BY <1>2, <2>1 DEF Init, Live, Underway
<1> QED
  BY <1>1, <1>3 DEF Swap!Init, Init

\* The move of the extracted folder to its place is the switch.
LEMMA MoveInSwitches ==
  ASSUME SwapInv, NEW u \in Uploads, MoveIn(u), OneAtATime'
  PROVE  Swap!Switch(u) \/ (Live' = Live /\ arrived' = arrived)
<1> USE DEF SwapInv, SerialInv, BaseInv
<1>1. CASE target = Absent
  <2>1. source[u] # Absent /\ source[u].data = u
    BY DEF MoveIn, Sourced, UsesSource
  <2>2. u \notin arrived
    BY <2>1 DEF Consumed
  <2>3. Live' = u
    BY <1>1, <2>1 DEF MoveIn, Live
  <2>4. arrived' = arrived \cup {u}
    BY <1>1 DEF MoveIn
  <2> QED
    BY <2>2, <2>3, <2>4 DEF Swap!Switch
<1>2. CASE target # Absent
  BY <1>2 DEF MoveIn, Live
<1> QED
  BY <1>1, <1>2

\* The rename aside and the rename back leave the same content live.
LEMMA MoveAsideStutters ==
  ASSUME SwapInv, BaseInv', NEW u \in Uploads, MoveAside(u), OneAtATime'
  PROVE  Live' = Live
<1> USE DEF SwapInv, SerialInv, BaseInv
<1>1. target # Absent
  BY DEF MoveAside, Stages
<1>2. target' = Absent /\ backup'[u] = target /\ Holds(u)'
  BY <1>1 DEF MoveAside, TypeOK, Stages, Holds, Underway, Goto, InReplace, Settled, rows
<1> QED
  BY <1>1, <1>2, LiveHeldNext DEF Live

LEMMA PutBackStutters ==
  ASSUME SwapInv, NEW u \in Uploads, PutBack(u), OneAtATime'
  PROVE  Live' = Live
<1> USE DEF SwapInv, SerialInv, BaseInv
<1>1. CASE target = Absent
  <2>1. Holds(u)
    BY DEF PutBack, Stages, Holds, Underway, InReplace, Settled
  <2>2. target' = backup[u] /\ target' # Absent
    BY <1>1, <2>1 DEF PutBack, Holds
  <2> QED
    BY <1>1, <2>1, <2>2, LiveHeld DEF Live
<1>2. CASE target # Absent
  BY <1>2 DEF PutBack, Live
<1> QED
  BY <1>1, <1>2

\* The commit cannot change which content is live: when the folder is not in
\* place another finalization would have to be under way.
LEMMA CommitStutters ==
  ASSUME SwapInv, NEW u \in Uploads, Commit(u), OneAtATime'
  PROVE  Live' = Live
<1> USE DEF SwapInv, SerialInv, BaseInv
<1>1. CASE target # Absent
  BY <1>1 DEF Commit, dirs, Live
<1>2. CASE target = Absent
  <2>1. ~result[u] /\ Underway(u)'
    BY DEF Commit, Stages, TypeOK, Underway, Goto, Settled
  <2>2. \A v \in Uploads : Underway(v) => Underway(v)'
    BY DEF Commit, TypeOK, Underway, Goto, Settled
  <2>3. \A v \in Uploads : ~Underway(v)
    BY <2>1, <2>2 DEF OneAtATime, Underway
  <2>4. \A v \in Uploads : backup[v] = Absent
    BY <1>2, <2>3 DEF AlbumKept
  <2> QED
    BY <1>2, <2>4 DEF Commit, dirs, Live
<1> QED
  BY <1>1, <1>2

\* Every other step keeps the folder, and the backup that stands for it.
LEMMA OthersStutter ==
  ASSUME SwapInv, BaseInv', OneAtATime', NEW u \in Uploads,
         Step(u) \/ TransientError(u),
         ~MoveIn(u), ~MoveAside(u), ~PutBack(u), ~Commit(u)
  PROVE  Live' = Live /\ arrived' = arrived
<1> USE DEF SwapInv, SerialInv, BaseInv, Goto, dirs, rows, Holds, Underway,
            Settled, InReplace
<1>1. CASE TryLock(u)
  BY <1>1, LiveKept DEF TryLock, TypeOK, Stages
<1>2. CASE Resume(u)
  BY <1>2, LiveKept DEF Resume, TypeOK, Stages
<1>3. CASE CheckMarker(u)
  BY <1>3, LiveKept DEF CheckMarker, TypeOK, Stages
<1>4. CASE FindSource(u)
  BY <1>4, LiveKept DEF FindSource, TypeOK, Stages
<1>5. CASE FindTarget(u)
  BY <1>5, LiveKept DEF FindTarget, TypeOK, Stages
<1>6. CASE DropBackup(u)
  BY <1>6, LiveKept DEF DropBackup, BackupRemoved, TypeOK, Stages
<1>7. CASE RetainPosters(u)
  BY <1>7, LiveKept DEF RetainPosters, TypeOK, Stages
<1>8. CASE WriteMarker(u)
  BY <1>8, LiveKept DEF WriteMarker, TypeOK, Stages
<1>9. CASE Restore(u)
  BY <1>9, LiveKept DEF Restore, TypeOK, Stages
<1>10. CASE DropOld(u)
  BY <1>10, LiveKept DEF DropOld, BackupRemoved, TypeOK, Stages
<1>11. CASE DropSource(u)
  BY <1>11, LiveKept DEF DropSource, TypeOK, Stages
<1>12. CASE Finish(u)
  BY <1>12, LiveKept DEF Finish, TypeOK, Stages
<1>13. CASE Retry(u)
  BY <1>13, LiveKept DEF Retry, TypeOK, Stages
<1>14. CASE GiveUp(u)
  BY <1>14, LiveKept DEF GiveUp, TypeOK, Stages
<1>15. CASE TransientError(u)
  BY <1>15, LiveKept DEF TransientError, TypeOK, Stages
<1> QED
  BY <1>1, <1>2, <1>3, <1>4, <1>5, <1>6, <1>7, <1>8, <1>9, <1>10, <1>11,
     <1>12, <1>13, <1>14, <1>15 DEF Step

LEMMA CrashStutters ==
  ASSUME SwapInv, OneAtATime', Crash
  PROVE  Live' = Live /\ arrived' = arrived
<1>1. target' = target /\ backup' = backup /\ arrived' = arrived
  BY DEF Crash, dirs
<1>2. \A v \in Uploads : Holds(v)' <=> Holds(v)
  BY <1>1 DEF Crash, Holds, Underway, Settled, rows, SwapInv, SerialInv, BaseInv, TypeOK
<1> QED
  BY <1>1, <1>2, LiveKept DEF SwapInv, SerialInv

\* The extracted folder of an arrived upload never comes back.
LEMMA StepConsumed ==
  ASSUME SwapInv, NEW u \in Uploads, Step(u) \/ TransientError(u)
  PROVE  Consumed'
<1> USE DEF SwapInv, SerialInv, BaseInv, Consumed, TypeOK, dirs
<1>1. CASE MoveIn(u)
  BY <1>1 DEF MoveIn
<1>2. CASE WriteMarker(u)
  <2>1. u \notin arrived
    BY <1>2 DEF WriteMarker, Sourced, UsesSource
  <2> QED
    BY <1>2, <2>1 DEF WriteMarker
<1>3. CASE DropSource(u) \/ Finish(u) \/ GiveUp(u)
  BY <1>3 DEF DropSource, Finish, GiveUp
<1>4. CASE UNCHANGED <<source, arrived>>
  BY <1>4
<1> QED
  BY <1>1, <1>2, <1>3, <1>4
  DEF Step, TransientError, TryLock, Resume, Commit, CheckMarker, FindSource,
      PutBack, FindTarget, DropBackup, MoveAside, RetainPosters, Restore,
      DropOld, Retry

LEMMA NextSwap ==
  ASSUME SwapInv, [Next /\ OneAtATime']_vars
  PROVE  SwapInv' /\ [Swap!Next]_<<Live, arrived>>
<1>1. SerialInv'
  BY NextSerial DEF SwapInv
<1>2. ASSUME NEW u \in Uploads, Step(u) \/ TransientError(u), OneAtATime'
      PROVE  Consumed' /\ [Swap!Next]_<<Live, arrived>>
  <2>1. Consumed'
    BY <1>2, StepConsumed
  <2>2. CASE MoveIn(u)
    BY <1>2, <2>1, <2>2, MoveInSwitches DEF Swap!Next
  <2>3. CASE MoveAside(u)
    <3>1. Live' = Live
      BY <1>1, <1>2, <2>3, MoveAsideStutters DEF SerialInv
    <3> QED
      BY <2>1, <2>3, <3>1 DEF MoveAside
  <2>4. CASE PutBack(u)
    <3>1. Live' = Live
      BY <1>2, <2>4, PutBackStutters
    <3> QED
      BY <2>1, <2>4, <3>1 DEF PutBack
  <2>5. CASE Commit(u)
    <3>1. Live' = Live
      BY <1>2, <2>5, CommitStutters
    <3> QED
      BY <2>1, <2>5, <3>1 DEF Commit
  <2>6. CASE ~MoveIn(u) /\ ~MoveAside(u) /\ ~PutBack(u) /\ ~Commit(u)
    BY <1>1, <1>2, <2>1, <2>6, OthersStutter DEF SerialInv
  <2> QED
    BY <2>1, <2>2, <2>3, <2>4, <2>5, <2>6
<1>3. CASE Crash /\ OneAtATime'
  <2>1. Consumed'
    BY <1>3 DEF Crash, dirs, SwapInv, Consumed
  <2> QED
    BY <1>1, <1>3, <2>1, CrashStutters DEF SwapInv
<1>4. CASE UNCHANGED vars
  <2>1. Consumed'
    BY <1>4 DEF vars, SwapInv, Consumed
  <2>2. Live' = Live /\ arrived' = arrived
    BY <1>4 DEF vars, Live, Underway
  <2> QED
    BY <1>1, <2>1, <2>2 DEF SwapInv
<1> QED
  BY <1>1, <1>2, <1>3, <1>4 DEF Next, SwapInv

\* Finalizations that follow one another, interrupted anywhere and executed
\* again, change the album folder only by the switches of AlbumSwap.
THEOREM FolderImplementsSwap == SerialSpec => SwapsOnce
  BY InitSwap, NextSwap, PTL DEF SerialSpec, SwapsOnce, Swap!Spec

----------------------------------------------------------------------------
(* Any interleaving: an upload's content exists once                       *)

\* The places of the disk hold different contents.
Apart ==
  /\ \A u, v \in Uploads :
       /\ source[u] # Absent /\ backup[v] # Absent => backup[v].data # u
       /\ u # v /\ backup[u] # Absent /\ backup[v] # Absent
            => backup[u].data # backup[v].data
  /\ target # Absent =>
       \A u \in Uploads :
         /\ source[u] # Absent => target.data # u
         /\ backup[u] # Absent => target.data # backup[u].data

ApartInv == BaseInv /\ Apart

LEMMA InitApart == Init => ApartInv
<1> SUFFICES ASSUME Init PROVE ApartInv
  OBVIOUS
<1>1. Apart
  BY FinalizeAssumption DEF Init, Apart, Tree
<1> QED
  BY <1>1, InitBase DEF ApartInv

\* A removal changes no content; it ends with one place less.
LEMMA RemovalApart ==
  ASSUME ApartInv, NEW u \in Uploads, NEW next, BackupRemoved(u, next),
         UNCHANGED <<target, source>>
  PROVE  Apart'
<1> USE DEF ApartInv, BaseInv, TypeOK
<1>1. CASE backup' = [backup EXCEPT ![u].whole = FALSE] /\ backup[u] # Absent
  <2>1. backup[u] \in Trees
    BY <1>1
  <2>2. backup' = [backup EXCEPT ![u] = [backup[u] EXCEPT !.whole = FALSE]]
    BY <1>1
  <2>3. backup'[u].data = backup[u].data
    BY <2>1, <2>2, TreeUpdates
  <2>4. \A v \in Uploads : v # u => backup'[v] = backup[v]
    BY <2>2
  <2> QED
    BY <1>1, <2>3, <2>4 DEF Apart
<1>2. CASE backup' = [backup EXCEPT ![u] = Absent]
  BY <1>2 DEF Apart
<1> QED
  BY <1>1, <1>2 DEF BackupRemoved

\* A step moves a folder or removes one: it never makes a second copy.
LEMMA StepApart ==
  ASSUME ApartInv, NEW u \in Uploads, Step(u) \/ TransientError(u)
  PROVE  Apart'
<1> USE DEF ApartInv, BaseInv, TypeOK, dirs
<1>1. CASE PutBack(u)
  <2>1. CASE target = Absent
    <3>1. /\ target' = backup[u] /\ backup'[u] = Absent /\ source' = source
          /\ \A v \in Uploads : v # u => backup'[v] = backup[v]
      BY <1>1, <2>1 DEF PutBack
    <3> QED
      BY <3>1 DEF Apart
  <2>2. CASE target # Absent
    BY <1>1, <2>2 DEF PutBack, Apart
  <2> QED
    BY <2>1, <2>2
<1>2. CASE MoveAside(u)
  <2>1. CASE target # Absent
    <3>1. /\ target' = Absent /\ backup'[u] = target /\ source' = source
          /\ \A v \in Uploads : v # u => backup'[v] = backup[v]
      BY <1>2, <2>1 DEF MoveAside
    <3> QED
      BY <2>1, <3>1 DEF Apart
  <2>2. CASE target = Absent
    BY <1>2, <2>2 DEF MoveAside, Apart
  <2> QED
    BY <2>1, <2>2
<1>3. CASE MoveIn(u)
  <2>1. CASE target = Absent
    <3>1. /\ target' = source[u] /\ source'[u] = Absent /\ backup' = backup
          /\ \A v \in Uploads : v # u => source'[v] = source[v]
      BY <1>3, <2>1 DEF MoveIn
    <3>2. source[u] # Absent /\ source[u].data = u
      BY <1>3 DEF MoveIn, Sourced, UsesSource
    <3> QED
      BY <3>1, <3>2 DEF Apart
  <2>2. CASE target # Absent
    BY <1>3, <2>2 DEF MoveIn, Apart
  <2> QED
    BY <2>1, <2>2
<1>4. CASE WriteMarker(u)
  <2>1. source[u] # Absent
    BY <1>4 DEF WriteMarker, Sourced, UsesSource
  <2>2. \A v \in Uploads : v # u => source'[v] = source[v]
    BY <1>4 DEF WriteMarker
  <2> QED
    BY <1>4, <2>1, <2>2 DEF WriteMarker, Apart
<1>5. CASE DropBackup(u) \/ DropOld(u)
  BY <1>5, RemovalApart DEF DropBackup, DropOld
<1>6. CASE DropSource(u) \/ Finish(u) \/ GiveUp(u)
  <2>1. source' = [source EXCEPT ![u] = Absent] /\ UNCHANGED <<target, backup>>
    BY <1>6 DEF DropSource, Finish, GiveUp
  <2> QED
    BY <2>1 DEF Apart
<1>7. CASE UNCHANGED dirs
  BY <1>7 DEF Apart
<1> QED
  BY <1>1, <1>2, <1>3, <1>4, <1>5, <1>6, <1>7
  DEF Step, TransientError, TryLock, Resume, Commit, CheckMarker, FindSource,
      FindTarget, RetainPosters, Restore, Retry

LEMMA NextApart == ApartInv /\ [Next]_vars => ApartInv'
<1> SUFFICES ASSUME ApartInv, [Next]_vars PROVE ApartInv'
  OBVIOUS
<1>1. BaseInv'
  BY NextBase DEF ApartInv
<1>2. CASE Crash \/ UNCHANGED vars
  BY <1>1, <1>2 DEF Crash, vars, dirs, ApartInv, Apart
<1>3. ASSUME NEW u \in Uploads, Step(u) \/ TransientError(u) PROVE ApartInv'
  BY <1>1, <1>3, StepApart DEF ApartInv
<1> QED
  BY <1>2, <1>3 DEF Next

\* Two copies of an upload's content would be two places with one content.
LEMMA ApartCopies ==
  ASSUME ApartInv, NEW u \in Uploads, NEW x \in Copies(u), NEW y \in Copies(u)
  PROVE  x = y
<1> USE DEF ApartInv, BaseInv
<1>1. ASSUME NEW z \in Copies(u)
      PROVE  \/ z = <<"source", u>> /\ source[u] # Absent
             \/ \E v \in Uploads : z = <<"backup", v>> /\ backup[v] # Absent /\ backup[v].data = u
             \/ z = <<"target", u>> /\ target # Absent /\ target.data = u
  BY <1>1 DEF Copies, Sourced
<1>2. CASE x = <<"source", u>> /\ source[u] # Absent
  BY <1>1, <1>2 DEF Apart
<1>3. CASE x = <<"target", u>> /\ target # Absent /\ target.data = u
  BY <1>1, <1>3 DEF Apart
<1>4. ASSUME NEW v \in Uploads, x = <<"backup", v>>, backup[v] # Absent, backup[v].data = u
      PROVE  x = y
  BY <1>1, <1>4 DEF Apart
<1> QED
  BY <1>1, <1>2, <1>3, <1>4

\* However finalizations overlap, wherever they are interrupted and however
\* often they are executed again, no upload's content is on disk twice.
THEOREM CopiedNever == Spec => []OneCopy
<1>1. ApartInv => OneCopy
  <2> SUFFICES ASSUME ApartInv, NEW u \in Uploads PROVE Cardinality(Copies(u)) <= 1
    BY DEF OneCopy
  <2>1. CASE Copies(u) = {}
    BY <2>1, FS_EmptySet
  <2>2. ASSUME NEW x \in Copies(u) PROVE Cardinality(Copies(u)) <= 1
    <3>1. Copies(u) = {x}
      BY <2>2, ApartCopies
    <3> QED
      BY <3>1, FS_Singleton
  <2> QED
    BY <2>1, <2>2
<1> QED
  BY InitApart, NextApart, <1>1, PTL DEF Spec

----------------------------------------------------------------------------
(* Any interleaving: what is left when the finalizations have ended        *)

\* A point inside the replacement, or after it, is reached with the result.
Committed == \A u \in Uploads : pc[u] \in InReplace => result[u]

\* A success has removed its backup, then its extracted folder.
Cleared ==
  \A u \in Uploads :
    /\ pc[u] \in {"finished", "done"} => backup[u] = Absent
    /\ pc[u] = "done" => source[u] = Absent

\* The finalization that moved the folder aside and has not ended: it will
\* move its own in or put this one back.
Responsible(u) ==
  /\ result[u] /\ backup[u] # Absent
  /\ pc[u] \in {"idle", "check", "findSource", "findTarget", "posters", "mark",
                "move", "restore", "putBack"}

\* There has been no folder yet.
NoneYet ==
  /\ ~HadAlbum
  /\ \A u \in Uploads : pc[u] \notin {"dropSource", "dropOld", "finished", "done"}

\* Somebody answers for a folder that is not in place.
Answered == target = Absent => NoneYet \/ \E u \in Uploads : Responsible(u)

RestInv == BaseInv /\ Committed /\ Cleared /\ Answered

LEMMA InitRest == Init => RestInv
<1> SUFFICES ASSUME Init PROVE RestInv
  OBVIOUS
<1>1. Tree(Old, Nobody) # Absent
  <2>1. Tree(Old, Nobody) \in Trees
    BY DEF Tree, Trees
  <2> QED
    BY <2>1, AbsentAssumption
<1>2. Committed /\ Cleared /\ Answered
  BY <1>1, FinalizeAssumption DEF Init, Committed, Cleared, Answered, NoneYet, InReplace
<1> QED
  BY <1>2, InitBase DEF RestInv

\* Each step keeps the order of the removals, and hands the responsibility on.
LEMMA StepRest ==
  ASSUME RestInv, BaseInv', NEW u \in Uploads, Step(u) \/ TransientError(u)
  PROVE  Committed' /\ Cleared' /\ Answered'
<1> USE DEF RestInv, BaseInv, TypeOK, Committed, Cleared, Answered, NoneYet,
            Responsible, InReplace, Settled, Goto, dirs, rows
<1>1. CASE TryLock(u)
  BY <1>1 DEF TryLock
<1>2. CASE Resume(u)
  BY <1>2 DEF Resume
<1>3. CASE Commit(u)
  BY <1>3 DEF Commit
<1>4. CASE CheckMarker(u)
  BY <1>4 DEF CheckMarker
<1>5. CASE FindSource(u)
  BY <1>5 DEF FindSource
<1>6. CASE PutBack(u)
  BY <1>6 DEF PutBack
<1>7. CASE FindTarget(u)
  BY <1>7 DEF FindTarget
<1>8. CASE DropBackup(u)
  BY <1>8 DEF DropBackup, BackupRemoved
<1>9. CASE MoveAside(u)
  BY <1>9 DEF MoveAside
<1>10. CASE RetainPosters(u)
  BY <1>10 DEF RetainPosters
<1>11. CASE WriteMarker(u)
  BY <1>11 DEF WriteMarker
<1>12. CASE MoveIn(u)
  BY <1>12 DEF MoveIn, Sourced, UsesSource
<1>13. CASE Restore(u)
  BY <1>13 DEF Restore
<1>14. CASE DropOld(u)
  BY <1>14 DEF DropOld, BackupRemoved
<1>15. CASE DropSource(u)
  BY <1>15 DEF DropSource
<1>16. CASE Finish(u)
  BY <1>16 DEF Finish
<1>17. CASE Retry(u)
  BY <1>17 DEF Retry
<1>18. CASE GiveUp(u)
  BY <1>18 DEF GiveUp
<1>19. CASE TransientError(u)
  BY <1>19 DEF TransientError
<1> QED
  BY <1>1, <1>2, <1>3, <1>4, <1>5, <1>6, <1>7, <1>8, <1>9, <1>10, <1>11,
     <1>12, <1>13, <1>14, <1>15, <1>16, <1>17, <1>18, <1>19 DEF Step

LEMMA CrashRest ==
  ASSUME RestInv, Crash
  PROVE  Committed' /\ Cleared' /\ Answered'
  BY DEF RestInv, BaseInv, TypeOK, Crash, Committed, Cleared, Answered, NoneYet,
         Responsible, InReplace, Settled, dirs, rows

LEMMA NextRest == RestInv /\ [Next]_vars => RestInv'
<1> SUFFICES ASSUME RestInv, [Next]_vars PROVE RestInv'
  OBVIOUS
<1>1. BaseInv'
  BY NextBase DEF RestInv
<1>2. CASE UNCHANGED vars
  BY <1>1, <1>2 DEF vars, RestInv, Committed, Cleared, Answered, NoneYet, Responsible
<1>3. CASE Crash
  BY <1>1, <1>3, CrashRest DEF RestInv
<1>4. ASSUME NEW u \in Uploads, Step(u) \/ TransientError(u) PROVE RestInv'
  BY <1>1, <1>4, StepRest DEF RestInv
<1> QED
  BY <1>2, <1>3, <1>4 DEF Next

\* A success leaves nothing behind, and no outcome of all the finalizations,
\* overlapping and interrupted as they may be, leaves the album out of place.
THEOREM FolderAtRest == Spec => []AtRest
<1>1. RestInv => AtRest
  <2> SUFFICES ASSUME RestInv PROVE AtRest
    OBVIOUS
  <2>1. (\A u \in Uploads : pc[u] \in Settled) => \A u \in Uploads : ~Responsible(u)
    BY DEF Responsible, Settled
  <2> QED
    BY <2>1 DEF RestInv, Cleared, Answered, NoneYet, AtRest
<1> QED
  BY InitRest, NextRest, <1>1, PTL DEF Spec

----------------------------------------------------------------------------
(* One finalization at a time: the folder and the database agree           *)

\* The current operation's upload is the only one that can be under way, and
\* from its move on the folder in place is its own.
NewestOnly ==
  /\ \A u \in Uploads : Underway(u) => u = newest
  /\ \A u \in Uploads : u = newest =>
       /\ result[u]
       /\ pc[u] \in {"dropSource", "dropOld", "finished", "done"}
            => target # Absent /\ target.data = u

NewestInv == SerialInv /\ NewestOnly

LEMMA InitNewest == Init => NewestInv
<1> SUFFICES ASSUME Init PROVE NewestInv
  OBVIOUS
<1>1. NewestOnly
  BY FinalizeAssumption DEF Init, NewestOnly, Underway
<1> QED
  BY <1>1, InitSerial DEF NewestInv

\* A folder that carries the marker of u has its content.
LEMMA StepNewest ==
  ASSUME NewestInv, SerialInv', NEW u \in Uploads, Step(u) \/ TransientError(u)
  PROVE  NewestOnly'
<1> USE DEF NewestInv, SerialInv, BaseInv, TypeOK, Stages, NewestOnly, OneAtATime,
            Underway, InReplace, Settled, Goto, dirs, rows
<1>1. CASE TryLock(u)
  BY <1>1 DEF TryLock
<1>2. CASE Resume(u)
  BY <1>2 DEF Resume
<1>3. CASE Commit(u)
  BY <1>3 DEF Commit
<1>4. CASE CheckMarker(u)
  <2>1. target # Absent /\ target.marker = u => target.data = u
    BY DEF Carried, Proper
  <2> QED
    BY <1>4, <2>1 DEF CheckMarker
<1>5. CASE FindSource(u)
  BY <1>5 DEF FindSource
<1>6. CASE PutBack(u)
  BY <1>6 DEF PutBack
<1>7. CASE FindTarget(u)
  BY <1>7 DEF FindTarget
<1>8. CASE DropBackup(u)
  BY <1>8 DEF DropBackup, BackupRemoved
<1>9. CASE MoveAside(u)
  BY <1>9 DEF MoveAside
<1>10. CASE RetainPosters(u)
  BY <1>10 DEF RetainPosters
<1>11. CASE WriteMarker(u)
  BY <1>11 DEF WriteMarker
<1>12. CASE MoveIn(u)
  BY <1>12 DEF MoveIn, Sourced, UsesSource
<1>13. CASE Restore(u)
  BY <1>13 DEF Restore
<1>14. CASE DropOld(u)
  BY <1>14 DEF DropOld, BackupRemoved
<1>15. CASE DropSource(u)
  BY <1>15 DEF DropSource
<1>16. CASE Finish(u)
  BY <1>16 DEF Finish
<1>17. CASE Retry(u)
  BY <1>17 DEF Retry
<1>18. CASE GiveUp(u)
  BY <1>18 DEF GiveUp
<1>19. CASE TransientError(u)
  BY <1>19 DEF TransientError
<1> QED
  BY <1>1, <1>2, <1>3, <1>4, <1>5, <1>6, <1>7, <1>8, <1>9, <1>10, <1>11,
     <1>12, <1>13, <1>14, <1>15, <1>16, <1>17, <1>18, <1>19 DEF Step

LEMMA NextNewest == NewestInv /\ [Next /\ OneAtATime']_vars => NewestInv'
<1> SUFFICES ASSUME NewestInv, [Next /\ OneAtATime']_vars PROVE NewestInv'
  OBVIOUS
<1>1. SerialInv'
  BY NextSerial DEF NewestInv
<1>2. CASE UNCHANGED vars
  BY <1>1, <1>2 DEF vars, NewestInv, NewestOnly, Underway
<1>3. CASE Crash
  <2>1. NewestOnly'
    BY <1>3 DEF Crash, NewestInv, SerialInv, BaseInv, TypeOK, NewestOnly, Underway,
                Settled, dirs, rows
  <2> QED
    BY <1>1, <2>1 DEF NewestInv
<1>4. ASSUME NEW u \in Uploads, Step(u) \/ TransientError(u) PROVE NewestInv'
  BY <1>1, <1>4, StepNewest DEF NewestInv
<1> QED
  BY <1>2, <1>3, <1>4 DEF Next

\* As long as finalizations follow one another, the album in place at the end
\* is the one whose processing operation is current, if that one succeeded.
THEOREM NewestWins == SerialSpec => []NewestInPlace
<1>1. NewestInv => NewestInPlace
  <2> SUFFICES ASSUME NewestInv, newest # Nobody, pc[newest] = "done"
               PROVE  target # Absent /\ target.data = newest
    BY DEF NewestInPlace
  <2>1. newest \in Uploads
    BY DEF NewestInv, SerialInv, BaseInv, TypeOK
  <2> QED
    BY <2>1 DEF NewestInv, NewestOnly
<1> QED
  BY InitNewest, NextNewest, <1>1, PTL DEF SerialSpec
=============================================================================
