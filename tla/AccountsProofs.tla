--------------------------- MODULE AccountsProofs ---------------------------
(***************************************************************************)
(* Proofs about Accounts: a demo account is whole or staged, a deleted     *)
(* account leaves no files, and evictions keep to the order in which the   *)
(* albums were opened, for any number of accounts, albums and evictions.   *)
(***************************************************************************)
EXTENDS Accounts, FiniteSetTheorems, TLAPS

USE DEF left

Jobs == {"none", "copy", "evict", "over", "replace"}

\* An eviction's locals.
Fields == {"at", "skip", "found", "todo", "sizes", "albums", "order", "freed", "last", "demo"}
Run(x) == x = [f \in Fields |-> x[f]]

Shape ==
  /\ user \subseteq Users /\ media \subseteq Albums
  /\ job \in [Users -> Jobs]
  /\ ev = [e \in Evictions |-> ev[e]]
  /\ \A e \in Evictions : Run(ev[e])

\* Demos whose folder is gone for good: it is copied once, before.
Emptied == {u \in Demos : Folder(u) = {} /\ job[u] \notin {"none", "copy"}}

\* How far a demo has come.
Created ==
  /\ \A u \in Users : job[u] = "copy" => u \in Demos \cap user
  /\ \A u \in Demos : job[u] \in {"none", "copy"} => Folder(u) = {}
  /\ \A u \in Demos : job[u] = "none" => u \notin user \cup deleting
  /\ \A u \in Demos : job[u] # "replace"
  /\ user \cap deleting \cap Demos = {}

\* What an eviction holds of demos: the one it removes, and those it found staged,
\* of which only the ones it has still to do have a row or a folder.
Holds(x) ==
  /\ x.demo \cup x.found \subseteq Emptied /\ x.todo \subseteq x.found
  /\ x.found \cap (user \cup staged) \subseteq x.todo
  /\ x.at \notin {"idle", "resume"} => x.todo = {}
  /\ x.at \notin {"delete", "remove"} => x.demo = {}
  /\ x.at = "delete" => \E u \in Demos : x.demo = {u}
  /\ x.at = "remove" => x.demo \cap user = {}

\* A staged folder is an eviction's, or what a crash or a failure has left.
StagedOK ==
  /\ staged \subseteq Emptied
  /\ \A u \in staged \ pending : \E e \in Evictions : u \in ev[e].demo

\* Files without an account: somebody removes them, or a fault has left them.
FilesOwned ==
  \A u \in Users \ (user \cup deleting \cup cut) : job[u] # "replace" => Folder(u) = {}

Whole ==
  \A u \in (Demos \cap user) \ cut :
    job[u] # "copy" => Folder(u) = Of(u) \/ u \in staged

IInv ==
  /\ Shape /\ Created /\ StagedOK /\ FilesOwned /\ Whole
  /\ \A e \in Evictions : Holds(ev[e])

LEMMA InitHolds == Init => IInv
<1> SUFFICES ASSUME Init PROVE IInv
  OBVIOUS
<1> USE DEF Init
<1>1. Shape
  BY DEF Shape, Run, Fields, Idle, Jobs
<1>2. Created
  BY AccountsAssumption DEF Created, Folder
<1>3. StagedOK /\ FilesOwned /\ Whole
  BY DEF StagedOK, FilesOwned, Whole, Folder
<1>4. \A e \in Evictions : Holds(ev[e])
  BY DEF Holds, Idle
<1> QED BY <1>1, <1>2, <1>3, <1>4 DEF IInv

----------------------------------------------------------------------------
(* Steps                                                                   *)

LEMMA EvictionSet ==
    ASSUME Shape, NEW e \in Evictions, NEW r, Run(r), Set(e, r)
    PROVE  /\ ev'[e] = r
           /\ \A f \in Evictions \ {e} : ev'[f] = ev[f]
           /\ ev' = [f \in Evictions |-> ev'[f]]
           /\ \A f \in Evictions : Run(ev[f]')
<1>1. ev' = [ev EXCEPT ![e] = r]
  BY DEF Set
<1>2. ev = [f \in Evictions |-> ev[f]] /\ \A f \in Evictions : Run(ev[f])
  BY DEF Shape
<1>3. /\ ev'[e] = r
      /\ \A f \in Evictions \ {e} : ev'[f] = ev[f]
      /\ ev' = [f \in Evictions |-> ev'[f]]
  BY <1>1, <1>2
<1>4. \A f \in Evictions \ {e} : Run(ev[f]')
  BY <1>2, <1>3
<1>5. Run(ev[e]')
  BY <1>3
<1> QED BY <1>3, <1>4, <1>5

\* A step that nothing here depends on.
LEMMA SameKeeps ==
    ASSUME IInv, UNCHANGED <<user, media, staged, job, deleting, ev, left>>
    PROVE  IInv'
<1>1. Emptied' = Emptied /\ \A u \in Users : Folder(u)' = Folder(u)
  BY DEF Emptied, Folder
<1>2. Shape' /\ Created'
  BY AccountsAssumption, <1>1 DEF IInv, Shape, Created
<1>3. StagedOK' /\ FilesOwned'
  BY <1>1 DEF IInv, StagedOK, FilesOwned
<1>4. Whole'
  BY AccountsAssumption, <1>1 DEF IInv, Whole
<1>5. \A e \in Evictions : Holds(ev[e])'
  BY <1>1 DEF IInv, Holds
<1> QED BY <1>2, <1>3, <1>4, <1>5 DEF IInv

LEMMA IdleHolds ==
  /\ Run(Idle) /\ Holds(Idle)
  /\ Idle.demo = {} /\ Idle.found = {} /\ Idle.todo = {} /\ Idle.at = "idle"
BY DEF Run, Fields, Idle, Holds

\* A step of an eviction that touches neither files nor accounts.
LEMMA QuietKeeps ==
    ASSUME IInv, NEW e \in Evictions, NEW r, Run(r), Set(e, r),
           UNCHANGED <<user, media, staged, job, deleting, left>>,
           ev[e].demo = {}, r.demo = {}, r.at \notin {"delete", "remove"}, Holds(r)
    PROVE  IInv'
<1>1. Emptied' = Emptied /\ \A u \in Users : Folder(u)' = Folder(u)
  BY DEF Emptied, Folder
<1>2. /\ ev'[e] = r
      /\ \A f \in Evictions \ {e} : ev'[f] = ev[f]
      /\ ev' = [f \in Evictions |-> ev'[f]]
      /\ \A f \in Evictions : Run(ev[f]')
  BY EvictionSet DEF IInv
<1>3. Shape' /\ Created'
  BY AccountsAssumption, <1>1, <1>2 DEF IInv, Shape, Created
<1>4. StagedOK' /\ FilesOwned'
  BY <1>1, <1>2 DEF IInv, StagedOK, FilesOwned
<1>5. Whole'
  BY AccountsAssumption, <1>1 DEF IInv, Whole
<1>6. \A f \in Evictions : Holds(ev[f])'
  BY <1>1, <1>2 DEF IInv, Holds
<1> QED BY <1>3, <1>4, <1>5, <1>6 DEF IInv

\* A step that leaves the evictions and what is staged alone.
LEMMA AccountKeeps ==
    ASSUME IInv, UNCHANGED <<staged, ev, pending>>, Emptied \subseteq Emptied',
           user' \cap Emptied \subseteq user
    PROVE  StagedOK' /\ \A e \in Evictions : Holds(ev[e])'
<1>1. StagedOK'
  BY DEF IInv, StagedOK
<1>2. ASSUME NEW e \in Evictions PROVE Holds(ev[e])'
  BY DEF IInv, Holds
<1> QED BY <1>1, <1>2

LEMMA CreateKeeps == ASSUME IInv, NEW u \in Users, CreateDemo(u) PROVE IInv'
<1> USE DEF CreateDemo, Goto
<1>1. u \in Demos /\ job[u] = "none" /\ Folder(u) = {} /\ u \notin user \cup deleting
  BY DEF IInv, Created
<1>2. /\ job'[u] = "copy" /\ job' \in [Users -> Jobs]
      /\ \A v \in Users \ {u} : job'[v] = job[v]
  BY DEF IInv, Shape, Jobs
<1>3. \A v \in Users : Folder(v)' = Folder(v)
  BY DEF Folder
<1>4. Emptied' = Emptied /\ u \notin Emptied
  BY AccountsAssumption, <1>1, <1>2, <1>3 DEF Emptied
<1>5. Shape' /\ Created'
  BY AccountsAssumption, <1>1, <1>2, <1>3 DEF IInv, Shape, Created
<1>6. FilesOwned' /\ Whole'
  BY AccountsAssumption, <1>2, <1>3 DEF IInv, FilesOwned, Whole
<1> QED BY <1>4, <1>5, <1>6, AccountKeeps DEF IInv

LEMMA CopyKeeps == ASSUME IInv, NEW u \in Users, CopyTree(u) PROVE IInv'
<1> USE DEF CopyTree, Goto, records
<1>1. u \in Demos \cap user
  BY DEF IInv, Created
<1>2. /\ job'[u] = "evict" /\ job' \in [Users -> Jobs]
      /\ \A v \in Users \ {u} : job'[v] = job[v]
  BY DEF IInv, Shape, Jobs
<1>3. Folder(u)' = Of(u) /\ \A v \in Users \ {u} : Folder(v)' = Folder(v)
  BY DEF Folder, Of
<1>4. Emptied \subseteq Emptied'
  BY AccountsAssumption, <1>2, <1>3 DEF Emptied
<1>5. Shape' /\ Created'
  BY AccountsAssumption, <1>1, <1>2, <1>3 DEF IInv, Shape, Created, Of
<1>6. FilesOwned' /\ Whole'
  BY AccountsAssumption, <1>1, <1>2, <1>3 DEF IInv, FilesOwned, Whole
<1> QED BY <1>4, <1>5, <1>6, AccountKeeps DEF IInv

LEMMA CopyFailsKeeps == ASSUME IInv, NEW u \in Users, CopyFails(u) PROVE IInv'
<1> USE DEF CopyFails, Goto, DeleteRows
<1>1. /\ job'[u] = "over" /\ job' \in [Users -> Jobs]
      /\ \A v \in Users \ {u} : job'[v] = job[v]
  BY DEF IInv, Shape, Jobs
<1>2. \A v \in Users \ {u} : Folder(v)' = Folder(v)
  BY DEF Folder, Of
<1>3. Emptied \subseteq Emptied'
  BY AccountsAssumption, <1>1, <1>2 DEF Emptied
<1>4. Shape' /\ Created'
  BY AccountsAssumption, <1>1, <1>2 DEF IInv, Shape, Created, Of
<1>5. FilesOwned' /\ Whole'
  BY AccountsAssumption, <1>1, <1>2 DEF IInv, FilesOwned, Whole
<1> QED BY <1>3, <1>4, <1>5, AccountKeeps DEF IInv

LEMMA FinalizeKeeps == ASSUME IInv, NEW u \in Users, FinalizeCommit(u) PROVE IInv'
<1> USE DEF FinalizeCommit, Goto, Real
<1>1. /\ job'[u] = "replace" /\ job' \in [Users -> Jobs]
      /\ \A v \in Users \ {u} : job'[v] = job[v]
  BY DEF IInv, Shape, Jobs
<1>2. \A v \in Users : Folder(v)' = Folder(v)
  BY DEF Folder
<1>3. Emptied' = Emptied /\ u \notin Emptied
  BY AccountsAssumption, <1>1, <1>2 DEF Emptied
<1>4. Shape' /\ Created'
  BY AccountsAssumption, <1>1, <1>2 DEF IInv, Shape, Created
<1>5. FilesOwned' /\ Whole'
  BY AccountsAssumption, <1>1, <1>2 DEF IInv, FilesOwned, Whole
<1> QED BY <1>3, <1>4, <1>5, AccountKeeps DEF IInv

LEMMA ReplaceKeeps == ASSUME IInv, NEW u \in Users, ReplaceFolders(u) PROVE IInv'
<1> USE DEF ReplaceFolders, Goto, records
<1>1. /\ job'[u] = "evict" /\ job' \in [Users -> Jobs]
      /\ \A v \in Users \ {u} : job'[v] = job[v]
  BY DEF IInv, Shape, Jobs
<1>2. u \notin Demos /\ \A v \in Users \ {u} : Folder(v)' = Folder(v)
  BY DEF IInv, Created, Folder, Of
<1>3. Emptied \subseteq Emptied'
  BY AccountsAssumption, <1>1, <1>2 DEF Emptied
<1>4. Shape' /\ Created'
  BY AccountsAssumption, <1>1, <1>2 DEF IInv, Shape, Created, Of
<1>5. FilesOwned' /\ Whole'
  BY AccountsAssumption, <1>1, <1>2 DEF IInv, FilesOwned, Whole
<1> QED BY <1>3, <1>4, <1>5, AccountKeeps DEF IInv

LEMMA DeleteKeeps == ASSUME IInv, NEW u \in Users, DeleteUser(u) PROVE IInv'
<1> USE DEF DeleteUser, DeleteRows
<1>1. \A v \in Users : Folder(v)' = Folder(v)
  BY DEF Folder
<1>2. Emptied' = Emptied
  BY AccountsAssumption, <1>1 DEF Emptied
<1>3. Shape'
  BY DEF IInv, Shape
<1>4. Created'
  BY AccountsAssumption, <1>1 DEF IInv, Created
<1>5. FilesOwned' /\ Whole'
  BY AccountsAssumption, <1>1 DEF IInv, FilesOwned, Whole
<1> QED BY <1>2, <1>3, <1>4, <1>5, AccountKeeps DEF IInv

LEMMA RemoveKeeps == ASSUME IInv, NEW u \in Users, RemoveFolder(u) PROVE IInv'
<1> USE DEF RemoveFolder, records
<1> PICK kept \in SUBSET Folder(u) :
       /\ media' = (media \ Of(u)) \cup kept
       /\ cut' = cut \cup {u} \/ (kept = {} /\ cut' = cut)
  OBVIOUS
<1>1. Folder(u)' = kept /\ \A v \in Users \ {u} : Folder(v)' = Folder(v)
  BY DEF Folder, Of
<1>2. Emptied \subseteq Emptied'
  BY AccountsAssumption, <1>1 DEF Emptied
<1>3. Shape'
  BY DEF IInv, Shape, Folder
<1>4. Created'
  BY AccountsAssumption, <1>1 DEF IInv, Created
<1>5. FilesOwned' /\ Whole'
  BY AccountsAssumption, <1>1 DEF IInv, FilesOwned, Whole, Created
<1> QED BY <1>2, <1>3, <1>4, <1>5, AccountKeeps DEF IInv

LEMMA StartKeeps ==
    ASSUME IInv, NEW e \in Evictions, NEW u \in Users, StartEviction(e, u) PROVE IInv'
<1> DEFINE r == [Idle EXCEPT !.at = "resume", !.skip = {u},
                           !.found = staged \ {u}, !.todo = staged \ {u}]
<1>1. /\ Run(r) /\ r.demo = {} /\ r.at = "resume"
      /\ r.found \subseteq staged /\ r.todo = r.found
  BY DEF Run, Fields, Idle
<1>2. Set(e, r)
  BY DEF StartEviction
<1> HIDE DEF r
<1>3. /\ ev'[e] = r
      /\ \A f \in Evictions \ {e} : ev'[f] = ev[f]
      /\ ev' = [f \in Evictions |-> ev'[f]]
      /\ \A f \in Evictions : Run(ev[f]')
  BY <1>1, <1>2, EvictionSet DEF IInv
<1>4. ev[e].demo = {} /\ UNCHANGED <<user, media, staged, deleting, left>>
  BY DEF StartEviction, Idle, records
<1>5. /\ job' \in [Users -> Jobs] /\ \A v \in Users \ {u} : job'[v] = job[v]
      /\ job[u] = "evict" /\ job'[u] = IF u \in Demos THEN "over" ELSE "none"
  BY DEF StartEviction, Goto, IInv, Shape, Jobs
<1>6. \A v \in Users : Folder(v)' = Folder(v)
  BY <1>4 DEF Folder
<1>7. Emptied' = Emptied
  BY AccountsAssumption, <1>5, <1>6 DEF Emptied
<1>8. Shape' /\ Created'
  BY AccountsAssumption, <1>3, <1>4, <1>5, <1>6 DEF IInv, Shape, Created
<1>9. StagedOK'
  BY <1>1, <1>3, <1>4, <1>7 DEF IInv, StagedOK
<1>10. FilesOwned' /\ Whole'
  BY AccountsAssumption, <1>4, <1>5, <1>6 DEF IInv, FilesOwned, Whole
<1>11. \A f \in Evictions : Holds(ev[f])'
  BY <1>1, <1>3, <1>4, <1>7 DEF IInv, Holds, StagedOK
<1> QED BY <1>8, <1>9, <1>10, <1>11 DEF IInv

LEMMA ResumeDeleteKeeps ==
    ASSUME IInv, NEW e \in Evictions, NEW u \in Users, ResumeDelete(e, u) PROVE IInv'
<1> USE DEF ResumeDelete, DeleteRows
<1>1. u \in Emptied
  BY DEF IInv, Holds
<1>2. \A v \in Users : Folder(v)' = Folder(v)
  BY DEF Folder
<1>3. Emptied' = Emptied
  BY AccountsAssumption, <1>2 DEF Emptied
<1>4. Shape'
  BY DEF IInv, Shape
<1>5. Created'
  BY AccountsAssumption, <1>1, <1>2 DEF IInv, Created, Emptied
<1>6. FilesOwned' /\ Whole'
  BY AccountsAssumption, <1>2 DEF IInv, FilesOwned, Whole
<1> QED BY <1>3, <1>4, <1>5, <1>6, AccountKeeps DEF IInv

LEMMA ResumeRemoveKeeps ==
    ASSUME IInv, NEW e \in Evictions, NEW u \in Users, ResumeRemove(e, u) PROVE IInv'
<1> DEFINE r == [ev[e] EXCEPT !.todo = @ \ {u}]
<1>1. /\ Run(r) /\ r.demo = ev[e].demo /\ r.at = ev[e].at
      /\ r.todo = ev[e].todo \ {u} /\ r.found = ev[e].found
  BY DEF Run, Fields, IInv, Shape
<1>2. Set(e, r)
  BY DEF ResumeRemove
<1> HIDE DEF r
<1>3. /\ ev'[e] = r
      /\ \A f \in Evictions \ {e} : ev'[f] = ev[f]
      /\ ev' = [f \in Evictions |-> ev'[f]]
      /\ \A f \in Evictions : Run(ev[f]')
  BY <1>1, <1>2, EvictionSet DEF IInv
<1>4. /\ UNCHANGED <<user, media, job, deleting, cut>>
      /\ staged' = staged \ {u} /\ pending' = pending \ {u}
      /\ u \in ev[e].todo
  BY DEF ResumeRemove, records
<1>5. u \notin user
  BY <1>4 DEF ResumeRemove, IInv, Holds, Emptied
<1>6. Emptied' = Emptied /\ \A v \in Users : Folder(v)' = Folder(v)
  BY <1>4 DEF Emptied, Folder
<1>7. Shape' /\ Created'
  BY AccountsAssumption, <1>3, <1>4, <1>6 DEF IInv, Shape, Created
<1>8. StagedOK'
  BY <1>1, <1>3, <1>4, <1>6 DEF IInv, StagedOK
<1>9. FilesOwned' /\ Whole'
  BY AccountsAssumption, <1>4, <1>5, <1>6 DEF IInv, FilesOwned, Whole
<1>10. ASSUME NEW f \in Evictions PROVE Holds(ev[f])'
  <2>1. CASE f = e
    BY <1>1, <1>3, <1>4, <1>5, <1>6, <2>1 DEF IInv, Holds
  <2>2. CASE f # e
    BY <1>3, <1>4, <1>6, <2>2 DEF IInv, Holds
  <2> QED BY <2>1, <2>2
<1> QED BY <1>7, <1>8, <1>9, <1>10 DEF IInv

LEMMA ScanKeeps == ASSUME IInv, NEW e \in Evictions, Scan(e) PROVE IInv'
<1>1. /\ ev[e].demo = {} /\ UNCHANGED <<user, media, staged, job, deleting, left>>
      /\ ev[e].todo = {} /\ Holds(ev[e])
  BY DEF Scan, records, IInv, Holds
<1>2. CASE Set(e, Idle)
  BY <1>1, <1>2, IdleHolds, QuietKeeps
<1>3. CASE Set(e, [ev[e] EXCEPT !.at = "select", !.sizes = media])
  <2> DEFINE r == [ev[e] EXCEPT !.at = "select", !.sizes = media]
  <2>1. Run(r) /\ r.demo = {} /\ r.todo = {} /\ r.found = ev[e].found /\ r.at = "select"
    BY <1>1 DEF Run, Fields, IInv, Shape, Scan
  <2> HIDE DEF r
  <2>2. Holds(r)
    BY <1>1, <2>1 DEF Holds
  <2> QED BY <1>1, <1>3, <2>1, <2>2, QuietKeeps DEF r
<1> QED BY <1>2, <1>3 DEF Scan, End

LEMMA SelectKeeps == ASSUME IInv, NEW e \in Evictions, Select(e) PROVE IInv'
<1> PICK albums, order : Set(e, [ev[e] EXCEPT !.at = "evict", !.albums = albums, !.order = order])
  BY DEF Select
<1> DEFINE r == [ev[e] EXCEPT !.at = "evict", !.albums = albums, !.order = order]
<1>1. /\ ev[e].demo = {} /\ UNCHANGED <<user, media, staged, job, deleting, left>>
      /\ ev[e].todo = {} /\ Holds(ev[e])
  BY DEF Select, records, IInv, Holds
<1>2. Run(r) /\ r.demo = {} /\ r.todo = {} /\ r.found = ev[e].found /\ r.at = "evict"
  BY <1>1 DEF Run, Fields, IInv, Shape
<1>3. Set(e, r)
  OBVIOUS
<1> HIDE DEF r
<1>4. Holds(r)
  BY <1>1, <1>2 DEF Holds
<1> QED BY <1>1, <1>2, <1>3, <1>4, QuietKeeps

LEMMA EndKeeps ==
    ASSUME IInv, NEW e \in Evictions, EndEviction(e) \/ StageFails(e) PROVE IInv'
<1>1. ev[e].demo = {} /\ UNCHANGED <<user, media, staged, job, deleting, left>> /\ Set(e, Idle)
  BY DEF EndEviction, StageFails, Evicting, End, records, IInv, Holds
<1> QED BY <1>1, IdleHolds, QuietKeeps

LEMMA EvictKeeps == ASSUME IInv, NEW e \in Evictions, EvictAlbum(e) PROVE IInv'
<1> PICK a \in Candidates(e) :
       /\ UNCHANGED <<user, staged, job, deleting, left>> /\ media' = media \ {a}
       /\ Set(e, Freed(e, {a})) /\ Owner[a] \in Real /\ ev[e].at = "evict"
  BY DEF EvictAlbum, Evicting, records
<1> DEFINE r == Freed(e, {a})
<1>1. /\ UNCHANGED <<user, staged, job, deleting, left>> /\ media' = media \ {a} /\ Set(e, r)
      /\ Owner[a] \in Real /\ ev[e].at = "evict"
  OBVIOUS
<1>2. /\ Run(r) /\ r.demo = ev[e].demo /\ r.todo = ev[e].todo
      /\ r.found = ev[e].found /\ r.at = ev[e].at
  BY DEF Freed, Run, Fields, IInv, Shape
<1> HIDE DEF r
<1>3. /\ ev'[e] = r
      /\ \A f \in Evictions \ {e} : ev'[f] = ev[f]
      /\ ev' = [f \in Evictions |-> ev'[f]]
      /\ \A f \in Evictions : Run(ev[f]')
  BY <1>1, <1>2, EvictionSet DEF IInv
<1>4. /\ \A v \in Users : Folder(v)' \subseteq Folder(v)
      /\ \A v \in Demos : Folder(v)' = Folder(v)
  BY <1>1 DEF Folder, Of, Real
<1>5. Emptied' = Emptied
  BY <1>1, <1>4 DEF Emptied
<1>6. Shape' /\ Created'
  BY AccountsAssumption, <1>1, <1>3, <1>4 DEF IInv, Shape, Created
<1>7. StagedOK'
  BY <1>1, <1>2, <1>3, <1>5 DEF IInv, StagedOK
<1>8. FilesOwned' /\ Whole'
  BY AccountsAssumption, <1>1, <1>4 DEF IInv, FilesOwned, Whole
<1>9. \A f \in Evictions : Holds(ev[f])'
  BY <1>1, <1>2, <1>3, <1>5 DEF IInv, Holds
<1> QED BY <1>6, <1>7, <1>8, <1>9 DEF IInv

LEMMA StageKeeps == ASSUME IInv, NEW e \in Evictions, StageDemo(e) PROVE IInv'
<1> PICK u \in Demos :
       /\ UNCHANGED <<user, job, deleting, left>>
       /\ Set(e, [ev[e] EXCEPT !.at = "delete", !.demo = {u}])
       /\ media' = media \ Of(u) /\ staged' = staged \cup {u}
       /\ Folder(u) # {} /\ ev[e].at = "evict"
  BY DEF StageDemo, Stageable, Evicting, records
<1> DEFINE r == [ev[e] EXCEPT !.at = "delete", !.demo = {u}]
<1>1. /\ UNCHANGED <<user, job, deleting, left>> /\ Set(e, r)
      /\ media' = media \ Of(u) /\ staged' = staged \cup {u}
      /\ Folder(u) # {} /\ ev[e].at = "evict"
  OBVIOUS
<1>2. Run(r) /\ r.demo = {u} /\ r.todo = ev[e].todo /\ r.found = ev[e].found /\ r.at = "delete"
  BY DEF Run, Fields, IInv, Shape
<1> HIDE DEF r
<1>3. /\ ev'[e] = r
      /\ \A f \in Evictions \ {e} : ev'[f] = ev[f]
      /\ ev' = [f \in Evictions |-> ev'[f]]
      /\ \A f \in Evictions : Run(ev[f]')
  BY <1>1, <1>2, EvictionSet DEF IInv
<1>4. Folder(u)' = {} /\ \A v \in Users \ {u} : Folder(v)' = Folder(v)
  BY <1>1 DEF Folder, Of
<1>5. Emptied' = Emptied \cup {u}
  BY AccountsAssumption, <1>1, <1>4 DEF Emptied, IInv, Created
<1>6. Shape' /\ Created'
  BY AccountsAssumption, <1>1, <1>3, <1>4 DEF IInv, Shape, Created
<1>7. StagedOK'
  BY <1>1, <1>2, <1>3, <1>5 DEF IInv, StagedOK, Holds
<1>8. FilesOwned' /\ Whole'
  BY AccountsAssumption, <1>1, <1>4 DEF IInv, FilesOwned, Whole
<1>9. ASSUME NEW f \in Evictions PROVE Holds(ev[f])'
  <2>1. Holds(ev[f]) /\ u \notin ev[f].found
    BY <1>1 DEF IInv, Holds, Emptied
  <2>2. CASE f = e
    BY <1>1, <1>2, <1>3, <1>5, <2>1, <2>2 DEF Holds
  <2>3. CASE f # e
    BY <1>1, <1>3, <1>5, <2>1, <2>3 DEF Holds
  <2> QED BY <2>2, <2>3
<1> QED BY <1>6, <1>7, <1>8, <1>9 DEF IInv

LEMMA DeleteDemoKeeps == ASSUME IInv, NEW e \in Evictions, DeleteDemo(e) PROVE IInv'
<1> PICK u \in Demos : ev[e].demo = {u}
  BY DEF DeleteDemo, IInv, Holds
<1> DEFINE r == [ev[e] EXCEPT !.at = "remove"]
<1>1. UNCHANGED <<media, staged, job, deleting, left>> /\ Set(e, r) /\ user' = user \ {u}
  BY DEF DeleteDemo, DeleteRows
<1>2. Run(r) /\ r.demo = {u} /\ r.todo = ev[e].todo /\ r.found = ev[e].found /\ r.at = "remove"
  BY DEF Run, Fields, IInv, Shape
<1> HIDE DEF r
<1>3. /\ ev'[e] = r
      /\ \A f \in Evictions \ {e} : ev'[f] = ev[f]
      /\ ev' = [f \in Evictions |-> ev'[f]]
      /\ \A f \in Evictions : Run(ev[f]')
  BY <1>1, <1>2, EvictionSet DEF IInv
<1>4. u \in Emptied
  BY DEF IInv, Holds
<1>5. Emptied' = Emptied /\ \A v \in Users : Folder(v)' = Folder(v)
  BY <1>1 DEF Emptied, Folder
<1>6. Shape'
  BY <1>1, <1>3 DEF IInv, Shape
<1>7. Created'
  BY AccountsAssumption, <1>1, <1>4, <1>5 DEF IInv, Created, Emptied
<1>8. StagedOK'
  BY <1>1, <1>2, <1>3, <1>5 DEF IInv, StagedOK
<1>9. FilesOwned' /\ Whole'
  BY AccountsAssumption, <1>1, <1>4, <1>5 DEF IInv, FilesOwned, Whole, Emptied
<1>10. \A f \in Evictions : Holds(ev[f])'
  BY <1>1, <1>2, <1>3, <1>5 DEF IInv, Holds
<1> QED BY <1>6, <1>7, <1>8, <1>9, <1>10 DEF IInv

LEMMA EvictionFailsKeeps ==
    ASSUME IInv, NEW e \in Evictions, EvictionFails(e) PROVE IInv'
<1>1. /\ UNCHANGED <<user, staged, job, deleting, cut>> /\ Set(e, Idle)
      /\ pending' = pending \cup ev[e].demo
  BY DEF EvictionFails, End, records
<1>2. PICK gone : media' = media \ gone /\ \A a \in gone : Owner[a] \in Real
  BY DEF EvictionFails
<1>3. /\ ev'[e] = Idle
      /\ \A f \in Evictions \ {e} : ev'[f] = ev[f]
      /\ ev' = [f \in Evictions |-> ev'[f]]
      /\ \A f \in Evictions : Run(ev[f]')
  BY <1>1, IdleHolds, EvictionSet DEF IInv
<1>4. /\ \A v \in Users : Folder(v)' \subseteq Folder(v)
      /\ \A v \in Demos : Folder(v)' = Folder(v)
  BY <1>2 DEF Folder, Of, Real
<1>5. Emptied' = Emptied
  BY <1>1, <1>4 DEF Emptied
<1>6. Shape' /\ Created'
  BY AccountsAssumption, <1>1, <1>2, <1>3, <1>4 DEF IInv, Shape, Created
<1>7. StagedOK'
  BY <1>1, <1>3, <1>5 DEF IInv, StagedOK
<1>8. FilesOwned' /\ Whole'
  BY AccountsAssumption, <1>1, <1>4 DEF IInv, FilesOwned, Whole
<1>9. ASSUME NEW f \in Evictions PROVE Holds(ev[f])'
  BY <1>1, <1>3, <1>5, IdleHolds DEF IInv, Holds
<1> QED BY <1>6, <1>7, <1>8, <1>9 DEF IInv

LEMMA RemoveDemoKeeps == ASSUME IInv, NEW e \in Evictions, RemoveDemo(e) PROVE IInv'
<1> PICK gone : Set(e, [Freed(e, gone) EXCEPT !.at = "evict", !.demo = {}])
  BY DEF RemoveDemo
<1> DEFINE r == [Freed(e, gone) EXCEPT !.at = "evict", !.demo = {}]
<1>1. /\ UNCHANGED <<user, media, job, deleting, left>> /\ Set(e, r)
      /\ staged' = staged \ ev[e].demo /\ ev[e].demo \cap user = {}
  BY DEF RemoveDemo, records, IInv, Holds
<1>2. Run(r) /\ r.demo = {} /\ r.todo = ev[e].todo /\ r.found = ev[e].found /\ r.at = "evict"
  BY DEF Freed, Run, Fields, IInv, Shape
<1> HIDE DEF r
<1>3. /\ ev'[e] = r
      /\ \A f \in Evictions \ {e} : ev'[f] = ev[f]
      /\ ev' = [f \in Evictions |-> ev'[f]]
      /\ \A f \in Evictions : Run(ev[f]')
  BY <1>1, <1>2, EvictionSet DEF IInv
<1>4. Emptied' = Emptied /\ \A v \in Users : Folder(v)' = Folder(v)
  BY <1>1 DEF Emptied, Folder
<1>5. Shape' /\ Created'
  BY AccountsAssumption, <1>1, <1>3, <1>4 DEF IInv, Shape, Created
<1>6. StagedOK'
  BY <1>1, <1>3, <1>4 DEF IInv, StagedOK
<1>7. FilesOwned' /\ Whole'
  BY AccountsAssumption, <1>1, <1>4 DEF IInv, FilesOwned, Whole
<1>8. ASSUME NEW f \in Evictions PROVE Holds(ev[f])'
  <2>1. Holds(ev[f]) /\ ev[e].at = "remove"
    BY DEF IInv, RemoveDemo
  <2>2. CASE f = e
    BY <1>1, <1>2, <1>3, <1>4, <2>1, <2>2 DEF Holds
  <2>3. CASE f # e
    BY <1>1, <1>3, <1>4, <2>1, <2>3 DEF Holds
  <2> QED BY <2>2, <2>3
<1> QED BY <1>5, <1>6, <1>7, <1>8 DEF IInv

LEMMA CrashKeeps == ASSUME IInv, Crash PROVE IInv'
<1> DEFINE copying == {v \in Users : job[v] = "copy"}
<1>1. copying \subseteq Demos \cap user
  BY DEF IInv, Created
<1>2. /\ UNCHANGED <<user, staged>> /\ deleting' = {}
      /\ cut' = cut \cup deleting \cup copying /\ pending' = pending \cup staged
      /\ ev' = [e \in Evictions |-> Idle]
  BY DEF Crash, records
<1>3. /\ job' \in [Users -> Jobs] /\ \A u \in Users : job'[u] # "copy"
      /\ \A u \in Users : job'[u] \in {"none", "replace"} <=> job[u] \in {"none", "replace"}
      /\ \A u \in Users : job'[u] = "none" <=> job[u] = "none"
  BY DEF Crash, IInv, Shape, Jobs
<1>4. media \subseteq media' /\ media' \subseteq media \cup UNION {Of(u) : u \in copying}
  BY DEF Crash
<1>5. \A u \in Users \ copying : Folder(u)' = Folder(u)
  BY <1>4 DEF Folder, Of
<1>6. Emptied \subseteq Emptied'
  BY AccountsAssumption, <1>3, <1>5 DEF Emptied
<1> HIDE DEF copying
<1>7. Shape'
  <2>1. Run(Idle)
    BY DEF Run, Fields, Idle
  <2>2. media' \subseteq Albums
    BY <1>4 DEF IInv, Shape, Of
  <2> QED BY <1>2, <1>3, <2>1, <2>2 DEF IInv, Shape
<1>8. Created'
  BY AccountsAssumption, <1>1, <1>2, <1>3, <1>5 DEF IInv, Created, copying
<1>9. StagedOK'
  BY <1>2, <1>6 DEF IInv, StagedOK
<1>10. FilesOwned'
  BY <1>2, <1>3, <1>5 DEF IInv, FilesOwned, Shape, Jobs
<1>11. Whole'
  BY AccountsAssumption, <1>2, <1>3, <1>5 DEF IInv, Whole, copying
<1>12. \A e \in Evictions : Holds(ev[e])'
  BY <1>2, IdleHolds DEF Holds
<1> QED BY <1>7, <1>8, <1>9, <1>10, <1>11, <1>12 DEF IInv

LEMMA StepKeeps == ASSUME IInv, [Next]_vars PROVE IInv'
<1>1. ASSUME NEW u \in Users, CreateDemo(u) \/ CopyTree(u) \/ CopyFails(u) PROVE IInv'
  BY <1>1, CreateKeeps, CopyKeeps, CopyFailsKeeps
<1>2. ASSUME NEW u \in Users, FinalizeCommit(u) \/ ReplaceFolders(u) PROVE IInv'
  BY <1>2, FinalizeKeeps, ReplaceKeeps
<1>3. ASSUME NEW u \in Users, Process(u) PROVE IInv'
  BY <1>3, SameKeeps DEF Process
<1>4. ASSUME NEW u \in Users, DeleteUser(u) \/ RemoveFolder(u) PROVE IInv'
  BY <1>4, DeleteKeeps, RemoveKeeps
<1>5. ASSUME NEW u \in Users, NEW e \in Evictions,
             StartEviction(e, u) \/ ResumeDelete(e, u) \/ ResumeRemove(e, u)
      PROVE  IInv'
  BY <1>5, StartKeeps, ResumeDeleteKeeps, ResumeRemoveKeeps
<1>6. ASSUME NEW a \in Albums, Touch(a) PROVE IInv'
  BY <1>6, SameKeeps DEF Touch
<1>7. ASSUME NEW e \in Evictions,
             Scan(e) \/ Select(e) \/ EvictAlbum(e) \/ EndEviction(e) \/ StageFails(e)
      PROVE  IInv'
  BY <1>7, ScanKeeps, SelectKeeps, EvictKeeps, EndKeeps
<1>8. ASSUME NEW e \in Evictions,
             StageDemo(e) \/ DeleteDemo(e) \/ RemoveDemo(e) \/ EvictionFails(e)
      PROVE  IInv'
  BY <1>8, StageKeeps, DeleteDemoKeeps, RemoveDemoKeeps, EvictionFailsKeeps
<1>9. CASE Crash
  BY <1>9, CrashKeeps
<1>10. CASE UNCHANGED vars
  BY <1>10, SameKeeps DEF vars, records
<1> QED BY <1>1, <1>2, <1>3, <1>4, <1>5, <1>6, <1>7, <1>8, <1>9, <1>10 DEF Next

LEMMA Invariant == Spec => []IInv
BY InitHolds, StepKeeps, PTL DEF Spec

----------------------------------------------------------------------------
(* The order of evictions.  What an eviction has freed is a matter of its  *)
(* locals alone; that its demos are demos comes from IInv.                 *)

Turn(x) ==
  /\ x.sizes \subseteq Albums
  /\ x.albums \subseteq {a \in x.sizes : Owner[a] \notin x.skip}
  /\ x.at \in {"idle", "resume", "select"} =>
       x.albums = {} /\ x.freed = {} /\ x.last = {}
  /\ x.at \in {"delete", "remove"} =>
       Cardinality(x.sizes \ x.freed) > Cap /\ x.demo \cap x.skip = {}
  /\ \A a \in x.freed : Owner[a] \notin x.skip
  /\ \A a \in x.albums, b \in x.freed :
       <<a, b>> \in x.order /\ Owner[b] \in Real => a \in x.freed
  /\ x.last # {} => Cardinality((x.sizes \ x.freed) \cup x.last) > Cap

OrderInv == IInv /\ \A e \in Evictions : Turn(ev[e])

LEMMA IdleTurn == Run(Idle) /\ Turn(Idle)
BY DEF Turn, Run, Fields, Idle

LEMMA OrderKept ==
    ASSUME OrderInv, NEW e \in Evictions, NEW r, Run(r), Turn(r), Set(e, r)
    PROVE  \A f \in Evictions : Turn(ev[f])'
<1>1. ev'[e] = r /\ \A f \in Evictions \ {e} : ev'[f] = ev[f]
  BY EvictionSet DEF OrderInv, IInv
<1>2. ASSUME NEW f \in Evictions \ {e} PROVE Turn(ev[f])'
  BY <1>1 DEF OrderInv, Turn
<1>3. Turn(ev[e])'
  BY <1>1 DEF Turn
<1> QED BY <1>2, <1>3

LEMMA BeginsInOrder ==
    ASSUME OrderInv, NEW e \in Evictions, NEW u \in Users,
           StartEviction(e, u) \/ ResumeRemove(e, u)
    PROVE  \A f \in Evictions : Turn(ev[f])'
<1>1. CASE StartEviction(e, u)
  <2> DEFINE r == [Idle EXCEPT !.at = "resume", !.skip = {u},
                             !.found = staged \ {u}, !.todo = staged \ {u}]
  <2>1. Run(r) /\ Turn(r)
    BY DEF Run, Fields, Turn, Idle
  <2>2. Set(e, r)
    BY <1>1 DEF StartEviction
  <2> HIDE DEF r
  <2> QED BY <2>1, <2>2, OrderKept
<1>2. CASE ResumeRemove(e, u)
  <2> DEFINE r == [ev[e] EXCEPT !.todo = @ \ {u}]
  <2>1. Run(ev[e]) /\ Turn(ev[e])
    BY DEF OrderInv, IInv, Shape
  <2>2. Run(r) /\ Turn(r)
    BY <2>1 DEF Run, Fields, Turn
  <2>3. Set(e, r)
    BY <1>2 DEF ResumeRemove
  <2> HIDE DEF r
  <2> QED BY <2>2, <2>3, OrderKept
<1> QED BY <1>1, <1>2

LEMMA ScansInOrder ==
    ASSUME OrderInv, NEW e \in Evictions, Scan(e) \/ Select(e)
    PROVE  \A f \in Evictions : Turn(ev[f])'
<1>1. /\ Run(ev[e]) /\ Turn(ev[e]) /\ media \subseteq Albums
      /\ ev[e].at \in {"resume", "select"}
  BY DEF OrderInv, IInv, Shape, Scan, Select
<1>2. CASE Set(e, Idle)
  BY <1>2, IdleTurn, OrderKept
<1>3. CASE Set(e, [ev[e] EXCEPT !.at = "select", !.sizes = media])
  <2> DEFINE r == [ev[e] EXCEPT !.at = "select", !.sizes = media]
  <2>1. Run(r) /\ Turn(r)
    BY <1>1 DEF Run, Fields, Turn
  <2> HIDE DEF r
  <2> QED BY <1>3, <2>1, OrderKept DEF r
<1>4. CASE Select(e)
  <2> DEFINE albums == {a \in album \cap ev[e].sizes : Owner[a] \notin ev[e].skip}
             r == [ev[e] EXCEPT !.at = "evict", !.albums = albums, !.order = Among(albums)]
  <2>1. Run(r) /\ Turn(r)
    BY <1>1 DEF Run, Fields, Turn
  <2>2. Set(e, r)
    BY <1>4 DEF Select
  <2> HIDE DEF r
  <2> QED BY <2>1, <2>2, OrderKept
<1> QED BY <1>2, <1>3, <1>4 DEF Scan, End

\* The removal of an album: those before it have gone, and it was still needed.
LEMMA EvictsNext ==
    ASSUME OrderInv, NEW e \in Evictions, EvictAlbum(e)
    PROVE  \A f \in Evictions : Turn(ev[f])'
<1> PICK a \in Candidates(e) : Evicting(e, a) /\ Owner[a] \in Real /\ Set(e, Freed(e, {a}))
  BY DEF EvictAlbum
<1> DEFINE r == Freed(e, {a})
<1>1. Run(ev[e]) /\ Turn(ev[e])
  BY DEF OrderInv, IInv, Shape
<1>2. /\ Run(r) /\ r.at = "evict" /\ r.freed = ev[e].freed \cup {a} /\ r.last = {a}
      /\ r.sizes = ev[e].sizes /\ r.albums = ev[e].albums
      /\ r.order = ev[e].order /\ r.skip = ev[e].skip
  BY <1>1 DEF Freed, Run, Fields, Evicting
<1> HIDE DEF r
<1>3. \A b \in ev[e].albums : <<b, a>> \in ev[e].order => b \in ev[e].freed
  BY DEF Evicting, Oldest, Candidates
<1>4. a \in ev[e].albums \ ev[e].freed /\ Owner[a] \notin ev[e].skip /\ a \in ev[e].sizes
  BY <1>1 DEF Candidates, Turn
<1>5. (r.sizes \ r.freed) \cup r.last = Remaining(e)
  BY <1>2, <1>4 DEF Remaining
<1>6. Cardinality((r.sizes \ r.freed) \cup r.last) > Cap
  BY <1>5 DEF Evicting
<1>7. Turn(r)
  BY <1>1, <1>2, <1>3, <1>4, <1>6 DEF Turn
<1> QED BY <1>2, <1>7, OrderKept DEF r

LEMMA StagesNext ==
    ASSUME OrderInv, NEW e \in Evictions, StageDemo(e)
    PROVE  \A f \in Evictions : Turn(ev[f])'
<1> PICK u \in Demos :
       /\ \E a \in Of(u) : Evicting(e, a)
       /\ Set(e, [ev[e] EXCEPT !.at = "delete", !.demo = {u}])
  BY DEF StageDemo
<1> DEFINE r == [ev[e] EXCEPT !.at = "delete", !.demo = {u}]
<1>1. Run(ev[e]) /\ Turn(ev[e])
  BY DEF OrderInv, IInv, Shape
<1>2. u \notin ev[e].skip /\ Cardinality(ev[e].sizes \ ev[e].freed) > Cap
  BY <1>1 DEF Evicting, Candidates, Of, Turn, Remaining
<1>3. Run(r) /\ Turn(r)
  BY <1>1, <1>2 DEF Run, Fields, Turn
<1> HIDE DEF r
<1> QED BY <1>3, OrderKept DEF r

LEMMA DemoInOrder ==
    ASSUME OrderInv, NEW e \in Evictions, DeleteDemo(e) \/ RemoveDemo(e)
    PROVE  \A f \in Evictions : Turn(ev[f])'
<1>1. Run(ev[e]) /\ Turn(ev[e]) /\ ev[e].demo \subseteq Demos
  BY DEF OrderInv, IInv, Shape, Holds, Emptied
<1>2. CASE DeleteDemo(e)
  <2> DEFINE r == [ev[e] EXCEPT !.at = "remove"]
  <2>1. Run(r) /\ Turn(r)
    BY <1>1, <1>2 DEF Run, Fields, Turn, DeleteDemo
  <2>2. Set(e, r)
    BY <1>2 DEF DeleteDemo
  <2> HIDE DEF r
  <2> QED BY <2>1, <2>2, OrderKept
<1>3. CASE RemoveDemo(e)
  <2> DEFINE gone == {a \in ev[e].sizes : Owner[a] \in ev[e].demo}
             r == [Freed(e, gone) EXCEPT !.at = "evict", !.demo = {}]
  <2>1. /\ Run(r) /\ r.at = "evict" /\ r.freed = ev[e].freed \cup gone /\ r.last = gone
        /\ r.sizes = ev[e].sizes /\ r.albums = ev[e].albums
        /\ r.order = ev[e].order /\ r.skip = ev[e].skip
    BY <1>1 DEF Freed, Run, Fields
  <2>2. Set(e, r)
    BY <1>3 DEF RemoveDemo
  <2> HIDE DEF r
  <2>3. \A a \in gone : Owner[a] \notin Real /\ Owner[a] \notin ev[e].skip
    BY <1>1, <1>3 DEF Turn, RemoveDemo, Real
  <2>4. Cardinality(ev[e].sizes \ ev[e].freed) > Cap
    BY <1>1, <1>3 DEF Turn, RemoveDemo
  <2>5. Cardinality((r.sizes \ r.freed) \cup r.last) > Cap
    <3> DEFINE rest == ev[e].sizes \ ev[e].freed
               all == (r.sizes \ r.freed) \cup r.last
    <3>1. rest \subseteq all /\ all \subseteq Albums
      BY <1>1, <2>1 DEF Turn
    <3>2. IsFiniteSet(all)
      BY <3>1, FS_Subset, AccountsAssumption
    <3>3. /\ Cardinality(rest) <= Cardinality(all)
          /\ Cardinality(rest) \in Nat /\ Cardinality(all) \in Nat
      BY <3>1, <3>2, FS_Subset, FS_CardinalityType
    <3> QED BY <2>4, <3>3, AccountsAssumption
  <2>6. Turn(r)
    BY <1>1, <2>1, <2>3, <2>5 DEF Turn
  <2> QED BY <2>1, <2>2, <2>6, OrderKept
<1> QED BY <1>2, <1>3

LEMMA EndsInOrder ==
    ASSUME OrderInv, NEW e \in Evictions, Set(e, Idle)
    PROVE  \A f \in Evictions : Turn(ev[f])'
BY IdleTurn, OrderKept

LEMMA OrderStep == ASSUME OrderInv, [Next]_vars PROVE OrderInv'
<1>1. IInv'
  BY StepKeeps DEF OrderInv
<1> SUFFICES \A f \in Evictions : Turn(ev[f])'
  BY <1>1 DEF OrderInv
<1>2. ASSUME UNCHANGED ev PROVE \A f \in Evictions : Turn(ev[f])'
  BY <1>2 DEF OrderInv, Turn
<1>3. ASSUME NEW u \in Users,
             \/ CreateDemo(u) \/ CopyTree(u) \/ CopyFails(u)
             \/ FinalizeCommit(u) \/ ReplaceFolders(u) \/ Process(u)
             \/ DeleteUser(u) \/ RemoveFolder(u)
      PROVE  UNCHANGED ev
  BY <1>3 DEF CreateDemo, CopyTree, CopyFails, FinalizeCommit, ReplaceFolders, Process,
              DeleteUser, RemoveFolder
<1>4. ASSUME NEW u \in Users, NEW e \in Evictions,
             StartEviction(e, u) \/ ResumeDelete(e, u) \/ ResumeRemove(e, u)
      PROVE  \A f \in Evictions : Turn(ev[f])'
  BY <1>2, <1>4, BeginsInOrder DEF ResumeDelete
<1>5. ASSUME NEW a \in Albums, Touch(a) PROVE UNCHANGED ev
  BY <1>5 DEF Touch
<1>6. ASSUME NEW e \in Evictions,
             \/ Scan(e) \/ Select(e) \/ EvictAlbum(e) \/ EndEviction(e)
             \/ StageDemo(e) \/ StageFails(e) \/ DeleteDemo(e) \/ RemoveDemo(e)
             \/ EvictionFails(e)
      PROVE  \A f \in Evictions : Turn(ev[f])'
  <2>1. CASE EndEviction(e) \/ StageFails(e) \/ EvictionFails(e)
    BY <2>1, EndsInOrder DEF EndEviction, StageFails, EvictionFails, End
  <2> QED BY <1>6, <2>1, ScansInOrder, EvictsNext, StagesNext, DemoInOrder
<1>7. CASE Crash
  BY <1>7, IdleTurn DEF Crash, Turn
<1>8. CASE UNCHANGED vars
  BY <1>2, <1>8 DEF vars
<1> QED BY <1>2, <1>3, <1>4, <1>5, <1>6, <1>7, <1>8 DEF Next

----------------------------------------------------------------------------
(* Theorems                                                                *)

\* A demo whose copy no crash cut short has all its media or lies staged, whatever
\* fails between the rename and the removal, and an eviction that is past what it
\* resumes has finished off every demo it found staged.
THEOREM DemosWhole == Spec => []DemoWhole
<1>1. IInv => DemoWhole
  BY DEF IInv, Whole, Holds, DemoWhole
<1> QED BY <1>1, Invariant, PTL

\* An account that is gone has left files in its folder only through a crash, a failed
\* copy, an incomplete removal or a late import, and staged files only as an eviction's
\* or through a crash or failure, whatever evictions did while it was deleted.
THEOREM DeletionComplete == Spec => []DeletedLeavesNothing
<1>1. IInv => DeletedLeavesNothing
  BY DEF IInv, FilesOwned, StagedOK, DeletedLeavesNothing
<1> QED BY <1>1, Invariant, PTL

\* An eviction removes albums in the order in which they were opened, a demo
\* as a whole and never the uploader's, and nothing that the cap did not ask for.
THEOREM LeastRecentGoFirst == Spec => []EvictsInOrder
<1>1. ASSUME Init PROVE OrderInv
  <2>1. \A e \in Evictions : Turn(ev[e])
    BY <1>1, IdleTurn DEF Init
  <2> QED BY <1>1, <2>1, InitHolds DEF OrderInv
<1>2. ASSUME OrderInv PROVE EvictsInOrder
  BY <1>2 DEF OrderInv, Turn, EvictsInOrder, Remaining
<1> QED BY <1>1, <1>2, OrderStep, PTL DEF Spec
=============================================================================
