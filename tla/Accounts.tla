------------------------------ MODULE Accounts ------------------------------
(***************************************************************************)
(* Accounts and the storage they use: demo accounts are created from       *)
(* fixtures, archives are imported, accounts are deleted, and after every  *)
(* upload or new demo an eviction removes the media that was opened least  *)
(* recently until the storage is under its cap; a demo it meets is removed *)
(* altogether.  Evictions, requests and imports interleave between their   *)
(* awaits, a removal or a commit may fail, and the process may die         *)
(* anywhere.                                                               *)
(***************************************************************************)
EXTENDS Naturals, FiniteSets, TLC

CONSTANTS
  Users,      \* the accounts of a behaviour
  Demos,      \* those that are demos
  Albums,     \* trips; every folder with media counts as one unit
  Owner,      \* Owner[a]: whose trip it is
  Evictions,  \* slots for evictions running at the same time
  Cap,        \* MAX_STORAGE_BYTES, in units
  MaxUploads, \* bound: archives imported in a behaviour
  MaxFaults   \* bound: crashes, failed calls and incomplete removals in a behaviour

ASSUME AccountsAssumption ==
  /\ IsFiniteSet(Users) /\ IsFiniteSet(Albums)
  /\ Demos \subseteq Users
  /\ Owner \in [Albums -> Users]
  /\ Cap \in Nat /\ MaxUploads \in Nat /\ MaxFaults \in Nat

VARIABLES
  user,      \* users that have a row
  album,     \* albums that have a row
  older,     \* <<a, b>>: the last_active_at of a is before that of b
  media,     \* albums whose folder holds media
  staged,    \* users with a folder in .evictions
  job,       \* job[u]: the creation or the import that is under way
  deleting,  \* users whose folder a deletion has still to remove
  ev,        \* ev[e]: an eviction's locals
  cut,       \* users whose folder a crash or a failure has left as it was
  pending,   \* users whose staged folder one has left to the next eviction
  uploads, faults

records == <<user, album, older>>
bounds == <<uploads, faults>>
left == <<cut, pending>>
vars == <<records, media, staged, job, deleting, ev, left, bounds>>

Of(u) == {a \in Albums : Owner[a] = u}
Folder(u) == media \cap Of(u)
Real == Users \ Demos

\* found: what lay in .evictions when it began; todo: what of that it has to do.
Idle == [at |-> "idle", skip |-> {}, found |-> {}, todo |-> {}, sizes |-> {},
         albums |-> {}, order |-> {}, freed |-> {}, last |-> {}, demo |-> {}]

Init ==
  /\ user = {} /\ album = {} /\ older = {} /\ media = {} /\ staged = {}
  /\ job = [u \in Users |-> "none"]
  /\ deleting = {} /\ cut = {} /\ pending = {}
  /\ ev = [e \in Evictions |-> Idle]
  /\ uploads = 0 /\ faults = 0

Fault == faults < MaxFaults /\ faults' = faults + 1
Goto(u, at) == job' = [job EXCEPT ![u] = at]
Among(trips) == older \cap (trips \X trips)
DeleteRows(u) ==
  /\ user' = user \ {u}
  /\ album' = album \ Of(u)
  /\ older' = Among(album \ Of(u))

----------------------------------------------------------------------------
(* Accounts                                                                *)

\* create_demo: an id nobody has; the row is committed before the copy.
CreateDemo(u) ==
  /\ u \in Demos /\ job[u] = "none"
  /\ user' = user \cup {u}
  /\ Goto(u, "copy")
  /\ UNCHANGED <<album, older, media, staged, deleting, ev, left, bounds>>

CopyTree(u) ==
  /\ job[u] = "copy"
  /\ media' = media \cup Of(u)
  /\ Goto(u, "evict")
  /\ UNCHANGED <<records, staged, deleting, ev, left, bounds>>

\* The row goes, what was copied stays.
CopyFails(u) ==
  /\ job[u] = "copy" /\ Fault
  /\ \E copied \in SUBSET Of(u) : media' = media \cup copied
  /\ DeleteRows(u)
  /\ cut' = cut \cup {u}
  /\ Goto(u, "over")
  /\ UNCHANGED <<staged, deleting, ev, pending, uploads>>

\* finalize_upload: the commit creates the account, if it has to be, ...
FinalizeCommit(u) ==
  /\ u \in Real /\ job[u] = "none" /\ uploads < MaxUploads
  /\ user' = user \cup {u}
  /\ uploads' = uploads + 1
  /\ Goto(u, "replace")
  /\ UNCHANGED <<album, older, media, staged, deleting, ev, left, faults>>

\* ... and the folders follow, without a look at the account.
ReplaceFolders(u) ==
  /\ job[u] = "replace"
  /\ \E trips \in (SUBSET Of(u)) \ {{}} : media' = media \cup trips
  /\ cut' = IF u \in user THEN cut ELSE cut \cup {u}
  /\ Goto(u, "evict")
  /\ UNCHANGED <<records, staged, deleting, ev, pending, bounds>>

\* The processing saves a row for every trip whose folder it finds.  Rows of the
\* same run may be of any order.
Process(u) ==
  /\ u \in user /\ ~(Folder(u) \subseteq album)
  /\ album' = album \cup Folder(u)
  /\ older' = older \cup (album \X (Folder(u) \ album))
  /\ UNCHANGED <<user, media, staged, job, deleting, ev, left, bounds>>

\* The album is opened, an hour or more after the last time.
Touch(a) ==
  /\ a \in album
  /\ older' = Among(album \ {a}) \cup ((album \ {a}) \X {a})
  /\ older' # older
  /\ UNCHANGED <<user, album, media, staged, job, deleting, ev, left, bounds>>

\* Mutant: the folder is left to the next eviction.
DeleteUser_RowOnly(u) ==
  /\ u \in user /\ job[u] # "copy" /\ u \notin deleting
  /\ DeleteRows(u)
  /\ UNCHANGED <<media, staged, job, deleting, ev, left, bounds>>

\* _remove_user: the row, then the folder.
DeleteUser(u) ==
  /\ u \in user /\ job[u] # "copy" /\ u \notin deleting
  /\ DeleteRows(u)
  /\ deleting' = deleting \cup {u}
  /\ UNCHANGED <<media, staged, job, ev, left, bounds>>

\* The removal ignores errors: what it meets one at, and what the thread of a
\* cancelled processing moves into a directory it has listed, stays.
RemoveFolder(u) ==
  /\ u \in deleting
  /\ \E kept \in SUBSET Folder(u) :
       /\ media' = (media \ Of(u)) \cup kept
       /\ IF kept = {} THEN UNCHANGED <<cut, faults>> ELSE cut' = cut \cup {u} /\ Fault
  /\ deleting' = deleting \ {u}
  /\ UNCHANGED <<records, staged, job, ev, pending, uploads>>

----------------------------------------------------------------------------
(* run_eviction                                                            *)

Set(e, fields) == ev' = [ev EXCEPT ![e] = fields]
End(e) == Set(e, Idle)
Remaining(e) == ev[e].sizes \ ev[e].freed

\* After an upload or a new demo; what the last process left in .evictions is
\* resumed first.
StartEviction(e, u) ==
  /\ ev[e] = Idle /\ job[u] = "evict"
  /\ Set(e, [Idle EXCEPT !.at = "resume", !.skip = {u},
                         !.found = staged \ {u}, !.todo = staged \ {u}])
  /\ Goto(u, IF u \in Demos THEN "over" ELSE "none")
  /\ UNCHANGED <<records, media, staged, deleting, left, bounds>>

\* _resume_demo_evictions: the account, in its own commit, ...
ResumeDelete(e, u) ==
  /\ u \in ev[e].todo /\ Folder(u) = {} /\ u \in user
  /\ DeleteRows(u)
  /\ UNCHANGED <<media, staged, job, deleting, ev, left, bounds>>

\* ... then the folder.
ResumeRemove(e, u) ==
  /\ u \in ev[e].todo /\ (Folder(u) # {} \/ u \notin user)
  /\ staged' = staged \ {u} /\ pending' = pending \ {u}
  /\ Set(e, [ev[e] EXCEPT !.todo = @ \ {u}])
  /\ UNCHANGED <<records, media, job, deleting, cut, bounds>>

\* sizes_by_album; under the cap there is nothing to do.
Scan(e) ==
  /\ ev[e].at = "resume" /\ ev[e].todo = {}
  /\ IF Cardinality(media) <= Cap
       THEN End(e)
       ELSE Set(e, [ev[e] EXCEPT !.at = "select", !.sizes = media])
  /\ UNCHANGED <<records, media, staged, job, deleting, left, bounds>>

\* The albums by last activity, but for those the loop skips anyhow.
Select(e) ==
  /\ ev[e].at = "select"
  /\ LET albums == {a \in album \cap ev[e].sizes : Owner[a] \notin ev[e].skip}
     IN  Set(e, [ev[e] EXCEPT !.at = "evict", !.albums = albums, !.order = Among(albums)])
  /\ UNCHANGED <<records, media, staged, job, deleting, left, bounds>>

\* The candidates that have not gone, and the next of them.
Candidates(e) == ev[e].albums \ ev[e].freed
Oldest(e, a) == \A b \in Candidates(e) : <<b, a>> \notin ev[e].order

Evicting(e, a) ==
  /\ ev[e].at = "evict" /\ Cardinality(Remaining(e)) > Cap
  /\ a \in Candidates(e) /\ Oldest(e, a)

Freed(e, trips) == [ev[e] EXCEPT !.freed = @ \cup trips, !.last = trips]

\* Mutant: the most recent album goes first.
EvictAlbum_Newest(e) ==
  \E a \in Candidates(e) :
    /\ ev[e].at = "evict" /\ Cardinality(Remaining(e)) > Cap
    /\ Owner[a] \in Real /\ \A b \in Candidates(e) : <<a, b>> \notin ev[e].order
    /\ media' = media \ {a}
    /\ Set(e, Freed(e, {a}))
    /\ UNCHANGED <<records, staged, job, deleting, left, bounds>>

EvictAlbum(e) ==
  \E a \in Candidates(e) :
    /\ Evicting(e, a) /\ Owner[a] \in Real
    /\ media' = media \ {a}
    /\ Set(e, Freed(e, {a}))
    /\ UNCHANGED <<records, staged, job, deleting, left, bounds>>

\* Mutant: a demo's album is removed like any other.
StageDemo_OneAlbum(e) ==
  \E a \in Candidates(e) :
    /\ Evicting(e, a) /\ Owner[a] \in Demos
    /\ media' = media \ {a}
    /\ Set(e, Freed(e, {a}))
    /\ UNCHANGED <<records, staged, job, deleting, left, bounds>>

Stageable(u) == Folder(u) # {} /\ u \notin staged

\* _stage_demo_eviction: one rename takes the whole folder away.
StageDemo(e) ==
  \E u \in Demos :
    /\ \E a \in Of(u) : Evicting(e, a)
    /\ Stageable(u)
    /\ media' = media \ Of(u)
    /\ staged' = staged \cup {u}
    /\ Set(e, [ev[e] EXCEPT !.at = "delete", !.demo = {u}])
    /\ UNCHANGED <<records, job, deleting, left, bounds>>

\* Another eviction or the user was faster: the rename raises.
StageFails(e) ==
  /\ \E u \in Demos : ~Stageable(u) /\ \E a \in Of(u) : Evicting(e, a)
  /\ End(e)
  /\ UNCHANGED <<records, media, staged, job, deleting, left, bounds>>

DeleteDemo(e) ==
  /\ ev[e].at = "delete"
  /\ \E u \in ev[e].demo : DeleteRows(u)
  /\ Set(e, [ev[e] EXCEPT !.at = "remove"])
  /\ UNCHANGED <<media, staged, job, deleting, left, bounds>>

RemoveDemo(e) ==
  /\ ev[e].at = "remove"
  /\ staged' = staged \ ev[e].demo
  /\ Set(e, [Freed(e, {a \in ev[e].sizes : Owner[a] \in ev[e].demo})
               EXCEPT !.at = "evict", !.demo = {}])
  /\ UNCHANGED <<records, media, job, deleting, left, bounds>>

EndEviction(e) ==
  /\ ev[e].at = "evict"
  /\ Cardinality(Remaining(e)) <= Cap \/ Candidates(e) = {}
  /\ End(e)
  /\ UNCHANGED <<records, media, staged, job, deleting, left, bounds>>

\* A commit, a removal or a scan raises, and with it the eviction.  Of an album
\* whose removal failed media may be left or not; a staged folder stays.
EvictionFails(e) ==
  /\ ev[e] # Idle /\ Fault
  /\ \E gone \in SUBSET {a \in Candidates(e) : Evicting(e, a) /\ Owner[a] \in Real} :
       Cardinality(gone) <= 1 /\ media' = media \ gone
  /\ pending' = pending \cup ev[e].demo
  /\ End(e)
  /\ UNCHANGED <<records, staged, job, deleting, cut, uploads>>

----------------------------------------------------------------------------
\* Requests and background tasks are gone, imports are recovered.
Crash ==
  /\ Fault
  /\ ev' = [e \in Evictions |-> Idle]
  /\ deleting' = {}
  /\ cut' = cut \cup deleting \cup {u \in Users : job[u] = "copy"}
  /\ pending' = pending \cup staged
  /\ job' = [u \in Users |-> IF job[u] = "copy" \/ (u \in Demos /\ job[u] = "evict")
                               THEN "over" ELSE job[u]]
  /\ \E copied \in SUBSET UNION {Of(u) : u \in {v \in Users : job[v] = "copy"}} :
       media' = media \cup copied
  /\ UNCHANGED <<records, staged, uploads>>

Next ==
  \/ \E u \in Users :
       \/ CreateDemo(u) \/ CopyTree(u) \/ CopyFails(u)
       \/ FinalizeCommit(u) \/ ReplaceFolders(u) \/ Process(u)
       \/ DeleteUser(u) \/ RemoveFolder(u)
       \/ \E e \in Evictions :
            StartEviction(e, u) \/ ResumeDelete(e, u) \/ ResumeRemove(e, u)
  \/ \E a \in Albums : Touch(a)
  \/ \E e \in Evictions :
       \/ Scan(e) \/ Select(e) \/ EvictAlbum(e) \/ EndEviction(e)
       \/ StageDemo(e) \/ StageFails(e) \/ DeleteDemo(e) \/ RemoveDemo(e)
       \/ EvictionFails(e)
  \/ Crash

Spec == Init /\ [][Next]_vars

----------------------------------------------------------------------------
(* Properties                                                              *)

(* An account that is gone has left no files (PRIVACY.md: deletion removes   *)
(* the account, its albums and all files), whatever evictions did to its     *)
(* folder meanwhile.  In the users' folder only four things leave some: a    *)
(* crash, a copy that failed, a removal that met an error, and an import     *)
(* past its commit.  In .evictions lies only what an eviction is about to    *)
(* remove, and what a crash or a failure took out of an eviction's hands.    *)
DeletedLeavesNothing ==
  /\ \A u \in Users \ (user \cup deleting \cup cut) : job[u] # "replace" => Folder(u) = {}
  /\ \A u \in staged \ (user \cup pending) : \E e \in Evictions : u \in ev[e].demo

(* A demo account whose copy was not cut short by a crash is whole, or its   *)
(* folder is staged, also after a crash or a failure between the rename and  *)
(* the removal: nobody is left with an album whose media is gone.  And what  *)
(* is staged is finished off, row and folder, by the next eviction but the   *)
(* demo's own, before that one looks for media to remove.                    *)
DemoWhole ==
  /\ \A u \in (Demos \cap user) \ cut :
       job[u] # "copy" => Folder(u) = Of(u) \/ u \in staged
  /\ \A e \in Evictions :
       ev[e].at \notin {"idle", "resume"} => ev[e].found \cap (user \cup staged) = {}

(* An eviction removes media in the order in which the albums were opened,   *)
(* never the uploader's, a demo's as a whole, and not more than it must: its *)
(* last removal was made over the cap.                                       *)
EvictsInOrder ==
  \A e \in Evictions :
    /\ \A a \in ev[e].freed : Owner[a] \notin ev[e].skip
    /\ \A a \in ev[e].albums, b \in ev[e].freed :
         <<a, b>> \in ev[e].order /\ Owner[b] \in Real => a \in ev[e].freed
    /\ ev[e].last # {} => Cardinality(Remaining(e) \cup ev[e].last) > Cap
=============================================================================
