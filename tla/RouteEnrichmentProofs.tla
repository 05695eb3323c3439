----------------------- MODULE RouteEnrichmentProofs -----------------------
(***************************************************************************)
(* Proofs about RouteEnrichment: its types, that the lock belongs to a     *)
(* workflow that is asking, that a segment is never left to nobody, that   *)
(* a road always follows the fixes its segment has, that a recorded        *)
(* outcome stays, and that a batch fits its request budget, however many   *)
(* workflows run and whatever is edited, fails or crashes.                 *)
(***************************************************************************)
EXTENDS RouteEnrichment, FiniteSetTheorems, SequenceTheorems, TLAPS

\* A workflow of which a step has still to be executed.
Active(w) == wf[w].pc \notin Ended

\* Who holds the advisory lock is between reading the rows and writing them:
\* a workflow that is turned away leaves its segments to one that looks again.
HolderAsks == locker # NoWorkflow => wf[locker].pc = "asking"

\* While a segment waits for a road, somebody is going to look at the album.
SomebodyLooks ==
    Waiting(segs) # {} => pending > 0 \/ lost \/ \E w \in Workflows : Active(w)

IInv == TypeOK /\ HolderAsks /\ SomebodyLooks

LEMMA InitHolds == Init => IInv
<1> SUFFICES ASSUME Init PROVE IInv
  OBVIOUS
<1>1. \A w \in Workflows : wf[w] = Idle
  BY DEF Init
<1>2. DOMAIN Idle = {"pc", "batch", "asked", "tries", "failed"} /\ Idle.pc = "done"
      /\ Idle.tries = 0 /\ Idle.failed = 0
  BY DEF Idle
<1>3. TypeOK
  <2>1. \A w \in Workflows :
          /\ DOMAIN wf[w] = {"pc", "batch", "asked", "tries", "failed"}
          /\ wf[w].pc \in Points /\ wf[w].tries \in Nat /\ wf[w].failed \in 0 .. 1
    BY <1>1, <1>2 DEF Points, Ended
  <2>2. lost \in BOOLEAN
    BY Zenon DEF Init
  <2>3. DOMAIN wf = Workflows /\ locker \in Workflows \cup {NoWorkflow}
        /\ pending \in Nat /\ edits \in 0 .. MaxEdits /\ crashes \in 0 .. MaxCrashes
    BY EnrichmentConstants DEF Init
  <2> QED BY <2>1, <2>2, <2>3, Zenon DEF TypeOK
<1>4. HolderAsks /\ SomebodyLooks
  BY DEF Init, HolderAsks, SomebodyLooks
<1> QED BY <1>3, <1>4 DEF IInv

\* Changing fields of one workflow keeps the types of all.
LEMMA TypeOfUpdate ==
    ASSUME TypeOK, NEW w \in Workflows, NEW new,
           DOMAIN new = DOMAIN wf[w], new.pc \in Points, new.tries \in Nat, new.failed \in 0 .. 1,
           wf' = [wf EXCEPT ![w] = new]
    PROVE  /\ DOMAIN wf' = Workflows
           /\ \A v \in Workflows :
                 /\ DOMAIN wf'[v] = {"pc", "batch", "asked", "tries", "failed"}
                 /\ wf'[v].pc \in Points /\ wf'[v].tries \in Nat /\ wf'[v].failed \in 0 .. 1
BY DEF TypeOK

LEMMA EditorKeeps == IInv /\ (AdjustSegmentBoundary \/ ImportAgain \/ StartFails) => IInv'
<1> SUFFICES ASSUME IInv, AdjustSegmentBoundary \/ ImportAgain \/ StartFails PROVE IInv'
  OBVIOUS
<1> USE EnrichmentConstants DEF IInv
<1>1. CASE AdjustSegmentBoundary
  <2>1. UNCHANGED <<wf, locker, lost, crashes>> /\ edits < MaxEdits /\ edits' = edits + 1
        /\ pending' = pending + 1
    BY <1>1 DEF AdjustSegmentBoundary
  <2>2. TypeOK' /\ HolderAsks' /\ pending' > 0
    BY <2>1 DEF TypeOK, HolderAsks
  <2> QED BY <2>2 DEF SomebodyLooks
<1>2. CASE ImportAgain
  <2>1. UNCHANGED <<wf, locker, lost, crashes>> /\ edits < MaxEdits /\ edits' = edits + 1
        /\ pending' = pending + 1
    BY <1>2 DEF ImportAgain
  <2>2. TypeOK' /\ HolderAsks' /\ pending' > 0
    BY <2>1 DEF TypeOK, HolderAsks
  <2> QED BY <2>2 DEF SomebodyLooks
<1>3. CASE StartFails
  BY <1>3 DEF StartFails, TypeOK, HolderAsks, SomebodyLooks
<1> QED BY <1>1, <1>2, <1>3

LEMMA CrashKeeps == IInv /\ CrashAndRestart => IInv'
<1> SUFFICES ASSUME IInv, CrashAndRestart PROVE IInv'
  OBVIOUS
<1>1. /\ crashes < MaxCrashes /\ crashes' = crashes + 1 /\ locker' = NoWorkflow
      /\ pending' = (IF Waiting(segs) = {} THEN 0 ELSE 1)
      /\ segs' = segs /\ edits' = edits
  BY DEF CrashAndRestart
<1>2. /\ DOMAIN wf' = Workflows
      /\ \A w \in Workflows : wf'[w] = IF wf[w].pc \in {"asking", "wrote", "fallback"}
              THEN [wf[w] EXCEPT !.pc = "match", !.asked = <<>>, !.tries = 0] ELSE wf[w]
  BY DEF CrashAndRestart
<1>3. TypeOK'
  <2>1. ASSUME NEW w \in Workflows
        PROVE  /\ DOMAIN wf'[w] = {"pc", "batch", "asked", "tries", "failed"}
               /\ wf'[w].pc \in Points /\ wf'[w].tries \in Nat /\ wf'[w].failed \in 0 .. 1
    <3>1. /\ DOMAIN wf[w] = {"pc", "batch", "asked", "tries", "failed"}
          /\ wf[w].pc \in Points /\ wf[w].tries \in Nat /\ wf[w].failed \in 0 .. 1
      BY DEF IInv, TypeOK
    <3>2. CASE wf[w].pc \in {"asking", "wrote", "fallback"}
      <4>1. wf'[w] = [wf[w] EXCEPT !.pc = "match", !.asked = <<>>, !.tries = 0]
        BY <1>2, <3>2
      <4>2. DOMAIN wf'[w] = DOMAIN wf[w]
        BY <4>1
      <4>3. wf'[w].pc = "match" /\ wf'[w].tries = 0 /\ wf'[w].failed = wf[w].failed
        BY <3>1, <4>1
      <4> QED BY <3>1, <4>2, <4>3 DEF Points
    <3>3. CASE wf[w].pc \notin {"asking", "wrote", "fallback"}
      BY <1>2, <3>1, <3>3
    <3> QED BY <3>2, <3>3
  <2>2. lost' \in BOOLEAN
    BY Zenon DEF CrashAndRestart
  <2>3. locker' \in Workflows \cup {NoWorkflow} /\ pending' \in Nat
        /\ edits' \in 0 .. MaxEdits /\ crashes' \in 0 .. MaxCrashes
    BY <1>1, EnrichmentConstants DEF IInv, TypeOK
  <2> QED BY <1>2, <2>1, <2>2, <2>3, Zenon DEF TypeOK
<1>4. HolderAsks'
  BY <1>1 DEF HolderAsks
<1>5. Waiting(segs') # {} => pending' > 0
  BY <1>1
<1>6. SomebodyLooks'
  BY <1>5, Zenon DEF SomebodyLooks
<1> QED BY <1>3, <1>4, <1>6 DEF IInv

LEMMA StartKeeps == ASSUME IInv, NEW w \in Workflows, StartWorkflow(w) PROVE IInv'
<1> USE EnrichmentConstants DEF IInv
<1> DEFINE new == [Idle EXCEPT !.pc = "plan"]
<1>1. wf' = [wf EXCEPT ![w] = new] /\ pending > 0 /\ pending' = pending - 1 /\ wf[w].pc \in Ended
      /\ UNCHANGED <<segs, locker, lost, edits, crashes>>
  BY DEF StartWorkflow
<1>2. DOMAIN new = DOMAIN wf[w] /\ new.pc = "plan" /\ new.tries \in Nat /\ new.failed \in 0 .. 1
  BY DEF TypeOK, Idle
<1>3. TypeOK'
  BY <1>1, <1>2, TypeOfUpdate DEF TypeOK, Points
<1>4. HolderAsks'
  BY <1>1 DEF HolderAsks, TypeOK, Ended
<1>5. wf'[w].pc = "plan"
  BY <1>1, <1>2 DEF TypeOK
<1>6. SomebodyLooks'
  BY <1>5 DEF SomebodyLooks, Active, Ended
<1> QED BY <1>3, <1>4, <1>6

\* What a step of a workflow has to respect: it may give the lock up or keep
\* it away from itself, and it ends only if nobody has to look any more, a
\* failure was recorded as such, or another workflow goes on.
LEMMA StepKeeps ==
    ASSUME IInv, NEW w \in Workflows, NEW new,
           DOMAIN new = DOMAIN wf[w], new.pc \in Points, new.tries \in Nat, new.failed \in 0 .. 1,
           wf' = [wf EXCEPT ![w] = new],
           UNCHANGED <<pending, edits, crashes>>,
           lost' \in BOOLEAN, lost => lost',
           \/ locker' = NoWorkflow
           \/ locker' = locker /\ locker # w
           \/ locker' = w /\ new.pc = "asking",
           new.pc \notin Ended \/ lost' \/ Waiting(segs') = {} \/ \E v \in Workflows \ {w} : Active(v)
    PROVE  IInv'
<1>1. wf'[w] = new /\ \A v \in Workflows \ {w} : wf'[v] = wf[v]
  BY DEF IInv, TypeOK
<1>2. TypeOK'
  <2>1. locker' \in Workflows \cup {NoWorkflow}
    BY DEF IInv, TypeOK
  <2>2. pending' \in Nat /\ edits' \in 0 .. MaxEdits /\ crashes' \in 0 .. MaxCrashes
    BY DEF IInv, TypeOK
  <2> QED BY <2>1, <2>2, TypeOfUpdate DEF IInv, TypeOK
<1>3. HolderAsks'
  BY <1>1 DEF IInv, TypeOK, HolderAsks
<1>4. SomebodyLooks'
  <2>1. CASE new.pc \notin Ended
    BY <1>1, <2>1 DEF SomebodyLooks, Active
  <2>2. CASE lost' \/ Waiting(segs') = {}
    BY <2>2, Zenon DEF SomebodyLooks
  <2>3. CASE \E v \in Workflows \ {w} : Active(v)
    BY <1>1, <2>3 DEF SomebodyLooks, Active
  <2> QED BY <2>1, <2>2, <2>3
<1> QED BY <1>2, <1>3, <1>4 DEF IInv

LEMMA PlanKeeps == ASSUME IInv, NEW w \in Workflows, PlanBatch(w) PROVE IInv'
<1>0. PICK candidates \in RouteCandidates(segs) :
        /\ wf' = [wf EXCEPT ![w] =
                 IF Waiting(segs) = {} THEN Finish(w)
                 ELSE [wf[w] EXCEPT !.pc = IF RouteRequestBatch(candidates) = <<>>
                                           THEN "error" ELSE "match",
                                    !.batch = RouteRequestBatch(candidates), !.tries = 0]]
        /\ lost' = (lost \/ (Waiting(segs) # {} /\ RouteRequestBatch(candidates) = <<>>))
  BY Zenon DEF PlanBatch
<1> DEFINE batch == RouteRequestBatch(candidates)
           ended == Finish(w)
           going == [wf[w] EXCEPT !.pc = IF batch = <<>> THEN "error" ELSE "match",
                                  !.batch = batch, !.tries = 0]
           new == IF Waiting(segs) = {} THEN ended ELSE going
<1>1. wf[w].pc = "plan" /\ wf' = [wf EXCEPT ![w] = new]
      /\ UNCHANGED <<segs, locker, pending, edits, crashes>>
  BY <1>0 DEF PlanBatch
<1>2. lost' = (lost \/ (Waiting(segs) # {} /\ batch = <<>>))
  BY <1>0, Zenon
<1>3. locker # w
  BY <1>1, EnrichmentConstants DEF IInv, TypeOK, HolderAsks
<1>4. DOMAIN wf[w] = {"pc", "batch", "asked", "tries", "failed"}
      /\ wf[w].tries \in Nat /\ wf[w].failed \in 0 .. 1
  BY DEF IInv, TypeOK
<1>5. DOMAIN ended = DOMAIN wf[w] /\ ended.pc \in Ended /\ ended.tries = wf[w].tries
      /\ ended.failed = wf[w].failed
  BY <1>4 DEF Finish, Ended
<1>6. DOMAIN going = DOMAIN wf[w] /\ going.tries = 0 /\ going.failed = wf[w].failed
      /\ going.pc = IF batch = <<>> THEN "error" ELSE "match"
  BY <1>4
<1>7. DOMAIN new = DOMAIN wf[w] /\ new.pc \in Points /\ new.tries \in Nat /\ new.failed \in 0 .. 1
  BY <1>4, <1>5, <1>6 DEF Points, Ended
<1>8. lost' \in BOOLEAN /\ (lost => lost')
  BY <1>2, Zenon
<1>9. new.pc \notin Ended \/ lost' \/ Waiting(segs') = {}
  <2>1. CASE Waiting(segs) = {}
    BY <1>1, <2>1
  <2>2. CASE Waiting(segs) # {} /\ batch = <<>>
    BY <1>2, <2>2, Zenon
  <2>3. CASE Waiting(segs) # {} /\ batch # <<>>
    BY <1>6, <2>3 DEF Ended
  <2> QED BY <2>1, <2>2, <2>3
<1> HIDE DEF new
<1> QED BY <1>1, <1>3, <1>7, <1>8, <1>9, StepKeeps

LEMMA AlreadyRunningKeeps == ASSUME IInv, NEW w \in Workflows, AlreadyRunning(w) PROVE IInv'
<1> DEFINE new == Finish(w)
<1>1. wf[w].pc = "match" /\ locker # NoWorkflow /\ wf' = [wf EXCEPT ![w] = new]
      /\ UNCHANGED <<segs, locker, pending, edits, crashes>>
  BY DEF AlreadyRunning
<1>2. lost' \in BOOLEAN /\ (lost => lost')
  BY Zenon DEF AlreadyRunning, IInv, TypeOK
<1>3. locker \in Workflows /\ locker # w /\ wf[locker].pc = "asking"
  BY <1>1 DEF IInv, TypeOK, HolderAsks
<1>4. DOMAIN new = DOMAIN wf[w] /\ new.pc \in Points /\ new.tries \in Nat /\ new.failed \in 0 .. 1
  BY DEF IInv, TypeOK, Finish, Points, Ended
<1>5. \E v \in Workflows \ {w} : Active(v)
  BY <1>3 DEF Active, Ended
<1> HIDE DEF new
<1> QED BY <1>1, <1>2, <1>3, <1>4, <1>5, StepKeeps

\* The remaining steps only go on, or end after recording a failure as one.
LEMMA GoesOn ==
    ASSUME IInv, NEW w \in Workflows, NEW new, DOMAIN new = DOMAIN wf[w],
           new.pc \in Points, new.tries \in Nat, new.failed \in 0 .. 1,
           wf' = [wf EXCEPT ![w] = new], UNCHANGED <<pending, edits, crashes>>,
           lost' \in BOOLEAN, lost => lost',
           locker' = NoWorkflow \/ (locker' = locker /\ wf[w].pc # "asking")
             \/ (locker' = w /\ new.pc = "asking"),
           new.pc \notin Ended \/ lost'
    PROVE  IInv'
<1>1. locker' = locker /\ wf[w].pc # "asking" => locker # w
  BY EnrichmentConstants DEF IInv, HolderAsks
<1> QED BY <1>1, StepKeeps

LEMMA ReadKeeps == ASSUME IInv, NEW w \in Workflows, ReadSnapshots(w) PROVE IInv'
<1> DEFINE asked == SnapshotsForKeys(segs, wf[w].batch)
           none == [wf[w] EXCEPT !.pc = "plan"]
           some == [wf[w] EXCEPT !.pc = "asking", !.asked = asked]
<1>1. wf[w].pc = "match" /\ locker = NoWorkflow /\ UNCHANGED <<segs, pending, edits, crashes>>
  BY DEF ReadSnapshots
<1>2. lost' \in BOOLEAN /\ (lost => lost')
  BY Zenon DEF ReadSnapshots, IInv, TypeOK
<1>3. DOMAIN wf[w] = {"pc", "batch", "asked", "tries", "failed"}
      /\ wf[w].tries \in Nat /\ wf[w].failed \in 0 .. 1
  BY DEF IInv, TypeOK
<1>4. CASE asked = <<>>
  <2>1. wf' = [wf EXCEPT ![w] = none] /\ locker' = NoWorkflow
    BY <1>1, <1>4 DEF ReadSnapshots
  <2>2. DOMAIN none = DOMAIN wf[w] /\ none.pc = "plan" /\ none.tries \in Nat /\ none.failed \in 0 .. 1
    BY <1>3
  <2> HIDE DEF none
  <2> QED BY <1>1, <1>2, <2>1, <2>2, GoesOn DEF Points, Ended
<1>5. CASE asked # <<>>
  <2>1. wf' = [wf EXCEPT ![w] = some] /\ locker' = w
    BY <1>5 DEF ReadSnapshots
  <2>2. DOMAIN some = DOMAIN wf[w] /\ some.pc = "asking" /\ some.tries \in Nat /\ some.failed \in 0 .. 1
    BY <1>3
  <2> HIDE DEF some
  <2> QED BY <1>1, <1>2, <2>1, <2>2, GoesOn DEF Points, Ended
<1> QED BY <1>4, <1>5

LEMMA WriteKeeps == ASSUME IInv, NEW w \in Workflows, WriteResults(w) PROVE IInv'
<1>1. UNCHANGED <<pending, edits, crashes>> /\ locker' = NoWorkflow
  BY DEF WriteResults
<1>2. lost' \in BOOLEAN /\ (lost => lost')
  BY Zenon DEF WriteResults, IInv, TypeOK
<1>3. PICK short, bad \in BOOLEAN :
        wf' = [wf EXCEPT ![w].pc = IF short THEN "fallback" ELSE "wrote",
                         ![w].failed = IF bad THEN 1 ELSE 0]
  <2>1. PICK outcomes \in MatchSegments(wf[w].asked) :
          LET count(S) == Cardinality({i \in DOMAIN outcomes : outcomes[i].error \in S
                                          \/ outcomes[i].status \in S})
          IN  wf' = [wf EXCEPT ![w].pc = IF count({"request_budget_exceeded"}) > 0
                                         THEN "fallback" ELSE "wrote",
                               ![w].failed = IF @ + count({"failed"}) > 0 THEN 1 ELSE 0]
    BY DEF WriteResults
  <2> DEFINE count(S) == Cardinality({i \in DOMAIN outcomes : outcomes[i].error \in S
                                          \/ outcomes[i].status \in S})
             short == count({"request_budget_exceeded"}) > 0
             bad == wf[w].failed + count({"failed"}) > 0
  <2>2. wf' = [wf EXCEPT ![w].pc = IF short THEN "fallback" ELSE "wrote",
                         ![w].failed = IF bad THEN 1 ELSE 0]
    BY <2>1
  <2> HIDE DEF short, bad
  <2>3. CASE short /\ bad
    BY <2>2, <2>3
  <2>4. CASE short /\ ~bad
    BY <2>2, <2>4
  <2>5. CASE ~short /\ bad
    BY <2>2, <2>5
  <2>6. CASE ~short /\ ~bad
    BY <2>2, <2>6
  <2> QED BY <2>3, <2>4, <2>5, <2>6
<1> DEFINE new == [wf[w] EXCEPT !.pc = IF short THEN "fallback" ELSE "wrote",
                                !.failed = IF bad THEN 1 ELSE 0]
<1>4. wf' = [wf EXCEPT ![w] = new]
  BY <1>3
<1>5. DOMAIN new = DOMAIN wf[w] /\ new.pc \in {"fallback", "wrote"} /\ new.tries \in Nat
      /\ new.failed \in 0 .. 1
  BY DEF IInv, TypeOK
<1> HIDE DEF new
<1> QED BY <1>1, <1>2, <1>4, <1>5, GoesOn DEF Points, Ended

LEMMA TryFailsKeeps == ASSUME IInv, NEW w \in Workflows, TryFails(w) PROVE IInv'
<1> DEFINE next == IF wf[w].tries + 1 = MaxAttempts THEN "mark" ELSE "match"
           new == [wf[w] EXCEPT !.tries = wf[w].tries + 1, !.asked = <<>>, !.pc = next]
<1>1. wf' = [wf EXCEPT ![w] = new] /\ locker' = NoWorkflow
      /\ UNCHANGED <<segs, pending, edits, crashes>>
  BY DEF TryFails
<1>2. lost' \in BOOLEAN /\ (lost => lost')
  BY Zenon DEF TryFails, IInv, TypeOK
<1>3. next \in {"mark", "match"}
  OBVIOUS
<1> HIDE DEF next
<1>4. DOMAIN new = DOMAIN wf[w] /\ new.pc = next /\ new.tries \in Nat /\ new.failed \in 0 .. 1
  BY DEF IInv, TypeOK
<1> HIDE DEF new
<1> QED BY <1>1, <1>2, <1>3, <1>4, GoesOn DEF Points, Ended

LEMMA RecordKeeps == ASSUME IInv, NEW w \in Workflows, RecordResult(w) PROVE IInv'
<1> DEFINE next == IF wf[w].pc = "wrote" THEN "plan" ELSE "error"
           new == [wf[w] EXCEPT !.pc = next, !.asked = <<>>]
<1>1. wf' = [wf EXCEPT ![w] = new] /\ wf[w].pc \in {"wrote", "fallback"}
      /\ UNCHANGED <<segs, locker, pending, edits, crashes>>
  BY DEF RecordResult
<1>2. lost' = (lost \/ wf[w].pc = "fallback")
  BY Zenon DEF RecordResult
<1>3. lost' \in BOOLEAN /\ (lost => lost') /\ (wf[w].pc = "fallback" => lost')
  BY <1>2, Zenon
<1>4. next = "plan" \/ (next = "error" /\ wf[w].pc = "fallback")
  BY <1>1
<1> HIDE DEF next
<1>5. DOMAIN new = DOMAIN wf[w] /\ new.pc = next /\ new.tries \in Nat /\ new.failed \in 0 .. 1
  BY DEF IInv, TypeOK
<1> HIDE DEF new
<1> QED BY <1>1, <1>3, <1>4, <1>5, GoesOn DEF Points, Ended

LEMMA MarkKeeps == ASSUME IInv, NEW w \in Workflows, MarkPendingFailed(w) PROVE IInv'
<1> DEFINE new == [wf[w] EXCEPT !.pc = "error"]
<1>1. wf' = [wf EXCEPT ![w] = new] /\ wf[w].pc = "mark"
      /\ UNCHANGED <<locker, pending, edits, crashes>>
  BY DEF MarkPendingFailed
<1>2. lost' = TRUE
  BY Zenon DEF MarkPendingFailed
<1>3. lost' \in BOOLEAN /\ (lost => lost') /\ lost'
  BY <1>2, Zenon
<1>4. DOMAIN new = DOMAIN wf[w] /\ new.pc = "error" /\ new.tries \in Nat /\ new.failed \in 0 .. 1
  BY DEF IInv, TypeOK
<1> HIDE DEF new
<1> QED BY <1>1, <1>3, <1>4, GoesOn DEF Points, Ended

LEMMA StutterKeeps == IInv /\ UNCHANGED vars => IInv'
<1> SUFFICES ASSUME IInv, UNCHANGED vars PROVE IInv'
  OBVIOUS
<1>1. UNCHANGED <<segs, wf, locker, pending, edits, crashes>>
  BY DEF vars
<1>2. lost' = lost
  BY Zenon DEF vars
<1>3. TypeOK' /\ HolderAsks'
  BY <1>1, <1>2 DEF IInv, TypeOK, HolderAsks
<1>4. SomebodyLooks'
  <2>1. (Waiting(segs) = {})' <=> Waiting(segs) = {}
    BY <1>1
  <2>2. \A w \in Workflows : Active(w)' <=> Active(w)
    BY <1>1 DEF Active
  <2> QED BY <1>1, <1>2, <2>1, <2>2, Zenon DEF IInv, SomebodyLooks
<1> QED BY <1>3, <1>4 DEF IInv

LEMMA IInvInductive == IInv /\ [Next]_vars => IInv'
<1> SUFFICES ASSUME IInv, [Next]_vars PROVE IInv'
  OBVIOUS
<1>1. CASE AdjustSegmentBoundary \/ ImportAgain \/ StartFails
  BY <1>1, EditorKeeps
<1>2. CASE CrashAndRestart
  BY <1>2, CrashKeeps
<1>3. ASSUME NEW w \in Workflows, StartWorkflow(w) \/ WorkflowStep(w)
      PROVE  IInv'
  <2>1. CASE StartWorkflow(w)
    BY <2>1, StartKeeps
  <2>2. CASE PlanBatch(w)
    BY <2>2, PlanKeeps
  <2>3. CASE AlreadyRunning(w)
    BY <2>3, AlreadyRunningKeeps
  <2>4. CASE ReadSnapshots(w)
    BY <2>4, ReadKeeps
  <2>5. CASE WriteResults(w)
    BY <2>5, WriteKeeps
  <2>6. CASE TryFails(w)
    BY <2>6, TryFailsKeeps
  <2>7. CASE RecordResult(w)
    BY <2>7, RecordKeeps
  <2>8. CASE MarkPendingFailed(w)
    BY <2>8, MarkKeeps
  <2> QED BY <1>3, <2>1, <2>2, <2>3, <2>4, <2>5, <2>6, <2>7, <2>8 DEF WorkflowStep
<1>4. CASE UNCHANGED vars
  BY <1>4, StutterKeeps
<1> QED BY <1>1, <1>2, <1>3, <1>4 DEF Next

LEMMA Invariant == Spec => []IInv
BY InitHolds, IInvInductive, PTL DEF Spec

\* The workflows, the lock and the counters of album_route_enrichment_workflow
\* keep their types.
THEOREM TypeCorrect == Spec => []TypeOK
<1>1. IInv => TypeOK
  BY DEF IInv
<1> QED BY <1>1, Invariant, PTL

\* A workflow that finds the advisory lock taken ends well, and still no
\* segment is left to nobody: once all is quiet, and no start or workflow has
\* failed, every segment that can have a road has its outcome.
THEOREM NobodyForgotten == Spec => []AtRestResolved
<1>1. IInv => AtRestResolved
  BY DEF IInv, SomebodyLooks, AtRestResolved, Active, TypeOK
<1> QED BY <1>1, Invariant, PTL

-----------------------------------------------------------------------------
(* Folds over sequences *)

LEMMA LeastOf ==
    ASSUME NEW T, T \subseteq Nat, T # {}
    PROVE  \E x \in T : \A y \in T : x <= y
<1>1. PICK x \in T : \A y \in T : <<y, x>> \notin OpToRel(<, Nat)
  BY NatLessThanWellFounded, WFMin
<1>2. ASSUME NEW y \in T PROVE x <= y
  <2>1. x \in Nat /\ y \in Nat
    OBVIOUS
  <2>2. ~(y < x)
    BY <1>1, <2>1 DEF OpToRel
  <2> QED BY <2>1, <2>2
<1> QED BY <1>2

LEMMA UpTo ==
    ASSUME NEW n \in Nat, NEW S, 0 \in S, \A i \in 1 .. n : i - 1 \in S => i \in S
    PROVE  0 .. n \subseteq S
<1> DEFINE T == {i \in 0 .. n : i \notin S}
<1>1. SUFFICES ASSUME T # {} PROVE FALSE
  OBVIOUS
<1>2. T \subseteq Nat
  OBVIOUS
<1>3. PICK x \in T : \A y \in T : x <= y
  BY <1>1, <1>2, LeastOf
<1>4. x \in 1 .. n /\ x - 1 \in 0 .. n /\ x - 1 \notin T
  BY <1>3
<1> QED BY <1>3, <1>4

\* The largest of the first numbers.
LEMMA LargestOf ==
    ASSUME NEW n \in Nat, NEW s, s \subseteq 1 .. n, s # {}
    PROVE  /\ Max(s) \in s /\ \A y \in s : y <= Max(s)
<1> DEFINE T == {n - y : y \in s}
<1>1. T \subseteq Nat /\ T # {}
  <2>1. \A y \in s : n - y \in Nat
    OBVIOUS
  <2>2. PICK y \in s : TRUE
    OBVIOUS
  <2>3. n - y \in T
    OBVIOUS
  <2> QED BY <2>1, <2>3
<1>2. PICK x \in T : \A y \in T : x <= y
  BY <1>1, LeastOf
<1>3. PICK m \in s : x = n - m
  OBVIOUS
<1>4. ASSUME NEW y \in s PROVE m >= y
  <2>1. n - y \in T
    OBVIOUS
  <2>2. n - m <= n - y
    BY <1>2, <1>3, <2>1
  <2> QED BY <2>2
<1>5. \E x2 \in s : \A y \in s : x2 >= y
  BY <1>4
<1>6. Max(s) \in s /\ \A y \in s : Max(s) >= y
  BY <1>5 DEF Max
<1> QED BY <1>6

LEMMA LargestIs ==
    ASSUME NEW n \in Nat, NEW s, s \subseteq 1 .. n, n \in s
    PROVE  Max(s) = n
<1>1. Max(s) \in s /\ \A y \in s : y <= Max(s)
  BY LargestOf
<1> DEFINE m == Max(s)
<1>2. m \in 1 .. n /\ n <= m
  BY <1>1
<1> HIDE DEF m
<1>3. m = n
  BY <1>2
<1> QED BY <1>3 DEF m

\* The initial segments that a fold over 1 .. n goes through.
FirstOnes(i) == 1 .. i

LEMMA Segments ==
    ASSUME NEW n \in Nat, NEW i \in 1 .. n
    PROVE  /\ FirstOnes(i) \in SUBSET (1 .. n) /\ FirstOnes(i) # {}
           /\ Max(FirstOnes(i)) = i /\ FirstOnes(i) \ {i} = FirstOnes(i - 1)
<1> USE DEF FirstOnes
<1>1. Max(1 .. i) = i
  <2>1. i \in Nat /\ 1 .. i \subseteq 1 .. i /\ i \in 1 .. i
    OBVIOUS
  <2> DEFINE s == 1 .. i
  <2>2. s \subseteq 1 .. i /\ i \in s
    BY <2>1
  <2> HIDE DEF s
  <2>3. Max(s) = i
    BY <2>1, <2>2, LargestIs
  <2> QED BY <2>3 DEF s
<1> QED BY <1>1

\* The folds of the library choose a function on the sets of indices, the
\* largest index last.  What follows is about a fold whose steps, for values
\* of the set X, are those of the function G: Folds says it of such a function
\* on sets, Runs of the values that the fold goes through.
Folds(it, n, X, base, G) ==
    /\ it[{}] = base
    /\ \A s \in SUBSET (1 .. n) :
         s # {} /\ it[s \ {Max(s)}] \in X => it[s] = G[<<Max(s), it[s \ {Max(s)}]>>]

Runs(f, n, X, base, G) ==
    /\ f \in [0 .. n -> X]
    /\ f[0] = base
    /\ \A i \in 1 .. n : f[i] = G[<<i, f[i - 1]>>]

LEMMA FoldExists ==
    ASSUME NEW n \in Nat, NEW X, NEW base \in X, NEW G \in [(1 .. n) \X X -> X]
    PROVE  \E it : Folds(it, n, X, base, G) /\ it \in [SUBSET (1 .. n) -> X]
<1> DEFINE I(i) == SUBSET (1 .. i)
           FoldTo(h, i) == /\ h \in [I(i) -> X]
                           /\ \A s \in I(i) :
                                h[s] = IF s = {} THEN base ELSE G[<<Max(s), h[s \ {Max(s)}]>>]
           S == {i \in 0 .. n : \E h : FoldTo(h, i)}
<1>1. 0 \in S
  <2> DEFINE h == [s \in I(0) |-> base]
  <2>1. I(0) = {{}}
    OBVIOUS
  <2>2. FoldTo(h, 0)
    BY <2>1
  <2> HIDE DEF h, FoldTo
  <2> QED BY <2>2
<1>2. ASSUME NEW i \in 1 .. n, i - 1 \in S PROVE i \in S
  <2> PICK g : FoldTo(g, i - 1)
    BY <1>2
  <2> DEFINE h == [s \in I(i) |-> IF i \in s THEN G[<<i, g[s \ {i}]>>] ELSE g[s]]
  <2>1. \A s \in I(i) : s \ {i} \in I(i - 1) /\ (i \notin s => s \in I(i - 1))
    OBVIOUS
  <2>2. h \in [I(i) -> X]
    BY <2>1
  <2>3. ASSUME NEW s \in I(i)
        PROVE  h[s] = IF s = {} THEN base ELSE G[<<Max(s), h[s \ {Max(s)}]>>]
    <3>1. CASE i \in s
      <4>1. Max(s) = i
        <5>1. i \in Nat /\ s \subseteq 1 .. i
          OBVIOUS
        <5> HIDE DEF h, FoldTo
        <5> QED BY <3>1, <5>1, LargestIs
      <4>2. h[s] = G[<<i, g[s \ {i}]>>] /\ h[s \ {i}] = g[s \ {i}]
        BY <3>1
      <4> QED BY <3>1, <4>1, <4>2
    <3>2. CASE i \notin s
      <4>1. s \in I(i - 1) /\ h[s] = g[s]
        BY <2>1, <3>2
      <4>2. g[s] = IF s = {} THEN base ELSE G[<<Max(s), g[s \ {Max(s)}]>>]
        BY <4>1
      <4>3. h[s \ {Max(s)}] = g[s \ {Max(s)}]
        BY <2>1, <3>2
      <4> QED BY <4>1, <4>2, <4>3
    <3> QED BY <3>1, <3>2
  <2>4. FoldTo(h, i)
    BY <2>2, <2>3
  <2> HIDE DEF h, FoldTo
  <2> QED BY <2>4
<1>3. n \in S
  <2> HIDE DEF S
  <2>1. \A i \in 1 .. n : i - 1 \in S => i \in S
    BY <1>2
  <2> QED BY <1>1, <2>1, UpTo
<1>4. PICK h : FoldTo(h, n)
  BY <1>3
<1>5. h[{}] = base
  BY <1>4
<1>6. Folds(h, n, X, base, G)
  BY <1>4, <1>5 DEF Folds
<1> QED BY <1>4, <1>6

RunOf(it, n) == [i \in 0 .. n |-> it[FirstOnes(i)]]

LEMMA FoldRuns ==
    ASSUME NEW n \in Nat, NEW X, NEW base \in X, NEW G \in [(1 .. n) \X X -> X],
           NEW it, Folds(it, n, X, base, G)
    PROVE  Runs(RunOf(it, n), n, X, base, G)
<1> DEFINE f == [i \in 0 .. n |-> it[FirstOnes(i)]]
           S == {i \in 0 .. n : f[i] \in X}
<1>1. \A i \in 0 .. n : f[i] = it[FirstOnes(i)]
  OBVIOUS
<1>2. \A i \in 1 .. n : i \in 0 .. n /\ i - 1 \in 0 .. n
  OBVIOUS
<1>3. DOMAIN f = 0 .. n /\ f = [i \in 0 .. n |-> f[i]]
  OBVIOUS
<1> HIDE DEF f
<1>4. f[0] = base
  <2>1. 0 \in 0 .. n /\ n \in 0 .. n /\ FirstOnes(0) = {}
    BY DEF FirstOnes
  <2> QED BY <1>1, <2>1 DEF Folds
<1>5. ASSUME NEW i \in 1 .. n, f[i - 1] \in X PROVE f[i] = G[<<i, f[i - 1]>>]
  <2> DEFINE s == FirstOnes(i)
  <2>1. s \in SUBSET (1 .. n) /\ s # {} /\ Max(s) = i /\ s \ {i} = FirstOnes(i - 1)
    BY Segments
  <2> HIDE DEF s
  <2>2. it[s \ {Max(s)}] = f[i - 1] /\ it[s] = f[i]
    BY <1>1, <1>2, <2>1 DEF s
  <2> QED BY <1>5, <2>1, <2>2 DEF Folds
<1>6. 0 \in S /\ \A i \in 1 .. n : i - 1 \in S => i \in S
  <2>1. ASSUME NEW i \in 1 .. n, i - 1 \in S PROVE i \in S
    <3>1. f[i] = G[<<i, f[i - 1]>>] /\ f[i - 1] \in X
      BY <1>5, <2>1
    <3> QED BY <1>2, <3>1
  <2> QED BY <1>4, <2>1
<1>7. 0 .. n \subseteq S
  <2> HIDE DEF S
  <2> QED BY <1>6, UpTo
<1>8. f \in [0 .. n -> X]
  <2>1. \A i \in 0 .. n : f[i] \in X
    BY <1>7
  <2> HIDE DEF S
  <2> QED BY <1>3, <2>1
<1>9. \A i \in 1 .. n : f[i] = G[<<i, f[i - 1]>>]
  BY <1>2, <1>5, <1>7
<1>10. Runs(f, n, X, base, G)
  BY <1>4, <1>8, <1>9 DEF Runs
<1> QED BY <1>10 DEF RunOf, f

\* What a fold by the operator of G computes is what G computes.
IsStitch(it, outs) ==
    it = [s \in SUBSET DOMAIN outs |->
            IF s = {} THEN <<>>
            ELSE LET i == Max(s)
                     coords == it[s \ {i}]
                 IN  coords \o (IF coords = <<>> THEN outs[i].route ELSE Tail(outs[i].route))]

LEMMA StitchIsFold ==
    \A outs : Stitch(outs) = (CHOOSE it : IsStitch(it, outs))[DOMAIN outs]
BY DEF Stitch, FoldLeft, MapThenFoldSet, IsStitch

LEMMA StitchSteps ==
    ASSUME NEW n \in Nat, NEW outs, DOMAIN outs = 1 .. n,
           \A i \in 1 .. n : outs[i].route \in Seq(Int) /\ outs[i].route # <<>>
    PROVE  \E f : /\ f[0] = <<>> /\ f[n] = Stitch(outs)
                  /\ \A i \in 1 .. n :
                       f[i] = f[i - 1] \o (IF f[i - 1] = <<>> THEN outs[i].route
                                           ELSE Tail(outs[i].route))
<1> DEFINE op(i, x) == x \o (IF x = <<>> THEN outs[i].route ELSE Tail(outs[i].route))
           X == Seq(Int)
           G == [p \in (1 .. n) \X X |-> op(p[1], p[2])]
           step(it, s) == IF s = {} THEN <<>> ELSE op(Max(s), it[s \ {Max(s)}])
<1>1. ASSUME NEW i \in 1 .. n, NEW x \in Seq(Int) PROVE op(i, x) \in Seq(Int)
  <2>1. outs[i].route \in Seq(Int) /\ Tail(outs[i].route) \in Seq(Int)
    BY HeadTailProperties
  <2> QED BY <2>1, ConcatProperties
<1>2. \A it : IsStitch(it, outs) <=> it = [s \in SUBSET (1 .. n) |-> step(it, s)]
  BY DEF IsStitch
<1> HIDE DEF op
<1>3. <<>> \in X /\ G \in [(1 .. n) \X X -> X]
  BY <1>1
<1>4. \A i \in 1 .. n, x \in X : G[<<i, x>>] = op(i, x)
  OBVIOUS
<1> HIDE DEF G, X
<1>5. \E it : IsStitch(it, outs)
  <2> PICK g : Folds(g, n, X, <<>>, G) /\ g \in [SUBSET (1 .. n) -> X]
    BY <1>3, FoldExists
  <2>1. ASSUME NEW s \in SUBSET (1 .. n) PROVE g[s] = step(g, s)
    <3>1. s # {} => Max(s) \in 1 .. n /\ g[s \ {Max(s)}] \in X
      BY LargestOf
    <3> QED BY <1>4, <3>1 DEF Folds
  <2> HIDE DEF step
  <2>2. g = [s \in SUBSET (1 .. n) |-> step(g, s)]
    BY <2>1
  <2> QED BY <1>2, <2>2
<1> DEFINE it == CHOOSE it : IsStitch(it, outs)
<1>6. IsStitch(it, outs)
  BY <1>5
<1>7. Stitch(outs) = it[FirstOnes(n)]
  BY StitchIsFold DEF FirstOnes
<1> HIDE DEF it
<1>8. Folds(it, n, X, <<>>, G)
  <2>1. \A s \in SUBSET (1 .. n) : it[s] = step(it, s)
    <3> HIDE DEF step
    <3> QED BY <1>2, <1>6
  <2>2. ASSUME NEW s \in SUBSET (1 .. n), s # {}, it[s \ {Max(s)}] \in X
        PROVE  it[s] = G[<<Max(s), it[s \ {Max(s)}]>>]
    <3>1. Max(s) \in 1 .. n
      BY <2>2, LargestOf
    <3> QED BY <1>4, <2>1, <2>2, <3>1
  <2>3. it[{}] = <<>>
    BY <2>1
  <2>4. \A s \in SUBSET (1 .. n) :
          s # {} /\ it[s \ {Max(s)}] \in X => it[s] = G[<<Max(s), it[s \ {Max(s)}]>>]
    BY <2>2
  <2> QED BY <2>3, <2>4, Zenon DEF Folds
<1> DEFINE f == RunOf(it, n)
<1>9. Runs(f, n, X, <<>>, G)
  BY <1>3, <1>8, FoldRuns
<1>11. f[n] = it[FirstOnes(n)]
  BY DEF RunOf
<1> HIDE DEF f
<1>10. ASSUME NEW i \in 1 .. n PROVE f[i] = op(i, f[i - 1])
  <2>1. i - 1 \in 0 .. n /\ f[i - 1] \in X
    BY <1>9 DEF Runs
  <2> QED BY <1>4, <1>9, <2>1 DEF Runs
<1> QED BY <1>7, <1>9, <1>10, <1>11 DEF op, Runs

-----------------------------------------------------------------------------
(* The parts of a trace, their answers and its road *)

LEMMA LongerIsNot ==
    ASSUME NEW q, Len(q) # 0
    PROVE  q # <<>>
BY Len(<<>>) = 0

\* A trace whose times rise.
Rising(t) ==
    /\ t \in Seq(Int) /\ Len(t) \in Nat /\ \A i \in 1 .. Len(t) : t[i] \in Int
    /\ \A i, j \in 1 .. Len(t) : i < j => t[i] < t[j]

\* A sequence of fixes of the trace t in their order, which joins two that are no
\* neighbours only over one of the seams.
Through(q, t, seams) ==
    /\ q \in Seq(Int) /\ Len(q) \in Nat /\ Len(q) >= 2
    /\ \A i \in 1 .. Len(q) : \E j \in 1 .. Len(t) : q[i] = t[j]
    /\ \A i \in 1 .. Len(q) - 1 :
          /\ q[i] < q[i + 1]
          /\ \A j \in 1 .. Len(t) :
                (q[i] < t[j] /\ t[j] < q[i + 1]) =>
                    \E seam \in seams : q[i] <= seam /\ seam < q[i + 1]

UpToFix(q, time) == \A i \in 1 .. Len(q) : q[i] <= time

LEMMA PieceOf ==
    ASSUME NEW t, Rising(t), NEW a \in 1 .. Len(t), NEW b \in 1 .. Len(t), a <= b
    PROVE  /\ SubSeq(t, a, b) \in Seq(Int) /\ Len(SubSeq(t, a, b)) = b - a + 1
           /\ \A i \in 1 .. b - a + 1 : SubSeq(t, a, b)[i] = t[a + i - 1]
<1>1. a \in Int /\ b \in Int /\ \A i \in a .. b : t[i] \in Int
  BY DEF Rising
<1> QED BY ONLY <1>1, a <= b, SubSeqProperties

LEMMA PieceIsThrough ==
    ASSUME NEW t, Rising(t), NEW a \in 1 .. Len(t), NEW b \in 1 .. Len(t), a < b,
           NEW seams
    PROVE  /\ Through(SubSeq(t, a, b), t, seams)
           /\ UpToFix(SubSeq(t, a, b), t[b])
<1> DEFINE q == SubSeq(t, a, b)
<1>1. q \in Seq(Int) /\ Len(q) = b - a + 1 /\ \A i \in 1 .. b - a + 1 : q[i] = t[a + i - 1]
  BY PieceOf
<1>2. /\ Len(t) \in Nat /\ \A i \in 1 .. Len(t) : t[i] \in Int
      /\ \A i, j \in 1 .. Len(t) : i < j => t[i] < t[j]
  BY DEF Rising
<1> HIDE DEF q
<1>3. Len(q) \in Nat /\ Len(q) >= 2
  BY <1>1, <1>2
<1>4. ASSUME NEW i \in 1 .. Len(q)
      PROVE  a + i - 1 \in 1 .. Len(t) /\ a + i - 1 <= b /\ q[i] = t[a + i - 1]
  BY <1>1, <1>2
<1>5. ASSUME NEW i \in 1 .. Len(q) - 1
      PROVE  /\ q[i] < q[i + 1]
             /\ \A j \in 1 .. Len(t) : ~(q[i] < t[j] /\ t[j] < q[i + 1])
  <2> DEFINE x == a + i - 1
  <2>1. x \in 1 .. Len(t) /\ x + 1 \in 1 .. Len(t) /\ q[i] = t[x] /\ q[i + 1] = t[x + 1]
    <3>1. i \in 1 .. Len(q) /\ i + 1 \in 1 .. Len(q) /\ a + (i + 1) - 1 = x + 1
      BY <1>3
    <3> QED BY <1>4, <3>1
  <2> HIDE DEF x
  <2>2. ASSUME NEW j \in 1 .. Len(t), t[x] < t[j], t[j] < t[x + 1] PROVE FALSE
    <3>1. x < j \/ j <= x
      BY <2>1
    <3>2. CASE j <= x
      <4>1. t[j] <= t[x]
        BY <1>2, <2>1, <3>2
      <4> QED BY <1>2, <2>1, <2>2, <4>1
    <3>3. CASE x < j
      <4>1. x + 1 <= j
        BY <2>1, <3>3
      <4>2. t[x + 1] <= t[j]
        BY <1>2, <2>1, <4>1
      <4> QED BY <1>2, <2>1, <2>2, <4>2
    <3> QED BY <3>1, <3>2, <3>3
  <2>3. t[x] < t[x + 1]
    BY <1>2, <2>1
  <2> QED BY <2>1, <2>2, <2>3
<1>6. UpToFix(q, t[b])
  <2> SUFFICES ASSUME NEW i \in 1 .. Len(q) PROVE q[i] <= t[b]
    BY DEF UpToFix
  <2> DEFINE x == a + i - 1
  <2>1. x \in 1 .. Len(t) /\ x <= b /\ q[i] = t[x]
    BY <1>4
  <2> HIDE DEF x
  <2> QED BY <1>2, <2>1
<1>7. Through(q, t, seams)
  BY <1>1, <1>3, <1>4, <1>5 DEF Through
<1> QED BY <1>6, <1>7 DEF q

\* A sequence of fixes goes on after a seam.
LEMMA GoesOnThrough ==
    ASSUME NEW t, Rising(t), NEW seams, NEW q, Through(q, t, seams),
           NEW e \in 1 .. Len(t), UpToFix(q, t[e]),
           NEW a \in 1 .. Len(t), NEW b \in 1 .. Len(t), e < a, a <= b
    PROVE  /\ Through(q \o SubSeq(t, a, b), t, seams \cup {t[e]})
           /\ UpToFix(q \o SubSeq(t, a, b), t[b])
<1> DEFINE y == SubSeq(t, a, b)
           m == Len(q)
           n == Len(y)
           r == q \o y
           wider == seams \cup {t[e]}
<1>1. y \in Seq(Int) /\ n = b - a + 1 /\ \A i \in 1 .. n : y[i] = t[a + i - 1]
  <2>1. /\ y \in Seq(Int) /\ n = b - a + 1
        /\ \A i \in 1 .. b - a + 1 : y[i] = t[a + i - 1]
    BY PieceOf
  <2> HIDE DEF y, n
  <2> QED BY <2>1
<1>2. /\ Len(t) \in Nat /\ \A i \in 1 .. Len(t) : t[i] \in Int
      /\ \A i, j \in 1 .. Len(t) : i < j => t[i] < t[j]
  BY DEF Rising
<1>3. /\ q \in Seq(Int) /\ m \in Nat /\ m >= 2
      /\ \A i \in 1 .. m : \E j \in 1 .. Len(t) : q[i] = t[j]
      /\ \A i \in 1 .. m - 1 :
            /\ q[i] < q[i + 1]
            /\ \A j \in 1 .. Len(t) :
                  (q[i] < t[j] /\ t[j] < q[i + 1]) =>
                      \E seam \in seams : q[i] <= seam /\ seam < q[i + 1]
  BY DEF Through
<1>4. \A i \in 1 .. m : q[i] <= t[e]
  BY DEF UpToFix
<1>5. /\ r \in Seq(Int) /\ Len(r) = m + n
      /\ \A i \in 1 .. m + n : r[i] = IF i <= m THEN q[i] ELSE y[i - m]
  <2> HIDE DEF y
  <2> QED BY ONLY <1>1, <1>3, ConcatProperties
<1> HIDE DEF y, m, n, r
<1>6. n \in Nat /\ n >= 1 /\ m + n \in Nat
  BY <1>1, <1>2, <1>3
<1>7. \A i \in 1 .. m : r[i] = q[i]
  <2>1. m \in Nat
    BY <1>3
  <2>2. \A i \in 1 .. m : i \in 1 .. m + n /\ i <= m
    BY ONLY <1>6, <2>1
  <2> QED BY ONLY <1>5, <2>2
<1>8. ASSUME NEW i \in m + 1 .. m + n
      PROVE  /\ a + (i - m) - 1 \in 1 .. Len(t) /\ a + (i - m) - 1 <= b
             /\ r[i] = t[a + (i - m) - 1]
  <2>1. i \in 1 .. m + n /\ ~(i <= m) /\ i - m \in 1 .. n
    BY <1>3, <1>6
  <2>2. r[i] = y[i - m] /\ y[i - m] = t[a + (i - m) - 1]
    BY <1>1, <1>5, <2>1
  <2>3. a + (i - m) - 1 \in 1 .. Len(t) /\ a + (i - m) - 1 <= b
    BY ONLY <1>1, <1>2, <1>3, <2>1, a \in 1 .. Len(t), b \in 1 .. Len(t), a <= b
  <2> QED BY <2>2, <2>3
<1>9. ASSUME NEW i \in 1 .. m + n PROVE \E j \in 1 .. Len(t) : r[i] = t[j]
  <2>1. CASE i <= m
    BY <1>3, <1>7, <2>1
  <2>2. CASE ~(i <= m)
    <3>1. i \in m + 1 .. m + n
      BY <1>3, <1>6, <2>2
    <3> QED BY <1>8, <3>1
  <2> QED BY <2>1, <2>2
<1>10. UpToFix(r, t[b])
  <2> SUFFICES ASSUME NEW i \in 1 .. m + n PROVE r[i] <= t[b]
    BY <1>5 DEF UpToFix
  <2>1. CASE i <= m
    <3>1. r[i] <= t[e] /\ t[e] < t[b]
      <4>1. e < b
        BY <1>2
      <4> QED BY <1>2, <1>3, <1>4, <1>7, <2>1, <4>1
    <3>2. r[i] \in Int
      BY <1>2, <1>9
    <3> QED BY <1>2, <3>1, <3>2
  <2>2. CASE ~(i <= m)
    <3> DEFINE x == a + (i - m) - 1
    <3>1. x \in 1 .. Len(t) /\ x <= b /\ r[i] = t[x]
      <4>1. i \in m + 1 .. m + n
        BY <1>3, <1>6, <2>2
      <4> QED BY <1>8, <4>1
    <3> HIDE DEF x
    <3> QED BY <1>2, <3>1
  <2> QED BY <2>1, <2>2
<1>11. ASSUME NEW i \in 1 .. (m + n) - 1
       PROVE  /\ r[i] < r[i + 1]
              /\ \A j \in 1 .. Len(t) :
                    (r[i] < t[j] /\ t[j] < r[i + 1]) =>
                        \E seam \in wider : r[i] <= seam /\ seam < r[i + 1]
  <2>1. CASE i <= m - 1
    <3>1. i \in 1 .. m - 1 /\ i \in 1 .. m /\ i + 1 \in 1 .. m
      BY <1>3, <2>1
    <3>2. r[i] = q[i] /\ r[i + 1] = q[i + 1]
      BY <1>7, <3>1
    <3> QED BY <1>3, <3>1, <3>2
  <2>2. CASE i = m
    <3>1. r[i] <= t[e] /\ r[i + 1] = t[a]
      <4>1. i \in 1 .. m /\ i + 1 \in m + 1 .. m + n /\ a + ((i + 1) - m) - 1 = a
        BY <1>3, <1>6, <2>2
      <4>2. r[i] <= t[e]
        BY <1>4, <1>7, <4>1
      <4>3. r[i + 1] = t[a + ((i + 1) - m) - 1]
        BY <1>8, <4>1
      <4> QED BY <4>1, <4>2, <4>3
    <3>2. t[e] < t[a] /\ t[e] \in Int /\ t[a] \in Int /\ t[e] \in wider
      <4>1. t[e] < t[a] /\ t[e] \in Int /\ t[a] \in Int
        BY ONLY <1>2, e \in 1 .. Len(t), a \in 1 .. Len(t), e < a
      <4>2. t[e] \in wider
        OBVIOUS
      <4> QED BY ONLY <4>1, <4>2
    <3>3. r[i] \in Int
      <4>1. i \in 1 .. m + n
        BY ONLY <1>3, <1>6, <2>2
      <4>2. \E j \in 1 .. Len(t) : r[i] = t[j]
        BY <1>9, <4>1
      <4> QED BY ONLY <1>2, <4>2
    <3> HIDE DEF wider
    <3>4. \E seam \in wider : r[i] <= seam /\ seam < r[i + 1]
      BY <3>1, <3>2
    <3> QED BY <3>1, <3>2, <3>3, <3>4
  <2>3. CASE i >= m + 1
    <3> DEFINE x == a + (i - m) - 1
    <3>1. /\ x \in 1 .. Len(t) /\ x + 1 \in 1 .. Len(t)
          /\ r[i] = t[x] /\ r[i + 1] = t[x + 1]
      <4>1. i \in m + 1 .. m + n /\ i + 1 \in m + 1 .. m + n
            /\ a + ((i + 1) - m) - 1 = x + 1
        BY <1>3, <1>6, <2>3
      <4> QED BY <1>8, <4>1
    <3> HIDE DEF x
    <3>2. t[x] < t[x + 1]
      BY <1>2, <3>1
    <3>3. ASSUME NEW j \in 1 .. Len(t), t[x] < t[j], t[j] < t[x + 1] PROVE FALSE
      <4>1. CASE j <= x
        <5>1. t[j] <= t[x]
          BY <1>2, <3>1, <4>1
        <5> QED BY <1>2, <3>1, <3>3, <5>1
      <4>2. CASE x + 1 <= j
        <5>1. t[x + 1] <= t[j]
          BY <1>2, <3>1, <4>2
        <5> QED BY <1>2, <3>1, <3>3, <5>1
      <4> QED BY <3>1, <4>1, <4>2
    <3> QED BY <3>1, <3>2, <3>3
  <2> QED BY <1>3, <1>6, <2>1, <2>2, <2>3
<1>12. Through(r, t, wider)
  <2>1. Len(r) = m + n /\ Len(r) \in Nat /\ Len(r) >= 2
    BY <1>3, <1>5, <1>6
  <2> HIDE DEF wider
  <2> QED BY <1>5, <1>9, <1>11, <2>1 DEF Through
<1> QED BY <1>10, <1>12 DEF r, y

\* The fixes where each of the first k parts but one ends.
FirstSeams(t, c, k) == {t[c[m]] : m \in 1 .. k - 1}

\* Pieces of the parts of a trace, put together, go through the trace; they jump
\* only where a part begins with the last fix of the part before.
LEMMA StitchThrough ==
    ASSUME NEW t, Rising(t), NEW n \in Nat \ {0}, NEW c \in [0 .. n -> 1 .. Len(t)],
           NEW from \in [1 .. n -> 1 .. Len(t)], NEW upto \in [1 .. n -> 1 .. Len(t)],
           \A k \in 1 .. n : c[k - 1] <= from[k] /\ from[k] < upto[k] /\ upto[k] <= c[k],
           NEW outs, DOMAIN outs = 1 .. n,
           \A k \in 1 .. n : outs[k].route = SubSeq(t, from[k], upto[k])
    PROVE  Through(Stitch(outs), t, FirstSeams(t, c, n))
<1> DEFINE L == Len(t)
<1>1. L \in Nat /\ t \in Seq(Int) /\ (\A i \in 1 .. L : t[i] \in Int)
      /\ \A i, j \in 1 .. L : i < j => t[i] < t[j]
  BY DEF Rising
<1>2. \A k \in 1 .. n : k - 1 \in 0 .. n /\ k \in 0 .. n
  OBVIOUS
<1> HIDE DEF L
<1>3. ASSUME NEW k \in 1 .. n
      PROVE  /\ c[k - 1] \in 1 .. L /\ c[k] \in 1 .. L
             /\ from[k] \in 1 .. L /\ upto[k] \in 1 .. L
  BY <1>2 DEF L
<1>4. ASSUME NEW k \in 1 .. n
      PROVE  /\ outs[k].route \in Seq(Int) /\ outs[k].route # <<>>
             /\ Tail(outs[k].route) = SubSeq(t, from[k] + 1, upto[k])
  <2> DEFINE a == from[k]  b == upto[k]
  <2>1. a \in 1 .. L /\ b \in 1 .. L /\ a < b
    BY <1>3
  <2>2. outs[k].route = SubSeq(t, a, b)
    OBVIOUS
  <2> HIDE DEF a, b
  <2>4. SubSeq(t, a, b) \in Seq(Int) /\ Len(SubSeq(t, a, b)) = b - a + 1
    BY <2>1, PieceOf DEF L
  <2>5. SubSeq(t, a, b) # <<>>
    <3>1. b - a + 1 # 0
      BY ONLY <1>1, <2>1
    <3>2. Len(SubSeq(t, a, b)) # 0
      BY ONLY <2>4, <3>1
    <3> QED BY ONLY <3>2, LongerIsNot
  <2>6. Tail(SubSeq(t, a, b)) = SubSeq(t, a + 1, b)
    <3>1. t \in Seq(Int) /\ a \in 1 .. Len(t) /\ b \in a .. Len(t)
      BY ONLY <1>1, <2>1 DEF L
    <3> QED BY ONLY <3>1, HeadTailOfSubSeq
  <2> QED BY <2>2, <2>4, <2>5, <2>6 DEF a, b
<1>5. PICK f : /\ f[0] = <<>> /\ f[n] = Stitch(outs)
               /\ \A i \in 1 .. n :
                    f[i] = f[i - 1] \o (IF f[i - 1] = <<>> THEN outs[i].route
                                        ELSE Tail(outs[i].route))
  <2>1. n \in Nat
    OBVIOUS
  <2> QED BY <1>4, <2>1, StitchSteps
<1> DEFINE S == {k \in 0 .. n : k # 0 => Through(f[k], t, FirstSeams(t, c, k)) /\ UpToFix(f[k], t[c[k]])}
<1>6. 0 \in S
  OBVIOUS
<1>7. ASSUME NEW k \in 1 .. n, k - 1 \in S PROVE k \in S
  <2> DEFINE e == c[k - 1]  z == c[k]  a == from[k]  b == upto[k]
  <2>1. /\ e \in 1 .. L /\ z \in 1 .. L /\ a \in 1 .. L /\ b \in 1 .. L
        /\ e <= a /\ a < b /\ b <= z
    BY <1>3
  <2>2. f[k] = f[k - 1] \o (IF f[k - 1] = <<>> THEN SubSeq(t, a, b) ELSE SubSeq(t, a + 1, b))
    BY <1>4, <1>5
  <2>3. k # 1 => Through(f[k - 1], t, FirstSeams(t, c, k - 1)) /\ UpToFix(f[k - 1], t[e])
    BY <1>7
  <2>4. k = 1 => f[k - 1] = <<>>
    BY <1>5
  <2>5. k # 1 => FirstSeams(t, c, k - 1) \cup {t[e]} = FirstSeams(t, c, k)
    <3> SUFFICES ASSUME k # 1 PROVE FirstSeams(t, c, k - 1) \cup {t[e]} = FirstSeams(t, c, k)
      OBVIOUS
    <3>0. k \in 1 .. n /\ n \in Nat /\ k # 1
      OBVIOUS
    <3>1. \A m : m \in 1 .. k - 1 <=> m \in 1 .. (k - 1) - 1 \/ m = k - 1
      BY ONLY <3>0
    <3>2. ASSUME NEW x PROVE x \in FirstSeams(t, c, k - 1) \cup {t[e]} <=> x \in FirstSeams(t, c, k)
      <4>1. x \in FirstSeams(t, c, k) <=> \E m \in 1 .. k - 1 : x = t[c[m]]
        BY ONLY DEF FirstSeams
      <4>2. x \in FirstSeams(t, c, k - 1) <=> \E m \in 1 .. (k - 1) - 1 : x = t[c[m]]
        BY ONLY DEF FirstSeams
      <4>3. x \in {t[e]} <=> x = t[c[k - 1]]
        OBVIOUS
      <4> HIDE DEF e
      <4> QED BY ONLY <3>1, <4>1, <4>2, <4>3
    <3> HIDE DEF e
    <3> QED BY ONLY <3>2
  <2>6. t[b] <= t[z] /\ t[b] \in Int /\ t[z] \in Int
    <3>1. b \in 1 .. L /\ z \in 1 .. L /\ b <= z
      BY <2>1
    <3> HIDE DEF b, z
    <3>2. ASSUME NEW x \in 1 .. L, NEW y \in 1 .. L, x <= y
          PROVE  t[x] <= t[y] /\ t[x] \in Int /\ t[y] \in Int
      <4>1. x = y \/ x < y
        BY ONLY <1>1, <3>2
      <4>2. t[x] \in Int /\ t[y] \in Int /\ (x < y => t[x] < t[y])
        BY ONLY <1>1, x \in 1 .. L, y \in 1 .. L
      <4> QED BY ONLY <4>1, <4>2
    <3> QED BY ONLY <3>1, <3>2
  <2> HIDE DEF e, a, b, z
  <2>7. Through(f[k], t, FirstSeams(t, c, k)) /\ UpToFix(f[k], t[b])
    <3>1. CASE k = 1
      <4>1. f[k] = <<>> \o SubSeq(t, a, b)
        BY <2>2, <2>4, <3>1
      <4>2. SubSeq(t, a, b) \in Seq(Int)
        <5>1. a <= b
          BY <1>1, <2>1
        <5> QED BY <2>1, <5>1, PieceOf DEF L
      <4>3. f[k] = SubSeq(t, a, b)
        BY <4>1, <4>2, ConcatEmptySeq
      <4>4. Through(SubSeq(t, a, b), t, FirstSeams(t, c, k)) /\ UpToFix(SubSeq(t, a, b), t[b])
        BY <2>1, PieceIsThrough DEF L
      <4> QED BY <4>3, <4>4
    <3>2. CASE k # 1
      <4>1. f[k - 1] # <<>>
        <5>1. Len(f[k - 1]) \in Nat /\ Len(f[k - 1]) >= 2
          BY <2>3, <3>2 DEF Through
        <5>2. Len(f[k - 1]) # 0
          BY ONLY <5>1
        <5> QED BY ONLY <5>2, LongerIsNot
      <4>2. f[k] = f[k - 1] \o SubSeq(t, a + 1, b)
        BY <2>2, <4>1
      <4>3. a + 1 \in 1 .. Len(t) /\ b \in 1 .. Len(t) /\ e \in 1 .. Len(t)
            /\ e < a + 1 /\ a + 1 <= b
        BY <1>1, <2>1 DEF L
      <4>4. /\ Through(f[k - 1] \o SubSeq(t, a + 1, b), t, FirstSeams(t, c, k - 1) \cup {t[e]})
            /\ UpToFix(f[k - 1] \o SubSeq(t, a + 1, b), t[b])
        <5> DEFINE x == a + 1  q == f[k - 1]  ss == FirstSeams(t, c, k - 1)
        <5>1. Through(q, t, ss) /\ UpToFix(q, t[e]) /\ x \in 1 .. Len(t) /\ e < x /\ x <= b
          BY <2>3, <3>2, <4>3
        <5> HIDE DEF x, q, ss
        <5>2. Through(q \o SubSeq(t, x, b), t, ss \cup {t[e]}) /\ UpToFix(q \o SubSeq(t, x, b), t[b])
          BY <4>3, <5>1, GoesOnThrough
        <5> QED BY <5>2 DEF x, q, ss
      <4> QED BY <2>5, <3>2, <4>2, <4>4
    <3> QED BY <3>1, <3>2
  <2>8. UpToFix(f[k], t[z])
    <3> DEFINE q == f[k]
    <3>1. \A i \in 1 .. Len(q) : q[i] \in Int /\ q[i] <= t[b]
      <4>1. \A i \in 1 .. Len(q) : \E j \in 1 .. L : q[i] = t[j]
        BY <2>7 DEF Through, L
      <4> QED BY <1>1, <2>7, <4>1 DEF UpToFix
    <3> HIDE DEF q
    <3>2. \A i \in 1 .. Len(q) : q[i] <= t[z]
      <4> DEFINE tb == t[b]  tz == t[z]
      <4>1. tb <= tz /\ tb \in Int /\ tz \in Int
        BY ONLY <2>6
      <4>2. \A i \in 1 .. Len(q) : q[i] \in Int /\ q[i] <= tb
        BY ONLY <3>1
      <4> HIDE DEF tb, tz
      <4>3. \A i \in 1 .. Len(q) : q[i] <= tz
        BY ONLY <4>1, <4>2
      <4> QED BY ONLY <4>3 DEF tz
    <3>3. UpToFix(q, t[z])
      BY ONLY <3>2 DEF UpToFix
    <3> QED BY <3>3 DEF q
  <2> QED BY <1>2, <2>7, <2>8 DEF z
<1>8. n \in S
  <2> HIDE DEF S
  <2>1. \A k \in 1 .. n : k - 1 \in S => k \in S
    BY <1>7
  <2>2. n \in Nat
    OBVIOUS
  <2>3. 0 .. n \subseteq S
    BY <1>6, <2>1, <2>2, UpTo
  <2> QED BY <2>2, <2>3
<1> QED BY <1>5, <1>8

LEMMA Chunks ==
    ASSUME NEW l \in Nat, l >= 2, NEW s \in Nat \ {0}, NEW n, n = (l - 2 + s) \div s
    PROVE  /\ n \in Nat \ {0} /\ n * s >= l - 1
           /\ \A k \in 1 .. n - 1 : k * s <= l - 2
<1> DEFINE x == l - 2 + s
<1>1. x \in Nat /\ x >= s
  OBVIOUS
<1>2. n = x \div s
  OBVIOUS
<1> HIDE DEF x
<1>3. n \in Int /\ n * s <= x /\ x < n * s + s
  BY <1>1, <1>2
<1>4. n \in Nat \ {0}
  <2>1. n <= 0 => n * s <= 0
    BY <1>3
  <2> QED BY <1>1, <1>3, <2>1
<1>5. n * s >= l - 1
  BY <1>3 DEF x
<1>6. ASSUME NEW k \in 1 .. n - 1 PROVE k * s <= l - 2
  <2>1. k \in Int /\ k + 1 <= n
    BY <1>4
  <2>2. (k + 1) * s <= n * s
    BY <1>4, <2>1
  <2>3. (k + 1) * s = k * s + s
    BY <2>1
  <2>4. k * s \in Int /\ n * s \in Int
    BY <1>3, <2>1
  <2> QED BY <1>3, <2>2, <2>3, <2>4 DEF x
<1> QED BY <1>4, <1>5, <1>6

LEMMA MinOfTwo ==
    ASSUME NEW a \in Int, NEW b \in Int
    PROVE  Min({a, b}) = IF a <= b THEN a ELSE b
<1> DEFINE m == IF a <= b THEN a ELSE b
<1>1. m \in {a, b} /\ \A y \in {a, b} : m <= y
  OBVIOUS
<1>2. \A x \in {a, b} : (\A y \in {a, b} : x <= y) => x = m
  OBVIOUS
<1> HIDE DEF m
<1>3. Min({a, b}) = m
  BY <1>1, <1>2 DEF Min
<1> QED BY <1>3 DEF m

\* Where the chunks of a trace end: each begins where the one before ends, and
\* the last ends with the trace.
LEMMA PartsOfTrace ==
    ASSUME NEW t \in Seq(Int), Len(t) >= 2
    PROVE  \E n \in Nat \ {0} : \E c \in [0 .. n -> 1 .. Len(t)] :
             /\ c[0] = 1 /\ c[n] = Len(t) /\ \A k \in 1 .. n : c[k - 1] < c[k]
             /\ MatchingParts(t) = [k \in 1 .. n |-> [operation |-> "matching",
                                                      points |-> SubSeq(t, c[k - 1], c[k])]]
<1> DEFINE s == ChunkCoords - 1
           l == Len(t)
           n == (l - 2 + s) \div s
           first(k) == (k - 1) * s + 1
           to(k) == Min({first(k) + s, l})
           c == [k \in 0 .. n |-> IF k = 0 THEN 1 ELSE to(k)]
<1>1. s \in Nat \ {0} /\ l \in Nat /\ l >= 2
  BY PlanConstants, LenProperties
<1>2. MatchingParts(t) = [k \in 1 .. n |-> [operation |-> "matching",
                                            points |-> SubSeq(t, first(k), to(k))]]
  BY DEF MatchingParts
<1> HIDE DEF s, l
<1>3. /\ n \in Nat \ {0} /\ n * s >= l - 1
      /\ \A k \in 1 .. n - 1 : k * s <= l - 2
  BY <1>1, Chunks
<1> HIDE DEF n
<1>4. ASSUME NEW k \in 1 .. n
      PROVE  /\ first(k) \in 1 .. l - 1 /\ first(k) + s = k * s + 1
             /\ to(k) = IF k = n THEN l ELSE k * s + 1
             /\ to(k) \in 1 .. l /\ first(k) < to(k)
  <2>1. k \in Nat /\ k - 1 \in Nat /\ 1 <= k /\ k <= n /\ n \in Nat
    BY <1>3
  <2>2. (k - 1) * s + s = k * s /\ k * s \in Nat /\ (k - 1) * s \in Nat
    BY <1>1, <2>1
  <2>3. k # 1 => (k - 1) * s <= l - 2
    BY <1>3, <2>1
  <2>4. (1 - 1) * s = 0
    BY <1>1
  <2>5. (k - 1) * s <= l - 2
    BY <1>1, <2>3, <2>4
  <2>6. k # n => k * s <= l - 2
    BY <1>3, <2>1
  <2>7. k = n => k * s >= l - 1
    BY <1>3
  <2>8. to(k) = IF first(k) + s <= l THEN first(k) + s ELSE l
    <3>1. first(k) + s \in Int /\ l \in Int
      BY <1>1, <2>2
    <3> HIDE DEF first
    <3> QED BY <3>1, MinOfTwo
  <2> HIDE DEF to
  <2>9. first(k) \in 1 .. l - 1 /\ first(k) + s = k * s + 1 /\ first(k) \in Nat
    BY <1>1, <2>2, <2>5
  <2> QED BY <1>1, <2>2, <2>6, <2>7, <2>8, <2>9
<1>5. \A k \in 1 .. n : k \in 0 .. n /\ k - 1 \in 0 .. n /\ k # 0
  BY <1>3
<1> HIDE DEF to, first
<1>6. c \in [0 .. n -> 1 .. l]
  BY <1>1, <1>3, <1>4
<1>7. c[0] = 1 /\ \A k \in 1 .. n : c[k] = to(k)
  BY <1>3, <1>5
<1>8. ASSUME NEW k \in 1 .. n PROVE c[k - 1] = first(k)
  <2>1. CASE k = 1
    BY <1>1, <1>7, <2>1 DEF first
  <2>2. CASE k # 1
    <3>1. k - 1 \in 1 .. n /\ k - 1 # n
      BY <1>3, <2>2
    <3>2. c[k - 1] = (k - 1) * s + 1
      BY <1>4, <1>7, <3>1
    <3> QED BY <3>2 DEF first
  <2> QED BY <2>1, <2>2
<1> HIDE DEF c
<1>9. c[n] = l /\ \A k \in 1 .. n : c[k - 1] < c[k]
  <2>1. n \in 1 .. n
    BY <1>3
  <2> QED BY <1>4, <1>7, <1>8, <2>1
<1>10. MatchingParts(t) = [k \in 1 .. n |-> [operation |-> "matching",
                                             points |-> SubSeq(t, c[k - 1], c[k])]]
  BY <1>2, <1>7, <1>8
<1> QED BY <1>3, <1>6, <1>7, <1>9, <1>10 DEF l

IsRequest(it, p) ==
    it = [s \in SUBSET DOMAIN p |->
            IF s = {} THEN <<>>
            ELSE LET i == Max(s)
                     kept == it[s \ {i}]
                 IN  IF kept = <<>> \/ p[i] > kept[Len(kept)] THEN Append(kept, p[i]) ELSE kept]

LEMMA RequestIsFold ==
    \A p : RequestPoints(p) = (CHOOSE it : IsRequest(it, p))[DOMAIN p]
BY DEF RequestPoints, FoldLeft, MapThenFoldSet, IsRequest

LEMMA EmptyIsEmpty ==
    ASSUME NEW S, NEW q \in Seq(S), Len(q) = 0
    PROVE  q = <<>>
BY EmptySeq

\* Of a trace whose times increase every fix is sent.
LEMMA AllSent ==
    ASSUME NEW p \in Seq(Int), \A i \in 1 .. Len(p) - 1 : p[i] < p[i + 1]
    PROVE  RequestPoints(p) = p
<1> DEFINE n == Len(p)
           op(i, x) == IF x = <<>> \/ p[i] > x[Len(x)] THEN Append(x, p[i]) ELSE x
           X == Seq(Int)
           G == [k \in (1 .. n) \X X |-> op(k[1], k[2])]
           step(it, s) == IF s = {} THEN <<>> ELSE op(Max(s), it[s \ {Max(s)}])
<1>0. n \in Nat /\ DOMAIN p = 1 .. n /\ \A i \in 1 .. n : p[i] \in Int
  BY LenProperties, ElementOfSeq
<1>1. ASSUME NEW i \in 1 .. n, NEW x \in Seq(Int) PROVE op(i, x) \in Seq(Int)
  BY <1>0, AppendProperties
<1>2. \A it : IsRequest(it, p) <=> it = [s \in SUBSET (1 .. n) |-> step(it, s)]
  BY <1>0 DEF IsRequest
<1> HIDE DEF op, n
<1>3. <<>> \in X /\ G \in [(1 .. n) \X X -> X]
  BY <1>1
<1>4. \A i \in 1 .. n, x \in X : G[<<i, x>>] = op(i, x)
  OBVIOUS
<1> HIDE DEF G, X
<1>5. \E it : IsRequest(it, p)
  <2> PICK g : Folds(g, n, X, <<>>, G) /\ g \in [SUBSET (1 .. n) -> X]
    BY <1>0, <1>3, FoldExists
  <2>1. ASSUME NEW s \in SUBSET (1 .. n) PROVE g[s] = step(g, s)
    <3>1. s # {} => Max(s) \in 1 .. n /\ g[s \ {Max(s)}] \in X
      BY <1>0, LargestOf
    <3> QED BY <1>4, <3>1 DEF Folds
  <2> HIDE DEF step
  <2>2. g = [s \in SUBSET (1 .. n) |-> step(g, s)]
    BY <2>1
  <2> QED BY <1>2, <2>2
<1> DEFINE it == CHOOSE it : IsRequest(it, p)
<1>6. IsRequest(it, p)
  BY <1>5
<1>7. RequestPoints(p) = it[FirstOnes(n)]
  BY <1>0, RequestIsFold DEF FirstOnes
<1> HIDE DEF it
<1>8. Folds(it, n, X, <<>>, G)
  <2>1. \A s \in SUBSET (1 .. n) : it[s] = step(it, s)
    <3> HIDE DEF step
    <3> QED BY <1>2, <1>6
  <2>2. ASSUME NEW s \in SUBSET (1 .. n), s # {}, it[s \ {Max(s)}] \in X
        PROVE  it[s] = G[<<Max(s), it[s \ {Max(s)}]>>]
    <3>1. Max(s) \in 1 .. n
      BY <1>0, <2>2, LargestOf
    <3> QED BY <1>4, <2>1, <2>2, <3>1
  <2>3. it[{}] = <<>>
    BY <2>1
  <2>4. \A s \in SUBSET (1 .. n) :
          s # {} /\ it[s \ {Max(s)}] \in X => it[s] = G[<<Max(s), it[s \ {Max(s)}]>>]
    BY <2>2
  <2> QED BY <2>3, <2>4, Zenon DEF Folds
<1> DEFINE f == RunOf(it, n)
<1>9. Runs(f, n, X, <<>>, G)
  BY <1>0, <1>3, <1>8, FoldRuns
<1>11. f[n] = it[FirstOnes(n)]
  BY <1>0 DEF RunOf
<1> HIDE DEF f
<1>10. ASSUME NEW i \in 1 .. n PROVE f[i] = op(i, f[i - 1])
  <2>1. i - 1 \in 0 .. n /\ f[i - 1] \in X
    BY <1>0, <1>9 DEF Runs
  <2> QED BY <1>4, <1>9, <2>1 DEF Runs
<1> DEFINE S == {i \in 0 .. n : f[i] = SubSeq(p, 1, i)}
<1>12. 0 \in S
  <2>1. SubSeq(p, 1, 0) = <<>>
    BY SubSeqEmpty
  <2>2. f[0] = <<>> /\ 0 \in 0 .. n
    BY <1>0, <1>9 DEF Runs
  <2> QED BY <2>1, <2>2
<1>13. ASSUME NEW i \in 1 .. n, i - 1 \in S PROVE i \in S
  <2> DEFINE x == SubSeq(p, 1, i - 1)
  <2>1. i \in Nat /\ 1 <= i /\ i <= n /\ i - 1 \in Nat
    BY <1>0
  <2>2. f[i] = op(i, x)
    BY <1>10, <1>13
  <2>3. \A j \in 1 .. (i - 1) : p[j] \in Int
    BY <1>0, <2>1
  <2>4. /\ x \in Seq(Int) /\ Len(x) = i - 1
        /\ \A j \in 1 .. (i - 1) : x[j] = p[j]
    <3>1. x \in Seq(Int) /\ Len(x) = IF 1 <= i - 1 THEN i - 1 - 1 + 1 ELSE 0
      BY ONLY <2>1, <2>3, SubSeqProperties
    <3>2. \A j \in 1 .. (i - 1) - 1 + 1 : x[j] = p[1 + j - 1]
      BY ONLY <2>1, <2>3, SubSeqProperties
    <3> HIDE DEF x
    <3> QED BY ONLY <2>1, <3>1, <3>2
  <2>5. SubSeq(p, 1, i) = x \o <<p[i]>>
    <3>1. 1 \in 1 .. Len(p) /\ i \in 1 .. Len(p)
      BY <2>1 DEF n
    <3> QED BY ONLY p \in Seq(Int), <3>1, SubSeqRecursiveSecond
  <2> HIDE DEF x
  <2>6. Append(x, p[i]) = x \o <<p[i]>>
    BY <1>0, <2>4, AppendIsConcat
  <2>7. x = <<>> \/ p[i] > x[Len(x)]
    <3>1. CASE i = 1
      BY ONLY <2>4, <3>1, EmptyIsEmpty
    <3>2. CASE i # 1
      <4>1. i - 1 \in 1 .. n - 1 /\ i - 1 \in 1 .. (i - 1) /\ (i - 1) + 1 = i
        BY <1>0, <2>1, <3>2
      <4>2. x[Len(x)] = p[i - 1] /\ p[i - 1] < p[i]
        BY <2>4, <4>1 DEF n
      <4>3. p[i - 1] \in Int /\ p[i] \in Int
        BY <1>0, <4>1
      <4> QED BY <4>2, <4>3
    <3> QED BY <3>1, <3>2
  <2>8. f[i] = SubSeq(p, 1, i)
    BY <2>2, <2>5, <2>6, <2>7 DEF op
  <2> QED BY <1>0, <2>1, <2>8
<1>14. 0 .. n \subseteq S
  <2> HIDE DEF S
  <2>1. \A i \in 1 .. n : i - 1 \in S => i \in S
    BY <1>13
  <2> QED BY <1>0, <1>12, <2>1, UpTo
<1>15. f[n] = SubSeq(p, 1, n)
  BY <1>0, <1>14
<1> QED BY <1>7, <1>11, <1>15, SubSeqFull DEF n

LEMMA MinIsIn ==
    ASSUME NEW n \in Nat, NEW s, s \subseteq 1 .. n, s # {}
    PROVE  Min(s) \in s
<1>1. s \subseteq Nat
  OBVIOUS
<1>2. \E x \in s : \A y \in s : x <= y
  BY <1>1, LeastOf
<1> QED BY <1>2 DEF Min

Increasing(p) == \A i \in 1 .. Len(p) - 1 : p[i] < p[i + 1]

\* A road is made of an answer only if the answer is complete.
LEMMA CompleteMatch ==
    ASSUME NEW a, NEW sent, ParseMatching(a, sent).status = "matched"
    PROVE  /\ a.code = "Ok" /\ a.tracepoints = Len(sent) /\ ~(Len(a.geometry) < 2)
           /\ ParseMatching(a, sent) = Matched(a.geometry)
BY DEF ParseMatching, NoRoute, Failed, Outcome

LEMMA CompleteDirections ==
    ASSUME NEW a, ParseDirections(a).status = "matched"
    PROVE  /\ a.code = "Ok" /\ ~(Len(a.geometry) < 2)
           /\ ParseDirections(a) = Matched(a.geometry)
BY DEF ParseDirections, NoRoute, Failed, Outcome

LEMMA FetchedHow ==
    ASSUME NEW part, NEW a, NEW o, o = FetchRoutePart(part, a)
    PROVE  \/ o = NoRoute("insufficient_timestamp_span")
           \/ o = HttpFailure(a)
           \/ /\ a.http = "ok" /\ part.operation = "matching"
              /\ o = ParseMatching(a, RequestPoints(part.points))
           \/ /\ a.http = "ok" /\ part.operation # "matching"
              /\ o = ParseDirections(a)
BY DEF FetchRoutePart

LEMMA MatchedIs == \A r : Matched(r).route = r /\ Matched(r).status = "matched"
BY Zenon DEF Matched, Outcome

\* A part that the plan of a trace may hold.
Sendable(part) ==
    /\ part.points \in Seq(Int) /\ Len(part.points) >= 2 /\ Increasing(part.points)
    /\ part.operation \in {"matching", "directions"}
    /\ part.operation = "directions" => Len(part.points) = 2

\* What a part is asked for and what it may be answered: a road through two or
\* more fixes of it that follow one another, or no road.
LEMMA PartIsPiece ==
    ASSUME NEW part, Sendable(part), NEW kind, kind.head \in Nat, kind.tail \in Nat, NEW o,
           o = FetchRoutePart(part, AnswerTo(part, kind)), o.status = "matched"
    PROVE  \E i, j \in 1 .. Len(part.points) :
              i < j /\ o.route = SubSeq(part.points, i, j)
<1> DEFINE p == part.points
           answer == AnswerTo(part, kind)
           i == 1 + kind.head
           j == Len(p) - kind.tail
<1>0. p \in Seq(Int) /\ Len(p) >= 2 /\ Increasing(p)
  BY DEF Sendable
<1>1. RequestPoints(p) = p
  BY <1>0, AllSent DEF Increasing
<1>2. answer.http = "ok" /\ answer.code = "Ok" => answer.geometry = SubSeq(p, i, j)
  BY DEF AnswerTo, Answer
<1>3. Len(p) \in Nat /\ i \in Int /\ j \in Int /\ 1 <= i /\ j <= Len(p)
      /\ \A k \in 1 .. Len(p) : p[k] \in Int
  BY <1>0, LenProperties, ElementOfSeq
<1> HIDE DEF answer, p, i, j
<1>4. \/ o = NoRoute("insufficient_timestamp_span")
      \/ o = HttpFailure(answer)
      \/ o = ParseMatching(answer, p) /\ answer.http = "ok"
      \/ o = ParseDirections(answer) /\ answer.http = "ok"
  BY <1>1, FetchedHow DEF p, answer
<1>5. SUFFICES /\ i \in 1 .. Len(p) /\ j \in 1 .. Len(p) /\ i < j
               /\ o.route = SubSeq(p, i, j)
  BY DEF p
<1>6. o.status = "matched"
  OBVIOUS
<1>7. o # HttpFailure(answer) /\ o # NoRoute("insufficient_timestamp_span")
  BY <1>6 DEF HttpFailure, NoRoute, Failed, Outcome
<1>8. /\ answer.http = "ok" /\ answer.code = "Ok" /\ ~(Len(answer.geometry) < 2)
      /\ o = Matched(answer.geometry)
  BY <1>4, <1>6, <1>7, CompleteMatch, CompleteDirections
<1>9. answer.geometry = SubSeq(p, i, j) /\ ~(Len(SubSeq(p, i, j)) < 2)
  BY <1>2, <1>8
<1>10. i < j
  <2>1. Len(SubSeq(p, i, j)) = IF i <= j THEN j - i + 1 ELSE 0
    <3>1. \A k \in i .. j : p[k] \in Int
      BY <1>3
    <3> QED BY <1>3, <3>1, SubSeqProperties
  <2>2. CASE ~(i <= j)
    <3>1. Len(SubSeq(p, i, j)) = 0
      BY ONLY <2>1, <2>2
    <3> QED BY ONLY <1>9, <3>1
  <2>3. CASE i <= j
    <3>1. Len(SubSeq(p, i, j)) = j - i + 1
      BY ONLY <2>1, <2>3
    <3> QED BY ONLY <1>3, <1>9, <2>3, <3>1
  <2> QED BY <2>2, <2>3
<1>11. o.route = SubSeq(p, i, j)
  BY <1>8, <1>9, MatchedIs
<1> QED BY <1>3, <1>10, <1>11

\* The outcome of a trace is a part's that is no match, or all parts matched.
LEMMA ExecutedHow ==
    ASSUME NEW n \in Nat, NEW outs, DOMAIN outs = 1 .. n,
           ExecuteRoutePlan(outs).status = "matched"
    PROVE  /\ \A i \in 1 .. n : outs[i].status = "matched"
           /\ ExecuteRoutePlan(outs).route = Stitch(outs)
<1> DEFINE bad == {i \in 1 .. n : outs[i].status # "matched"}
           last == {i \in bad : (i - 1) \div BatchTarget = (Min(bad) - 1) \div BatchTarget}
           transient == {i \in last : outs[i].status = "transient"}
           failed == {i \in last : outs[i].status = "failed"}
           o == ExecuteRoutePlan(outs)
<1>1. /\ bad = {} => o \in {Failed("invalid_geometry"), Matched(Stitch(outs))}
      /\ bad # {} => \E s \in {bad, transient, failed} : s # {} /\ o = outs[Min(s)]
  BY DEF ExecuteRoutePlan
<1>2. bad \subseteq 1 .. n /\ transient \subseteq bad /\ failed \subseteq bad
      /\ \A i \in bad : outs[i].status # "matched"
  OBVIOUS
<1>3. bad = {} => \A i \in 1 .. n : outs[i].status = "matched"
  OBVIOUS
<1>4. o.status = "matched"
  OBVIOUS
<1> HIDE DEF bad, transient, failed, o
<1>5. bad = {}
  <2>1. SUFFICES ASSUME NEW s \in {bad, transient, failed}, s # {}, o = outs[Min(s)] PROVE FALSE
    BY <1>1
  <2>2. s \subseteq bad /\ s \subseteq 1 .. n
    BY <1>2
  <2>3. Min(s) \in bad
    BY <2>1, <2>2, MinIsIn
  <2> QED BY <1>2, <1>4, <2>1, <2>3
<1>6. o = Matched(Stitch(outs))
  BY <1>1, <1>4, <1>5 DEF Failed, Outcome
<1> QED BY <1>3, <1>5, <1>6, MatchedIs DEF o

\* A plan whose n parts follow one another along the trace t, c[k] being the
\* place where the part k ends.
Parted(parts, t, n, c, operation) ==
    /\ n \in Nat \ {0} /\ c \in [0 .. n -> 1 .. Len(t)]
    /\ c[0] = 1 /\ c[n] = Len(t) /\ \A k \in 1 .. n : c[k - 1] < c[k]
    /\ operation \in {"matching", "directions"}
    /\ operation = "directions" => Len(t) = 2
    /\ DOMAIN parts = 1 .. n
    /\ \A k \in 1 .. n : parts[k] = [operation |-> operation,
                                     points |-> SubSeq(t, c[k - 1], c[k])]

\* Where the parts of a trace meet.
SeamsOf(t, profile) ==
    {part.points[1] : part \in ToSet(PlanRoute(t, profile).parts)} \ {t[1]}

\* Whatever Mapbox answers to the parts of a trace, the outcome is no road, or a
\* road through fixes of the trace that leaves none out inside of a part.
LEMMA RoadIsThrough ==
    ASSUME NEW t \in Seq(Int), Len(t) >= 2, NEW profile, NEW granted, NEW kinds,
           LET parts == PlanRoute(t, profile).parts
           IN  \A k \in DOMAIN parts : kinds[k].head \in Nat /\ kinds[k].tail \in Nat,
           NEW o,
           LET parts == PlanRoute(t, profile).parts
           IN  o = MatchOne(t, profile, granted,
                            [k \in DOMAIN parts |-> AnswerTo(parts[k], kinds[k])]),
           o.status = "matched"
    PROVE  Through(o.route, t, SeamsOf(t, profile))
<1> DEFINE plan == PlanRoute(t, profile)
           answers == [k \in DOMAIN plan.parts |-> AnswerTo(plan.parts[k], kinds[k])]
           outs == [k \in DOMAIN plan.parts |-> FetchRoutePart(plan.parts[k], answers[k])]
<1>1. o = MatchOne(t, profile, granted, answers)
  OBVIOUS
<1>0. \A k \in DOMAIN plan.parts : kinds[k].head \in Nat /\ kinds[k].tail \in Nat
  OBVIOUS
<1>2. Len(t) \in Nat /\ \A i \in 1 .. Len(t) : t[i] \in Int
  BY LenProperties, ElementOfSeq
<1>3. plan.error = "none" /\ o = ExecuteRoutePlan(outs)
  <2> HIDE DEF plan
  <2>1. \/ \E e \in {"insufficient_points", plan.error} : o = Failed(e)
        \/ \E e \in {"request_budget_exceeded", plan.error} : o = NoRoute(e)
        \/ plan.error = "none" /\ o = ExecuteRoutePlan(outs)
    BY <1>1 DEF MatchOne, plan
  <2>2. \A e : o # Failed(e) /\ o # NoRoute(e)
    BY DEF Failed, NoRoute, Outcome
  <2> QED BY <2>1, <2>2
<1>4. plan.parts = IF Len(t) = 2 THEN <<[operation |-> "directions", points |-> t]>>
                   ELSE MatchingParts(t)
  BY <1>3 DEF PlanRoute
<1>5. \A i \in 1 .. Len(t) - 1 : t[i] < t[i + 1]
  <2>1. PlanError(t, profile) = "none"
    BY <1>3 DEF PlanRoute
  <2>2. \A gap \in Gaps(t) : ~(gap <= 0)
    BY <2>1 DEF PlanError
  <2>3. ASSUME NEW i \in 1 .. Len(t) - 1 PROVE t[i] < t[i + 1]
    <3>1. t[i + 1] - t[i] \in Gaps(t)
      BY DEF Gaps
    <3>2. t[i] \in Int /\ t[i + 1] \in Int
      BY <1>2
    <3> QED BY <2>2, <3>1, <3>2
  <2> QED BY <2>3
<1>5b. Rising(t)
  <2> DEFINE S == {d \in 0 .. Len(t) : \A i \in 1 .. Len(t) : i < d => t[i] < t[d]}
  <2>1. 0 \in S
    BY <1>2
  <2>2. ASSUME NEW d \in 1 .. Len(t), d - 1 \in S PROVE d \in S
    <3> SUFFICES ASSUME NEW i \in 1 .. Len(t), i < d PROVE t[i] < t[d]
      OBVIOUS
    <3>1. d - 1 \in 1 .. Len(t) - 1 /\ (d - 1) + 1 = d /\ (i = d - 1 \/ i < d - 1)
      BY <1>2
    <3>2. t[d - 1] < t[d] /\ t[d - 1] \in Int /\ t[d] \in Int /\ t[i] \in Int
      BY <1>2, <1>5, <3>1
    <3>3. i < d - 1 => t[i] < t[d - 1]
      BY <2>2
    <3> QED BY <3>1, <3>2, <3>3
  <2>3. 0 .. Len(t) \subseteq S
    <3> HIDE DEF S
    <3>1. \A d \in 1 .. Len(t) : d - 1 \in S => d \in S
      BY <2>2
    <3> QED BY <1>2, <2>1, <3>1, UpTo
  <2>4. \A i, j \in 1 .. Len(t) : i < j => t[i] < t[j]
    BY <1>2, <2>3
  <2> QED BY <1>2, <2>4 DEF Rising
<1>6. \E n, c, operation : Parted(plan.parts, t, n, c, operation)
  <2>1. CASE Len(t) = 2
    <3> DEFINE c == [k \in 0 .. 1 |-> k + 1]
               part == [operation |-> "directions", points |-> t]
               parts == <<part>>
    <3>1. c \in [0 .. 1 -> 1 .. Len(t)] /\ c[0] = 1 /\ c[1] = 2
      BY <2>1
    <3>2. plan.parts = parts
      BY <1>4, <2>1
    <3> HIDE DEF c, part
    <3>3. DOMAIN parts = 1 .. 1 /\ parts[1] = part
      OBVIOUS
    <3> HIDE DEF parts
    <3>4. part = [operation |-> "directions", points |-> SubSeq(t, 1, 2)]
      BY <2>1, SubSeqFull DEF part
    <3>5. \A k \in 1 .. 1 : k = 1 /\ k - 1 = 0
      OBVIOUS
    <3>6. \A k \in 1 .. 1 : /\ c[k - 1] < c[k]
                            /\ parts[k] = [operation |-> "directions",
                                           points |-> SubSeq(t, c[k - 1], c[k])]
      <4>0. c[1 - 1] = 1 /\ c[1] = 2
        BY ONLY <3>1
      <4>1. SubSeq(t, c[1 - 1], c[1]) = SubSeq(t, 1, 2) /\ c[1 - 1] < c[1]
        BY ONLY <4>0
      <4>2. /\ c[1 - 1] < c[1]
            /\ parts[1] = [operation |-> "directions", points |-> SubSeq(t, c[1 - 1], c[1])]
        BY ONLY <3>3, <3>4, <4>1
      <4>3. ASSUME NEW k \in 1 .. 1
            PROVE  /\ c[k - 1] < c[k]
                   /\ parts[k] = [operation |-> "directions",
                                  points |-> SubSeq(t, c[k - 1], c[k])]
        <5>1. k = 1
          BY <3>5
        <5> QED BY ONLY <4>2, <5>1
      <4> QED BY ONLY <4>3
    <3>7. 1 \in Nat \ {0} /\ c[1] = Len(t)
      BY <2>1, <3>1
    <3>8. Parted(parts, t, 1, c, "directions")
      BY ONLY <2>1, <3>1, <3>3, <3>6, <3>7 DEF Parted
    <3> QED BY <3>2, <3>8
  <2>2. CASE Len(t) # 2
    <3>1. PICK n \in Nat \ {0} : \E c \in [0 .. n -> 1 .. Len(t)] :
             /\ c[0] = 1 /\ c[n] = Len(t) /\ \A k \in 1 .. n : c[k - 1] < c[k]
             /\ MatchingParts(t) = [k \in 1 .. n |-> [operation |-> "matching",
                                                      points |-> SubSeq(t, c[k - 1], c[k])]]
      BY PartsOfTrace
    <3>2. PICK c \in [0 .. n -> 1 .. Len(t)] :
             /\ c[0] = 1 /\ c[n] = Len(t) /\ \A k \in 1 .. n : c[k - 1] < c[k]
             /\ MatchingParts(t) = [k \in 1 .. n |-> [operation |-> "matching",
                                                      points |-> SubSeq(t, c[k - 1], c[k])]]
      BY <3>1
    <3>3. Parted(MatchingParts(t), t, n, c, "matching")
      BY <3>2 DEF Parted
    <3>4. plan.parts = MatchingParts(t)
      BY <1>4, <2>2
    <3> QED BY <3>3, <3>4
  <2> QED BY <2>1, <2>2
<1> HIDE DEF plan
<1>7. PICK n, c, operation : Parted(plan.parts, t, n, c, operation)
  BY <1>6
<1> USE DEF Parted
<1>8. DOMAIN outs = 1 .. n /\ n \in Nat
      /\ \A k \in 1 .. n : outs[k] = FetchRoutePart(plan.parts[k], AnswerTo(plan.parts[k], kinds[k]))
  BY <1>7
<1> HIDE DEF outs, answers
<1>9. (\A k \in 1 .. n : outs[k].status = "matched") /\ o.route = Stitch(outs)
  BY <1>3, <1>8, ExecutedHow
<1>10. ASSUME NEW k \in 1 .. n
       PROVE  \E from, upto \in 1 .. Len(t) :
                 /\ c[k - 1] <= from /\ from < upto /\ upto <= c[k]
                 /\ outs[k].route = SubSeq(t, from, upto)
  <2> DEFINE a == c[k - 1]  b == c[k]  p == SubSeq(t, a, b)
             part == [operation |-> operation, points |-> p]
  <2>1. a \in 1 .. Len(t) /\ b \in 1 .. Len(t) /\ a < b
    <3>1. k - 1 \in 0 .. n /\ k \in 0 .. n
      BY <1>7
    <3> QED BY <1>7, <3>1
  <2>2. plan.parts[k] = part
    BY <1>7
  <2> HIDE DEF a, b
  <2>3. a \in Int /\ b \in Int /\ a <= b /\ \A i \in a .. b : t[i] \in Int
    BY ONLY <1>2, <2>1
  <2>4. p \in Seq(Int) /\ Len(p) = b - a + 1
    <3>1. p \in Seq(Int) /\ Len(p) = IF a <= b THEN b - a + 1 ELSE 0
      BY ONLY <2>3, SubSeqProperties
    <3> QED BY <2>3, <3>1
  <2>5. \A i \in 1 .. b - a + 1 : p[i] = t[a + i - 1]
    BY ONLY <2>3, SubSeqProperties
  <2> HIDE DEF p
  <2>6. Len(p) >= 2 /\ (operation = "directions" => Len(p) = 2)
    <3>1. operation = "directions" => Len(t) = 2
      BY <1>7
    <3>2. Len(t) \in Nat /\ a \in Int /\ b \in Int /\ a >= 1 /\ b <= Len(t) /\ a < b
      BY ONLY <1>2, <2>1
    <3>3. Len(p) = b - a + 1
      BY ONLY <2>4
    <3>4. Len(p) >= 2
      BY ONLY <3>2, <3>3
    <3>5. Len(t) = 2 => Len(p) = 2
      BY ONLY <3>2, <3>3
    <3> QED BY ONLY <3>1, <3>4, <3>5
  <2>7. Increasing(p)
    <3>1. ASSUME NEW i \in 1 .. Len(p) - 1 PROVE p[i] < p[i + 1]
      <4>1. i \in 1 .. b - a + 1 /\ i + 1 \in 1 .. b - a + 1
            /\ a + i - 1 \in 1 .. Len(t) - 1 /\ a + (i + 1) - 1 = (a + i - 1) + 1
        BY ONLY <1>2, <2>1, <2>4, i \in 1 .. Len(p) - 1
      <4> QED BY <1>5, <2>5, <4>1
    <3> QED BY <3>1 DEF Increasing
  <2>8. outs[k] = FetchRoutePart(part, AnswerTo(part, kinds[k]))
    BY <1>8, <2>2
  <2> HIDE DEF part
  <2>9. outs[k].status = "matched"
    BY <1>9
  <2>10. Sendable(part)
    <3>1. operation \in {"matching", "directions"} /\ part.points = p /\ part.operation = operation
      BY <1>7 DEF part
    <3> QED BY <2>4, <2>6, <2>7, <3>1 DEF Sendable
  <2>11. PICK i, j \in 1 .. Len(p) : i < j /\ outs[k].route = SubSeq(p, i, j)
    <3> DEFINE r == outs[k]  kind == kinds[k]
    <3>1. r = FetchRoutePart(part, AnswerTo(part, kind)) /\ r.status = "matched"
      BY <2>8, <2>9
    <3>2. kind.head \in Nat /\ kind.tail \in Nat
      <4>1. k \in DOMAIN plan.parts
        BY <1>7
      <4> QED BY <1>0, <4>1
    <3> HIDE DEF r, kind
    <3>3. \E i, j \in 1 .. Len(part.points) : i < j /\ r.route = SubSeq(part.points, i, j)
      BY <2>10, <3>1, <3>2, PartIsPiece
    <3> QED BY <3>3 DEF r, part
  <2>12. SubSeq(p, i, j) = SubSeq(t, a + i - 1, a + j - 1)
    <3>1. i \in 1 .. b - a + 1 /\ j \in 1 .. b - a + 1
      BY <2>4
    <3> QED BY ONLY t \in Seq(Int), <2>1, <3>1, SubSeqOfSubSeq DEF p
  <2>13. /\ a + i - 1 \in 1 .. Len(t) /\ a + j - 1 \in 1 .. Len(t)
         /\ a <= a + i - 1 /\ a + i - 1 < a + j - 1 /\ a + j - 1 <= b
    BY ONLY <1>2, <2>1, <2>4, <2>11, i \in 1 .. Len(p), j \in 1 .. Len(p)
  <2>14. outs[k].route = SubSeq(t, a + i - 1, a + j - 1)
    BY <2>11, <2>12
  <2> QED BY <2>13, <2>14 DEF a, b
<1>11. Through(Stitch(outs), t, FirstSeams(t, c, n))
  <2> DEFINE Ends(k, ends) == /\ c[k - 1] <= ends[1] /\ ends[1] < ends[2] /\ ends[2] <= c[k]
                              /\ outs[k].route = SubSeq(t, ends[1], ends[2])
             Places == (1 .. Len(t)) \X (1 .. Len(t))
             ends(k) == CHOOSE e \in Places : Ends(k, e)
             from == [k \in 1 .. n |-> ends(k)[1]]
             upto == [k \in 1 .. n |-> ends(k)[2]]
  <2>1. ASSUME NEW k \in 1 .. n PROVE ends(k) \in Places /\ Ends(k, ends(k))
    <3>1. PICK x, y \in 1 .. Len(t) :
             /\ c[k - 1] <= x /\ x < y /\ y <= c[k] /\ outs[k].route = SubSeq(t, x, y)
      BY <1>10
    <3>2. <<x, y>> \in Places /\ Ends(k, <<x, y>>)
      BY <3>1
    <3>3. \E e \in Places : Ends(k, e)
      BY <3>2
    <3> HIDE DEF Ends, Places
    <3> QED BY <3>3
  <2> HIDE DEF ends
  <2>2. /\ from \in [1 .. n -> 1 .. Len(t)] /\ upto \in [1 .. n -> 1 .. Len(t)]
        /\ \A k \in 1 .. n : c[k - 1] <= from[k] /\ from[k] < upto[k] /\ upto[k] <= c[k]
        /\ \A k \in 1 .. n : outs[k].route = SubSeq(t, from[k], upto[k])
    <3>1. \A k \in 1 .. n : from[k] = ends(k)[1] /\ upto[k] = ends(k)[2]
      OBVIOUS
    <3>2. \A k \in 1 .. n : from[k] \in 1 .. Len(t) /\ upto[k] \in 1 .. Len(t)
      BY <2>1, <3>1
    <3>3. DOMAIN from = 1 .. n /\ DOMAIN upto = 1 .. n
      OBVIOUS
    <3>4. from = [k \in 1 .. n |-> from[k]] /\ upto = [k \in 1 .. n |-> upto[k]]
      OBVIOUS
    <3>5. ASSUME NEW k \in 1 .. n
          PROVE  /\ c[k - 1] <= from[k] /\ from[k] < upto[k] /\ upto[k] <= c[k]
                 /\ outs[k].route = SubSeq(t, from[k], upto[k])
      BY <2>1, <3>1
    <3> HIDE DEF from, upto
    <3> QED BY ONLY <3>2, <3>4, <3>5
  <2>3. n \in Nat \ {0} /\ c \in [0 .. n -> 1 .. Len(t)]
    BY <1>7
  <2>4. DOMAIN outs = 1 .. n
    BY <1>8
  <2> HIDE DEF from, upto
  <2> QED BY ONLY <1>5b, <2>2, <2>3, <2>4, StitchThrough
<1>12. FirstSeams(t, c, n) \subseteq SeamsOf(t, profile)
  <2> SUFFICES ASSUME NEW m \in 1 .. n - 1
               PROVE  t[c[m]] \in SeamsOf(t, profile)
    BY DEF FirstSeams
  <2> DEFINE part == plan.parts[m + 1]
  <2>1. /\ m + 1 \in 1 .. n /\ m \in 1 .. n /\ m \in 0 .. n /\ m - 1 \in 0 .. n /\ m + 1 \in 0 .. n
        /\ (m + 1) - 1 = m
    BY <1>7
  <2>2. c[m] \in 1 .. Len(t) /\ c[m + 1] \in 1 .. Len(t) /\ c[m] < c[m + 1]
        /\ c[m - 1] \in 1 .. Len(t) /\ c[m - 1] < c[m]
    BY <1>7, <2>1
  <2>3. part = [operation |-> operation, points |-> SubSeq(t, c[m], c[m + 1])]
    <3>1. ASSUME NEW k \in 1 .. n, k = m + 1
          PROVE  part = [operation |-> operation, points |-> SubSeq(t, c[m], c[k])]
      <4>1. plan.parts[k] = [operation |-> operation, points |-> SubSeq(t, c[k - 1], c[k])]
        BY ONLY <1>7 DEF Parted
      <4>2. k - 1 = m
        BY ONLY <2>1, <3>1
      <4>3. plan.parts[k] = part
        BY ONLY <3>1
      <4> HIDE DEF part
      <4> QED BY ONLY <4>1, <4>2, <4>3
    <3>2. m + 1 \in 1 .. n
      BY ONLY <2>1
    <3> HIDE DEF part
    <3> QED BY ONLY <3>1, <3>2
  <2>4. part.points = SubSeq(t, c[m], c[m + 1])
    <3> HIDE DEF part
    <3> QED BY ONLY <2>3
  <2>5. SubSeq(t, c[m], c[m + 1])[1] = t[c[m]]
    <3> DEFINE x == c[m]  y == c[m + 1]
    <3>0. x \in 1 .. Len(t) /\ y \in 1 .. Len(t) /\ x < y
      BY ONLY <2>2
    <3> HIDE DEF x, y
    <3>1. x \in 1 .. Len(t) /\ y \in 1 .. Len(t) /\ x <= y /\ 1 \in 1 .. y - x + 1
          /\ x + 1 - 1 = x
      BY ONLY <1>2, <3>0
    <3>2. \A i \in 1 .. y - x + 1 : SubSeq(t, x, y)[i] = t[x + i - 1]
      BY <1>5b, <3>1, PieceOf
    <3>3. SubSeq(t, x, y)[1] = t[x]
      BY <3>1, <3>2
    <3> QED BY <3>3 DEF x, y
  <2>6. t[c[m]] # t[1]
    <3>1. 1 \in 1 .. Len(t) /\ 1 < c[m]
      BY <1>2, <2>2
    <3> QED BY <1>2, <1>5b, <2>2, <3>1 DEF Rising
  <2>7. part \in ToSet(plan.parts)
    BY <1>7, <2>1 DEF ToSet
  <2>8. part.points[1] = t[c[m]]
    BY <2>4, <2>5
  <2> QED BY <2>6, <2>7, <2>8 DEF SeamsOf, plan
<1>13. Through(Stitch(outs), t, SeamsOf(t, profile))
  <2> DEFINE q == Stitch(outs)
  <2> HIDE DEF q
  <2> QED BY <1>11, <1>12 DEF Through, q
<1> QED BY <1>9, <1>13

\* In words of a row: the road follows the row.
LEMMA RoadFollows ==
    ASSUME NEW row, row.points \in Seq(Int), NEW q,
           Through(q, row.points, SeamsOf(row.points, row.kind))
    PROVE  q \in Seq(Int) /\ Follows(q, row)
<1> DEFINE t == row.points  seams == SeamsOf(row.points, row.kind)
<1>1. seams = Seams(row)
  BY DEF SeamsOf, Seams, First
<1>2. DOMAIN q = 1 .. Len(q) /\ DOMAIN t = 1 .. Len(t)
  BY LenProperties DEF Through
<1>3. ToSet(t) = {t[j] : j \in 1 .. Len(t)} /\ ToSet(q) = {q[i] : i \in 1 .. Len(q)}
  BY <1>2 DEF ToSet
<1> HIDE DEF t, seams
<1>4. Through(q, t, seams)
  BY DEF t, seams
<1>5. ToSet(q) \subseteq ToSet(t)
  BY <1>3, <1>4 DEF Through
<1>6. \A i \in 1 .. Len(q) - 1 :
          /\ q[i] < q[i + 1]
          /\ \A fix \in ToSet(t) :
                (q[i] < fix /\ fix < q[i + 1]) =>
                    \E seam \in seams : q[i] <= seam /\ seam < q[i + 1]
  BY <1>3, <1>4 DEF Through
<1> QED BY <1>1, <1>4, <1>5, <1>6 DEF Follows, Through, t

-----------------------------------------------------------------------------
(* Batches and what is asked *)

\* A finite set in some order is a sequence of its members.
LEMMA OrderOfSet ==
    ASSUME NEW S, IsFiniteSet(S)
    PROVE  SetToSeq(S) \in Seq(S)
<1> DEFINE n == Cardinality(S)
<1>1. n \in Nat /\ ExistsBijection(1 .. n, S)
  BY FS_CardinalityType
<1>2. \E f \in [1 .. n -> S] : IsInjective(f)
  BY <1>1 DEF ExistsBijection, Bijection, Injection
<1>3. SetToSeq(S) \in [1 .. n -> S]
  BY <1>2 DEF SetToSeq
<1> QED BY <1>1, <1>3, SeqDef

LEMMA OrdersAreSeqs ==
    ASSUME NEW S, IsFiniteSet(S)
    PROVE  SetToSeqs(S) \subseteq Seq(S)
<1>1. Cardinality(S) \in Nat
  BY FS_CardinalityType
<1> QED BY <1>1, SeqDef DEF SetToSeqs

\* A row that may be asked about.
Askable(row) == row.points \in Seq(Int) /\ Len(row.points) >= 2

LEMMA RequestsCount ==
    ASSUME NEW row, Askable(row)
    PROVE  Requests(row) \in Nat
<1> DEFINE t == row.points
<1>1. t \in Seq(Int) /\ Len(t) >= 2
  BY DEF Askable
<1>2. Len(MatchingParts(t)) \in Nat
  <2>1. PICK n \in Nat \ {0} : \E c \in [0 .. n -> 1 .. Len(t)] :
             /\ c[0] = 1 /\ c[n] = Len(t) /\ \A k \in 1 .. n : c[k - 1] < c[k]
             /\ MatchingParts(t) = [k \in 1 .. n |-> [operation |-> "matching",
                                                      points |-> SubSeq(t, c[k - 1], c[k])]]
    BY <1>1, PartsOfTrace
  <2>2. n \in Nat /\ \E e : MatchingParts(t) = [k \in 1 .. n |-> e[k]]
    <3>1. PICK c : MatchingParts(t) = [k \in 1 .. n |-> [operation |-> "matching",
                                                      points |-> SubSeq(t, c[k - 1], c[k])]]
      BY <2>1
    <3> DEFINE e == [k \in 1 .. n |-> [operation |-> "matching", points |-> SubSeq(t, c[k - 1], c[k])]]
    <3>2. MatchingParts(t) = [k \in 1 .. n |-> e[k]]
      BY <3>1
    <3> HIDE DEF e
    <3> QED BY <3>2
  <2> QED BY <2>2
<1>3. Len(<<[operation |-> "directions", points |-> t]>>) = 1 /\ Len(<<>>) = 0
  OBVIOUS
<1> QED BY <1>2, <1>3 DEF Requests, PlanRoute

Budgets == [ok : BOOLEAN, remaining : Int, used : Int]

LEMMA ReserveTyped ==
    ASSUME NEW budget \in Budgets, NEW requests \in Nat
    PROVE  Reserve(budget, requests) \in Budgets
<1>1. requests <= budget.remaining \/ ~(requests <= budget.remaining)
  OBVIOUS
<1>2. [ok |-> TRUE, remaining |-> budget.remaining - requests,
       used |-> budget.used + requests] \in Budgets
  BY DEF Budgets
<1>3. [budget EXCEPT !.ok = FALSE] \in Budgets
  BY DEF Budgets
<1>4. [ok |-> TRUE, remaining |-> 0, used |-> requests] \in Budgets
  BY DEF Budgets
<1> QED BY <1>2, <1>3, <1>4 DEF Reserve

\* The step of the batch's fold.
Take(acc, pair) ==
    LET budget == Reserve(acc.budget, Requests(pair))
    IN  [budget |-> budget,
         batch |-> IF budget.ok THEN Append(acc.batch, pair) ELSE acc.batch]

Empty == [budget |-> FreshBudget, batch |-> <<>>]

IsBatch(it, pairs) ==
    it = [s \in SUBSET DOMAIN pairs |->
            IF s = {} THEN Empty ELSE LET i == Max(s) IN Take(it[s \ {i}], pairs[i])]

LEMMA BatchIsFold ==
    \A pairs : RouteRequestBatch(pairs) = (CHOOSE it : IsBatch(it, pairs))[DOMAIN pairs].batch
BY DEF RouteRequestBatch, FoldLeft, MapThenFoldSet, IsBatch, Take, Empty

\* The batch's fold, step by step.
Taken(f, n, T, pairs) ==
    /\ f \in [0 .. n -> [budget : Budgets, batch : Seq(T)]]
    /\ f[0] = Empty
    /\ \A i \in 1 .. n : f[i] = Take(f[i - 1], pairs[i])

LEMMA BatchRuns ==
    ASSUME NEW T, NEW pairs \in Seq(T), \A row \in T : Askable(row)
    PROVE  \E f : Taken(f, Len(pairs), T, pairs) /\ RouteRequestBatch(pairs) = f[Len(pairs)].batch
<1> DEFINE n == Len(pairs)
           X == [budget : Budgets, batch : Seq(T)]
           G == [k \in (1 .. n) \X X |-> Take(k[2], pairs[k[1]])]
           step(it, s) == IF s = {} THEN Empty ELSE Take(it[s \ {Max(s)}], pairs[Max(s)])
<1>0. n \in Nat /\ DOMAIN pairs = 1 .. n /\ \A i \in 1 .. n : pairs[i] \in T
  BY LenProperties, ElementOfSeq
<1>1. ASSUME NEW i \in 1 .. n, NEW x \in X PROVE Take(x, pairs[i]) \in X
  <2> DEFINE budget == Reserve(x.budget, Requests(pairs[i]))
  <2>1. budget \in Budgets
    <3>1. Requests(pairs[i]) \in Nat
      BY <1>0, RequestsCount
    <3>2. x.budget \in Budgets
      OBVIOUS
    <3> QED BY <3>1, <3>2, ReserveTyped
  <2>2. Append(x.batch, pairs[i]) \in Seq(T) /\ x.batch \in Seq(T)
    BY <1>0, AppendProperties
  <2> HIDE DEF budget
  <2>3. [budget |-> budget, batch |-> IF budget.ok THEN Append(x.batch, pairs[i]) ELSE x.batch] \in X
    BY <2>1, <2>2
  <2> QED BY <2>3 DEF Take, budget
<1>2. \A it : IsBatch(it, pairs) <=> it = [s \in SUBSET (1 .. n) |-> step(it, s)]
  BY <1>0 DEF IsBatch
<1> HIDE DEF n
<1>3. Empty \in X /\ G \in [(1 .. n) \X X -> X]
  <2>1. FreshBudget \in Budgets
    BY PlanConstants DEF FreshBudget, Budgets
  <2>2. <<>> \in Seq(T)
    BY EmptySeq
  <2> QED BY <1>1, <2>1, <2>2 DEF Empty
<1>4. \A i \in 1 .. n, x \in X : G[<<i, x>>] = Take(x, pairs[i])
  OBVIOUS
<1> HIDE DEF G, X
<1>5. \E it : IsBatch(it, pairs)
  <2> PICK g : Folds(g, n, X, Empty, G) /\ g \in [SUBSET (1 .. n) -> X]
    BY <1>0, <1>3, FoldExists
  <2>1. ASSUME NEW s \in SUBSET (1 .. n) PROVE g[s] = step(g, s)
    <3>1. s # {} => Max(s) \in 1 .. n /\ g[s \ {Max(s)}] \in X
      BY <1>0, LargestOf
    <3> QED BY <1>4, <3>1 DEF Folds
  <2> HIDE DEF step
  <2>2. g = [s \in SUBSET (1 .. n) |-> step(g, s)]
    BY <2>1
  <2> QED BY <1>2, <2>2
<1> DEFINE it == CHOOSE it : IsBatch(it, pairs)
<1>6. IsBatch(it, pairs)
  BY <1>5
<1>7. RouteRequestBatch(pairs) = it[FirstOnes(n)].batch
  BY <1>0, BatchIsFold DEF FirstOnes
<1> HIDE DEF it
<1>8. Folds(it, n, X, Empty, G)
  <2>1. \A s \in SUBSET (1 .. n) : it[s] = step(it, s)
    <3> HIDE DEF step
    <3> QED BY <1>2, <1>6
  <2>2. ASSUME NEW s \in SUBSET (1 .. n), s # {}, it[s \ {Max(s)}] \in X
        PROVE  it[s] = G[<<Max(s), it[s \ {Max(s)}]>>]
    <3>1. Max(s) \in 1 .. n
      BY <1>0, <2>2, LargestOf
    <3> QED BY <1>4, <2>1, <2>2, <3>1
  <2>3. it[{}] = Empty
    BY <2>1
  <2>4. \A s \in SUBSET (1 .. n) :
          s # {} /\ it[s \ {Max(s)}] \in X => it[s] = G[<<Max(s), it[s \ {Max(s)}]>>]
    BY <2>2
  <2> QED BY <2>3, <2>4, Zenon DEF Folds
<1> DEFINE f == RunOf(it, n)
<1>9. Runs(f, n, X, Empty, G)
  BY <1>0, <1>3, <1>8, FoldRuns
<1>10. f[n] = it[FirstOnes(n)]
  BY <1>0 DEF RunOf
<1> HIDE DEF f
<1>11. Taken(f, n, T, pairs)
  <2>1. f \in [0 .. n -> X] /\ f[0] = Empty
    BY <1>9 DEF Runs
  <2>2. ASSUME NEW i \in 1 .. n PROVE f[i] = Take(f[i - 1], pairs[i])
    <3>1. f[i] = G[<<i, f[i - 1]>>] /\ f[i - 1] \in X
      BY <1>0, <1>9 DEF Runs
    <3> QED BY <1>4, <3>1
  <2> QED BY <2>1, <2>2 DEF Taken, X
<1> QED BY <1>7, <1>10, <1>11 DEF n

LEMMA BatchIsSeq ==
    ASSUME NEW T, NEW pairs \in Seq(T), \A row \in T : Askable(row)
    PROVE  RouteRequestBatch(pairs) \in Seq(T)
<1> DEFINE n == Len(pairs)
<1>1. PICK f : Taken(f, n, T, pairs) /\ RouteRequestBatch(pairs) = f[n].batch
  BY BatchRuns
<1>2. n \in Nat
  BY LenProperties
<1>3. f[n] \in [budget : Budgets, batch : Seq(T)]
  BY <1>1, <1>2 DEF Taken
<1> QED BY <1>1, <1>3

\* The rows found again for a planned one.
Found(rows, planned) == SetToSeq({r \in At(rows, Key(planned)) : NeedsRouteEnrichment(r)})

IsAsked(it, rows, batch) ==
    it = [s \in SUBSET DOMAIN batch |->
            IF s = {} THEN <<>> ELSE LET i == Max(s) IN it[s \ {i}] \o Found(rows, batch[i])]

LEMMA AskedIsFold ==
    \A rows, batch :
        SnapshotsForKeys(rows, batch) = (CHOOSE it : IsAsked(it, rows, batch))[DOMAIN batch]
BY DEF SnapshotsForKeys, FoldLeft, MapThenFoldSet, IsAsked, Found

\* The reading of the rows of a batch, step by step.
Reads(f, n, rows, batch) ==
    /\ f \in [0 .. n -> Seq(rows)]
    /\ f[0] = <<>>
    /\ \A i \in 1 .. n : f[i] = f[i - 1] \o Found(rows, batch[i])

LEMMA FoundIsSeq ==
    ASSUME NEW rows, IsFiniteSet(rows), NEW planned
    PROVE  Found(rows, planned) \in Seq(rows)
<1> DEFINE found == {r \in At(rows, Key(planned)) : NeedsRouteEnrichment(r)}
<1>1. found \subseteq rows
  BY DEF At
<1>2. IsFiniteSet(found)
  BY <1>1, FS_Subset
<1> HIDE DEF found
<1>3. SetToSeq(found) \in Seq(found)
  BY <1>2, OrderOfSet
<1>4. SetToSeq(found) \in Seq(rows)
  BY <1>1, <1>3, SeqMonotonic
<1> QED BY <1>4 DEF Found, found

LEMMA AskedRuns ==
    ASSUME NEW rows, IsFiniteSet(rows), NEW T, NEW batch \in Seq(T)
    PROVE  \E f : Reads(f, Len(batch), rows, batch)
                  /\ SnapshotsForKeys(rows, batch) = f[Len(batch)]
<1> DEFINE n == Len(batch)
           X == Seq(rows)
           op(i, x) == x \o Found(rows, batch[i])
           G == [k \in (1 .. n) \X X |-> op(k[1], k[2])]
           step(it, s) == IF s = {} THEN <<>> ELSE op(Max(s), it[s \ {Max(s)}])
<1>0. n \in Nat /\ DOMAIN batch = 1 .. n
  BY LenProperties
<1>1. ASSUME NEW i \in 1 .. n, NEW x \in Seq(rows) PROVE op(i, x) \in Seq(rows)
  BY FoundIsSeq, ConcatProperties
<1>2. \A it : IsAsked(it, rows, batch) <=> it = [s \in SUBSET (1 .. n) |-> step(it, s)]
  BY <1>0 DEF IsAsked
<1>12. \A i, x : op(i, x) = x \o Found(rows, batch[i])
  OBVIOUS
<1> HIDE DEF op, n
<1>3. <<>> \in X /\ G \in [(1 .. n) \X X -> X]
  BY <1>1
<1>4. \A i \in 1 .. n, x \in X : G[<<i, x>>] = op(i, x)
  OBVIOUS
<1> HIDE DEF G, X
<1>5. \E it : IsAsked(it, rows, batch)
  <2> PICK g : Folds(g, n, X, <<>>, G) /\ g \in [SUBSET (1 .. n) -> X]
    BY <1>0, <1>3, FoldExists
  <2>1. ASSUME NEW s \in SUBSET (1 .. n) PROVE g[s] = step(g, s)
    <3>1. s # {} => Max(s) \in 1 .. n /\ g[s \ {Max(s)}] \in X
      BY <1>0, LargestOf
    <3> QED BY <1>4, <3>1 DEF Folds
  <2> HIDE DEF step
  <2>2. g = [s \in SUBSET (1 .. n) |-> step(g, s)]
    BY <2>1
  <2> QED BY <1>2, <2>2
<1> DEFINE it == CHOOSE it : IsAsked(it, rows, batch)
<1>6. IsAsked(it, rows, batch)
  BY <1>5
<1>7. SnapshotsForKeys(rows, batch) = it[FirstOnes(n)]
  BY <1>0, AskedIsFold DEF FirstOnes
<1> HIDE DEF it
<1>8. Folds(it, n, X, <<>>, G)
  <2>1. \A s \in SUBSET (1 .. n) : it[s] = step(it, s)
    <3> HIDE DEF step
    <3> QED BY <1>2, <1>6
  <2>2. ASSUME NEW s \in SUBSET (1 .. n), s # {}, it[s \ {Max(s)}] \in X
        PROVE  it[s] = G[<<Max(s), it[s \ {Max(s)}]>>]
    <3>1. Max(s) \in 1 .. n
      BY <1>0, <2>2, LargestOf
    <3> QED BY <1>4, <2>1, <2>2, <3>1
  <2>3. it[{}] = <<>>
    BY <2>1
  <2>4. \A s \in SUBSET (1 .. n) :
          s # {} /\ it[s \ {Max(s)}] \in X => it[s] = G[<<Max(s), it[s \ {Max(s)}]>>]
    BY <2>2
  <2> QED BY <2>3, <2>4, Zenon DEF Folds
<1> DEFINE f == RunOf(it, n)
<1>9. Runs(f, n, X, <<>>, G)
  BY <1>0, <1>3, <1>8, FoldRuns
<1>10. f[n] = it[FirstOnes(n)]
  BY <1>0 DEF RunOf
<1> HIDE DEF f
<1>11. Reads(f, n, rows, batch)
  <2>1. f \in [0 .. n -> X] /\ f[0] = <<>>
    BY <1>9 DEF Runs
  <2>2. ASSUME NEW i \in 1 .. n PROVE f[i] = f[i - 1] \o Found(rows, batch[i])
    <3>1. f[i] = G[<<i, f[i - 1]>>] /\ f[i - 1] \in X
      BY <1>0, <1>9 DEF Runs
    <3> QED BY <1>4, <1>12, <3>1
  <2> QED BY <2>1, <2>2 DEF Reads, X
<1> QED BY <1>7, <1>10, <1>11 DEF n

LEMMA AskedIsSeq ==
    ASSUME NEW rows, IsFiniteSet(rows), NEW T, NEW batch \in Seq(T)
    PROVE  SnapshotsForKeys(rows, batch) \in Seq(rows)
<1> DEFINE n == Len(batch)
<1>1. PICK f : Reads(f, n, rows, batch) /\ SnapshotsForKeys(rows, batch) = f[n]
  BY AskedRuns
<1>2. n \in Nat
  BY LenProperties
<1>3. f[n] \in Seq(rows)
  BY <1>1, <1>2 DEF Reads
<1> QED BY <1>1, <1>3

-----------------------------------------------------------------------------
(* The rows: writing outcomes *)

Sorted(p) == \A i, j \in 1 .. Len(p) : i <= j => p[i] <= p[j]

\* A row with the road of its fixes, or with none.
RowCorrect(r) ==
    /\ r = [points |-> r.points, kind |-> r.kind, route |-> r.route, status |-> r.status]
    /\ Askable(r) /\ Sorted(r.points) /\ First(r) < Final(r)
    /\ r.route \in Seq(Int)
    /\ IF r.status = "matched" THEN Follows(r.route, r) ELSE r.route = <<>>

KeysUnique(rows) == \A r, s \in rows : Key(r) = Key(s) => r = s

RowsCorrect(rows) ==
    /\ IsFiniteSet(rows) /\ KeysUnique(rows)
    /\ \A r \in rows : RowCorrect(r)

\* What writing outcomes makes of the rows: a row is as it was, or it was one
\* that waited.
Succeeds(new, rows) ==
    \A r \in new : r \in rows \/ \E q \in rows : NeedsRouteEnrichment(q) /\ Key(q) = Key(r)

Shape(K, S) == [points : Seq(Int), kind : K, route : Seq(Int), status : S]

\* The outcome of a pair: a road is the pair's.
Fits(pair, outcome) ==
    outcome.status = "matched" /\ Askable(pair) =>
        outcome.route \in Seq(Int) /\ Follows(outcome.route, pair)

\* What a road follows is the row's fixes.
LEMMA FollowsSame ==
    ASSUME NEW r, NEW s, r.points = s.points, r.kind = s.kind, NEW q, Follows(q, r)
    PROVE  Follows(q, s)
<1>1. Seams(s) = Seams(r)
  BY DEF Seams, First
<1> QED BY <1>1 DEF Follows

Road(outcome) == IF outcome.status = "matched" THEN outcome.route ELSE <<>>

With(r, outcome) == [r EXCEPT !.route = Road(outcome), !.status = outcome.status]

LEMMA WithIs ==
    ASSUME NEW r, RowCorrect(r), NEW outcome
    PROVE  With(r, outcome) = [points |-> r.points, kind |-> r.kind,
                               route |-> Road(outcome), status |-> outcome.status]
<1> DEFINE p == r.points  k == r.kind  ro == r.route  s == r.status
<1>1. r = [points |-> p, kind |-> k, route |-> ro, status |-> s]
  BY DEF RowCorrect
<1> DEFINE nr == Road(outcome)  ns == outcome.status
<1>2. With(r, outcome) = [r EXCEPT !.route = nr, !.status = ns]
  BY DEF With
<1> HIDE DEF p, k, ro, s, nr, ns
<1>3. With(r, outcome) = [points |-> p, kind |-> k, route |-> nr, status |-> ns]
  BY <1>1, <1>2
<1> QED BY <1>3 DEF p, k, nr, ns

LEMMA WriteOne ==
    ASSUME NEW K, NEW S, NEW rows, NEW acc \in SUBSET Shape(K, S), RowsCorrect(acc),
           Succeeds(acc, rows), NEW pair, NEW outcome, outcome.status \in S, Fits(pair, outcome)
    PROVE  /\ WriteOutcome(acc, pair, outcome) \in SUBSET Shape(K, S)
           /\ RowsCorrect(WriteOutcome(acc, pair, outcome))
           /\ Succeeds(WriteOutcome(acc, pair, outcome), rows)
<1> DEFINE current == {r \in At(acc, Key(pair)) :
                         r.kind = pair.kind /\ r.points = pair.points /\ NeedsRouteEnrichment(r)}
           written == {With(r, outcome) : r \in current}
           new == WriteOutcome(acc, pair, outcome)
<1>1. new = (acc \ current) \cup written
  BY DEF WriteOutcome, With, Road
<1>2. /\ current \subseteq acc
      /\ \A r \in current : r.points = pair.points /\ r.kind = pair.kind /\ NeedsRouteEnrichment(r)
  BY DEF At
<1> HIDE DEF current
<1>3. ASSUME NEW r \in current
      PROVE  /\ With(r, outcome) \in Shape(K, S) /\ RowCorrect(With(r, outcome))
             /\ Key(With(r, outcome)) = Key(r)
  <2> DEFINE m == With(r, outcome)
             ro == Road(outcome)
             st == outcome.status
  <2>1. RowCorrect(r) /\ r.kind \in K
    BY <1>2 DEF RowsCorrect, Shape
  <2>2. m = [points |-> r.points, kind |-> r.kind, route |-> ro, status |-> st]
    BY <2>1, WithIs
  <2>3. Askable(pair) /\ r.points = pair.points /\ r.kind = pair.kind /\ r.points \in Seq(Int)
    BY <1>2, <2>1 DEF RowCorrect, Askable
  <2>4. IF st = "matched" THEN ro \in Seq(Int) /\ Follows(ro, pair) ELSE ro = <<>>
    BY <2>3 DEF Road, Fits
  <2>5. ro \in Seq(Int) /\ st \in S
    BY <2>3, <2>4, EmptySeq
  <2> HIDE DEF m, ro, st
  <2>6. m.points = r.points /\ m.kind = r.kind /\ m.route = ro /\ m.status = st
    BY <2>2
  <2>7. m \in Shape(K, S)
    BY <2>1, <2>2, <2>3, <2>5 DEF Shape
  <2>8. First(m) = First(r) /\ Final(m) = Final(r) /\ Key(m) = Key(r)
    BY <2>6 DEF First, Final, Key
  <2>9. RowCorrect(m)
    <3>1. m = [points |-> m.points, kind |-> m.kind, route |-> m.route, status |-> m.status]
      BY <2>2, <2>6
    <3>2. Askable(m) /\ Sorted(m.points)
      BY <2>1, <2>6 DEF RowCorrect, Askable
    <3>3. First(m) < Final(m)
      BY <2>1, <2>8 DEF RowCorrect
    <3>4. IF m.status = "matched" THEN Follows(m.route, m) ELSE m.route = <<>>
      <4>1. m.points = pair.points /\ m.kind = pair.kind /\ m.route = ro /\ m.status = st
        BY <2>3, <2>6
      <4>2. Follows(ro, pair) => Follows(ro, m)
        BY <4>1, FollowsSame
      <4> QED BY <2>4, <4>1, <4>2
    <3>5. m.route \in Seq(Int)
      BY <2>5, <2>6
    <3> QED BY <3>1, <3>2, <3>3, <3>4, <3>5 DEF RowCorrect
  <2> QED BY <2>7, <2>8, <2>9 DEF m
<1>4. new \in SUBSET Shape(K, S) /\ \A r \in new : RowCorrect(r)
  BY <1>1, <1>3 DEF RowsCorrect
<1>5. KeysUnique(new)
  <2> SUFFICES ASSUME NEW a \in new, NEW b \in new, Key(a) = Key(b) PROVE a = b
    BY DEF KeysUnique
  <2>1. ASSUME NEW x \in new
        PROVE  \/ x \in acc \ current
               \/ \E r \in current : x = With(r, outcome)
    BY <1>1
  <2>2. \A r, s \in acc : Key(r) = Key(s) => r = s
    BY DEF RowsCorrect, KeysUnique
  <2> HIDE DEF new, written
  <2>3. CASE a \in acc \ current /\ b \in acc \ current
    BY <2>2, <2>3
  <2>4. ASSUME NEW r \in current, a = With(r, outcome), b \in acc \ current PROVE FALSE
    BY <1>2, <1>3, <2>2, <2>4
  <2>5. ASSUME NEW r \in current, b = With(r, outcome), a \in acc \ current PROVE FALSE
    BY <1>2, <1>3, <2>2, <2>5
  <2>6. ASSUME NEW r \in current, a = With(r, outcome), NEW s \in current, b = With(s, outcome)
        PROVE  a = b
    BY <1>2, <1>3, <2>2, <2>6
  <2> QED BY <2>1, <2>3, <2>4, <2>5, <2>6
<1>6. IsFiniteSet(new)
  <2>1. IsFiniteSet(acc \ current) /\ IsFiniteSet(current)
    BY <1>2, FS_Subset DEF RowsCorrect
  <2>2. IsFiniteSet(written)
    <3> DEFINE g == [r \in current |-> With(r, outcome)]
    <3>1. g \in Surjection(current, written)
      BY DEF Surjection
    <3> HIDE DEF g, written
    <3> QED BY <2>1, <3>1, FS_Surjection
  <2> HIDE DEF new, written
  <2> QED BY <1>1, <2>1, <2>2, FS_Union
<1>7. Succeeds(new, rows)
  <2> SUFFICES ASSUME NEW r \in new
               PROVE  r \in rows \/ \E q \in rows : NeedsRouteEnrichment(q) /\ Key(q) = Key(r)
    BY DEF Succeeds
  <2>1. CASE r \in acc \ current
    BY <2>1 DEF Succeeds
  <2>2. ASSUME NEW q \in current, r = With(q, outcome)
        PROVE  \E p \in rows : NeedsRouteEnrichment(p) /\ Key(p) = Key(r)
    <3>1. Key(r) = Key(q) /\ NeedsRouteEnrichment(q) /\ q \in acc
      BY <1>2, <1>3, <2>2
    <3>2. q \in rows \/ \E p \in rows : NeedsRouteEnrichment(p) /\ Key(p) = Key(q)
      BY <3>1 DEF Succeeds
    <3> QED BY <3>1, <3>2
  <2> QED BY <1>1, <2>1, <2>2
<1> QED BY <1>4, <1>5, <1>6, <1>7 DEF RowsCorrect

\* The step of the fold that writes one outcome after another.
WriteAt(acc, asked, outcomes, i) ==
    IF outcomes[i].error = "request_budget_exceeded" THEN acc
    ELSE WriteOutcome(acc, asked[i], outcomes[i])

IsWritten(it, rows, asked, outcomes) ==
    it = [s \in SUBSET DOMAIN [i \in DOMAIN asked |-> i] |->
            IF s = {} THEN rows
            ELSE LET i == Max(s)
                 IN  WriteAt(it[s \ {i}], asked, outcomes, [k \in DOMAIN asked |-> k][i])]

LEMMA WrittenIsFold ==
    \A rows, asked, outcomes :
        WriteOutcomes(rows, asked, outcomes)
            = (CHOOSE it : IsWritten(it, rows, asked, outcomes))[DOMAIN [i \in DOMAIN asked |-> i]]
BY DEF WriteOutcomes, FoldLeft, MapThenFoldSet, IsWritten, WriteAt

\* Writing an outcome for each of a sequence of pairs.
LEMMA WriteAll ==
    ASSUME NEW rows, RowsCorrect(rows), NEW asked, NEW n \in Nat, DOMAIN asked = 1 .. n,
           NEW outcomes, \A i \in 1 .. n : Fits(asked[i], outcomes[i])
    PROVE  /\ RowsCorrect(WriteOutcomes(rows, asked, outcomes))
           /\ Succeeds(WriteOutcomes(rows, asked, outcomes), rows)
<1> DEFINE K == {r.kind : r \in rows}
           S == {r.status : r \in rows} \cup {outcomes[i].status : i \in 1 .. n}
           X == {acc \in SUBSET Shape(K, S) : RowsCorrect(acc) /\ Succeeds(acc, rows)}
           G == [k \in (1 .. n) \X X |-> WriteAt(k[2], asked, outcomes, k[1])]
           step(it, s) == IF s = {} THEN rows
                          ELSE WriteAt(it[s \ {Max(s)}], asked, outcomes, Max(s))
<1>1. rows \in X
  <2>1. Succeeds(rows, rows)
    BY DEF Succeeds
  <2>2. ASSUME NEW r \in rows PROVE r \in Shape(K, S)
    <3> DEFINE p == r.points  k == r.kind  ro == r.route  s == r.status
    <3>1. r = [points |-> p, kind |-> k, route |-> ro, status |-> s] /\ p \in Seq(Int)
      BY DEF RowsCorrect, RowCorrect, Askable
    <3>2. ro \in Seq(Int)
      BY <3>1, EmptySeq DEF RowsCorrect, RowCorrect
    <3>3. k \in K /\ s \in S
      OBVIOUS
    <3> HIDE DEF p, k, ro, s, K, S
    <3> QED BY <3>1, <3>2, <3>3 DEF Shape
  <2> HIDE DEF K, S
  <2> QED BY <2>1, <2>2
<1>2. ASSUME NEW i \in 1 .. n, NEW acc \in X PROVE WriteAt(acc, asked, outcomes, i) \in X
  <2> DEFINE o == outcomes[i]  pair == asked[i]
  <2>1. o.status \in S /\ Fits(pair, o)
    OBVIOUS
  <2> HIDE DEF o, pair, K, S
  <2>2. WriteOutcome(acc, pair, o) \in X
    BY <2>1, WriteOne
  <2> QED BY <2>2 DEF WriteAt, o, pair
<1>3. \A it : IsWritten(it, rows, asked, outcomes)
        <=> it = [s \in SUBSET (1 .. n) |-> step(it, s)]
  <2>1. DOMAIN [i \in DOMAIN asked |-> i] = 1 .. n
    OBVIOUS
  <2>2. \A s \in SUBSET (1 .. n) : s # {} => [k \in DOMAIN asked |-> k][Max(s)] = Max(s)
    BY LargestOf
  <2> QED BY <2>1, <2>2 DEF IsWritten
<1>4. \A acc \in X : RowsCorrect(acc) /\ Succeeds(acc, rows)
  OBVIOUS
<1> HIDE DEF K, S, X
<1>5. G \in [(1 .. n) \X X -> X] /\ \A i \in 1 .. n, x \in X : G[<<i, x>>] = WriteAt(x, asked, outcomes, i)
  BY <1>2
<1> HIDE DEF G
<1>6. \E it : IsWritten(it, rows, asked, outcomes)
  <2> PICK g : Folds(g, n, X, rows, G) /\ g \in [SUBSET (1 .. n) -> X]
    BY <1>1, <1>5, FoldExists
  <2>1. ASSUME NEW s \in SUBSET (1 .. n) PROVE g[s] = step(g, s)
    <3>1. s # {} => Max(s) \in 1 .. n /\ g[s \ {Max(s)}] \in X
      BY LargestOf
    <3> QED BY <1>5, <3>1 DEF Folds
  <2> HIDE DEF step
  <2>2. g = [s \in SUBSET (1 .. n) |-> step(g, s)]
    BY <2>1
  <2> QED BY <1>3, <2>2
<1> DEFINE it == CHOOSE it : IsWritten(it, rows, asked, outcomes)
<1>7. IsWritten(it, rows, asked, outcomes)
  BY <1>6
<1>8. WriteOutcomes(rows, asked, outcomes) = it[FirstOnes(n)]
  <2>1. DOMAIN [i \in DOMAIN asked |-> i] = 1 .. n
    OBVIOUS
  <2> QED BY <2>1, WrittenIsFold DEF FirstOnes
<1> HIDE DEF it
<1>9. Folds(it, n, X, rows, G)
  <2>1. \A s \in SUBSET (1 .. n) : it[s] = step(it, s)
    <3> HIDE DEF step
    <3> QED BY <1>3, <1>7
  <2>2. ASSUME NEW s \in SUBSET (1 .. n), s # {}, it[s \ {Max(s)}] \in X
        PROVE  it[s] = G[<<Max(s), it[s \ {Max(s)}]>>]
    <3>1. Max(s) \in 1 .. n
      BY <2>2, LargestOf
    <3> QED BY <1>5, <2>1, <2>2, <3>1
  <2>3. it[{}] = rows
    BY <2>1
  <2>4. \A s \in SUBSET (1 .. n) :
          s # {} /\ it[s \ {Max(s)}] \in X => it[s] = G[<<Max(s), it[s \ {Max(s)}]>>]
    BY <2>2
  <2> QED BY <2>3, <2>4, Zenon DEF Folds
<1> DEFINE f == RunOf(it, n)
<1>10. Runs(f, n, X, rows, G)
  BY <1>1, <1>5, <1>9, FoldRuns
<1>11. f[n] = it[FirstOnes(n)] /\ n \in 0 .. n
  BY DEF RunOf
<1> HIDE DEF f
<1>12. f[n] \in X
  BY <1>10, <1>11 DEF Runs
<1> QED BY <1>4, <1>8, <1>11, <1>12

\* What Mapbox answers to pairs that are asked about fits them.
LEMMA AnswersFit ==
    ASSUME NEW asked, NEW outcomes \in MatchSegments(asked)
    PROVE  \A i \in DOMAIN asked : Fits(asked[i], outcomes[i])
<1> SUFFICES ASSUME NEW i \in DOMAIN asked PROVE Fits(asked[i], outcomes[i])
  OBVIOUS
<1> DEFINE pair == asked[i]
           o == outcomes[i]
           parts == PlanRoute(pair.points, pair.kind).parts
<1>1. \E granted : o \in PairOutcomes(pair, granted)
  BY DEF MatchSegments
<1>2. PICK granted : o \in PairOutcomes(pair, granted)
  BY <1>1
<1>3. PICK kinds \in [DOMAIN parts -> AnswerKinds] :
        o = MatchOne(pair.points, pair.kind, granted,
                     [k \in DOMAIN parts |-> AnswerTo(parts[k], kinds[k])])
  BY <1>2 DEF PairOutcomes
<1> HIDE DEF pair, o
<1>4. ASSUME o.status = "matched", Askable(pair)
      PROVE  o.route \in Seq(Int) /\ Follows(o.route, pair)
  <2> DEFINE t == pair.points  profile == pair.kind
  <2>1. t \in Seq(Int) /\ Len(t) >= 2
    BY <1>4 DEF Askable
  <2>2. LET ps == PlanRoute(t, profile).parts
        IN  o = MatchOne(t, profile, granted, [k \in DOMAIN ps |-> AnswerTo(ps[k], kinds[k])])
    BY <1>3
  <2>3. LET ps == PlanRoute(t, profile).parts
        IN  \A k \in DOMAIN ps : kinds[k].head \in Nat /\ kinds[k].tail \in Nat
    BY EnrichmentConstants
  <2> HIDE DEF t, profile
  <2>4. Through(o.route, t, SeamsOf(t, profile))
    BY <1>4, <2>1, <2>2, <2>3, RoadIsThrough
  <2> QED BY <2>1, <2>4, RoadFollows DEF t, profile
<1> QED BY <1>4 DEF Fits, pair, o

-----------------------------------------------------------------------------
(* The rows: boundary edits *)

\* A trace whose times never fall.
Trace(p) == p \in Seq(Int) /\ Len(p) >= 1 /\ Sorted(p)

LEMMA TraceIs ==
    ASSUME NEW p, Trace(p)
    PROVE  /\ p \in Seq(Int) /\ Len(p) \in Nat \ {0} /\ DOMAIN p = 1 .. Len(p)
           /\ \A i \in 1 .. Len(p) : p[i] \in Int
           /\ \A i, j \in 1 .. Len(p) : i <= j => p[i] <= p[j]
<1>1. p \in Seq(Int) /\ Len(p) >= 1
  BY DEF Trace
<1>2. Len(p) \in Nat /\ DOMAIN p = 1 .. Len(p) /\ \A i \in 1 .. Len(p) : p[i] \in Int
  BY <1>1, LenProperties, ElementOfSeq
<1> QED BY <1>1, <1>2 DEF Trace, Sorted

\* One trace after another that ends before it.
LEMMA Joined ==
    ASSUME NEW p, Trace(p), NEW q, Trace(q), p[Len(p)] <= q[1]
    PROVE  /\ Trace(p \o q) /\ Len(p \o q) = Len(p) + Len(q)
           /\ (p \o q)[1] = p[1] /\ (p \o q)[Len(p \o q)] = q[Len(q)]
<1> DEFINE c == p \o q  a == Len(p)  b == Len(q)
<1>1. a \in Nat \ {0} /\ b \in Nat \ {0}
  BY TraceIs
<1>2. c \in Seq(Int) /\ Len(c) = a + b
      /\ \A i \in 1 .. a + b : c[i] = IF i <= a THEN p[i] ELSE q[i - a]
  <2>1. p \in Seq(Int) /\ q \in Seq(Int)
    BY TraceIs
  <2> QED BY ONLY <2>1, ConcatProperties
<1>3. \A i \in 1 .. a : p[i] \in Int /\ p[i] <= p[a]
  <2>1. \A i \in 1 .. a : i <= a /\ a \in 1 .. a
    BY <1>1
  <2> QED BY <2>1, TraceIs
<1>4. \A i \in 1 .. b : q[i] \in Int /\ q[1] <= q[i]
  <2>1. \A i \in 1 .. b : 1 <= i /\ 1 \in 1 .. b
    BY <1>1
  <2> QED BY <2>1, TraceIs
<1>5. \A i, j \in 1 .. a : i <= j => p[i] <= p[j]
  BY TraceIs
<1>6. \A i, j \in 1 .. b : i <= j => q[i] <= q[j]
  BY TraceIs
<1>7. p[a] <= q[1] /\ a \in 1 .. a /\ 1 \in 1 .. b
  BY <1>1
<1> HIDE DEF c, a, b
<1>8. ASSUME NEW i \in 1 .. a + b, NEW j \in 1 .. a + b, i <= j PROVE c[i] <= c[j]
  <2>1. CASE j <= a
    <3>1. i \in 1 .. a /\ j \in 1 .. a
      BY <1>1, <1>8, <2>1
    <3> QED BY <1>2, <1>5, <1>8, <3>1
  <2>2. CASE i <= a /\ ~(j <= a)
    <3>1. i \in 1 .. a /\ j - a \in 1 .. b
      BY <1>1, <2>2
    <3>2. p[i] <= p[a] /\ p[a] <= q[1] /\ q[1] <= q[j - a]
          /\ p[i] \in Int /\ p[a] \in Int /\ q[1] \in Int /\ q[j - a] \in Int
      BY <1>3, <1>4, <1>7, <3>1
    <3>3. p[i] <= q[j - a]
      BY ONLY <3>2
    <3> QED BY <1>2, <2>2, <3>3
  <2>3. CASE ~(i <= a)
    <3>1. i - a \in 1 .. b /\ j - a \in 1 .. b /\ i - a <= j - a /\ ~(j <= a)
      BY <1>1, <1>8, <2>3
    <3> QED BY <1>2, <1>6, <2>3, <3>1
  <2> QED BY <1>1, <2>1, <2>2, <2>3
<1>9. Trace(c)
  <2>1. Len(c) >= 1
    BY <1>1, <1>2
  <2> QED BY <1>2, <1>8, <2>1 DEF Trace, Sorted
<1>10. c[1] = p[1] /\ c[a + b] = q[b]
  <2>1. 1 \in 1 .. a + b /\ a + b \in 1 .. a + b /\ 1 <= a /\ ~(a + b <= a) /\ (a + b) - a = b
    BY <1>1
  <2> QED BY <1>2, <2>1
<1> QED BY <1>2, <1>9, <1>10 DEF c, a, b

LEMMA OneFix ==
    ASSUME NEW time \in Int
    PROVE  Trace(<<time>>) /\ Len(<<time>>) = 1 /\ <<time>>[1] = time
<1> DEFINE p == <<time>>
<1>1. p \in Seq(Int) /\ Len(p) = 1 /\ p[1] = time
  OBVIOUS
<1> HIDE DEF p
<1>2. \A i \in 1 .. Len(p) : i = 1
  BY <1>1
<1>3. Sorted(p)
  BY <1>1, <1>2 DEF Sorted
<1> QED BY <1>1, <1>3 DEF Trace, p

LEMMA Piece ==
    ASSUME NEW c, Trace(c), NEW a \in 1 .. Len(c), NEW b \in 1 .. Len(c), a <= b
    PROVE  /\ Trace(SubSeq(c, a, b)) /\ SubSeq(c, a, b)[1] = c[a]
           /\ SubSeq(c, a, b)[Len(SubSeq(c, a, b))] = c[b]
<1> DEFINE s == SubSeq(c, a, b)
<1>1. Len(c) \in Nat /\ a \in Int /\ b \in Int /\ \A i \in a .. b : c[i] \in Int /\ i \in 1 .. Len(c)
  BY TraceIs
<1>2. /\ s \in Seq(Int) /\ Len(s) = b - a + 1
      /\ \A i \in 1 .. b - a + 1 : s[i] = c[a + i - 1]
  <2>1. /\ s \in Seq(Int) /\ Len(s) = IF a <= b THEN b - a + 1 ELSE 0
        /\ \A i \in 1 .. b - a + 1 : s[i] = c[a + i - 1]
    BY ONLY <1>1, SubSeqProperties
  <2> HIDE DEF s
  <2> QED BY <2>1
<1> HIDE DEF s
<1>3. \A i \in 1 .. b - a + 1 : a + i - 1 \in 1 .. Len(c)
  BY <1>1
<1>4. ASSUME NEW i \in 1 .. Len(s), NEW j \in 1 .. Len(s), i <= j PROVE s[i] <= s[j]
  <2>1. i \in 1 .. b - a + 1 /\ j \in 1 .. b - a + 1 /\ a + i - 1 <= a + j - 1
    BY <1>1, <1>2, <1>4
  <2> QED BY <1>2, <1>3, <2>1, TraceIs
<1>5. 1 \in 1 .. b - a + 1 /\ b - a + 1 \in 1 .. b - a + 1 /\ a + 1 - 1 = a
      /\ a + (b - a + 1) - 1 = b /\ b - a + 1 >= 1
  BY <1>1
<1>6. Trace(s)
  BY <1>2, <1>4, <1>5 DEF Trace, Sorted
<1>7. s[1] = c[a] /\ s[b - a + 1] = c[b]
  BY <1>2, <1>5
<1> QED BY <1>2, <1>6, <1>7 DEF s

\* bisect_right: the fixes up to a time are the first ones.
LEMMA CountUpTo ==
    ASSUME NEW c, Trace(c), NEW time \in Int, c[1] < time, time < c[Len(c)]
    PROVE  LET k == Cardinality({i \in DOMAIN c : c[i] <= time})
           IN  k \in 1 .. Len(c) - 1 /\ c[k] <= time /\ time < c[k + 1]
<1> DEFINE n == Len(c)
           S == {i \in 1 .. n : c[i] <= time}
           k == Max(S)
<1>1. /\ n \in Nat \ {0} /\ DOMAIN c = 1 .. n /\ \A i \in 1 .. n : c[i] \in Int
      /\ \A i, j \in 1 .. n : i <= j => c[i] <= c[j]
  BY TraceIs
<1>2. S \subseteq 1 .. n /\ 1 \in S /\ n \notin S
  BY <1>1
<1> HIDE DEF n
<1>3. k \in S /\ \A i \in S : i <= k
  <2> HIDE DEF S
  <2> QED BY <1>1, <1>2, LargestOf
<1> HIDE DEF k
<1>4. S = 1 .. k
  <2>1. ASSUME NEW i \in 1 .. k PROVE i \in S
    <3>1. i \in 1 .. n /\ i <= k /\ k \in 1 .. n /\ c[k] <= time
      BY <1>1, <1>3
    <3>2. c[i] <= c[k] /\ c[i] \in Int /\ c[k] \in Int
      BY <1>1, <3>1
    <3> QED BY <3>1, <3>2
  <2>2. ASSUME NEW i \in S PROVE i \in 1 .. k
    <3>1. i \in 1 .. n /\ i <= k /\ k \in 1 .. n
      BY <1>2, <1>3
    <3> QED BY ONLY <1>1, <3>1
  <2> HIDE DEF S
  <2> QED BY <2>1, <2>2
<1>5. k \in 1 .. n - 1
  BY <1>1, <1>2, <1>3
<1>6. Cardinality(S) = k
  <2>1. Cardinality(1 .. k) = k
    <3>1. k \in Int /\ ~(1 > k) /\ k - 1 + 1 = k
      BY <1>5
    <3> QED BY <3>1, FS_Interval
  <2> QED BY <1>4, <2>1
<1>7. c[k] <= time /\ time < c[k + 1]
  <2>0. k \in Int /\ k + 1 \in 1 .. n /\ ~(k + 1 <= k)
    BY ONLY <1>1, <1>5
  <2>1. k + 1 \in 1 .. n /\ k + 1 \notin S
    BY ONLY <1>4, <2>0
  <2>2. c[k + 1] \in Int
    BY <1>1, <2>1
  <2> QED BY <1>3, <2>1, <2>2
<1> QED BY <1>1, <1>5, <1>6, <1>7 DEF n

\* The traces e and l, joined as c, are cut at a time after the fix k.
Cut(e, l, time, c, k, exact, before, after) ==
    /\ Trace(e) /\ Trace(l) /\ e[Len(e)] <= l[1]
    /\ time \in Int /\ c = e \o l /\ c[1] < time /\ time < c[Len(c)]
    /\ k = Cardinality({i \in DOMAIN c : c[i] <= time})
    /\ exact \in BOOLEAN /\ (exact <=> c[k] = time)
    /\ before = SubSeq(c, 1, k) \o (IF exact THEN <<>> ELSE <<time>>)
    /\ after = (IF exact THEN <<>> ELSE <<time>>) \o SubSeq(c, k + 1, Len(c))

\* The two halves of split_segments.
LEMMA CutIsCorrect ==
    ASSUME NEW e, NEW l, NEW time, NEW c, NEW k, NEW exact, NEW before, NEW after,
           Cut(e, l, time, c, k, exact, before, after)
    PROVE  /\ Trace(before) /\ before[1] = e[1] /\ before[Len(before)] = time
           /\ Trace(after) /\ after[Len(after)] = l[Len(l)] /\ e[1] < after[1]
<1> DEFINE n == Len(c)
           pre == SubSeq(c, 1, k)
           post == SubSeq(c, k + 1, n)
<1>0. /\ Trace(e) /\ Trace(l) /\ e[Len(e)] <= l[1] /\ c = e \o l
      /\ time \in Int /\ c[1] < time /\ time < c[Len(c)]
      /\ k = Cardinality({i \in DOMAIN c : c[i] <= time})
      /\ exact \in BOOLEAN /\ (exact <=> c[k] = time)
      /\ before = SubSeq(c, 1, k) \o (IF exact THEN <<>> ELSE <<time>>)
      /\ after = (IF exact THEN <<>> ELSE <<time>>) \o SubSeq(c, k + 1, Len(c))
  BY DEF Cut
<1>11. time \in Int /\ c[1] < time
  BY <1>0
<1>1. Trace(c) /\ c[1] = e[1] /\ c[n] = l[Len(l)]
  BY <1>0, Joined
<1>2. k \in 1 .. n - 1 /\ c[k] <= time /\ time < c[k + 1]
  BY <1>0, <1>1, CountUpTo
<1>3. n \in Nat \ {0} /\ \A i \in 1 .. n : c[i] \in Int
  BY <1>1, TraceIs
<1> HIDE DEF n
<1>4. /\ 1 \in 1 .. n /\ k \in 1 .. n /\ 1 <= k /\ k + 1 \in 1 .. n /\ n \in 1 .. n
      /\ k + 1 <= n
  BY ONLY <1>2, <1>3
<1>5. Trace(pre) /\ pre[1] = c[1] /\ pre[Len(pre)] = c[k]
  BY <1>1, <1>4, Piece DEF n
<1>6. Trace(post) /\ post[1] = c[k + 1] /\ post[Len(post)] = c[n]
  BY <1>1, <1>4, Piece DEF n
<1>7. c[1] \in Int /\ c[k] \in Int /\ c[k + 1] \in Int
  BY <1>3, <1>4
<1>8. before = pre \o (IF exact THEN <<>> ELSE <<time>>)
      /\ after = (IF exact THEN <<>> ELSE <<time>>) \o post
  BY <1>0 DEF n
<1> HIDE DEF pre, post
<1>9. CASE exact
  <2>1. pre \o <<>> = pre /\ <<>> \o post = post
    <3>1. pre \in Seq(Int) /\ post \in Seq(Int)
      BY <1>5, <1>6 DEF Trace
    <3> QED BY ONLY <3>1, ConcatEmptySeq
  <2>2. before = pre /\ after = post /\ c[k] = time
    BY <1>0, <1>8, <1>9, <2>1
  <2> QED BY ONLY <1>1, <1>2, <1>5, <1>6, <1>7, <2>2, <1>11
<1>10. CASE ~exact
  <2> DEFINE one == <<time>>
  <2>1. before = pre \o one /\ after = one \o post
    BY <1>8, <1>10
  <2>2. Trace(one) /\ Len(one) = 1 /\ one[1] = time
    BY <1>0, OneFix
  <2> HIDE DEF one
  <2>3. Trace(before) /\ before[1] = pre[1] /\ before[Len(before)] = one[1]
    <3>1. pre[Len(pre)] <= one[1]
      BY ONLY <1>2, <1>5, <2>2
    <3>2. one[Len(one)] = one[1]
      BY ONLY <2>2
    <3> QED BY ONLY <1>5, <2>1, <2>2, <3>1, <3>2, Joined
  <2>4. Trace(after) /\ after[1] = one[1] /\ after[Len(after)] = post[Len(post)]
    <3>1. one[Len(one)] <= post[1]
      BY ONLY <1>2, <1>6, <1>7, <2>2, <1>11
    <3> QED BY ONLY <1>6, <2>1, <2>2, <3>1, Joined
  <2> QED BY ONLY <1>1, <1>5, <1>6, <2>2, <2>3, <2>4, <1>11
<1> QED BY <1>9, <1>10

LEMMA FreshRow ==
    ASSUME NEW p, Trace(p), Len(p) >= 2, p[1] < p[Len(p)], NEW kind
    PROVE  /\ RowCorrect(Segment(p, kind)) /\ Segment(p, kind).points = p
           /\ Segment(p, kind).kind = kind
           /\ First(Segment(p, kind)) = p[1] /\ Final(Segment(p, kind)) = p[Len(p)]
<1> DEFINE r == Segment(p, kind)
<1>1. r = [points |-> p, kind |-> kind, route |-> <<>>, status |-> "none"]
  BY DEF Segment
<1> HIDE DEF r
<1>2. r.points = p /\ r.kind = kind /\ r.route = <<>> /\ r.status = "none"
  BY <1>1
<1>3. First(r) = p[1] /\ Final(r) = p[Len(p)]
  BY <1>2 DEF First, Final
<1>4. RowCorrect(r)
  <2>1. r.route \in Seq(Int)
    BY <1>2, EmptySeq
  <2> QED BY <1>1, <1>2, <1>3, <2>1 DEF RowCorrect, Askable, Trace
<1> QED BY <1>2, <1>3, <1>4 DEF r

LEMMA ImportsCorrect == \A rows \in Imports : RowsCorrect(rows)
<1> SUFFICES ASSUME NEW rows \in Imports PROVE RowsCorrect(rows)
  OBVIOUS
<1>1. IsFiniteSet(rows) /\ KeysUnique(rows)
  BY SegmentConstants DEF KeysUnique
<1>2. ASSUME NEW r \in rows PROVE RowCorrect(r)
  <2> DEFINE p == r.points  kind == r.kind
  <2>1. /\ r = Segment(p, kind) /\ p \in Seq(Int) /\ Len(p) >= 2
        /\ First(r) < Final(r)
        /\ \A i, j \in DOMAIN p : i <= j => p[i] <= p[j]
    <3>1. \A s \in rows :
             /\ s = Segment(s.points, s.kind)
             /\ s.points \in Seq(Int) /\ Len(s.points) >= 2 /\ First(s) < Final(s)
             /\ \A i, j \in DOMAIN s.points : i <= j => s.points[i] <= s.points[j]
      BY ONLY rows \in Imports, SegmentConstants
    <3> QED BY ONLY <3>1, r \in rows DEF p, kind
  <2>2. Trace(p) /\ p[1] < p[Len(p)]
    <3>1. DOMAIN p = 1 .. Len(p) /\ Len(p) \in Nat
      BY <2>1, LenProperties
    <3>2. p[1] < p[Len(p)]
      BY ONLY <2>1 DEF First, Final, p
    <3>3. \A i, j \in DOMAIN p : i <= j => p[i] <= p[j]
      BY ONLY <2>1
    <3> HIDE DEF p
    <3>4. Sorted(p)
      BY ONLY <3>1, <3>3 DEF Sorted
    <3>5. p \in Seq(Int) /\ Len(p) >= 2
      BY ONLY <2>1
    <3>6. Len(p) >= 1
      BY ONLY <3>1, <3>5
    <3> QED BY ONLY <3>2, <3>4, <3>5, <3>6 DEF Trace
  <2> HIDE DEF p, kind
  <2>3. RowCorrect(Segment(p, kind))
    BY <2>1, <2>2, FreshRow
  <2> QED BY <2>1, <2>3
<1> QED BY <1>1, <1>2 DEF RowsCorrect

LEMMA RowIs ==
    ASSUME NEW r, RowCorrect(r)
    PROVE  /\ Trace(r.points) /\ First(r) = r.points[1] /\ Final(r) = r.points[Len(r.points)]
           /\ First(r) \in Int /\ Final(r) \in Int /\ First(r) < Final(r)
<1> DEFINE p == r.points
<1>1. Trace(p) /\ First(r) = p[1] /\ Final(r) = p[Len(p)] /\ First(r) < Final(r)
  BY DEF RowCorrect, Askable, Trace, First, Final
<1> HIDE DEF p
<1>2. Len(p) \in Nat \ {0} /\ \A i \in 1 .. Len(p) : p[i] \in Int
  BY <1>1, TraceIs
<1>3. 1 \in 1 .. Len(p) /\ Len(p) \in 1 .. Len(p)
  BY <1>2
<1> QED BY <1>1, <1>2, <1>3 DEF p

LEMMA KeyIs ==
    ASSUME NEW r, NEW s
    PROVE  Key(r) = Key(s) <=> First(r) = First(s) /\ Final(r) = Final(s)
BY DEF Key

\* A boundary edit makes two rows without a road, and one with the fixes of a
\* row it replaces has also that row's kind.
LEMMA SplitIsCorrect ==
    ASSUME NEW a, NEW b, RowCorrect(a), RowCorrect(b), NEW time \in Int,
           NEW split, split = SplitSegments(a, b, time), split.ok
    PROVE  /\ RowsCorrect(split.rows)
           /\ \A r \in {a, b}, s \in split.rows :
                Key(s) = Key(r) /\ s.points = r.points => s = Segment(r.points, r.kind)
<1> DEFINE early == IF First(a) <= First(b) THEN a ELSE b
           late == IF First(a) <= First(b) THEN b ELSE a
           c == early.points \o late.points
           k == Cardinality({i \in DOMAIN c : c[i] <= time})
           exact == k > 0 /\ c[k] = time
           before == SubSeq(c, 1, k) \o (IF exact THEN <<>> ELSE <<time>>)
           after == (IF exact THEN <<>> ELSE <<time>>) \o SubSeq(c, k + 1, Len(c))
           sb == Segment(before, early.kind)
           sa == Segment(after, late.kind)
<1>1. /\ Final(early) <= First(late) /\ c[1] < time /\ time < c[Len(c)]
      /\ Len(before) >= 2 /\ Len(after) >= 2
      /\ TraceLength(before) >= MinSplitLength /\ TraceLength(after) >= MinSplitLength
  BY DEF SplitSegments
<1>2. split.rows = {sb, sa}
  BY DEF SplitSegments
<1>3. RowCorrect(early) /\ RowCorrect(late) /\ (\A r \in {a, b} : r = early \/ r = late)
  OBVIOUS
<1> HIDE DEF early, late
<1> DEFINE e == early.points  l == late.points
<1>4. /\ Trace(e) /\ Trace(l) /\ First(early) = e[1] /\ First(late) = l[1]
      /\ Final(early) = e[Len(e)] /\ Final(late) = l[Len(l)] /\ e[Len(e)] <= l[1]
      /\ e[1] \in Int /\ e[Len(e)] \in Int /\ l[1] \in Int /\ l[Len(l)] \in Int
      /\ e[1] < e[Len(e)] /\ l[1] < l[Len(l)]
  BY <1>1, <1>3, RowIs
<1>5. c = e \o l
  OBVIOUS
<1> HIDE DEF e, l, c
<1>6. k \in 1 .. Len(c) - 1
  <2>1. Trace(c)
    BY <1>4, <1>5, Joined
  <2> QED BY <1>1, <2>1, CountUpTo
<1> HIDE DEF k
<1>7. exact \in BOOLEAN /\ (exact <=> c[k] = time)
  BY <1>6
<1> HIDE DEF exact
<1>8. k = Cardinality({i \in DOMAIN c : c[i] <= time})
      /\ before = SubSeq(c, 1, k) \o (IF exact THEN <<>> ELSE <<time>>)
      /\ after = (IF exact THEN <<>> ELSE <<time>>) \o SubSeq(c, k + 1, Len(c))
  BY DEF k
<1> HIDE DEF before, after
<1>9. /\ Trace(before) /\ before[1] = e[1] /\ before[Len(before)] = time
      /\ Trace(after) /\ after[Len(after)] = l[Len(l)] /\ e[1] < after[1]
  <2>1. Cut(e, l, time, c, k, exact, before, after)
    BY ONLY <1>1, <1>4, <1>5, <1>7, <1>8, time \in Int DEF Cut
  <2> QED BY ONLY <2>1, CutIsCorrect
<1>10. before[1] < before[Len(before)] /\ after[1] < after[Len(after)]
  <2>1. \A p : Trace(p) => p[1] \in Int /\ p[Len(p)] \in Int
    <3> SUFFICES ASSUME NEW p, Trace(p) PROVE p[1] \in Int /\ p[Len(p)] \in Int
      OBVIOUS
    <3>1. Len(p) \in Nat \ {0} /\ \A i \in 1 .. Len(p) : p[i] \in Int
      BY TraceIs
    <3>2. 1 \in 1 .. Len(p) /\ Len(p) \in 1 .. Len(p)
      BY <3>1
    <3> QED BY <3>1, <3>2
  <2> DEFINE x == before[1]  y == before[Len(before)]  u == after[1]  v == after[Len(after)]
  <2>2. x \in Int /\ y \in Int /\ u \in Int /\ v \in Int
    BY <1>9, <2>1
  <2>3. y - x >= MinSplitLength /\ v - u >= MinSplitLength
    BY <1>1 DEF TraceLength
  <2> HIDE DEF x, y, u, v
  <2>4. x < y /\ u < v
    BY ONLY <2>2, <2>3, SegmentConstants
  <2> QED BY <2>4 DEF x, y, u, v
<1>11. /\ RowCorrect(sb) /\ sb.points = before /\ sb.kind = early.kind
       /\ First(sb) = before[1] /\ Final(sb) = before[Len(before)]
  BY <1>1, <1>9, <1>10, FreshRow
<1>12. /\ RowCorrect(sa) /\ sa.points = after /\ sa.kind = late.kind
       /\ First(sa) = after[1] /\ Final(sa) = after[Len(after)]
  BY <1>1, <1>9, <1>10, FreshRow
<1>13. sb = Segment(sb.points, early.kind) /\ sa = Segment(sa.points, late.kind)
  BY <1>11, <1>12
<1> HIDE DEF sb, sa
<1>14. First(sb) # First(sa)
  <2>1. First(sb) \in Int /\ First(sa) \in Int
    BY <1>11, <1>12, RowIs
  <2> QED BY <1>4, <1>9, <1>11, <1>12, <2>1
<1>15. RowsCorrect(split.rows)
  <2>1. IsFiniteSet({sb, sa})
    <3>1. IsFiniteSet({sb}) /\ IsFiniteSet({sa}) /\ {sb, sa} = {sb} \cup {sa}
      BY FS_Singleton
    <3> QED BY <3>1, FS_Union
  <2>2. KeysUnique({sb, sa})
    <3>1. Key(sb) # Key(sa)
      BY <1>14, KeyIs
    <3> QED BY <3>1 DEF KeysUnique
  <2> QED BY <1>2, <1>11, <1>12, <2>1, <2>2 DEF RowsCorrect
<1>16. First(sb) # First(late)
  <2>1. First(sb) = e[1] /\ First(late) = l[1] /\ e[1] < l[1]
    BY <1>4, <1>9, <1>11
  <2> QED BY <1>4, <2>1
<1>17. Final(sa) # Final(early)
  <2>1. Final(sa) = l[Len(l)] /\ Final(early) = e[Len(e)] /\ e[Len(e)] < l[Len(l)]
    BY <1>4, <1>9, <1>12
  <2> QED BY <1>4, <2>1
<1>18. ASSUME NEW r \in {a, b}, NEW s \in split.rows, Key(s) = Key(r), s.points = r.points
       PROVE  s = Segment(r.points, r.kind)
  <2>1. First(s) = First(r) /\ Final(s) = Final(r)
    BY <1>18, KeyIs
  <2>2. (s = sb /\ r = early) \/ (s = sa /\ r = late)
    BY <1>2, <1>3, <1>16, <1>17, <2>1
  <2> QED BY <1>13, <1>18, <2>2
<1> QED BY <1>15, <1>18

-----------------------------------------------------------------------------
(* The rows across every step *)

\* A sequence of its own members.
Own(s) == s \in Seq(ToSet(s))

LEMMA SeqIsOwn ==
    ASSUME NEW T, NEW s \in Seq(T)
    PROVE  Own(s)
<1>1. Len(s) \in Nat /\ s \in [1 .. Len(s) -> T] /\ DOMAIN s = 1 .. Len(s)
  BY LenProperties
<1>2. s \in [1 .. Len(s) -> ToSet(s)]
  BY <1>1 DEF ToSet
<1> QED BY <1>1, <1>2, SeqDef DEF Own

\* What the workflows hold are sequences.
SequencesOK == \A w \in Workflows : Own(wf[w].batch) /\ Own(wf[w].asked)

RowsInv == RowsCorrect(segs) /\ SequencesOK

LEMMA EmptyOwn == Own(<<>>)
BY EmptySeq, SeqIsOwn

LEMMA HeldUpdate ==
    ASSUME TypeOK, SequencesOK, NEW w \in Workflows, NEW new, Own(new.batch), Own(new.asked),
           wf' = [wf EXCEPT ![w] = new]
    PROVE  SequencesOK'
<1>1. DOMAIN wf = Workflows
  BY DEF TypeOK
<1>2. \A v \in Workflows : wf'[v] = IF v = w THEN new ELSE wf[v]
  BY <1>1
<1> QED BY <1>2, Zenon DEF SequencesOK

\* A row whose outcome is recorded is not asked about.
LEMMA RecordedRests ==
    ASSUME NEW r, RowCorrect(r), r.status # "none"
    PROVE  ~NeedsRouteEnrichment(r)
<1>1. r.status = "matched" => Len(r.route) >= 2 /\ Len(r.route) \in Nat
  BY LenProperties DEF RowCorrect, Follows
<1> QED BY <1>1 DEF NeedsRouteEnrichment

\* The rows of a step that keeps what is recorded.
Keeps(rows, new) ==
    \A r \in rows : r.status # "none" =>
        \A s \in At(new, Key(r)) : s.points = r.points => s \in {r, Segment(r.points, r.kind)}

LEMMA SuccessionKeeps ==
    ASSUME NEW rows, RowsCorrect(rows), NEW new, Succeeds(new, rows)
    PROVE  Keeps(rows, new)
<1> SUFFICES ASSUME NEW r \in rows, r.status # "none", NEW s \in At(new, Key(r)) PROVE s = r
  BY DEF Keeps
<1>1. s \in new /\ Key(s) = Key(r)
  BY DEF At
<1>2. RowCorrect(r) /\ \A q \in rows : Key(q) = Key(r) => q = r
  BY DEF RowsCorrect, KeysUnique
<1>3. s \in rows \/ \E q \in rows : NeedsRouteEnrichment(q) /\ Key(q) = Key(s)
  BY <1>1 DEF Succeeds
<1>4. ASSUME NEW q \in rows, NeedsRouteEnrichment(q), Key(q) = Key(s) PROVE FALSE
  BY <1>1, <1>2, <1>4, RecordedRests
<1> QED BY <1>1, <1>2, <1>3, <1>4

LEMMA EditKeepsRows ==
    ASSUME RowsCorrect(segs), AdjustSegmentBoundary
    PROVE  RowsCorrect(segs') /\ Keeps(segs, segs')
<1>1. PICK target \in segs, handle \in {"start", "end"}, time \in Boundaries :
         \E adjacent \in Adjacent(segs, target, handle) :
            LET split == SplitSegments(target, adjacent, time)
                others == segs \ {target, adjacent}
            IN  /\ split.ok
                /\ \A row \in split.rows : At(others, Key(row)) = {}
                /\ segs' = others \cup split.rows
  BY DEF AdjustSegmentBoundary
<1>2. PICK adjacent \in Adjacent(segs, target, handle) :
            LET split == SplitSegments(target, adjacent, time)
                others == segs \ {target, adjacent}
            IN  /\ split.ok
                /\ \A row \in split.rows : At(others, Key(row)) = {}
                /\ segs' = others \cup split.rows
  BY <1>1
<1> DEFINE split == SplitSegments(target, adjacent, time)
           others == segs \ {target, adjacent}
<1>3. split.ok /\ (\A row \in split.rows : At(others, Key(row)) = {})
      /\ segs' = others \cup split.rows
  BY <1>2
<1>4. target \in segs /\ adjacent \in segs /\ time \in Int
  BY SegmentConstants DEF Adjacent
<1>5. /\ RowsCorrect(split.rows)
      /\ \A r \in {target, adjacent}, s \in split.rows :
            Key(s) = Key(r) /\ s.points = r.points => s = Segment(r.points, r.kind)
  <2>1. RowCorrect(target) /\ RowCorrect(adjacent)
    BY <1>4 DEF RowsCorrect
  <2> QED BY <1>3, <1>4, <2>1, SplitIsCorrect
<1>6. others \subseteq segs /\ \A r \in segs : r \in others \/ r \in {target, adjacent}
  OBVIOUS
<1> HIDE DEF split, others
<1>7. \A row \in split.rows, o \in others : Key(row) # Key(o)
  BY <1>3 DEF At
<1>8. RowsCorrect(segs')
  <2>1. IsFiniteSet(others) /\ IsFiniteSet(split.rows)
    BY <1>5, <1>6, FS_Subset DEF RowsCorrect
  <2>2. IsFiniteSet(segs')
    BY <1>3, <2>1, FS_Union
  <2>3. KeysUnique(segs')
    <3>1. KeysUnique(others) /\ KeysUnique(split.rows)
      BY <1>5, <1>6 DEF RowsCorrect, KeysUnique
    <3> SUFFICES ASSUME NEW r \in segs', NEW s \in segs', Key(r) = Key(s) PROVE r = s
      BY DEF KeysUnique
    <3>2. (r \in others \/ r \in split.rows) /\ (s \in others \/ s \in split.rows)
      BY <1>3
    <3> QED BY <1>7, <3>1, <3>2 DEF KeysUnique
  <2>4. \A r \in segs' : RowCorrect(r)
    BY <1>3, <1>5, <1>6 DEF RowsCorrect
  <2> QED BY <2>2, <2>3, <2>4 DEF RowsCorrect
<1>9. Keeps(segs, segs')
  <2> SUFFICES ASSUME NEW r \in segs, NEW s \in At(segs', Key(r)), s.points = r.points
               PROVE  s \in {r, Segment(r.points, r.kind)}
    BY DEF Keeps
  <2>1. s \in segs' /\ Key(s) = Key(r)
    BY DEF At
  <2>2. CASE s \in others
    BY <1>6, <2>1, <2>2 DEF RowsCorrect, KeysUnique
  <2>3. CASE s \in split.rows
    BY <1>5, <1>6, <1>7, <2>1, <2>3
  <2> QED BY <1>3, <2>1, <2>2, <2>3
<1> QED BY <1>8, <1>9

\* The rows and the sequences across every step, and what stays recorded.
Preserved == RowsInv' /\ (ImportAgain \/ Keeps(segs, segs'))

LEMMA UnchangedKeeps == RowsInv /\ segs' = segs => RowsCorrect(segs') /\ Keeps(segs, segs')
<1> SUFFICES ASSUME RowsInv, segs' = segs PROVE RowsCorrect(segs') /\ Keeps(segs, segs')
  OBVIOUS
<1>1. RowsCorrect(segs)
  BY DEF RowsInv
<1>2. Succeeds(segs, segs)
  BY DEF Succeeds
<1>3. Keeps(segs, segs)
  BY <1>1, <1>2, SuccessionKeeps
<1> QED BY <1>1, <1>3

LEMMA UpdatePreserves ==
    ASSUME TypeOK, RowsInv, NEW w \in Workflows, NEW new, Own(new.batch), Own(new.asked),
           wf' = [wf EXCEPT ![w] = new], RowsCorrect(segs'), Keeps(segs, segs')
    PROVE  Preserved
<1>1. SequencesOK'
  BY HeldUpdate DEF RowsInv
<1> QED BY <1>1 DEF Preserved, RowsInv

LEMMA FieldsOf ==
    ASSUME TypeOK, SequencesOK, NEW w \in Workflows
    PROVE  /\ DOMAIN wf[w] = {"pc", "batch", "asked", "tries", "failed"}
           /\ Own(wf[w].batch) /\ Own(wf[w].asked)
BY DEF TypeOK, SequencesOK

LEMMA OthersPreserve ==
    ASSUME TypeOK, RowsInv,
           AdjustSegmentBoundary \/ ImportAgain \/ StartFails \/ CrashAndRestart \/ UNCHANGED vars
    PROVE  Preserved
<1> USE DEF RowsInv
<1>1. CASE AdjustSegmentBoundary
  <2>1. wf' = wf
    BY <1>1 DEF AdjustSegmentBoundary
  <2>2. SequencesOK'
    BY <2>1 DEF SequencesOK
  <2> QED BY <1>1, <2>2, EditKeepsRows DEF Preserved
<1>2. CASE ImportAgain
  <2>1. wf' = wf /\ segs' \in Imports
    BY <1>2 DEF ImportAgain
  <2>2. SequencesOK' /\ RowsCorrect(segs')
    BY <2>1, ImportsCorrect DEF SequencesOK
  <2> QED BY <1>2, <2>2 DEF Preserved
<1>3. CASE StartFails \/ UNCHANGED vars
  <2>1. wf' = wf /\ segs' = segs
    BY <1>3 DEF StartFails, vars
  <2>2. SequencesOK'
    BY <2>1 DEF SequencesOK
  <2> QED BY <2>1, <2>2, UnchangedKeeps DEF Preserved
<1>4. CASE CrashAndRestart
  <2>1. segs' = segs
        /\ \A w \in Workflows : wf'[w] = IF wf[w].pc \in {"asking", "wrote", "fallback"}
              THEN [wf[w] EXCEPT !.pc = "match", !.asked = <<>>, !.tries = 0] ELSE wf[w]
    BY <1>4 DEF CrashAndRestart
  <2>2. ASSUME NEW w \in Workflows PROVE Own(wf'[w].batch) /\ Own(wf'[w].asked)
    <3> DEFINE new == [wf[w] EXCEPT !.pc = "match", !.asked = <<>>, !.tries = 0]
    <3>1. Own(wf[w].batch) /\ Own(wf[w].asked) /\ new.batch = wf[w].batch /\ new.asked = <<>>
      BY FieldsOf
    <3>2. wf'[w] = new \/ wf'[w] = wf[w]
      BY <2>1
    <3> HIDE DEF new
    <3> QED BY <3>1, <3>2, EmptyOwn
  <2>3. SequencesOK'
    BY <2>2 DEF SequencesOK
  <2> QED BY <2>1, <2>3, UnchangedKeeps DEF Preserved
<1> QED BY <1>1, <1>2, <1>3, <1>4

\* A step of a workflow that leaves the rows alone and holds sequences.
LEMMA StepPreserves ==
    ASSUME TypeOK, RowsInv, NEW w \in Workflows, NEW new, Own(new.batch), Own(new.asked),
           wf' = [wf EXCEPT ![w] = new], segs' = segs
    PROVE  Preserved
BY UnchangedKeeps, UpdatePreserves

LEMMA StartPreserves == ASSUME TypeOK, RowsInv, NEW w \in Workflows, StartWorkflow(w) PROVE Preserved
<1> DEFINE new == [Idle EXCEPT !.pc = "plan"]
<1>1. wf' = [wf EXCEPT ![w] = new] /\ segs' = segs
  BY DEF StartWorkflow
<1>2. new.batch = <<>> /\ new.asked = <<>>
  BY DEF Idle
<1> HIDE DEF new
<1> QED BY <1>1, <1>2, EmptyOwn, StepPreserves

LEMMA PlanPreserves == ASSUME TypeOK, RowsInv, NEW w \in Workflows, PlanBatch(w) PROVE Preserved
<1>1. PICK candidates \in RouteCandidates(segs) :
        wf' = [wf EXCEPT ![w] =
                 IF Waiting(segs) = {} THEN Finish(w)
                 ELSE [wf[w] EXCEPT !.pc = IF RouteRequestBatch(candidates) = <<>> THEN "error" ELSE "match",
                                    !.batch = RouteRequestBatch(candidates), !.tries = 0]]
  BY DEF PlanBatch
<1> DEFINE batch == RouteRequestBatch(candidates)
           next == IF batch = <<>> THEN "error" ELSE "match"
           ended == Finish(w)
           going == [wf[w] EXCEPT !.pc = next, !.batch = batch, !.tries = 0]
           new == IF Waiting(segs) = {} THEN ended ELSE going
<1>2. wf' = [wf EXCEPT ![w] = new] /\ segs' = segs
  BY <1>1 DEF PlanBatch
<1>3. Own(batch)
  <2>1. IsFiniteSet(Waiting(segs)) /\ \A r \in Waiting(segs) : Askable(r)
    <3>1. Waiting(segs) \subseteq segs
      BY DEF Waiting
    <3>2. IsFiniteSet(Waiting(segs))
      BY <3>1, FS_Subset DEF RowsInv, RowsCorrect
    <3> QED BY <3>1, <3>2 DEF RowsInv, RowsCorrect, RowCorrect
  <2>2. candidates \in Seq(Waiting(segs))
    <3>1. candidates \in SetToSeqs(Waiting(segs))
      BY DEF RouteCandidates
    <3> QED BY <2>1, <3>1, OrdersAreSeqs
  <2>3. batch \in Seq(Waiting(segs))
    BY <2>1, <2>2, BatchIsSeq
  <2> QED BY <2>3, SeqIsOwn
<1> HIDE DEF batch, next
<1>4. Own(wf[w].batch) /\ Own(wf[w].asked)
      /\ DOMAIN wf[w] = {"pc", "batch", "asked", "tries", "failed"}
  BY FieldsOf DEF RowsInv
<1>5. ended.batch = wf[w].batch /\ ended.asked = wf[w].asked
  BY <1>4 DEF Finish
<1>6. going.batch = batch /\ going.asked = wf[w].asked
  BY <1>4
<1> HIDE DEF ended, going
<1>7. Own(new.batch) /\ Own(new.asked)
  BY <1>3, <1>4, <1>5, <1>6
<1> HIDE DEF new
<1> QED BY <1>2, <1>7, StepPreserves

LEMMA RunningPreserves == ASSUME TypeOK, RowsInv, NEW w \in Workflows, AlreadyRunning(w) PROVE Preserved
<1> DEFINE new == Finish(w)
<1>1. wf' = [wf EXCEPT ![w] = new] /\ segs' = segs
  BY DEF AlreadyRunning
<1>2. Own(new.batch) /\ Own(new.asked)
  <2>1. new.batch = wf[w].batch /\ new.asked = wf[w].asked
    BY FieldsOf DEF RowsInv, Finish
  <2> QED BY <2>1, FieldsOf DEF RowsInv
<1> HIDE DEF new
<1> QED BY <1>1, <1>2, StepPreserves

LEMMA ReadPreserves == ASSUME TypeOK, RowsInv, NEW w \in Workflows, ReadSnapshots(w) PROVE Preserved
<1> DEFINE asked == SnapshotsForKeys(segs, wf[w].batch)
           none == [wf[w] EXCEPT !.pc = "plan"]
           some == [wf[w] EXCEPT !.pc = "asking", !.asked = asked]
<1>1. segs' = segs /\ (wf' = [wf EXCEPT ![w] = none] \/ wf' = [wf EXCEPT ![w] = some])
  BY DEF ReadSnapshots
<1>2. /\ DOMAIN wf[w] = {"pc", "batch", "asked", "tries", "failed"}
      /\ Own(wf[w].batch) /\ Own(wf[w].asked)
  BY FieldsOf DEF RowsInv
<1>3. Own(asked)
  <2>1. IsFiniteSet(segs) /\ wf[w].batch \in Seq(ToSet(wf[w].batch))
    BY <1>2 DEF RowsInv, RowsCorrect, Own
  <2>2. asked \in Seq(segs)
    BY <2>1, AskedIsSeq
  <2> QED BY <2>2, SeqIsOwn
<1> HIDE DEF asked
<1>4. none.batch = wf[w].batch /\ none.asked = wf[w].asked
  BY <1>2
<1>5. some.batch = wf[w].batch /\ some.asked = asked
  BY <1>2
<1> HIDE DEF none, some
<1>6. CASE wf' = [wf EXCEPT ![w] = none]
  BY <1>1, <1>2, <1>4, <1>6, StepPreserves
<1>7. CASE wf' = [wf EXCEPT ![w] = some]
  BY <1>1, <1>2, <1>3, <1>5, <1>7, StepPreserves
<1> QED BY <1>1, <1>6, <1>7

LEMMA WritePreserves == ASSUME TypeOK, RowsInv, NEW w \in Workflows, WriteResults(w) PROVE Preserved
<1> DEFINE asked == wf[w].asked
<1>1. PICK outcomes \in MatchSegments(asked) :
        LET count(S) == Cardinality({i \in DOMAIN outcomes : outcomes[i].error \in S
                                       \/ outcomes[i].status \in S})
        IN  /\ segs' = WriteOutcomes(segs, asked, outcomes)
            /\ wf' = [wf EXCEPT ![w].pc =
                        IF count({"request_budget_exceeded"}) > 0 THEN "fallback" ELSE "wrote",
                        ![w].failed = IF @ + count({"failed"}) > 0 THEN 1 ELSE 0]
  BY DEF WriteResults
<1> DEFINE count(S) == Cardinality({i \in DOMAIN outcomes : outcomes[i].error \in S
                                       \/ outcomes[i].status \in S})
           next == IF count({"request_budget_exceeded"}) > 0 THEN "fallback" ELSE "wrote"
           bad == IF wf[w].failed + count({"failed"}) > 0 THEN 1 ELSE 0
           new == [wf[w] EXCEPT !.pc = next, !.failed = bad]
<1>2. segs' = WriteOutcomes(segs, asked, outcomes)
  BY <1>1
<1>3. wf' = [wf EXCEPT ![w].pc = next, ![w].failed = bad]
  BY <1>1
<1> HIDE DEF next, bad
<1>4. wf' = [wf EXCEPT ![w] = new]
  BY <1>3
<1>5. /\ DOMAIN wf[w] = {"pc", "batch", "asked", "tries", "failed"}
      /\ Own(wf[w].batch) /\ Own(wf[w].asked)
  BY FieldsOf DEF RowsInv
<1>6. new.batch = wf[w].batch /\ new.asked = wf[w].asked
  BY <1>5
<1>7. RowsCorrect(segs') /\ Keeps(segs, segs')
  <2>1. Len(asked) \in Nat /\ DOMAIN asked = 1 .. Len(asked)
    BY <1>5, LenProperties DEF Own
  <2>2. \A i \in 1 .. Len(asked) : Fits(asked[i], outcomes[i])
    BY <2>1, AnswersFit
  <2>3. RowsCorrect(segs)
    BY DEF RowsInv
  <2> HIDE DEF asked
  <2>4. RowsCorrect(segs') /\ Succeeds(segs', segs)
    BY <1>2, <2>1, <2>2, <2>3, WriteAll
  <2> QED BY <2>3, <2>4, SuccessionKeeps
<1> HIDE DEF new
<1> QED BY <1>4, <1>5, <1>6, <1>7, UpdatePreserves

LEMMA TryFailsPreserves == ASSUME TypeOK, RowsInv, NEW w \in Workflows, TryFails(w) PROVE Preserved
<1> DEFINE next == IF wf[w].tries + 1 = MaxAttempts THEN "mark" ELSE "match"
           new == [wf[w] EXCEPT !.tries = wf[w].tries + 1, !.asked = <<>>, !.pc = next]
<1>1. wf' = [wf EXCEPT ![w] = new] /\ segs' = segs
  BY DEF TryFails
<1> HIDE DEF next
<1>2. new.batch = wf[w].batch /\ new.asked = <<>>
  BY FieldsOf DEF RowsInv
<1> HIDE DEF new
<1> QED BY <1>1, <1>2, FieldsOf, EmptyOwn, StepPreserves DEF RowsInv

LEMMA RecordPreserves == ASSUME TypeOK, RowsInv, NEW w \in Workflows, RecordResult(w) PROVE Preserved
<1> DEFINE next == IF wf[w].pc = "wrote" THEN "plan" ELSE "error"
           new == [wf[w] EXCEPT !.pc = next, !.asked = <<>>]
<1>1. wf' = [wf EXCEPT ![w] = new] /\ segs' = segs
  BY DEF RecordResult
<1> HIDE DEF next
<1>2. new.batch = wf[w].batch /\ new.asked = <<>>
  BY FieldsOf DEF RowsInv
<1> HIDE DEF new
<1> QED BY <1>1, <1>2, FieldsOf, EmptyOwn, StepPreserves DEF RowsInv

LEMMA MarkPreserves == ASSUME TypeOK, RowsInv, NEW w \in Workflows, MarkPendingFailed(w) PROVE Preserved
<1> DEFINE asked == SnapshotsForKeys(segs, wf[w].batch)
           outcomes == [i \in DOMAIN asked |-> Failed("retry_exhausted")]
           new == [wf[w] EXCEPT !.pc = "error"]
<1>1. wf' = [wf EXCEPT ![w] = new] /\ (segs' = WriteOutcomes(segs, asked, outcomes) \/ segs' = segs)
  BY DEF MarkPendingFailed
<1>2. /\ DOMAIN wf[w] = {"pc", "batch", "asked", "tries", "failed"}
      /\ Own(wf[w].batch) /\ Own(wf[w].asked) /\ RowsCorrect(segs)
  BY FieldsOf DEF RowsInv
<1>3. new.batch = wf[w].batch /\ new.asked = wf[w].asked
  BY <1>2
<1>4. RowsCorrect(WriteOutcomes(segs, asked, outcomes)) /\ Succeeds(WriteOutcomes(segs, asked, outcomes), segs)
  <2>1. IsFiniteSet(segs) /\ wf[w].batch \in Seq(ToSet(wf[w].batch))
    BY <1>2 DEF RowsCorrect, Own
  <2>2. asked \in Seq(segs)
    BY <2>1, AskedIsSeq
  <2> HIDE DEF asked
  <2>3. Len(asked) \in Nat /\ DOMAIN asked = 1 .. Len(asked)
    BY <2>2, LenProperties
  <2>4. \A i \in 1 .. Len(asked) : Fits(asked[i], outcomes[i])
    BY <2>3 DEF Fits, Failed, Outcome
  <2> HIDE DEF outcomes
  <2> QED BY <1>2, <2>3, <2>4, WriteAll
<1> HIDE DEF new, outcomes, asked
<1>5. CASE segs' = segs
  BY <1>1, <1>2, <1>3, <1>5, StepPreserves
<1>6. CASE segs' = WriteOutcomes(segs, asked, outcomes)
  <2>1. RowsCorrect(segs') /\ Keeps(segs, segs')
    BY <1>2, <1>4, <1>6, SuccessionKeeps
  <2> QED BY <1>1, <1>2, <1>3, <2>1, UpdatePreserves
<1> QED BY <1>1, <1>5, <1>6

LEMMA RowsInit == Init => RowsInv
<1> SUFFICES ASSUME Init PROVE RowsInv
  OBVIOUS
<1>1. RowsCorrect(segs)
  BY ImportsCorrect DEF Init
<1>2. \A w \in Workflows : wf[w].batch = <<>> /\ wf[w].asked = <<>>
  BY DEF Init, Idle
<1> QED BY <1>1, <1>2, EmptyOwn DEF RowsInv, SequencesOK

LEMMA RowsInductive == TypeOK /\ RowsInv /\ [Next]_vars => Preserved
<1> SUFFICES ASSUME TypeOK, RowsInv, [Next]_vars PROVE Preserved
  OBVIOUS
<1>1. CASE AdjustSegmentBoundary \/ ImportAgain \/ StartFails \/ CrashAndRestart \/ UNCHANGED vars
  BY <1>1, OthersPreserve
<1>2. ASSUME NEW w \in Workflows, StartWorkflow(w) \/ WorkflowStep(w)
      PROVE  Preserved
  BY <1>2, StartPreserves, PlanPreserves, RunningPreserves, ReadPreserves, WritePreserves,
     TryFailsPreserves, RecordPreserves, MarkPreserves, Zenon DEF WorkflowStep
<1> QED BY <1>1, <1>2 DEF Next

LEMMA RowsInvariant == Spec => []RowsInv
<1>1. TypeOK /\ RowsInv /\ [Next]_vars => RowsInv'
  BY RowsInductive DEF Preserved
<1> QED BY <1>1, RowsInit, TypeCorrect, PTL DEF Spec

\* The road of a segment leads through fixes the segment has now, in their order
\* and each once, and leaves none out but at its ends and where two parts of the
\* trace meet: whatever Mapbox answers, in whatever parts the trace was sent,
\* and however the segment was cut, imported again or planned by another
\* workflow while the answers were on their way.
THEOREM RoadsFollow == Spec => []RouteOfPoints
<1>1. RowsInv => RouteOfPoints
  BY DEF RowsInv, RowsCorrect, RowCorrect, RouteOfPoints
<1> QED BY <1>1, RowsInvariant, PTL

\* No workflow, retry, restart or failure marker touches an outcome that is
\* recorded: only an edit or an import that makes the segment anew does.
THEOREM OutcomesStay == Spec => OutcomeStays
<1>1. TypeOK /\ RowsInv /\ [Next]_vars =>
        [(~ImportAgain) => \A r \in segs :
          r.status # "none" =>
              \A s \in At(segs', Key(r)) : s.points = r.points =>
                  s \in {r, Segment(r.points, r.kind)}]_vars
  BY RowsInductive DEF Preserved, Keeps
<1> QED BY <1>1, RowsInvariant, TypeCorrect, PTL DEF Spec, OutcomeStays

-----------------------------------------------------------------------------
(* The request budget of a batch *)

\* What reserving q requests makes of a budget, when it is granted.
Spent(r, u, q, r1, u1) ==
    \/ q <= r /\ r1 = r - q /\ u1 = u + q
    \/ q > r /\ u = 0 /\ r # 0 /\ r1 = 0 /\ u1 = q

\* A budget that has more left than another: nothing is used of a full one.
Richer(r, u, R, U) == R <= r /\ u <= U /\ (u = 0 => r = BatchTarget)

LEMMA RicherGrants ==
    ASSUME NEW r \in Nat, NEW u \in Nat, NEW R \in Nat, NEW U \in Nat, NEW q \in Nat,
           NEW R1 \in Nat, NEW U1 \in Nat, U = 0 => R = BatchTarget,
           Richer(r, u, R, U), Spent(R, U, q, R1, U1)
    PROVE  /\ q <= r => Richer(r - q, u + q, R1, U1)
           /\ q > r => u = 0 /\ r # 0 /\ Richer(0, q, R1, U1)
<1>1. BatchTarget \in Nat \ {0}
  BY PlanConstants
<1>2. CASE q <= R /\ R1 = R - q /\ U1 = U + q
  BY ONLY <1>1, <1>2, Richer(r, u, R, U), r \in Nat, u \in Nat, R \in Nat, U \in Nat, q \in Nat DEF Richer
<1>3. CASE q > R /\ U = 0 /\ R # 0 /\ R1 = 0 /\ U1 = q
  <2>1. u = 0 /\ r = BatchTarget /\ R = BatchTarget
    BY <1>3 DEF Richer
  <2> QED BY <1>1, <1>3, <2>1 DEF Richer
<1> QED BY <1>2, <1>3 DEF Spent

\* How the budget runs down while a batch is planned.
Planned(batch, rem, used) ==
    /\ rem \in [0 .. Len(batch) -> Int] /\ used \in [0 .. Len(batch) -> Int]
    /\ rem[0] = BatchTarget /\ used[0] = 0
    /\ \A k \in 1 .. Len(batch) :
          Spent(rem[k - 1], used[k - 1], Requests(batch[k]), rem[k], used[k])

Distinct(batch) == \A x, y \in 1 .. Len(batch) : Key(batch[x]) = Key(batch[y]) => x = y

Admitted(batch) ==
    /\ Own(batch) /\ Distinct(batch)
    /\ \A k \in 1 .. Len(batch) : Askable(batch[k])
    /\ \E rem, used : Planned(batch, rem, used)

LEMMA RunsDown ==
    ASSUME NEW batch, Own(batch), \A k \in 1 .. Len(batch) : Askable(batch[k]),
           NEW rem, NEW used, Planned(batch, rem, used)
    PROVE  \A y \in 0 .. Len(batch) :
              /\ rem[y] \in Nat /\ used[y] \in Nat /\ (used[y] = 0 => rem[y] = BatchTarget)
              /\ \A x \in 0 .. y : rem[y] <= rem[x] /\ used[x] <= used[y]
<1> DEFINE n == Len(batch)
           good(y) == /\ rem[y] \in Nat /\ used[y] \in Nat /\ (used[y] = 0 => rem[y] = BatchTarget)
                      /\ \A x \in 0 .. y : rem[y] <= rem[x] /\ used[x] <= used[y]
           S == {y \in 0 .. n : good(y)}
<1>1. n \in Nat /\ DOMAIN batch = 1 .. n
  BY LenProperties DEF Own
<1>2. \A k \in 1 .. n : Requests(batch[k]) \in Nat
  BY RequestsCount
<1>3. /\ rem[0] = BatchTarget /\ used[0] = 0
      /\ \A k \in 0 .. n : rem[k] \in Int /\ used[k] \in Int
      /\ \A k \in 1 .. n : Spent(rem[k - 1], used[k - 1], Requests(batch[k]), rem[k], used[k])
  BY DEF Planned
<1> HIDE DEF n
<1>4. 0 \in S
  BY <1>1, <1>3, PlanConstants
<1>5. ASSUME NEW y \in 1 .. n, y - 1 \in S PROVE y \in S
  <2>1. good(y - 1) /\ y \in 0 .. n
    BY <1>1, <1>5
  <2>2. rem[y] \in Int /\ used[y] \in Int
        /\ Spent(rem[y - 1], used[y - 1], Requests(batch[y]), rem[y], used[y])
    BY <1>3, <2>1
  <2>3. /\ rem[y] \in Nat /\ used[y] \in Nat /\ rem[y] <= rem[y - 1] /\ used[y - 1] <= used[y]
        /\ (used[y] = 0 => rem[y] = BatchTarget)
    <3> DEFINE R == rem[y - 1]  U == used[y - 1]  R1 == rem[y]  U1 == used[y]
               q == Requests(batch[y])
    <3>1. R \in Nat /\ U \in Nat /\ (U = 0 => R = BatchTarget)
      BY ONLY <2>1
    <3>2. q \in Nat /\ R1 \in Int /\ U1 \in Int /\ Spent(R, U, q, R1, U1)
      BY ONLY <1>2, <2>2, y \in 1 .. n
    <3> HIDE DEF R, U, R1, U1, q
    <3>3. R1 \in Nat /\ U1 \in Nat /\ R1 <= R /\ U <= U1 /\ (U1 = 0 => R1 = BatchTarget)
      BY ONLY <3>1, <3>2 DEF Spent
    <3> QED BY ONLY <3>3 DEF R, U, R1, U1
  <2>4. ASSUME NEW x \in 0 .. y PROVE rem[y] <= rem[x] /\ used[x] <= used[y]
    <3>1. CASE x = y
      BY <2>3, <3>1
    <3>2. CASE x # y
      <4>1. x \in 0 .. y - 1 /\ x \in 0 .. n
        BY <1>1, <3>2
      <4>2. rem[y - 1] <= rem[x] /\ used[x] <= used[y - 1] /\ rem[x] \in Int /\ used[x] \in Int
            /\ rem[y - 1] \in Nat /\ used[y - 1] \in Nat
        BY <1>3, <2>1, <4>1
      <4> QED BY <2>3, <4>2
    <3> QED BY <3>1, <3>2
  <2> QED BY <2>1, <2>3, <2>4
<1>6. 0 .. n \subseteq S
  <2> HIDE DEF S
  <2>1. \A y \in 1 .. n : y - 1 \in S => y \in S
    BY <1>5
  <2> QED BY <1>1, <1>4, <2>1, UpTo
<1> QED BY <1>6 DEF n

LEMMA TakenIs ==
    ASSUME NEW f, NEW n \in Nat, NEW T, NEW pairs \in Seq(T), Taken(f, n, T, pairs),
           NEW i \in 1 .. n, n = Len(pairs), \A row \in T : Askable(row)
    PROVE  /\ f[i] \in [budget : Budgets, batch : Seq(T)]
           /\ f[i - 1] \in [budget : Budgets, batch : Seq(T)]
           /\ pairs[i] \in T
           /\ f[i].budget = Reserve(f[i - 1].budget, Requests(pairs[i]))
           /\ f[i].batch = IF f[i].budget.ok THEN Append(f[i - 1].batch, pairs[i])
                           ELSE f[i - 1].batch
<1>1. i \in 0 .. n /\ i - 1 \in 0 .. n /\ pairs[i] \in T
  BY LenProperties, ElementOfSeq
<1>2. f[i] = Take(f[i - 1], pairs[i])
  BY DEF Taken
<1>3. f[i] \in [budget : Budgets, batch : Seq(T)] /\ f[i - 1] \in [budget : Budgets, batch : Seq(T)]
  BY <1>1 DEF Taken
<1>4. f[i].budget = Reserve(f[i - 1].budget, Requests(pairs[i]))
  BY <1>2 DEF Take
<1>5. f[i].batch = IF f[i].budget.ok THEN Append(f[i - 1].batch, pairs[i]) ELSE f[i - 1].batch
  BY <1>2 DEF Take
<1> QED BY <1>1, <1>3, <1>4, <1>5

\* A granted reservation is Spent; a refused one leaves what is left and used.
LEMMA ReserveSpends ==
    ASSUME NEW budget \in Budgets, NEW q \in Nat, budget.used \in Nat
    PROVE  LET new == Reserve(budget, q)
           IN  IF new.ok THEN Spent(budget.remaining, budget.used, q, new.remaining, new.used)
               ELSE new.remaining = budget.remaining /\ new.used = budget.used
<1> DEFINE r == budget.remaining  u == budget.used
<1>1. budget = [ok |-> budget.ok, remaining |-> r, used |-> u] /\ r \in Int /\ u \in Nat
  BY DEF Budgets
<1>2. CASE q <= r
  <2>1. Reserve(budget, q) = [ok |-> TRUE, remaining |-> r - q, used |-> u + q]
    BY <1>2 DEF Reserve
  <2> QED BY <1>2, <2>1 DEF Spent
<1>3. CASE ~(q <= r) /\ (u > 0 \/ r = 0)
  <2>1. Reserve(budget, q) = [budget EXCEPT !.ok = FALSE]
    BY <1>3 DEF Reserve
  <2>2. Reserve(budget, q).ok = FALSE /\ Reserve(budget, q).remaining = r
        /\ Reserve(budget, q).used = u
    <3>1. DOMAIN budget = {"ok", "remaining", "used"}
      BY DEF Budgets
    <3> QED BY <2>1, <3>1
  <2> QED BY <2>1, <2>2
<1>4. CASE ~(q <= r) /\ ~(u > 0 \/ r = 0)
  <2>1. Reserve(budget, q) = [ok |-> TRUE, remaining |-> 0, used |-> q]
    BY <1>4 DEF Reserve
  <2>2. q > r /\ u = 0 /\ r # 0
    BY <1>1, <1>4
  <2> QED BY <2>1, <2>2 DEF Spent
<1> QED BY <1>2, <1>3, <1>4

\* A plan goes on by one pair.
LEMMA PlanGrows ==
    ASSUME NEW T, NEW batch \in Seq(T), NEW pair \in T, NEW rem, NEW used,
           Planned(batch, rem, used), NEW r1 \in Int, NEW u1 \in Int,
           Spent(rem[Len(batch)], used[Len(batch)], Requests(pair), r1, u1)
    PROVE  LET m == Len(batch) + 1
           IN  Planned(Append(batch, pair), [k \in 0 .. m |-> IF k = m THEN r1 ELSE rem[k]],
                                            [k \in 0 .. m |-> IF k = m THEN u1 ELSE used[k]])
<1> DEFINE n == Len(batch)
           m == n + 1
           new == Append(batch, pair)
           rem1 == [k \in 0 .. m |-> IF k = m THEN r1 ELSE rem[k]]
           used1 == [k \in 0 .. m |-> IF k = m THEN u1 ELSE used[k]]
<1>1. n \in Nat /\ m \in Nat /\ Len(new) = m
      /\ \A k \in 1 .. m : new[k] = IF k = m THEN pair ELSE batch[k]
  BY LenProperties, AppendProperties
<1>2. /\ rem[0] = BatchTarget /\ used[0] = 0
      /\ \A k \in 0 .. n : rem[k] \in Int /\ used[k] \in Int
      /\ \A k \in 1 .. n : Spent(rem[k - 1], used[k - 1], Requests(batch[k]), rem[k], used[k])
  BY DEF Planned
<1>3. Spent(rem[n], used[n], Requests(pair), r1, u1)
  OBVIOUS
<1> HIDE DEF n, new
<1>4. \A k \in 0 .. m : rem1[k] = (IF k = m THEN r1 ELSE rem[k])
                        /\ used1[k] = (IF k = m THEN u1 ELSE used[k])
  OBVIOUS
<1>5. rem1 \in [0 .. m -> Int] /\ used1 \in [0 .. m -> Int]
  BY <1>1, <1>2
<1> HIDE DEF rem1, used1
<1>6. rem1[0] = BatchTarget /\ used1[0] = 0
  BY <1>1, <1>2, <1>4
<1>7. ASSUME NEW k \in 1 .. m
      PROVE  Spent(rem1[k - 1], used1[k - 1], Requests(new[k]), rem1[k], used1[k])
  <2>1. k - 1 \in 0 .. m /\ k \in 0 .. m /\ k - 1 # m
    BY <1>1
  <2>2. CASE k = m
    <3>1. k - 1 = n /\ rem1[k - 1] = rem[n] /\ used1[k - 1] = used[n]
      BY <1>1, <1>4, <2>1, <2>2
    <3>2. rem1[k] = r1 /\ used1[k] = u1 /\ new[k] = pair
      BY <1>1, <1>4, <2>1, <2>2
    <3> QED BY <1>3, <3>1, <3>2
  <2>3. CASE k # m
    <3>1. k \in 1 .. n /\ rem1[k - 1] = rem[k - 1] /\ used1[k - 1] = used[k - 1]
      BY <1>1, <1>4, <2>1, <2>3
    <3>2. rem1[k] = rem[k] /\ used1[k] = used[k] /\ new[k] = batch[k]
      BY <1>1, <1>4, <2>1, <2>3
    <3> QED BY <1>2, <3>1, <3>2
  <2> QED BY <2>2, <2>3
<1>8. Planned(new, rem1, used1)
  BY <1>1, <1>5, <1>6, <1>7 DEF Planned, m
<1> QED BY <1>8 DEF new, rem1, used1, n

PlannedTo(batch, budget) ==
    \E rem, used : /\ Planned(batch, rem, used)
                   /\ rem[Len(batch)] = budget.remaining
                   /\ used[Len(batch)] = budget.used

LEMMA PlanGoesOn ==
    ASSUME NEW T, NEW batch \in Seq(T), NEW pair \in T, NEW budget, NEW new \in Budgets,
           PlannedTo(batch, budget),
           Spent(budget.remaining, budget.used, Requests(pair), new.remaining, new.used)
    PROVE  PlannedTo(Append(batch, pair), new)
<1> DEFINE m == Len(batch) + 1  r1 == new.remaining  u1 == new.used
<1>1. r1 \in Int /\ u1 \in Int
  BY DEF Budgets
<1>2. PICK rem, used : /\ Planned(batch, rem, used)
                       /\ rem[Len(batch)] = budget.remaining
                       /\ used[Len(batch)] = budget.used
  BY DEF PlannedTo
<1> DEFINE rem1 == [k \in 0 .. m |-> IF k = m THEN r1 ELSE rem[k]]
           used1 == [k \in 0 .. m |-> IF k = m THEN u1 ELSE used[k]]
<1>3. Spent(rem[Len(batch)], used[Len(batch)], Requests(pair), r1, u1)
  BY <1>2
<1>4. m \in Nat /\ Len(Append(batch, pair)) = m
  BY LenProperties, AppendProperties
<1>5. rem1[m] = r1 /\ used1[m] = u1
  BY <1>4
<1> HIDE DEF r1, u1
<1>6. Planned(Append(batch, pair), rem1, used1)
  BY <1>1, <1>2, <1>3, PlanGrows
<1> HIDE DEF rem1, used1, m
<1> QED BY <1>4, <1>5, <1>6 DEF PlannedTo, r1, u1

LEMMA PlannedUsed ==
    ASSUME NEW batch, Own(batch), \A k \in 1 .. Len(batch) : Askable(batch[k]),
           NEW budget, PlannedTo(batch, budget)
    PROVE  budget.used \in Nat
<1>1. PICK rem, used : /\ Planned(batch, rem, used)
                       /\ used[Len(batch)] = budget.used
  BY DEF PlannedTo
<1>2. Len(batch) \in Nat
  BY LenProperties DEF Own
<1>3. \A y \in 0 .. Len(batch) : used[y] \in Nat
  BY <1>1, RunsDown
<1> QED BY <1>1, <1>2, <1>3

\* One more row under a key of its own.
LEMMA DistinctGrows ==
    ASSUME NEW T, NEW batch \in Seq(T), NEW pair \in T, Distinct(batch),
           \A x \in 1 .. Len(batch) : Key(batch[x]) # Key(pair)
    PROVE  Distinct(Append(batch, pair))
<1> DEFINE n == Len(batch)  new == Append(batch, pair)
<1>1. n \in Nat /\ Len(new) = n + 1
      /\ \A k \in 1 .. n + 1 : new[k] = IF k = n + 1 THEN pair ELSE batch[k]
  BY LenProperties, AppendProperties
<1>2. \A x, y \in 1 .. n : Key(batch[x]) = Key(batch[y]) => x = y
  BY DEF Distinct
<1>3. \A x \in 1 .. n : Key(batch[x]) # Key(pair)
  OBVIOUS
<1> HIDE DEF n, new
<1>4. ASSUME NEW x \in 1 .. n + 1, NEW y \in 1 .. n + 1, Key(new[x]) = Key(new[y]) PROVE x = y
  <2>1. CASE x = n + 1 /\ y # n + 1
    <3>1. y \in 1 .. n /\ new[x] = pair /\ new[y] = batch[y]
      BY <1>1, <2>1
    <3> QED BY <1>3, <1>4, <3>1
  <2>2. CASE x # n + 1 /\ y = n + 1
    <3>1. x \in 1 .. n /\ new[y] = pair /\ new[x] = batch[x]
      BY <1>1, <2>2
    <3> QED BY <1>3, <1>4, <3>1
  <2>3. CASE x # n + 1 /\ y # n + 1
    <3>1. x \in 1 .. n /\ y \in 1 .. n /\ new[x] = batch[x] /\ new[y] = batch[y]
      BY <1>1, <2>3
    <3> QED BY <1>2, <1>4, <3>1
  <2> QED BY <2>1, <2>2, <2>3
<1>5. Distinct(new)
  BY <1>1, <1>4 DEF Distinct
<1> QED BY <1>5 DEF new

\* The rows of a batch are among the first ones.
Among(batch, i, pairs) == \A x \in 1 .. Len(batch) : \E k \in 1 .. i : batch[x] = pairs[k]

LEMMA AmongGrows ==
    ASSUME NEW T, NEW batch \in Seq(T), NEW pairs, NEW i \in Nat \ {0}, pairs[i] \in T,
           Among(batch, i - 1, pairs)
    PROVE  Among(Append(batch, pairs[i]), i, pairs) /\ Among(batch, i, pairs)
<1> DEFINE n == Len(batch)  new == Append(batch, pairs[i])
<1>1. n \in Nat /\ Len(new) = n + 1
      /\ \A k \in 1 .. n + 1 : new[k] = IF k = n + 1 THEN pairs[i] ELSE batch[k]
  BY LenProperties, AppendProperties
<1>2. \A x \in 1 .. n : \E k \in 1 .. i : batch[x] = pairs[k]
  <2>1. \A k \in 1 .. i - 1 : k \in 1 .. i
    OBVIOUS
  <2> QED BY <2>1 DEF Among
<1>3. i \in 1 .. i
  OBVIOUS
<1> HIDE DEF n, new
<1>4. ASSUME NEW x \in 1 .. n + 1 PROVE \E k \in 1 .. i : new[x] = pairs[k]
  <2>1. CASE x = n + 1
    BY <1>1, <1>3, <2>1
  <2>2. CASE x # n + 1
    <3>1. x \in 1 .. n /\ new[x] = batch[x]
      BY <1>1, <2>2
    <3> QED BY <1>2, <3>1
  <2> QED BY <2>1, <2>2
<1> QED BY <1>1, <1>2, <1>4 DEF Among, n, new

LEMMA PlanBegins == PlannedTo(<<>>, FreshBudget) /\ Distinct(<<>>)
<1> DEFINE rem == [k \in 0 .. 0 |-> BatchTarget]  used == [k \in 0 .. 0 |-> 0]
<1>1. Len(<<>>) = 0 /\ 1 .. 0 = {} /\ BatchTarget \in Int
  BY PlanConstants
<1>2. rem[0] = BatchTarget /\ used[0] = 0
  OBVIOUS
<1>3. rem \in [0 .. 0 -> Int] /\ used \in [0 .. 0 -> Int]
  BY <1>1
<1> HIDE DEF rem, used
<1>4. Planned(<<>>, rem, used)
  BY <1>1, <1>2, <1>3 DEF Planned
<1>5. FreshBudget.remaining = BatchTarget /\ FreshBudget.used = 0
  BY DEF FreshBudget
<1>6. PlannedTo(<<>>, FreshBudget)
  BY <1>1, <1>2, <1>4, <1>5 DEF PlannedTo
<1>7. Distinct(<<>>)
  BY <1>1 DEF Distinct
<1> QED BY <1>6, <1>7

LEMMA BatchAdmitted ==
    ASSUME NEW T, NEW pairs \in Seq(T), \A row \in T : Askable(row), Distinct(pairs)
    PROVE  Admitted(RouteRequestBatch(pairs))
<1> DEFINE n == Len(pairs)
<1>1. n \in Nat /\ \A i \in 1 .. n : pairs[i] \in T
  BY LenProperties, ElementOfSeq
<1>2. PICK f : Taken(f, n, T, pairs) /\ RouteRequestBatch(pairs) = f[n].batch
  BY BatchRuns
<1> DEFINE good(i) == /\ PlannedTo(f[i].batch, f[i].budget)
                      /\ Distinct(f[i].batch)
                      /\ Among(f[i].batch, i, pairs)
           S == {i \in 0 .. n : good(i)}
<1>3. f[0].batch = <<>> /\ f[0].budget = FreshBudget
  BY <1>2 DEF Taken, Empty
<1>4. 0 \in S
  <2>1. Among(<<>>, 0, pairs)
    BY DEF Among
  <2>2. good(0)
    BY <1>3, <2>1, PlanBegins
  <2> QED BY <1>1, <2>2
<1>5. ASSUME NEW i \in 1 .. n, i - 1 \in S PROVE i \in S
  <2> DEFINE b == f[i - 1].batch  u == f[i - 1].budget
             c == f[i].batch  v == f[i].budget  pair == pairs[i]
  <2>1. PlannedTo(b, u) /\ Distinct(b) /\ Among(b, i - 1, pairs)
    BY <1>5
  <2>2. /\ b \in Seq(T) /\ u \in Budgets /\ v \in Budgets /\ pair \in T
        /\ v = Reserve(u, Requests(pair)) /\ c = IF v.ok THEN Append(b, pair) ELSE b
    <3>1. /\ f[i] \in [budget : Budgets, batch : Seq(T)]
          /\ f[i - 1] \in [budget : Budgets, batch : Seq(T)]
          /\ pairs[i] \in T
          /\ f[i].budget = Reserve(f[i - 1].budget, Requests(pairs[i]))
          /\ f[i].batch = IF f[i].budget.ok THEN Append(f[i - 1].batch, pairs[i])
                          ELSE f[i - 1].batch
      BY <1>1, <1>2, TakenIs
    <3> QED BY <3>1
  <2> HIDE DEF b, u, c, v
  <2>3. i \in Nat \ {0} /\ i \in 0 .. n /\ Own(b) /\ Requests(pair) \in Nat
    BY <1>1, <2>2, SeqIsOwn, RequestsCount
  <2>4. \A x \in 1 .. Len(b) : Askable(b[x])
    BY <2>2, ElementOfSeq
  <2>5. u.used \in Nat
    BY <2>1, <2>3, <2>4, PlannedUsed
  <2>6. Among(Append(b, pair), i, pairs) /\ Among(b, i, pairs)
    BY <2>1, <2>2, <2>3, AmongGrows
  <2>7. CASE v.ok
    <3>1. Spent(u.remaining, u.used, Requests(pair), v.remaining, v.used)
      BY <2>2, <2>3, <2>5, <2>7, ReserveSpends
    <3>2. PlannedTo(Append(b, pair), v)
      BY <2>1, <2>2, <3>1, PlanGoesOn
    <3>3. ASSUME NEW x \in 1 .. Len(b) PROVE Key(b[x]) # Key(pair)
      <4>1. PICK k \in 1 .. i - 1 : b[x] = pairs[k]
        BY <2>1 DEF Among
      <4>2. k \in 1 .. n /\ k # i
        BY <1>1
      <4> QED BY <4>1, <4>2 DEF Distinct
    <3>4. Distinct(Append(b, pair))
      BY <2>1, <2>2, <3>3, DistinctGrows
    <3> QED BY <2>2, <2>3, <2>6, <2>7, <3>2, <3>4 DEF b, u, c, v
  <2>8. CASE ~v.ok
    <3>1. v.remaining = u.remaining /\ v.used = u.used
      BY <2>2, <2>3, <2>5, <2>8, ReserveSpends
    <3>2. PlannedTo(b, v)
      BY <2>1, <3>1 DEF PlannedTo
    <3> QED BY <2>1, <2>2, <2>3, <2>6, <2>8, <3>2 DEF b, u, c, v
  <2> QED BY <2>7, <2>8
<1>6. n \in S
  <2> HIDE DEF S
  <2>1. \A i \in 1 .. n : i - 1 \in S => i \in S
    BY <1>5
  <2>2. 0 .. n \subseteq S
    BY <1>1, <1>4, <2>1, UpTo
  <2> QED BY <1>1, <2>2
<1> DEFINE b == f[n].batch
<1>7. b \in Seq(T)
  <2>1. f[n] \in [budget : Budgets, batch : Seq(T)]
    BY <1>1, <1>2 DEF Taken
  <2> QED BY <2>1
<1>8. Distinct(b) /\ PlannedTo(b, f[n].budget)
  BY <1>6
<1> HIDE DEF b
<1>9. \A x \in 1 .. Len(b) : Askable(b[x])
  BY <1>7, ElementOfSeq
<1>10. \E rem, used : Planned(b, rem, used)
  BY <1>8 DEF PlannedTo
<1>11. Admitted(b)
  BY <1>7, <1>8, <1>9, <1>10, SeqIsOwn DEF Admitted
<1> QED BY <1>2, <1>11 DEF b

LEMMA FoundOne ==
    ASSUME NEW rows, RowsCorrect(rows), NEW planned
    PROVE  /\ Found(rows, planned) \in Seq(rows) /\ Len(Found(rows, planned)) <= 1
           /\ \A k \in 1 .. Len(Found(rows, planned)) : Key(Found(rows, planned)[k]) = Key(planned)
<1> DEFINE S == {r \in At(rows, Key(planned)) : NeedsRouteEnrichment(r)}
           found == SetToSeq(S)
<1>1. S \subseteq rows /\ IsFiniteSet(rows) /\ \A r \in S : Key(r) = Key(planned)
  BY DEF At, RowsCorrect
<1>2. \A r, s \in S : r = s
  BY <1>1 DEF RowsCorrect, KeysUnique
<1>3. found = Found(rows, planned)
  BY DEF Found
<1> HIDE DEF S
<1>4. IsFiniteSet(S)
  BY <1>1, FS_Subset
<1>5. Cardinality(S) \in Nat /\ Cardinality(S) <= 1
  <2>1. CASE S = {}
    BY <2>1, FS_EmptySet
  <2>2. CASE S # {}
    <3>1. PICK r : S = {r}
      BY <1>2, <2>2
    <3> QED BY <3>1, FS_Singleton
  <2> QED BY <2>1, <2>2
<1>6. found \in [1 .. Cardinality(S) -> S]
  <2>1. ExistsBijection(1 .. Cardinality(S), S)
    BY <1>4, FS_CardinalityType
  <2>2. \E f \in [1 .. Cardinality(S) -> S] : IsInjective(f)
    BY <2>1 DEF ExistsBijection, Bijection, Injection
  <2> QED BY <2>2 DEF SetToSeq
<1>7. found \in Seq(S)
  BY <1>4, OrderOfSet
<1> HIDE DEF found
<1>8. Len(found) = Cardinality(S)
  BY <1>5, <1>6, <1>7, LenProperties
<1>9. found \in Seq(rows)
  BY <1>1, <1>7, SeqMonotonic
<1>10. \A k \in 1 .. Len(found) : Key(found[k]) = Key(planned)
  BY <1>1, <1>6, <1>8
<1> QED BY <1>3, <1>5, <1>8, <1>9, <1>10

\* What is asked comes in the order of the batch: under keys of the batch.
InOrder(asked, batch) ==
    \A i, j \in 1 .. Len(asked) : i < j =>
        \A x, y \in 1 .. Len(batch) :
            Key(batch[x]) = Key(asked[i]) /\ Key(batch[y]) = Key(asked[j]) => x < y

\* Every row that is asked about has the key of one of the first of the batch.
From(asked, m, batch) ==
    \A i \in 1 .. Len(asked) : \E x \in 1 .. m : Key(asked[i]) = Key(batch[x])

LEMMA ReadOne ==
    ASSUME NEW rows, RowsCorrect(rows), NEW batch, Own(batch), Distinct(batch),
           NEW m \in 1 .. Len(batch), NEW asked \in Seq(rows),
           InOrder(asked, batch), From(asked, m - 1, batch)
    PROVE  /\ InOrder(asked \o Found(rows, batch[m]), batch)
           /\ From(asked \o Found(rows, batch[m]), m, batch)
<1> DEFINE n == Len(asked)
           found == Found(rows, batch[m])
           l == Len(found)
           new == asked \o found
<1>1. n \in Nat /\ Len(batch) \in Nat /\ m \in Nat
  BY LenProperties DEF Own
<1>2. found \in Seq(rows) /\ l <= 1 /\ \A k \in 1 .. l : Key(found[k]) = Key(batch[m])
  BY FoundOne
<1>3. l \in Nat
  BY <1>2, LenProperties
<1>4. Len(new) = n + l
      /\ \A k \in 1 .. n + l : new[k] = IF k <= n THEN asked[k] ELSE found[k - n]
  BY <1>2, ConcatProperties
<1> HIDE DEF n, l, new, found
<1>5. \A i \in 1 .. n : \E x \in 1 .. m - 1 : Key(asked[i]) = Key(batch[x])
  BY DEF From, n
<1>6. ASSUME NEW k \in 1 .. n + l, ~(k <= n)
      PROVE  k = n + 1 /\ Key(new[k]) = Key(batch[m])
  <2>1. k = n + 1 /\ k - n \in 1 .. l
    BY <1>1, <1>2, <1>3, <1>6
  <2> QED BY <1>2, <1>4, <1>6, <2>1
<1>7. ASSUME NEW i \in 1 .. n + l PROVE \E x \in 1 .. m : Key(new[i]) = Key(batch[x])
  <2>1. CASE i <= n
    <3>1. i \in 1 .. n /\ new[i] = asked[i]
      BY <1>1, <1>4, <2>1
    <3>2. \A x \in 1 .. m - 1 : x \in 1 .. m
      BY <1>1
    <3> QED BY <1>5, <3>1, <3>2
  <2>2. CASE ~(i <= n)
    BY <1>1, <1>6, <2>2
  <2> QED BY <2>1, <2>2
<1>8. ASSUME NEW i \in 1 .. n + l, NEW j \in 1 .. n + l, i < j,
             NEW x \in 1 .. Len(batch), NEW y \in 1 .. Len(batch),
             Key(batch[x]) = Key(new[i]), Key(batch[y]) = Key(new[j])
      PROVE  x < y
  <2>1. CASE j <= n
    <3>1. i \in 1 .. n /\ j \in 1 .. n /\ new[i] = asked[i] /\ new[j] = asked[j]
      BY <1>1, <1>3, <1>4, <1>8, <2>1
    <3> QED BY <1>8, <3>1 DEF InOrder, n
  <2>2. CASE ~(j <= n)
    <3>1. j = n + 1 /\ Key(new[j]) = Key(batch[m])
      BY <1>6, <2>2
    <3>2. i \in 1 .. n /\ new[i] = asked[i]
      BY <1>1, <1>3, <1>4, <1>8, <3>1
    <3>3. PICK z \in 1 .. m - 1 : Key(asked[i]) = Key(batch[z])
      BY <1>5, <3>2
    <3>4. z \in 1 .. Len(batch) /\ z < m
      BY <1>1
    <3>5. x = z /\ y = m
      BY <1>8, <3>1, <3>2, <3>3, <3>4 DEF Distinct
    <3> QED BY <3>4, <3>5
  <2> QED BY <2>1, <2>2
<1>9. InOrder(new, batch)
  BY <1>4, <1>8 DEF InOrder
<1>10. From(new, m, batch)
  BY <1>4, <1>7 DEF From
<1> QED BY <1>9, <1>10 DEF new, found

LEMMA AskedInOrder ==
    ASSUME NEW rows, RowsCorrect(rows), NEW batch, Own(batch), Distinct(batch)
    PROVE  InOrder(SnapshotsForKeys(rows, batch), batch)
<1> DEFINE n == Len(batch)
<1>1. n \in Nat /\ batch \in Seq(ToSet(batch))
  BY LenProperties DEF Own
<1>2. PICK f : Reads(f, n, rows, batch) /\ SnapshotsForKeys(rows, batch) = f[n]
  BY <1>1, AskedRuns DEF RowsCorrect
<1> DEFINE S == {m \in 0 .. n : InOrder(f[m], batch) /\ From(f[m], m, batch)}
<1>3. 0 \in S
  <2>1. f[0] = <<>> /\ Len(<<>>) = 0 /\ 1 .. 0 = {}
    BY <1>2 DEF Reads
  <2>2. InOrder(<<>>, batch) /\ From(<<>>, 0, batch)
    BY <2>1 DEF InOrder, From
  <2> QED BY <1>1, <2>1, <2>2
<1>4. ASSUME NEW m \in 1 .. n, m - 1 \in S PROVE m \in S
  <2>1. InOrder(f[m - 1], batch) /\ From(f[m - 1], m - 1, batch) /\ m \in 0 .. n
    BY <1>1, <1>4
  <2>2. f[m] = f[m - 1] \o Found(rows, batch[m]) /\ f[m - 1] \in Seq(rows)
    BY <1>1, <1>2 DEF Reads
  <2>3. InOrder(f[m], batch) /\ From(f[m], m, batch)
    BY <2>1, <2>2, ReadOne
  <2> QED BY <2>1, <2>3
<1>5. n \in S
  <2> HIDE DEF S
  <2>1. \A m \in 1 .. n : m - 1 \in S => m \in S
    BY <1>4
  <2>2. 0 .. n \subseteq S
    BY <1>1, <1>3, <2>1, UpTo
  <2> QED BY <1>1, <2>2
<1> QED BY <1>2, <1>5

\* The step of the fold of Granted.
Grant(acc, pair) ==
    LET budget == IF PlanRoute(pair.points, pair.kind).error # "none"
                  THEN [acc.budget EXCEPT !.ok = TRUE]
                  ELSE Reserve(acc.budget, Requests(pair))
    IN  [budget |-> budget, granted |-> Append(acc.granted, budget.ok)]

NoGrant == [budget |-> FreshBudget, granted |-> <<>>]

IsGranted(it, asked) ==
    it = [s \in SUBSET DOMAIN asked |->
            IF s = {} THEN NoGrant ELSE LET i == Max(s) IN Grant(it[s \ {i}], asked[i])]

LEMMA GrantedIsFold ==
    \A asked : Granted(asked) = (CHOOSE it : IsGranted(it, asked))[DOMAIN asked].granted
BY DEF Granted, FoldLeft, MapThenFoldSet, IsGranted, Grant, NoGrant

Grants(f, n, asked) ==
    /\ f \in [0 .. n -> [budget : Budgets, granted : Seq(BOOLEAN)]]
    /\ f[0] = NoGrant
    /\ \A i \in 1 .. n : f[i] = Grant(f[i - 1], asked[i])

LEMMA GrantTyped ==
    ASSUME NEW acc \in [budget : Budgets, granted : Seq(BOOLEAN)], NEW pair, Askable(pair)
    PROVE  Grant(acc, pair) \in [budget : Budgets, granted : Seq(BOOLEAN)]
<1> DEFINE budget == IF PlanRoute(pair.points, pair.kind).error # "none"
                     THEN [acc.budget EXCEPT !.ok = TRUE]
                     ELSE Reserve(acc.budget, Requests(pair))
<1>1. acc.budget \in Budgets /\ acc.granted \in Seq(BOOLEAN)
  OBVIOUS
<1>2. budget \in Budgets
  <2>1. Reserve(acc.budget, Requests(pair)) \in Budgets
    BY <1>1, RequestsCount, ReserveTyped
  <2>2. [acc.budget EXCEPT !.ok = TRUE] \in Budgets
    BY <1>1 DEF Budgets
  <2> QED BY <2>1, <2>2
<1> HIDE DEF budget
<1>3. budget.ok \in BOOLEAN
  BY <1>2 DEF Budgets
<1>4. Append(acc.granted, budget.ok) \in Seq(BOOLEAN)
  BY <1>1, <1>3, AppendProperties
<1>5. [budget |-> budget, granted |-> Append(acc.granted, budget.ok)]
        \in [budget : Budgets, granted : Seq(BOOLEAN)]
  BY <1>2, <1>4
<1> QED BY <1>5 DEF Grant, budget

LEMMA GrantedRuns ==
    ASSUME NEW T, NEW asked \in Seq(T), \A row \in T : Askable(row)
    PROVE  \E f : Grants(f, Len(asked), asked) /\ Granted(asked) = f[Len(asked)].granted
<1> DEFINE n == Len(asked)
           X == [budget : Budgets, granted : Seq(BOOLEAN)]
           G == [k \in (1 .. n) \X X |-> Grant(k[2], asked[k[1]])]
           step(it, s) == IF s = {} THEN NoGrant ELSE Grant(it[s \ {Max(s)}], asked[Max(s)])
<1>0. n \in Nat /\ DOMAIN asked = 1 .. n /\ \A i \in 1 .. n : Askable(asked[i])
  BY LenProperties, ElementOfSeq
<1>1. ASSUME NEW i \in 1 .. n, NEW x \in X PROVE Grant(x, asked[i]) \in X
  BY <1>0, GrantTyped
<1>2. \A it : IsGranted(it, asked) <=> it = [s \in SUBSET (1 .. n) |-> step(it, s)]
  BY <1>0 DEF IsGranted
<1> HIDE DEF n
<1>3. NoGrant \in X /\ G \in [(1 .. n) \X X -> X]
  <2>1. FreshBudget \in Budgets
    BY PlanConstants DEF FreshBudget, Budgets
  <2>2. <<>> \in Seq(BOOLEAN)
    BY EmptySeq
  <2>3. NoGrant \in X
    BY <2>1, <2>2 DEF NoGrant
  <2> HIDE DEF X
  <2> QED BY <1>1, <2>3
<1>4. \A i \in 1 .. n, x \in X : G[<<i, x>>] = Grant(x, asked[i])
  OBVIOUS
<1> HIDE DEF G, X
<1>5. \E it : IsGranted(it, asked)
  <2> PICK g : Folds(g, n, X, NoGrant, G) /\ g \in [SUBSET (1 .. n) -> X]
    BY <1>0, <1>3, FoldExists
  <2>1. ASSUME NEW s \in SUBSET (1 .. n) PROVE g[s] = step(g, s)
    <3>1. s # {} => Max(s) \in 1 .. n /\ g[s \ {Max(s)}] \in X
      BY <1>0, LargestOf
    <3> QED BY <1>4, <3>1 DEF Folds
  <2> HIDE DEF step
  <2>2. g = [s \in SUBSET (1 .. n) |-> step(g, s)]
    BY <2>1
  <2> QED BY <1>2, <2>2
<1> DEFINE it == CHOOSE it : IsGranted(it, asked)
<1>6. IsGranted(it, asked)
  BY <1>5
<1>7. Granted(asked) = it[FirstOnes(n)].granted
  BY <1>0, GrantedIsFold DEF FirstOnes
<1> HIDE DEF it
<1>8. Folds(it, n, X, NoGrant, G)
  <2>1. \A s \in SUBSET (1 .. n) : it[s] = step(it, s)
    <3> HIDE DEF step
    <3> QED BY <1>2, <1>6
  <2>2. ASSUME NEW s \in SUBSET (1 .. n), s # {}, it[s \ {Max(s)}] \in X
        PROVE  it[s] = G[<<Max(s), it[s \ {Max(s)}]>>]
    <3>1. Max(s) \in 1 .. n
      BY <1>0, <2>2, LargestOf
    <3> QED BY <1>4, <2>1, <2>2, <3>1
  <2>3. it[{}] = NoGrant
    BY <2>1
  <2>4. \A s \in SUBSET (1 .. n) :
          s # {} /\ it[s \ {Max(s)}] \in X => it[s] = G[<<Max(s), it[s \ {Max(s)}]>>]
    BY <2>2
  <2> QED BY <2>3, <2>4, Zenon DEF Folds
<1> DEFINE f == RunOf(it, n)
<1>9. Runs(f, n, X, NoGrant, G)
  BY <1>0, <1>3, <1>8, FoldRuns
<1>10. f[n] = it[FirstOnes(n)]
  BY <1>0 DEF RunOf
<1> HIDE DEF f
<1>11. Grants(f, n, asked)
  <2>1. f \in [0 .. n -> X] /\ f[0] = NoGrant
    BY <1>9 DEF Runs
  <2>2. ASSUME NEW i \in 1 .. n PROVE f[i] = Grant(f[i - 1], asked[i])
    <3>1. f[i] = G[<<i, f[i - 1]>>] /\ f[i - 1] \in X
      BY <1>0, <1>9 DEF Runs
    <3> QED BY <1>4, <3>1
  <2> QED BY <2>1, <2>2 DEF Grants, X
<1> QED BY <1>7, <1>10, <1>11 DEF n

\* What a pair reserves when its requests fit, or when nothing is used.
LEMMA GrantSpends ==
    ASSUME NEW acc \in [budget : Budgets, granted : Seq(BOOLEAN)], NEW pair, Askable(pair),
           acc.budget.remaining \in Nat, acc.budget.used \in Nat,
           Requests(pair) <= acc.budget.remaining
               \/ (acc.budget.used = 0 /\ acc.budget.remaining # 0)
    PROVE  /\ Grant(acc, pair).budget.ok = TRUE
           /\ Requests(pair) <= acc.budget.remaining =>
                 /\ Grant(acc, pair).budget.remaining = acc.budget.remaining - Requests(pair)
                 /\ Grant(acc, pair).budget.used = acc.budget.used + Requests(pair)
           /\ Requests(pair) > acc.budget.remaining =>
                 /\ Grant(acc, pair).budget.remaining = 0
                 /\ Grant(acc, pair).budget.used = Requests(pair)
<1> DEFINE error == PlanRoute(pair.points, pair.kind).error
           q == Requests(pair)
           u == acc.budget
           new == IF error # "none" THEN [u EXCEPT !.ok = TRUE] ELSE Reserve(u, q)
<1>1. Grant(acc, pair).budget = new
  BY DEF Grant
<1>2. q \in Nat
  BY RequestsCount
<1>3. u.remaining \in Nat /\ u.used \in Nat /\ DOMAIN u = {"ok", "remaining", "used"}
  BY DEF Budgets
<1>4. q <= u.remaining \/ (u.used = 0 /\ u.remaining # 0)
  OBVIOUS
<1>5. error # "none" => q = 0
  <2>1. Len(<<>>) = 0
    OBVIOUS
  <2>2. error # "none" => PlanRoute(pair.points, pair.kind).parts = <<>>
    BY DEF PlanRoute
  <2> QED BY <2>1, <2>2 DEF Requests
<1> HIDE DEF error, q, u
<1>6. CASE error # "none"
  <2>1. new = [u EXCEPT !.ok = TRUE] /\ q = 0
    BY <1>5, <1>6
  <2>2. new.ok = TRUE /\ new.remaining = u.remaining /\ new.used = u.used
    BY <1>3, <2>1
  <2> HIDE DEF new
  <2> QED BY <1>1, <1>3, <2>1, <2>2 DEF q, u
<1>7. CASE ~(error # "none") /\ q <= u.remaining
  <2>1. new = [ok |-> TRUE, remaining |-> u.remaining - q, used |-> u.used + q]
    BY <1>7 DEF Reserve
  <2>2. new.ok = TRUE /\ new.remaining = u.remaining - q /\ new.used = u.used + q
    BY <2>1
  <2>3. ~(q > u.remaining)
    BY <1>2, <1>3, <1>7
  <2> HIDE DEF new
  <2> QED BY <1>1, <2>2, <2>3 DEF q, u
<1>8. CASE ~(error # "none") /\ ~(q <= u.remaining)
  <2>1. u.used = 0 /\ u.remaining # 0 /\ ~(u.used > 0 \/ u.remaining = 0)
    BY <1>3, <1>4, <1>8
  <2>2. new = [ok |-> TRUE, remaining |-> 0, used |-> q]
    BY <1>8, <2>1 DEF Reserve
  <2>3. new.ok = TRUE /\ new.remaining = 0 /\ new.used = q
    BY <2>2
  <2> HIDE DEF new
  <2> QED BY <1>1, <1>8, <2>3 DEF q, u
<1> QED BY <1>6, <1>7, <1>8

\* Where the batch has the first i rows that are asked about.
Reached(x, i, asked, batch) == IF i = 0 THEN x = 0 ELSE x # 0 /\ batch[x] = asked[i]

\* After the first i rows no less is left than the plan had left there.
Ahead(acc, i, x, asked, batch, rem, used) ==
    /\ Reached(x, i, asked, batch)
    /\ acc.budget.remaining \in Nat /\ acc.budget.used \in Nat
    /\ Richer(acc.budget.remaining, acc.budget.used, rem[x], used[x])

AllGranted(acc, i) == Len(acc.granted) = i /\ \A k \in 1 .. i : acc.granted[k] = TRUE

LEMMA AppendIs ==
    ASSUME NEW T, NEW g \in Seq(T), NEW e \in T, NEW i \in Nat \ {0}, Len(g) = i - 1,
           \A k \in 1 .. i - 1 : g[k] = e
    PROVE  Len(Append(g, e)) = i /\ \A k \in 1 .. i : Append(g, e)[k] = e
<1>1. Len(Append(g, e)) = i /\ \A k \in 1 .. i : Append(g, e)[k] = IF k = i THEN e ELSE g[k]
  BY AppendProperties
<1>2. \A k \in 1 .. i : k = i \/ k \in 1 .. i - 1
  OBVIOUS
<1> QED BY <1>1, <1>2

LEMMA GrantNext ==
    ASSUME NEW acc \in [budget : Budgets, granted : Seq(BOOLEAN)], NEW pair, Askable(pair),
           NEW i \in Nat \ {0}, AllGranted(acc, i - 1), Grant(acc, pair).budget.ok = TRUE
    PROVE  AllGranted(Grant(acc, pair), i)
<1> DEFINE g == acc.granted  b == Grant(acc, pair).budget.ok  yes == TRUE
<1>1. g \in Seq(BOOLEAN) /\ Len(g) = i - 1 /\ \A k \in 1 .. i - 1 : g[k] = yes
  BY DEF AllGranted
<1>2. Grant(acc, pair).granted = Append(g, b)
  BY DEF Grant
<1>3. b = yes /\ yes \in BOOLEAN
  OBVIOUS
<1>4. \A T : \A h \in Seq(T) : \A e \in T : \A j \in Nat \ {0} :
        Len(h) = j - 1 /\ (\A k \in 1 .. j - 1 : h[k] = e)
          => Len(Append(h, e)) = j /\ \A k \in 1 .. j : Append(h, e)[k] = e
  BY AppendIs
<1> HIDE DEF g, b, yes
<1>5. Len(Append(g, yes)) = i /\ \A k \in 1 .. i : Append(g, yes)[k] = yes
  <2>1. \A h \in Seq(BOOLEAN) : \A e \in BOOLEAN : \A j \in Nat \ {0} :
        Len(h) = j - 1 /\ (\A k \in 1 .. j - 1 : h[k] = e)
          => Len(Append(h, e)) = j /\ \A k \in 1 .. j : Append(h, e)[k] = e
    BY ONLY <1>4, Zenon
  <2>2. \A e \in BOOLEAN : \A j \in Nat \ {0} :
        Len(g) = j - 1 /\ (\A k \in 1 .. j - 1 : g[k] = e)
          => Len(Append(g, e)) = j /\ \A k \in 1 .. j : Append(g, e)[k] = e
    BY ONLY <1>1, <2>1, Zenon
  <2>3. \A j \in Nat \ {0} :
        Len(g) = j - 1 /\ (\A k \in 1 .. j - 1 : g[k] = yes)
          => Len(Append(g, yes)) = j /\ \A k \in 1 .. j : Append(g, yes)[k] = yes
    BY ONLY <1>3, <2>2, Zenon
  <2>4. Len(g) = i - 1 /\ (\A k \in 1 .. i - 1 : g[k] = yes)
          => Len(Append(g, yes)) = i /\ \A k \in 1 .. i : Append(g, yes)[k] = yes
    BY ONLY <2>3, i \in Nat \ {0}, Zenon
  <2> QED BY ONLY <1>1, <2>4, Zenon
<1>6. Append(g, yes) = Grant(acc, pair).granted
  BY <1>2, <1>3
<1> QED BY ONLY <1>5, <1>6, Zenon DEF AllGranted, yes

LEMMA AheadNext ==
    ASSUME NEW batch, Own(batch), \A k \in 1 .. Len(batch) : Askable(batch[k]),
           NEW rem, NEW used, Planned(batch, rem, used),
           NEW asked, NEW i \in Nat \ {0}, NEW x \in 0 .. Len(batch), NEW y \in 1 .. Len(batch),
           x < y, batch[y] = asked[i],
           NEW acc \in [budget : Budgets, granted : Seq(BOOLEAN)],
           Ahead(acc, i - 1, x, asked, batch, rem, used)
    PROVE  /\ Grant(acc, asked[i]).budget.ok = TRUE
           /\ Ahead(Grant(acc, asked[i]), i, y, asked, batch, rem, used)
<1> DEFINE r == acc.budget.remaining  u == acc.budget.used
           R == rem[y - 1]  U == used[y - 1]  R1 == rem[y]  U1 == used[y]
           pair == asked[i]  q == Requests(pair)
           new == Grant(acc, pair).budget
<1>1. Len(batch) \in Nat /\ y - 1 \in 0 .. Len(batch) /\ y \in 0 .. Len(batch) /\ x \in 0 .. y - 1
  BY LenProperties DEF Own
<1>2. Askable(pair) /\ q \in Nat
  BY RequestsCount
<1>3. /\ R \in Nat /\ U \in Nat /\ (U = 0 => R = BatchTarget)
      /\ R1 \in Nat /\ U1 \in Nat
  BY <1>1, RunsDown
<1>4. rem[x] \in Nat /\ used[x] \in Nat /\ R <= rem[x] /\ used[x] <= U
  BY <1>1, RunsDown
<1>5. Spent(R, U, q, R1, U1)
  BY DEF Planned
<1>6. r \in Nat /\ u \in Nat /\ Richer(r, u, rem[x], used[x])
  BY DEF Ahead
<1> DEFINE a == rem[x]  b == used[x]
<1> HIDE DEF R, U, R1, U1, q, r, u
<1>7. Richer(r, u, R, U)
  <2>1. a \in Nat /\ b \in Nat /\ R <= a /\ b <= U /\ Richer(r, u, a, b)
    BY ONLY <1>4, <1>6 DEF a, b
  <2> HIDE DEF a, b
  <2> QED BY ONLY <1>3, <1>6, <2>1 DEF Richer
<1>8. /\ q <= r => Richer(r - q, u + q, R1, U1)
      /\ q > r => u = 0 /\ r # 0 /\ Richer(0, q, R1, U1)
  BY ONLY <1>2, <1>3, <1>5, <1>6, <1>7, RicherGrants
<1>9. q <= r \/ (u = 0 /\ r # 0)
  BY ONLY <1>2, <1>6, <1>8
<1>10. /\ new.ok = TRUE
       /\ q <= r => new.remaining = r - q /\ new.used = u + q
       /\ q > r => new.remaining = 0 /\ new.used = q
  <2>1. acc.budget.remaining \in Nat /\ acc.budget.used \in Nat
    BY <1>6 DEF r, u
  <2>2. Requests(pair) <= acc.budget.remaining
           \/ (acc.budget.used = 0 /\ acc.budget.remaining # 0)
    BY <1>9 DEF r, u, q
  <2>3. /\ Grant(acc, pair).budget.ok = TRUE
        /\ Requests(pair) <= acc.budget.remaining =>
              /\ Grant(acc, pair).budget.remaining = acc.budget.remaining - Requests(pair)
              /\ Grant(acc, pair).budget.used = acc.budget.used + Requests(pair)
        /\ Requests(pair) > acc.budget.remaining =>
              /\ Grant(acc, pair).budget.remaining = 0
              /\ Grant(acc, pair).budget.used = Requests(pair)
    BY <1>2, <2>1, <2>2, GrantSpends
  <2> QED BY <2>3 DEF r, u, q
<1> HIDE DEF new
<1>11. new.remaining \in Nat /\ new.used \in Nat /\ Richer(new.remaining, new.used, R1, U1)
  <2>1. CASE q <= r
    <3>1. new.remaining = r - q /\ new.used = u + q /\ Richer(r - q, u + q, R1, U1)
      BY <1>8, <1>10, <2>1
    <3>2. r - q \in Nat /\ u + q \in Nat
      BY <1>2, <1>6, <2>1
    <3> QED BY <3>1, <3>2
  <2>2. CASE ~(q <= r)
    <3>1. q > r
      BY <1>2, <1>6, <2>2
    <3> QED BY <1>2, <1>8, <1>10, <3>1
  <2> QED BY <2>1, <2>2
<1>12. Reached(y, i, asked, batch)
  BY DEF Reached
<1> QED BY <1>10, <1>11, <1>12 DEF Ahead, new, R1, U1

LEMMA PartFits ==
    ASSUME NEW batch, Admitted(batch), NEW asked, Own(asked), InOrder(asked, batch),
           ToSet(asked) \subseteq ToSet(batch)
    PROVE  \A i \in DOMAIN asked : Granted(asked)[i]
<1> DEFINE n == Len(asked)  l == Len(batch)
<1>1. /\ n \in Nat /\ DOMAIN asked = 1 .. n /\ l \in Nat /\ DOMAIN batch = 1 .. l
  BY LenProperties DEF Admitted, Own
<1>2. Own(batch) /\ \A k \in 1 .. l : Askable(batch[k])
  BY DEF Admitted
<1>3. PICK rem, used : Planned(batch, rem, used)
  BY DEF Admitted
<1>4. ASSUME NEW i \in 1 .. n PROVE \E y \in 1 .. l : batch[y] = asked[i]
  BY <1>1 DEF ToSet
<1>5. asked \in Seq(ToSet(asked)) /\ \A row \in ToSet(asked) : Askable(row)
  <2>1. ASSUME NEW row \in ToSet(asked) PROVE Askable(row)
    <3>1. row \in ToSet(batch)
      OBVIOUS
    <3>2. PICK k \in 1 .. l : row = batch[k]
      BY <1>1, <3>1 DEF ToSet
    <3> QED BY <1>2, <3>2
  <2> QED BY <2>1 DEF Own
<1>6. PICK f : Grants(f, n, asked) /\ Granted(asked) = f[n].granted
  BY <1>5, GrantedRuns
<1> HIDE DEF n, l
<1> DEFINE ahead(i) == \E x \in 0 .. l : Ahead(f[i], i, x, asked, batch, rem, used)
           S == {i \in 0 .. n : AllGranted(f[i], i) /\ ahead(i)}
<1>7. \A i \in 0 .. n : f[i] \in [budget : Budgets, granted : Seq(BOOLEAN)]
  BY <1>6 DEF Grants
<1>8. 0 \in S
  <2>1. f[0] = NoGrant /\ Len(<<>>) = 0
    BY <1>6 DEF Grants
  <2>2. f[0].granted = <<>> /\ f[0].budget.remaining = BatchTarget /\ f[0].budget.used = 0
    BY <2>1 DEF NoGrant, FreshBudget
  <2>3. AllGranted(f[0], 0)
    BY <2>1, <2>2 DEF AllGranted
  <2>4. rem[0] = BatchTarget /\ used[0] = 0 /\ BatchTarget \in Nat
    BY <1>3, PlanConstants DEF Planned
  <2>5. Reached(0, 0, asked, batch)
    BY DEF Reached
  <2>6. Ahead(f[0], 0, 0, asked, batch, rem, used)
    BY <2>2, <2>4, <2>5 DEF Ahead, Richer
  <2>7. 0 \in 0 .. l /\ 0 \in 0 .. n
    BY <1>1
  <2> QED BY <2>3, <2>6, <2>7
<1>9. ASSUME NEW i \in 1 .. n, i - 1 \in S PROVE i \in S
  <2>1. AllGranted(f[i - 1], i - 1) /\ i - 1 \in 0 .. n
    BY <1>9
  <2>2. PICK x \in 0 .. l : Ahead(f[i - 1], i - 1, x, asked, batch, rem, used)
    BY <1>9
  <2>3. PICK y \in 1 .. l : batch[y] = asked[i]
    BY <1>4
  <2>4. i \in Nat \ {0} /\ i \in 0 .. n /\ y \in 0 .. l
    BY <1>1
  <2>5. x < y
    <3>1. Reached(x, i - 1, asked, batch)
      BY <2>2 DEF Ahead
    <3>2. CASE i = 1
      <4>1. x = 0
        BY <3>1, <3>2 DEF Reached
      <4> QED BY <1>1, <4>1
    <3>3. CASE i # 1
      <4>1. x # 0 /\ batch[x] = asked[i - 1]
        BY <2>4, <3>1, <3>3 DEF Reached
      <4>2. x \in 1 .. l /\ i - 1 \in 1 .. n /\ i - 1 < i
        BY <1>1, <2>4, <3>3, <4>1
      <4> QED BY <2>3, <4>1, <4>2 DEF InOrder, n, l
    <3> QED BY <3>2, <3>3
  <2>6. f[i] = Grant(f[i - 1], asked[i]) /\ f[i - 1] \in [budget : Budgets, granted : Seq(BOOLEAN)]
    BY <1>6, <1>7, <2>1 DEF Grants
  <2>7. /\ Grant(f[i - 1], asked[i]).budget.ok = TRUE
        /\ Ahead(Grant(f[i - 1], asked[i]), i, y, asked, batch, rem, used)
    BY <1>2, <1>3, <2>2, <2>3, <2>4, <2>5, <2>6, AheadNext DEF l
  <2>8. AllGranted(f[i], i)
    <3>1. Askable(asked[i])
      BY <1>2, <2>3
    <3> QED BY <2>1, <2>4, <2>6, <2>7, <3>1, GrantNext
  <2>9. ahead(i)
    BY <2>4, <2>6, <2>7
  <2> HIDE DEF ahead
  <2> QED BY <2>4, <2>8, <2>9
<1>10. AllGranted(f[n], n)
  <2> HIDE DEF S
  <2>1. \A i \in 1 .. n : i - 1 \in S => i \in S
    BY <1>9
  <2>2. 0 .. n \subseteq S
    BY <1>1, <1>8, <2>1, UpTo
  <2>3. n \in S
    BY <1>1, <2>2
  <2> QED BY <2>3 DEF S
<1>11. \A i \in 1 .. n : Granted(asked)[i] = TRUE
  BY <1>6, <1>10 DEF AllGranted
<1> QED BY <1>1, <1>11

-----------------------------------------------------------------------------
(* Batches in every state *)

Orderly(v) == Admitted(v.batch) /\ (v.pc = "asking" => InOrder(v.asked, v.batch))

BatchesInv == \A w \in Workflows : Orderly(wf[w])

LEMMA OrderlyUpdate ==
    ASSUME TypeOK, BatchesInv, NEW w \in Workflows, NEW new, Orderly(new),
           wf' = [wf EXCEPT ![w] = new]
    PROVE  BatchesInv'
<1>1. DOMAIN wf = Workflows
  BY DEF TypeOK
<1>2. \A v \in Workflows : wf'[v] = IF v = w THEN new ELSE wf[v]
  BY <1>1
<1> QED BY <1>2, Zenon DEF BatchesInv

LEMMA NothingAdmitted == Admitted(<<>>)
<1>1. Own(<<>>) /\ Distinct(<<>>)
  BY EmptyOwn, PlanBegins
<1>2. \A k \in 1 .. Len(<<>>) : Askable(<<>>[k])
  <2>1. 1 .. Len(<<>>) = {}
    OBVIOUS
  <2> QED BY <2>1
<1>3. \E rem, used : Planned(<<>>, rem, used)
  BY PlanBegins DEF PlannedTo
<1> QED BY <1>1, <1>2, <1>3 DEF Admitted

\* A step that leaves a workflow its batch, and not in the middle of asking.
LEMMA BatchStays ==
    ASSUME TypeOK, BatchesInv, NEW w \in Workflows, NEW new,
           new.batch = wf[w].batch, new.pc # "asking", wf' = [wf EXCEPT ![w] = new]
    PROVE  BatchesInv'
<1>1. Orderly(new)
  BY DEF BatchesInv, Orderly
<1> QED BY <1>1, OrderlyUpdate

LEMMA HasFields ==
    ASSUME TypeOK, NEW w \in Workflows
    PROVE  DOMAIN wf[w] = {"pc", "batch", "asked", "tries", "failed"}
BY DEF TypeOK

LEMMA OthersOrderly ==
    ASSUME TypeOK, BatchesInv,
           AdjustSegmentBoundary \/ ImportAgain \/ StartFails \/ CrashAndRestart \/ UNCHANGED vars
    PROVE  BatchesInv'
<1>1. CASE AdjustSegmentBoundary \/ ImportAgain \/ StartFails \/ UNCHANGED vars
  <2>1. wf' = wf
    BY <1>1 DEF AdjustSegmentBoundary, ImportAgain, StartFails, vars
  <2> QED BY <2>1 DEF BatchesInv
<1>2. CASE CrashAndRestart
  <2>1. \A w \in Workflows : wf'[w] = IF wf[w].pc \in {"asking", "wrote", "fallback"}
              THEN [wf[w] EXCEPT !.pc = "match", !.asked = <<>>, !.tries = 0] ELSE wf[w]
    BY <1>2 DEF CrashAndRestart
  <2>2. ASSUME NEW w \in Workflows PROVE Orderly(wf'[w])
    <3> DEFINE new == [wf[w] EXCEPT !.pc = "match", !.asked = <<>>, !.tries = 0]
    <3>1. new.batch = wf[w].batch /\ new.pc = "match"
      BY HasFields
    <3>2. Orderly(wf[w])
      BY DEF BatchesInv
    <3>3. wf'[w] = new \/ wf'[w] = wf[w]
      BY <2>1
    <3> HIDE DEF new
    <3>4. Orderly(new)
      BY <3>1, <3>2 DEF Orderly
    <3> QED BY <3>2, <3>3, <3>4
  <2> QED BY <2>2 DEF BatchesInv
<1> QED BY <1>1, <1>2

LEMMA StartOrderly ==
    ASSUME TypeOK, BatchesInv, NEW w \in Workflows, StartWorkflow(w) PROVE BatchesInv'
<1> DEFINE new == [Idle EXCEPT !.pc = "plan"]
<1>1. wf' = [wf EXCEPT ![w] = new]
  BY DEF StartWorkflow
<1>2. new.batch = <<>> /\ new.pc = "plan"
  BY DEF Idle
<1> HIDE DEF new
<1>3. Orderly(new)
  BY <1>2, NothingAdmitted DEF Orderly
<1> QED BY <1>1, <1>3, OrderlyUpdate

\* Candidates are rows of the album, each once, so their keys differ.
LEMMA CandidatesDiffer ==
    ASSUME NEW rows, RowsCorrect(rows), NEW candidates \in RouteCandidates(rows)
    PROVE  /\ candidates \in Seq(Waiting(rows)) /\ Distinct(candidates)
           /\ \A row \in Waiting(rows) : Askable(row)
<1>1. Waiting(rows) \subseteq rows
  BY DEF Waiting
<1>2. IsFiniteSet(Waiting(rows)) /\ Cardinality(Waiting(rows)) \in Nat
  BY <1>1, FS_Subset, FS_CardinalityType DEF RowsCorrect
<1>3. candidates \in SetToSeqs(Waiting(rows))
  BY DEF RouteCandidates
<1>4. candidates \in Seq(Waiting(rows))
  BY <1>2, <1>3, OrdersAreSeqs
<1> DEFINE n == Len(candidates)
<1>5. n \in Nat /\ DOMAIN candidates = 1 .. n /\ \A x \in 1 .. n : candidates[x] \in rows
  BY <1>1, <1>4, LenProperties, ElementOfSeq
<1>6. \A x, y \in DOMAIN candidates : x # y => candidates[x] # candidates[y]
  BY <1>3 DEF SetToSeqs
<1>7. \A r, s \in rows : Key(r) = Key(s) => r = s
  BY DEF RowsCorrect, KeysUnique
<1>8. ASSUME NEW x \in 1 .. n, NEW y \in 1 .. n, Key(candidates[x]) = Key(candidates[y]) PROVE x = y
  <2>1. candidates[x] = candidates[y]
    BY <1>5, <1>7, <1>8
  <2> QED BY <1>5, <1>6, <2>1
<1>9. Distinct(candidates)
  BY <1>8 DEF Distinct
<1>10. \A row \in Waiting(rows) : Askable(row)
  BY <1>1 DEF RowsCorrect, RowCorrect
<1> QED BY <1>4, <1>9, <1>10

LEMMA PlanOrderly ==
    ASSUME TypeOK, RowsInv, BatchesInv, NEW w \in Workflows, PlanBatch(w) PROVE BatchesInv'
<1>1. PICK candidates \in RouteCandidates(segs) :
        wf' = [wf EXCEPT ![w] =
                 IF Waiting(segs) = {} THEN Finish(w)
                 ELSE [wf[w] EXCEPT !.pc = IF RouteRequestBatch(candidates) = <<>> THEN "error" ELSE "match",
                                    !.batch = RouteRequestBatch(candidates), !.tries = 0]]
  BY DEF PlanBatch
<1> DEFINE batch == RouteRequestBatch(candidates)
           next == IF batch = <<>> THEN "error" ELSE "match"
           ended == Finish(w)
           going == [wf[w] EXCEPT !.pc = next, !.batch = batch, !.tries = 0]
<1>2. wf' = [wf EXCEPT ![w] = ended] \/ wf' = [wf EXCEPT ![w] = going]
  BY <1>1
<1>3. Admitted(batch)
  <2>1. RowsCorrect(segs)
    BY DEF RowsInv
  <2>2. candidates \in Seq(Waiting(segs)) /\ Distinct(candidates)
        /\ \A row \in Waiting(segs) : Askable(row)
    BY <2>1, CandidatesDiffer
  <2> QED BY <2>2, BatchAdmitted
<1>4. next # "asking"
  OBVIOUS
<1> HIDE DEF batch, next
<1>5. going.batch = batch /\ going.pc = next
  BY HasFields
<1>6. ended.batch = wf[w].batch /\ ended.pc # "asking"
  BY HasFields DEF Finish
<1> HIDE DEF ended, going
<1>7. Orderly(going)
  BY <1>3, <1>4, <1>5 DEF Orderly
<1> QED BY <1>2, <1>6, <1>7, BatchStays, OrderlyUpdate

LEMMA RunningOrderly ==
    ASSUME TypeOK, BatchesInv, NEW w \in Workflows, AlreadyRunning(w) PROVE BatchesInv'
<1> DEFINE new == Finish(w)
<1>1. wf' = [wf EXCEPT ![w] = new]
  BY DEF AlreadyRunning
<1>2. new.batch = wf[w].batch /\ new.pc # "asking"
  BY HasFields DEF Finish
<1> HIDE DEF new
<1> QED BY <1>1, <1>2, BatchStays

LEMMA ReadOrderly ==
    ASSUME TypeOK, RowsInv, BatchesInv, NEW w \in Workflows, ReadSnapshots(w) PROVE BatchesInv'
<1> DEFINE asked == SnapshotsForKeys(segs, wf[w].batch)
           none == [wf[w] EXCEPT !.pc = "plan"]
           some == [wf[w] EXCEPT !.pc = "asking", !.asked = asked]
<1>1. wf' = [wf EXCEPT ![w] = none] \/ wf' = [wf EXCEPT ![w] = some]
  BY DEF ReadSnapshots
<1>2. Admitted(wf[w].batch)
  BY DEF BatchesInv, Orderly
<1>3. InOrder(asked, wf[w].batch)
  BY <1>2, AskedInOrder DEF RowsInv, Admitted
<1> HIDE DEF asked
<1>4. none.batch = wf[w].batch /\ none.pc = "plan"
  BY HasFields
<1>5. some.batch = wf[w].batch /\ some.asked = asked
  BY HasFields
<1> HIDE DEF none, some
<1>6. Orderly(some)
  BY <1>2, <1>3, <1>5 DEF Orderly
<1> QED BY <1>1, <1>4, <1>6, BatchStays, OrderlyUpdate

LEMMA WriteOrderly ==
    ASSUME TypeOK, BatchesInv, NEW w \in Workflows, WriteResults(w) PROVE BatchesInv'
<1>1. PICK outcomes \in MatchSegments(wf[w].asked) :
        LET count(S) == Cardinality({i \in DOMAIN outcomes : outcomes[i].error \in S
                                       \/ outcomes[i].status \in S})
        IN  wf' = [wf EXCEPT ![w].pc =
                        IF count({"request_budget_exceeded"}) > 0 THEN "fallback" ELSE "wrote",
                        ![w].failed = IF @ + count({"failed"}) > 0 THEN 1 ELSE 0]
  BY DEF WriteResults
<1> DEFINE count(S) == Cardinality({i \in DOMAIN outcomes : outcomes[i].error \in S
                                       \/ outcomes[i].status \in S})
           next == IF count({"request_budget_exceeded"}) > 0 THEN "fallback" ELSE "wrote"
           bad == IF wf[w].failed + count({"failed"}) > 0 THEN 1 ELSE 0
           new == [wf[w] EXCEPT !.pc = next, !.failed = bad]
<1>2. wf' = [wf EXCEPT ![w].pc = next, ![w].failed = bad]
  BY <1>1
<1>3. next # "asking"
  OBVIOUS
<1> HIDE DEF next, bad
<1>4. wf' = [wf EXCEPT ![w] = new]
  BY <1>2
<1>5. new.batch = wf[w].batch /\ new.pc # "asking"
  BY <1>3, HasFields
<1> HIDE DEF new
<1> QED BY <1>4, <1>5, BatchStays

LEMMA TryFailsOrderly ==
    ASSUME TypeOK, BatchesInv, NEW w \in Workflows, TryFails(w) PROVE BatchesInv'
<1> DEFINE next == IF wf[w].tries + 1 = MaxAttempts THEN "mark" ELSE "match"
           new == [wf[w] EXCEPT !.tries = wf[w].tries + 1, !.asked = <<>>, !.pc = next]
<1>1. wf' = [wf EXCEPT ![w] = new] /\ next # "asking"
  BY DEF TryFails
<1> HIDE DEF next
<1>2. new.batch = wf[w].batch /\ new.pc # "asking"
  BY <1>1, HasFields
<1> HIDE DEF new
<1> QED BY <1>1, <1>2, BatchStays

LEMMA RecordOrderly ==
    ASSUME TypeOK, BatchesInv, NEW w \in Workflows, RecordResult(w) PROVE BatchesInv'
<1> DEFINE next == IF wf[w].pc = "wrote" THEN "plan" ELSE "error"
           new == [wf[w] EXCEPT !.pc = next, !.asked = <<>>]
<1>1. wf' = [wf EXCEPT ![w] = new] /\ next # "asking"
  BY DEF RecordResult
<1> HIDE DEF next
<1>2. new.batch = wf[w].batch /\ new.pc # "asking"
  BY <1>1, HasFields
<1> HIDE DEF new
<1> QED BY <1>1, <1>2, BatchStays

LEMMA MarkOrderly ==
    ASSUME TypeOK, BatchesInv, NEW w \in Workflows, MarkPendingFailed(w) PROVE BatchesInv'
<1> DEFINE new == [wf[w] EXCEPT !.pc = "error"]
<1>1. wf' = [wf EXCEPT ![w] = new]
  BY DEF MarkPendingFailed
<1>2. new.batch = wf[w].batch /\ new.pc # "asking"
  BY HasFields
<1> HIDE DEF new
<1> QED BY <1>1, <1>2, BatchStays

LEMMA BatchesInvariant == Spec => []BatchesInv
<1>1. Init => BatchesInv
  <2> SUFFICES ASSUME Init PROVE BatchesInv
    OBVIOUS
  <2>1. \A w \in Workflows : wf[w].batch = <<>> /\ wf[w].pc = "done"
    BY DEF Init, Idle
  <2> QED BY <2>1, NothingAdmitted DEF BatchesInv, Orderly
<1>2. TypeOK /\ RowsInv /\ BatchesInv /\ [Next]_vars => BatchesInv'
  <2> SUFFICES ASSUME TypeOK, RowsInv, BatchesInv, [Next]_vars PROVE BatchesInv'
    OBVIOUS
  <2>1. CASE AdjustSegmentBoundary \/ ImportAgain \/ StartFails \/ CrashAndRestart \/ UNCHANGED vars
    BY <2>1, OthersOrderly
  <2>2. ASSUME NEW w \in Workflows, StartWorkflow(w) \/ WorkflowStep(w)
        PROVE  BatchesInv'
    BY <2>2, StartOrderly, PlanOrderly, RunningOrderly, ReadOrderly, WriteOrderly,
       TryFailsOrderly, RecordOrderly, MarkOrderly, Zenon DEF WorkflowStep
  <2> QED BY <2>1, <2>2 DEF Next
<1> QED BY <1>1, <1>2, TypeCorrect, RowsInvariant, PTL DEF Spec

\* A batch was planned within the request budget; whichever of its rows are
\* read again, all are granted their requests, whatever was edited meanwhile.
THEOREM BatchesFit == Spec => []BatchFits
<1>1. RowsInv /\ BatchesInv => BatchFits
  <2> SUFFICES ASSUME RowsInv, BatchesInv, NEW w \in Workflows, wf[w].pc = "asking",
                      ToSet(wf[w].asked) \subseteq ToSet(wf[w].batch)
               PROVE  \A i \in DOMAIN wf[w].asked : Granted(wf[w].asked)[i]
    BY DEF BatchFits
  <2>1. Admitted(wf[w].batch) /\ InOrder(wf[w].asked, wf[w].batch) /\ Own(wf[w].asked)
    BY DEF BatchesInv, Orderly, RowsInv, SequencesOK
  <2> QED BY <2>1, PartFits
<1> QED BY <1>1, RowsInvariant, BatchesInvariant, PTL
=============================================================================
