-------------------------- MODULE RouteEnrichment --------------------------
(***************************************************************************)
(* The roads of one album's segments: logic/segment_routes.py with the     *)
(* boundary edit of routes/albums.py and models/segment.py.  Every edit    *)
(* and every import starts a workflow; workflows plan a batch, ask Mapbox  *)
(* under an advisory lock and write one outcome per segment, while the     *)
(* album is edited and imported again.                                     *)
(***************************************************************************)
EXTENDS RoutePlan

CONSTANTS
    Workflows,      \* workflow runs that may be active at once
    NoWorkflow,
    AnswerKinds,    \* what Mapbox may answer, see AnswerTo
    Imports,        \* the sets of segments an import may produce
    Boundaries,     \* boundary times the editor asks for
    MinSplitLength, \* MIN_SPLIT_LENGTH_KM
    MaxAttempts,    \* max_attempts of enrich_album_routes_step, 3
    MaxEdits,       \* bound: boundary edits and imports
    MaxCrashes      \* bound: crashes of the server

ASSUME EnrichmentConstants ==
    /\ NoWorkflow \notin Workflows
    /\ \A kind \in AnswerKinds : kind.head \in Nat /\ kind.tail \in Nat
    /\ MaxEdits \in Nat /\ MaxCrashes \in Nat

VARIABLES
    segs,     \* rows of segment with their enrichment state
    wf,       \* the workflow runs
    locker,   \* holder of the advisory lock
    pending,  \* starts requested and not yet made (background tasks)
    lost,     \* a start or a workflow failed: only a restart looks again
    edits,
    crashes

vars == <<segs, wf, locker, pending, lost, edits, crashes>>

Segment(points, kind) == [points |-> points, kind |-> kind, route |-> <<>>, status |-> "none"]

First(row) == row.points[1]

Final(row) == row.points[Len(row.points)]

Key(row) == <<First(row), Final(row)>>

\* The segments of an import have a key each and two fixes or more, in the order
\* of time; a boundary may not cut off a piece without length.
ASSUME SegmentConstants ==
    /\ Boundaries \subseteq Int /\ MinSplitLength \in Nat \ {0}
    /\ \A rows \in Imports :
          /\ IsFiniteSet(rows)
          /\ \A r, s \in rows : Key(r) = Key(s) => r = s
          /\ \A r \in rows :
                /\ r = Segment(r.points, r.kind)
                /\ r.points \in Seq(Int) /\ Len(r.points) >= 2 /\ First(r) < Final(r)
                /\ \A i, j \in DOMAIN r.points : i <= j => r.points[i] <= r.points[j]

\* The row under a key, as a set of at most one.
At(rows, key) == {r \in rows : Key(r) = key}

MatchableKinds == {"driving", "walking"}

\* Mutant: a recorded outcome does not close the segment.
NeedsRouteEnrichment_Again(row) == row.kind \in MatchableKinds /\ Len(row.route) < 2

NeedsRouteEnrichment(row) ==
    /\ row.kind \in MatchableKinds
    /\ row.status \in {"none", "matched"}
    /\ Len(row.route) < 2

Waiting(rows) == {r \in rows : NeedsRouteEnrichment(r)}

\* The waiting rows by their start, equal ones in any order.
RouteCandidates(rows) ==
    {seq \in SetToSeqs(Waiting(rows)) :
        \A i, j \in DOMAIN seq : i < j => First(seq[i]) <= First(seq[j])}

SnapshotsForKeys(rows, batch) ==
    FoldLeft(LAMBDA snapshots, planned :
                snapshots \o SetToSeq({r \in At(rows, Key(planned)) : NeedsRouteEnrichment(r)}),
             <<>>, batch)

Idle == [pc |-> "done", batch |-> <<>>, asked |-> <<>>, tries |-> 0, failed |-> 0]

Ended == {"done", "error"}

Init ==
    /\ segs \in Imports
    /\ wf = [w \in Workflows |-> Idle]
    /\ locker = NoWorkflow
    /\ pending = 1
    /\ lost = FALSE
    /\ edits = 0
    /\ crashes = 0

-----------------------------------------------------------------------------
(* The editor and the importer *)

\* Two neighbours cut again at a time: each keeps its kind, routes are gone.
SplitSegments(a, b, time) ==
    LET early == IF First(a) <= First(b) THEN a ELSE b
        late == IF First(a) <= First(b) THEN b ELSE a
        combined == early.points \o late.points
        count == Cardinality({i \in DOMAIN combined : combined[i] <= time})
        exact == count > 0 /\ combined[count] = time
        before == SubSeq(combined, 1, count) \o (IF exact THEN <<>> ELSE <<time>>)
        after == (IF exact THEN <<>> ELSE <<time>>) \o SubSeq(combined, count + 1, Len(combined))
    IN  [ok |-> /\ Final(early) <= First(late)
                /\ combined[1] < time /\ time < combined[Len(combined)]
                /\ ~(Final(early) < time /\ time < First(late))
                /\ Len(before) >= 2 /\ Len(after) >= 2
                /\ TraceLength(before) >= MinSplitLength
                /\ TraceLength(after) >= MinSplitLength,
         rows |-> {Segment(before, early.kind), Segment(after, late.kind)}]

\* The nearest segment on the dragged side that is not a flight.
Adjacent(rows, target, handle) ==
    LET side == {r \in rows : /\ r.kind # "flight"
                              /\ IF handle = "start" THEN Final(r) <= First(target)
                                 ELSE First(r) >= Final(target)}
    IN  IF handle = "start" THEN {r \in side : \A s \in side : Final(s) <= Final(r)}
        ELSE {r \in side : \A s \in side : First(r) <= First(s)}

\* A cut that would give a piece the key of another row breaks the primary key
\* and changes nothing.
AdjustSegmentBoundary ==
    /\ edits < MaxEdits
    /\ \E target \in segs, handle \in {"start", "end"}, time \in Boundaries :
          /\ target.kind # "flight"
          /\ \E adjacent \in Adjacent(segs, target, handle) :
                LET split == SplitSegments(target, adjacent, time)
                    others == segs \ {target, adjacent}
                IN  /\ split.ok
                    /\ \A row \in split.rows : At(others, Key(row)) = {}
                    /\ segs' = others \cup split.rows
    /\ edits' = edits + 1
    /\ pending' = pending + 1
    /\ UNCHANGED <<wf, locker, lost, crashes>>

\* Processing saves another upload: all segments are deleted and rebuilt, their
\* enrichment states go with them, and a workflow is scheduled.
ImportAgain ==
    /\ edits < MaxEdits
    /\ segs' \in Imports
    /\ edits' = edits + 1
    /\ pending' = pending + 1
    /\ UNCHANGED <<wf, locker, lost, crashes>>

-----------------------------------------------------------------------------
(* The workflow *)

StartWorkflow(w) ==
    /\ pending > 0
    /\ wf[w].pc \in Ended
    /\ pending' = pending - 1
    /\ wf' = [wf EXCEPT ![w] = [Idle EXCEPT !.pc = "plan"]]
    /\ UNCHANGED <<segs, locker, lost, edits, crashes>>

\* start_album_route_enrichment logs an error and returns.
StartFails ==
    /\ pending > 0
    /\ pending' = pending - 1
    /\ lost' = TRUE
    /\ UNCHANGED <<segs, wf, locker, edits, crashes>>

\* The end of the loop: a workflow that recorded failures ends with an error.
Finish(w) == [wf[w] EXCEPT !.pc = IF wf[w].failed > 0 THEN "error" ELSE "done"]

PlanBatch(w) ==
    /\ wf[w].pc = "plan"
    /\ \E candidates \in RouteCandidates(segs) :
          LET batch == RouteRequestBatch(candidates)
          IN  /\ wf' = [wf EXCEPT ![w] =
                          IF Waiting(segs) = {} THEN Finish(w)
                          ELSE [wf[w] EXCEPT !.pc = IF batch = <<>> THEN "error" ELSE "match",
                                             !.batch = batch, !.tries = 0]]
              /\ lost' = (lost \/ (Waiting(segs) # {} /\ batch = <<>>))
    /\ UNCHANGED <<segs, locker, pending, edits, crashes>>

AlreadyRunning(w) ==
    /\ wf[w].pc = "match"
    /\ locker # NoWorkflow
    /\ wf' = [wf EXCEPT ![w] = Finish(w)]
    /\ UNCHANGED <<segs, locker, pending, lost, edits, crashes>>

\* The lock is taken and the rows of the batch are read again.
ReadSnapshots(w) ==
    LET asked == SnapshotsForKeys(segs, wf[w].batch)
    IN  /\ wf[w].pc = "match"
        /\ locker = NoWorkflow
        /\ IF asked = <<>>
           THEN /\ wf' = [wf EXCEPT ![w].pc = "plan"]
                /\ UNCHANGED locker
           ELSE /\ wf' = [wf EXCEPT ![w].pc = "asking", ![w].asked = asked]
                /\ locker' = w
        /\ UNCHANGED <<segs, pending, lost, edits, crashes>>

\* Which of the pairs the batch's request budget admits, in their order.
Granted(asked) ==
    FoldLeft(LAMBDA acc, pair :
                LET budget == IF PlanRoute(pair.points, pair.kind).error # "none"
                              THEN [acc.budget EXCEPT !.ok = TRUE]
                              ELSE Reserve(acc.budget, Requests(pair))
                IN  [budget |-> budget, granted |-> Append(acc.granted, budget.ok)],
             [budget |-> FreshBudget, granted |-> <<>>], asked).granted

Answer(http, code, matches, tracepoints, geometry) ==
    [http |-> http, code |-> code, matches |-> matches,
     tracepoints |-> tracepoints, geometry |-> geometry]

\* What Mapbox may say to a part: a road, no road, a road in two matches, one
\* that leaves fixes unmentioned, or that the request is invalid.  A fix it
\* mentions need not be on the road: the road may begin "head" fixes late and
\* end "tail" fixes early.
AnswerTo(part, kind) ==
    LET n == Len(part.points)
        road == SubSeq(part.points, 1 + kind.head, n - kind.tail)
    IN  CASE kind.says = "road" -> Answer("ok", "Ok", 1, n, road)
          [] kind.says = "none" -> Answer("ok", "NoMatch", 0, 0, <<>>)
          [] kind.says = "matches" -> Answer("ok", "Ok", 2, n, road)
          [] kind.says = "unmentioned" -> Answer("ok", "Ok", 1, n - 1, road)
          [] OTHER -> Answer("error", "InvalidInput", 0, 0, <<>>)

PairOutcomes(pair, granted) ==
    LET parts == PlanRoute(pair.points, pair.kind).parts
    IN  {MatchOne(pair.points, pair.kind, granted,
                  [k \in DOMAIN parts |-> AnswerTo(parts[k], kinds[k])]) :
           kinds \in [DOMAIN parts -> AnswerKinds]}

\* match_segments_with_stats: an outcome for every pair, in their order.
MatchSegments(asked) ==
    LET granted == Granted(asked)
        outcomes == [i \in DOMAIN asked |-> PairOutcomes(asked[i], granted[i])]
    IN  {results \in [DOMAIN asked -> UNION {outcomes[i] : i \in DOMAIN asked}] :
           \A i \in DOMAIN asked : results[i] \in outcomes[i]}

\* Mutant: the row is found by its key alone.
WriteOutcome_ByKey(rows, pair, outcome) ==
    LET current == {r \in At(rows, Key(pair)) : NeedsRouteEnrichment(r)}
    IN  (rows \ current) \cup
        {[r EXCEPT !.route = IF outcome.status = "matched" THEN outcome.route ELSE <<>>,
                   !.status = outcome.status] : r \in current}

\* The row is read again under a row lock: an outcome counts only for the same
\* kind, the same points and a segment that still needs one.
WriteOutcome(rows, pair, outcome) ==
    LET current == {r \in At(rows, Key(pair)) :
                      r.kind = pair.kind /\ r.points = pair.points /\ NeedsRouteEnrichment(r)}
    IN  (rows \ current) \cup
        {[r EXCEPT !.route = IF outcome.status = "matched" THEN outcome.route ELSE <<>>,
                   !.status = outcome.status] : r \in current}

WriteOutcomes(rows, asked, outcomes) ==
    FoldLeft(LAMBDA acc, i : IF outcomes[i].error = "request_budget_exceeded" THEN acc
                             ELSE WriteOutcome(acc, asked[i], outcomes[i]),
             rows, [i \in DOMAIN asked |-> i])

\* Mapbox has answered every pair: one commit, then the lock is free.  The
\* result is not yet recorded as the step's.
WriteResults(w) ==
    /\ wf[w].pc = "asking"
    /\ \E outcomes \in MatchSegments(wf[w].asked) :
          LET asked == wf[w].asked
              count(S) == Cardinality({i \in DOMAIN outcomes : outcomes[i].error \in S
                                         \/ outcomes[i].status \in S})
          IN  /\ segs' = WriteOutcomes(segs, asked, outcomes)
              /\ wf' = [wf EXCEPT ![w].pc =
                          IF count({"request_budget_exceeded"}) > 0 THEN "fallback" ELSE "wrote",
                          ![w].failed = IF @ + count({"failed"}) > 0 THEN 1 ELSE 0]
    /\ locker' = NoWorkflow
    /\ UNCHANGED <<pending, lost, edits, crashes>>

\* A request or the database fails: the attempt is over and the lock is free.
TryFails(w) ==
    /\ wf[w].pc = "asking"
    /\ wf' = [wf EXCEPT ![w].tries = @ + 1, ![w].asked = <<>>,
                        ![w].pc = IF wf[w].tries + 1 = MaxAttempts THEN "mark" ELSE "match"]
    /\ locker' = NoWorkflow
    /\ UNCHANGED <<segs, pending, lost, edits, crashes>>

\* Mutant: the workflow ends with its first batch.
RecordResult_Ends(w) ==
    /\ wf[w].pc \in {"wrote", "fallback"}
    /\ wf' = [wf EXCEPT ![w].pc = IF @ = "wrote" THEN "done" ELSE "error", ![w].asked = <<>>]
    /\ lost' = (lost \/ wf[w].pc = "fallback")
    /\ UNCHANGED <<segs, locker, pending, edits, crashes>>

RecordResult(w) ==
    /\ wf[w].pc \in {"wrote", "fallback"}
    /\ wf' = [wf EXCEPT ![w].pc = IF @ = "wrote" THEN "plan" ELSE "error", ![w].asked = <<>>]
    /\ lost' = (lost \/ wf[w].pc = "fallback")
    /\ UNCHANGED <<segs, locker, pending, edits, crashes>>

\* The attempts are used up: what the batch still lacks is recorded as failed,
\* and the workflow ends with the error.  Recording may fail too.
MarkPendingFailed(w) ==
    LET asked == SnapshotsForKeys(segs, wf[w].batch)
    IN  /\ wf[w].pc = "mark"
        /\ segs' \in {WriteOutcomes(segs, asked, [i \in DOMAIN asked |-> Failed("retry_exhausted")]),
                      segs}
        /\ wf' = [wf EXCEPT ![w].pc = "error"]
        /\ lost' = TRUE
        /\ UNCHANGED <<locker, pending, edits, crashes>>

\* The process dies and starts again: locks and background tasks are gone, a
\* workflow goes on with the step whose result was not recorded, and one more
\* is started for an album with a segment that needs a road.
CrashAndRestart ==
    /\ crashes < MaxCrashes
    /\ crashes' = crashes + 1
    /\ locker' = NoWorkflow
    /\ wf' = [w \in Workflows |->
                IF wf[w].pc \in {"asking", "wrote", "fallback"}
                THEN [wf[w] EXCEPT !.pc = "match", !.asked = <<>>, !.tries = 0]
                ELSE wf[w]]
    /\ pending' = IF Waiting(segs) = {} THEN 0 ELSE 1
    /\ lost' = FALSE
    /\ UNCHANGED <<segs, edits>>

WorkflowStep(w) ==
    \/ PlanBatch(w) \/ AlreadyRunning(w) \/ ReadSnapshots(w)
    \/ WriteResults(w) \/ TryFails(w) \/ RecordResult(w) \/ MarkPendingFailed(w)

Next ==
    \/ AdjustSegmentBoundary \/ ImportAgain \/ StartFails \/ CrashAndRestart
    \/ \E w \in Workflows : StartWorkflow(w) \/ WorkflowStep(w)

Spec == Init /\ [][Next]_vars

-----------------------------------------------------------------------------
(* Properties *)

Points == Ended \cup {"plan", "match", "asking", "wrote", "fallback", "mark"}

\* The workflows, the lock and the counters keep their types; what the rows
\* hold is left to RouteOfPoints.
TypeOK ==
    /\ DOMAIN wf = Workflows
    /\ \A w \in Workflows :
          /\ DOMAIN wf[w] = {"pc", "batch", "asked", "tries", "failed"}
          /\ wf[w].pc \in Points /\ wf[w].tries \in Nat /\ wf[w].failed \in 0 .. 1
    /\ locker \in Workflows \cup {NoWorkflow}
    /\ pending \in Nat /\ edits \in 0 .. MaxEdits /\ crashes \in 0 .. MaxCrashes
    /\ lost \in BOOLEAN

\* The fixes where a part of the row's trace begins with the last fix of the
\* part before.
Seams(row) ==
    {part.points[1] : part \in ToSet(PlanRoute(row.points, row.kind).parts)} \ {First(row)}

\* A road through fixes of the row, in their order, that joins two which are no
\* neighbours only over a seam.
Follows(route, row) ==
    /\ Len(route) >= 2
    /\ ToSet(route) \subseteq ToSet(row.points)
    /\ \A i \in 1 .. Len(route) - 1 :
          /\ route[i] < route[i + 1]
          /\ \A fix \in ToSet(row.points) :
                (route[i] < fix /\ fix < route[i + 1]) =>
                    \E seam \in Seams(row) : route[i] <= seam /\ seam < route[i + 1]

\* A road leads through fixes its segment has now, not through those the
\* segment had when Mapbox was asked, none twice and none out of order.  Mapbox
\* may have left out the beginning or the end of a part, so the road may start
\* late, end early, and jump in a straight line where two parts meet; it never
\* leaves out a fix inside of a part.
RouteOfPoints == \A r \in segs : r.route = <<>> \/ Follows(r.route, r)

\* When every workflow has ended, none is to be started and none gave up, then
\* no segment waits for a road: a workflow that found the lock taken left its
\* segments to one that looked again.
AtRestResolved ==
    (pending = 0 /\ ~lost /\ \A w \in Workflows : wf[w].pc \in Ended)
        => Waiting(segs) = {}

\* A batch that was planned within the request budget also fits when its rows
\* are read again, whatever was edited or answered meanwhile; only a row that
\* an import replaced under its key may need more.
BatchFits ==
    \A w \in Workflows :
        (wf[w].pc = "asking" /\ ToSet(wf[w].asked) \subseteq ToSet(wf[w].batch))
            => \A i \in DOMAIN wf[w].asked : Granted(wf[w].asked)[i]

\* An outcome that is recorded stays as long as its segment is in the album: no
\* late answer, repeated step or failure marker replaces it.
OutcomeStays ==
    [][(~ImportAgain) => \A r \in segs :
          r.status # "none" =>
              \A s \in At(segs', Key(r)) : s.points = r.points => s \in {r, Segment(r.points, r.kind)}]_vars
=============================================================================
