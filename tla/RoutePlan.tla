----------------------------- MODULE RoutePlan -----------------------------
(***************************************************************************)
(* The pure part of services/mapbox.py: which requests a recorded trace    *)
(* needs, how many traces fit one batch, what an answer of Mapbox means    *)
(* and how the answers of a trace's parts become one outcome.              *)
(*                                                                         *)
(* A trace is the sequence of its fixes' times.  The traveller moves at    *)
(* unit speed along a line, so a time also stands for a coordinate and the *)
(* length of a trace is the time it spans.                                 *)
(***************************************************************************)
EXTENDS Integers, Sequences, SequencesExt, FiniteSets

CONSTANTS
    BatchTarget,    \* ROUTE_REQUEST_BATCH_TARGET, 100 in the code
    ChunkCoords,    \* MATCH_CHUNK_COORDS, 90
    TraceGap,       \* MAX_TRACE_GAP_S, four hours
    DirectionsMax   \* _DIRECTIONS_MAX_DISTANCE_KM of each profile

ASSUME PlanConstants ==
    /\ BatchTarget \in Nat \ {0}
    /\ ChunkCoords \in Nat /\ ChunkCoords > 1

Profiles == DOMAIN DirectionsMax

Statuses == {"matched", "no_route", "failed"}

Outcome(status, route, error) == [status |-> status, route |-> route, error |-> error]

Failed(error) == Outcome("failed", <<>>, error)

NoRoute(error) == Outcome("no_route", <<>>, error)

Matched(route) == Outcome("matched", route, "none")

TraceLength(trace) == trace[Len(trace)] - trace[1]

-----------------------------------------------------------------------------
(* Planning *)

\* The trace cut into chunks: each begins with the last fix of the one before.
MatchingParts(trace) ==
    LET step == ChunkCoords - 1
        first(k) == (k - 1) * step + 1
    IN  [k \in 1 .. (Len(trace) - 2 + step) \div step |->
           [operation |-> "matching",
            points |-> SubSeq(trace, first(k), Min({first(k) + step, Len(trace)}))]]

Gaps(trace) == {trace[i + 1] - trace[i] : i \in 1 .. Len(trace) - 1}

PlanError(trace, profile) ==
    IF profile \notin Profiles THEN "unsupported_profile"
    ELSE IF \E gap \in Gaps(trace) : gap <= 0 THEN "invalid_timestamps"
    ELSE IF \E gap \in Gaps(trace) : gap >= TraceGap THEN "discontinuous_trace"
    ELSE IF Len(trace) = 2 /\ TraceLength(trace) > DirectionsMax[profile]
         THEN "directions_distance_limit"
    ELSE "none"

PlanRoute(trace, profile) ==
    LET error == PlanError(trace, profile)
    IN  [error |-> error,
         parts |-> IF error # "none" THEN <<>>
                   ELSE IF Len(trace) = 2
                        THEN <<[operation |-> "directions", points |-> trace]>>
                        ELSE MatchingParts(trace)]

\* _RequestBudget.reserve: a route that exceeds the target is taken only when
\* nothing was reserved before it.
Reserve(budget, requests) ==
    IF requests <= budget.remaining
    THEN [ok |-> TRUE, remaining |-> budget.remaining - requests,
          used |-> budget.used + requests]
    ELSE IF budget.used > 0 \/ budget.remaining = 0
         THEN [budget EXCEPT !.ok = FALSE]
         ELSE [ok |-> TRUE, remaining |-> 0, used |-> requests]

FreshBudget == [ok |-> TRUE, remaining |-> BatchTarget, used |-> 0]

Requests(pair) == Len(PlanRoute(pair.points, pair.kind).parts)

\* Mutant: a batch holds every candidate.
RouteRequestBatch_All(pairs) == pairs

\* The pairs of one batch, in order: those whose requests can be reserved.
RouteRequestBatch(pairs) ==
    FoldLeft(LAMBDA acc, pair :
                LET budget == Reserve(acc.budget, Requests(pair))
                IN  [budget |-> budget,
                     batch |-> IF budget.ok THEN Append(acc.batch, pair) ELSE acc.batch],
             [budget |-> FreshBudget, batch |-> <<>>], pairs).batch

-----------------------------------------------------------------------------
(* Answers *)

NoRouteCodes == {"NoMatch", "NoRoute", "NoSegment"}

\* The fixes sent for a part: those later than every one before.
RequestPoints(points) ==
    FoldLeft(LAMBDA kept, time :
                IF kept = <<>> \/ time > kept[Len(kept)] THEN Append(kept, time) ELSE kept,
             <<>>, points)

\* An answer that is not a success; a transient one (429 or 5xx) raises.
HttpFailure(answer) ==
    IF answer.http = "transient" THEN Outcome("transient", <<>>, answer.code)
    ELSE IF answer.code \in NoRouteCodes THEN NoRoute(answer.code)
    ELSE Failed(answer.code)

\* One match that mentions every fix of the request, or the road is a guess.
ParseMatching(answer, sent) ==
    IF answer.code \in NoRouteCodes THEN NoRoute(answer.code)
    ELSE IF answer.code # "Ok" THEN Failed(answer.code)
    ELSE IF answer.matches = 0 THEN NoRoute("NoMatch")
    ELSE IF answer.matches # 1 \/ answer.tracepoints # Len(sent)
         THEN NoRoute("incomplete_match")
    ELSE IF Len(answer.geometry) < 2 THEN Failed("invalid_geometry")
    ELSE Matched(answer.geometry)

ParseDirections(answer) ==
    IF answer.code \in NoRouteCodes THEN NoRoute(answer.code)
    ELSE IF answer.code # "Ok" THEN Failed(answer.code)
    ELSE IF answer.matches = 0 THEN NoRoute("NoRoute")
    ELSE IF Len(answer.geometry) < 2 THEN Failed("invalid_geometry")
    ELSE Matched(answer.geometry)

FetchRoutePart(part, answer) ==
    LET sent == RequestPoints(part.points)
    IN  IF part.operation = "matching" /\ Len(sent) < 2
        THEN NoRoute("insufficient_timestamp_span")
        ELSE IF answer.http # "ok" THEN HttpFailure(answer)
        ELSE IF part.operation = "matching" THEN ParseMatching(answer, sent)
        ELSE ParseDirections(answer)

-----------------------------------------------------------------------------
(* One outcome per trace *)

\* The routes of consecutive parts, the shared fix once.
Stitch(outcomes) ==
    FoldLeft(LAMBDA coords, o : coords \o (IF coords = <<>> THEN o.route ELSE Tail(o.route)),
             <<>>, outcomes)

\* Windows of BatchTarget parts; a window with a bad part ends the trace, so no
\* later window is asked: a request that fails raises, then a failure, then a
\* missing route.
ExecuteRoutePlan(outcomes) ==
    LET bad == {i \in DOMAIN outcomes : outcomes[i].status # "matched"}
        window(i) == (i - 1) \div BatchTarget
        last == {i \in bad : window(i) = window(Min(bad))}
        with(status) == {i \in last : outcomes[i].status = status}
        coords == Stitch(outcomes)
    IN  IF bad = {} THEN IF Len(coords) < 2 THEN Failed("invalid_geometry") ELSE Matched(coords)
        ELSE IF with("transient") # {} THEN outcomes[Min(with("transient"))]
        ELSE IF with("failed") # {} THEN outcomes[Min(with("failed"))]
        ELSE outcomes[Min(bad)]

\* What a trace gets when its request budget is granted or not; "answers"
\* holds what Mapbox says to each of its parts.
MatchOne(trace, profile, granted, answers) ==
    LET plan == PlanRoute(trace, profile)
    IN  IF Len(trace) < 2 THEN Failed("insufficient_points")
        ELSE IF plan.error \in {"invalid_timestamps", "unsupported_profile"}
             THEN Failed(plan.error)
        ELSE IF plan.error # "none" THEN NoRoute(plan.error)
        ELSE IF ~granted THEN NoRoute("request_budget_exceeded")
        ELSE ExecuteRoutePlan([i \in DOMAIN plan.parts |->
                                 FetchRoutePart(plan.parts[i], answers[i])])
=============================================================================
