------------------------------ MODULE MCRoutes ------------------------------
EXTENDS RouteEnrichment, TLC

Drive == Segment(<<0, 4, 6>>, "driving")
DriveDetour == Segment(<<0, 2, 4, 6>>, "driving")
Hike == Segment(<<6, 8, 10>>, "hike")
Walk == Segment(<<10, 12, 14>>, "walking")
Late == Segment(<<20, 27>>, "walking")

MCImports == {{Drive, Hike, Walk}, {DriveDetour, Hike, Walk, Late}}

Says(what, head, tail) == [says |-> what, head |-> head, tail |-> tail]

\* A whole road, one that begins late, one that ends early, and two matches.  A
\* part of two fixes that loses one is no road: the match fails.
MCAnswerKinds ==
    {Says("road", 0, 0), Says("road", 1, 0), Says("road", 0, 1), Says("matches", 0, 0)}

MCDirectionsMax == [driving |-> 9, walking |-> 5]
MCSymmetry == Permutations(Workflows)
=============================================================================
