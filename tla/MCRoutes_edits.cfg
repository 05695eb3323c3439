SPECIFICATION Spec
CONSTANTS
    BatchTarget = 2
    ChunkCoords = 3
    TraceGap = 6
    DirectionsMax <- MCDirectionsMax
    Workflows = {w1, w2}
    NoWorkflow = NoWorkflow
    AnswerKinds <- MCAnswerKinds
    Imports <- MCImports
    Boundaries = {7, 8, 11}
    MinSplitLength = 1
    MaxAttempts = 2
    MaxEdits = 1
    MaxCrashes = 1
INVARIANTS  AtRestResolved BatchFits
PROPERTIES OutcomeStays
CHECK_DEADLOCK FALSE
SYMMETRY MCSymmetry
