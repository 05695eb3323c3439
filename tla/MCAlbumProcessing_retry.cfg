SPECIFICATION Spec
CONSTANTS
    Exports <- SmallExports
    AddedMedia = {}
    Failures = {"weather"}
    MaxFailures = 1
    MaxEdits = 0
    MaxEvents = 1
INVARIANTS RetryKeepsMedia
CHECK_DEADLOCK FALSE
