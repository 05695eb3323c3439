SPECIFICATION Spec
CONSTANTS
    Exports <- MCExports
    AddedMedia = {7, 8}
    Failures = {"weather", "media", "save", "crash"}
    MaxFailures = 2
    MaxEdits = 2
    MaxEvents = 2
INVARIANTS LayoutsReadable FilesMatchRows ChaptersCoverSteps
PROPERTIES EveryPhotoPlaced EditsSurvive
CHECK_DEADLOCK FALSE
