SPECIFICATION Spec
CONSTANTS
    Inputs = {m1, m2, m3}
    Cancellable = {m1, m2, m3}
    Stops = {stop1}
    Deletes = {delete1}
    Patches = {}
    Requests = {}
    MaxCrashes = 1
    LateAnswers = TRUE
    StopMayFail = TRUE
    None = None
SYMMETRY InputSymmetry
INVARIANTS OneTurn DeletedIsQuiet
PROPERTIES RetainedUntilSubmission HaltedStartsNothing QueueContract
CHECK_DEADLOCK FALSE
