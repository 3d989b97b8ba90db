SPECIFICATION Spec
CONSTANTS
    Inputs = {m1, m2}
    Cancellable = {m1, m2}
    Stops = {}
    Deletes = {}
    Patches = {}
    Requests = {}
    MaxCrashes = 0
    LateAnswers = FALSE
    StopMayFail = FALSE
    None = None
INVARIANT BusyHasOwner
CHECK_DEADLOCK FALSE
