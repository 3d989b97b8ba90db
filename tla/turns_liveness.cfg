SPECIFICATION FairAgentSpec
CONSTANTS
    Inputs = {m1, m2}
    Cancellable = {}
    Stops = {stop1}
    Deletes = {delete1}
    Patches = {}
    Requests = {}
    MaxCrashes = 0
    LateAnswers = FALSE
    StopMayFail = FALSE
    None = None
PROPERTIES InputsDelivered HaltCompletes
CHECK_DEADLOCK FALSE
