SPECIFICATION Spec
CONSTANTS
    Inputs = {m1, m2, m3}
    Cancellable = {}
    Stops = {stop1}
    Deletes = {delete1}
    Patches = {patch1}
    Requests = {r1}
    MaxCrashes = 0
    LateAnswers = FALSE
    StopMayFail = FALSE
    None = None
SYMMETRY InputSymmetry
INVARIANTS BusyHasOwner NoLostWakeup SandboxFixed
CHECK_DEADLOCK FALSE
