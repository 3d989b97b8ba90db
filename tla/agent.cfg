SPECIFICATION FairSpec
CONSTANTS
    Natives = {n1}
    Calls = {c1, c2}
    Gated = {c1}
    Buffer = 1
    None = None
INVARIANTS
    OneReply
    RunsByApproval
    LockIsLive
    Reaped
PROPERTIES
    StopStartsNothing
    TurnEnds
CHECK_DEADLOCK FALSE
