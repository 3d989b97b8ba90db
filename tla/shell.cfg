SPECIFICATION FairSpec
CONSTANTS
    Commands = {c1, c2, c3}
    Cancellable = {c1}
    Stops = {stop1}
    Deletes = {delete1}
    None = None
INVARIANTS StartsExclude ResultsComplete NoStrayGroup
PROPERTIES StopIsFinal CommandsEnd
CHECK_DEADLOCK FALSE
