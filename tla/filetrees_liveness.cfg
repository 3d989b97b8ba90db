SPECIFICATION FairSpec
CONSTANTS
    Roots = {r1, r2}
    Endpoints = {e1, e2}
    Trees = {t1, t2}
    Sizes = {1}
    Budget = 1
    Capacity = 1
    None = None
PROPERTIES
    EndpointsProceed
    DroppedTreesClose
CHECK_DEADLOCK FALSE
