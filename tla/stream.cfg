SPECIFICATION Spec
CONSTANTS
    Clients = {c1}
    Streams = {d1, d2}
    ReplayLimit = 2
    LiveCapacity = 0
    MaxRows = 4
    MaxRevision = 1
    None = None
SYMMETRY StreamSymmetry
INVARIANTS TypeOK StreamExact OneRowPerStream
PROPERTIES NoSilentLoss
CHECK_DEADLOCK FALSE
