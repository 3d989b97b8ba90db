SPECIFICATION Spec
CONSTANTS
    Dirs = {d1, d2}
    Root = Root
    Names = {a, b}
    Ignored = a
    MaxPatch = 3
    QueueSize = 5
    MaxChanges = 2
    MaxFiles = 1
    None = None
SYMMETRY Symmetry
INVARIANTS
    Converged
CHECK_DEADLOCK FALSE
