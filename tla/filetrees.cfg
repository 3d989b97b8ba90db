SPECIFICATION Spec
CONSTANTS
    Roots = {r1, r2}
    Endpoints = {e1, e2, e3}
    Trees = {t1, t2}
    Sizes = {1, 2}
    Budget = 3
    Capacity = 1
    None = None
SYMMETRY Symmetry
VIEW Seen
INVARIANTS
    ReservationsExact
    NoIdleTreeUnlessLeaked
    AccountingExact
    OneTreePerRoot
    ErrorIsNext
PROPERTIES
    DropsAreJustified
CHECK_DEADLOCK FALSE
