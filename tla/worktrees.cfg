SPECIFICATION FairSpec
CONSTANTS
    Paths = {p1}
    Home = Home
    Worktrees = {w1, w2}
    Sessions = {s1}
    Commands = {c1, c2}
    Removals = {r1}
    Forgets = {f1}
    MaxProjects = 2
    MaxCrashes = 1
    None = None
INVARIANTS TypeOK RemovalExcludesWork TreesClaimed
PROPERTIES WorkingDirFixed RequestsEnd
CHECK_DEADLOCK FALSE
