CONSTANTS
    Sessions = {s1}
    Agents = {amp}
    Threads = {t1, t2}
    Panes = {p1, p2}
    Names = {n1}
    NoThread = NoThread
    NoPane = NoPane
    NoName = NoName
    NoReport = NoReport
    NoRename = NoRename
    NoPass = NoPass
    Logged = {amp}
    Reported = {"running", "done"}
    Settle = 0
    StuckAfter = 0
    PruneAfter = 0
    IdleAfter = 0
    MaxTime = 1
    MaxEvents = 1
    MaxSnapshots = 0
    MaxSeeds = 1
    MaxChanges = 0
SPECIFICATION Spec
CHECK_DEADLOCK FALSE
SYMMETRY Symmetry
INVARIANT HibernatedHasNoPane
PROPERTIES SeedKeepsItsPane
