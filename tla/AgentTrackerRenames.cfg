CONSTANTS
    Sessions = {s1, s2}
    Agents = {amp}
    Threads = {t1}
    Panes = {p1}
    Names = {}
    NoThread = NoThread
    NoPane = NoPane
    NoName = NoName
    NoReport = NoReport
    NoRename = NoRename
    NoPass = NoPass
    Logged = {amp}
    Reported = {"running", "done"}
    Settle = 0
    StuckAfter = 0
    PruneAfter = 0
    IdleAfter = 0
    MaxTime = 1
    MaxEvents = 0
    MaxSnapshots = 1
    MaxSeeds = 1
    MaxChanges = 2
SPECIFICATION FairSpec
CHECK_DEADLOCK FALSE
INVARIANTS UnseenMeansFinished
PROPERTIES UnseenIsNotLost RunningEnds
