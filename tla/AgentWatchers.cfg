SPECIFICATION FairSpec
CHECK_DEADLOCK FALSE
CONSTANTS
    s1 = s1  s2 = s2  t1 = t1  t2 = t2  d1 = d1  d2 = d2  amp1 = amp1  p1 = p1  p2 = p2
    Dirs = {d1, d2, NoDir}
    Threads = {t1, t2}
    Panes = {p1, p2}
    Pids = {amp1}
    Sessions = {s1, s2}
    DirOf <- MCDirOf
    Within = {}
    Worlds <- MCWorlds
    Entries = {"tool", "end"}
    NoDir = NoDir
    NoPid = NoPid
    NoPane = NoPane
    Unborn = Unborn
    NoSession = NoSession
    NoRow = NoRow
    NoFile = NoFile
    NoSnapshot = NoSnapshot
    NoLayout = NoLayout
    Wait = 1
    Stuck = 2
    Recent = 2
    Oldest = 1
    MaxTime = 2
    MaxEvents = 2
INVARIANT RoutesAreTrue
PROPERTIES SeedsAreNotOlder FilesAreShown
