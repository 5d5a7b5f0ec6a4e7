SPECIFICATION FairSpec
CHECK_DEADLOCK FALSE
CONSTANTS
    Contents = {c1, c2}
    Sidebars = {s1}
    Owns = {"none"}
    Globals = {"failed"}
    MaxEvents = 4
INVARIANTS SavedIsOwn
PROPERTIES OnlyRemovablePanesGo DeadPanesGo
