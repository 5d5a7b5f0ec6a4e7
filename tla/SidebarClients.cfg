SPECIFICATION Spec
CHECK_DEADLOCK FALSE
CONSTANTS
    Names = {"a", "b", "c", "d"}
    Groups = {"g"}
    Windows = {"w1", "w2"}
    Themes = {"t1", "t2"}
    None = None
    MaxWidth = 2
    MaxHeight = 3
    HomeOf <- MCHome
    Sessions <- MCSessions
    WindowsOf <- MCWindows
    Tasks = {"refresher"}
    Sidebars = {"p", "q"}
    Keys <- ListKeys
    MaxKeys = 1
    MaxSwitches = 0
    MaxChanges = 1
INVARIANTS FocusIsDisplayed SettledSwitchIsCleared
PROPERTY ReorderKeepsOthers
