SPECIFICATION Spec
CHECK_DEADLOCK FALSE
CONSTANTS
    Names = {"a", "b", "c", "d"}
    Groups = {"g"}
    Windows = {"w1", "w2"}
    Themes = {"t1", "t2"}
    None = None
    MaxWidth = 3
    MaxHeight = 3
    HomeOf <- MCHome
    Sessions <- MCSessions
    WindowsOf <- MCWindows
    Tasks = {"refresher"}
    Sidebars = {"p", "q"}
    Keys <- SettingsKeys
    MaxKeys = 2
    MaxSwitches = 1
    MaxChanges = 0
INVARIANT SettingsSettle
