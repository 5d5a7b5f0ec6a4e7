SPECIFICATION FairSpec
CONSTANTS
    Windows = {w1, w2}
    NoWindow = NoWindow
    MaxQueue = 1
    MaxGenerations = 2
CHECK_DEADLOCK FALSE
INVARIANTS
    HiddenMeansNoSidebar
    OneSidebarPerWindow
    CleanExitRemovesHooks
PROPERTIES
    LateOperationsChangeNothing
    OnlyToggleUndoesHide
    ImplementsChoice
    ShutdownCompletes
    ChoiceIsRestored
