SPECIFICATION Spec
CHECK_DEADLOCK FALSE
CONSTANTS
    Clients = {c1, c2}
    Sidebars = {c1}
    None = None
    Capacity = 2
    WebsocketLimit = 2
    PassiveLimit = 1
    MaxEvents = 2
    MaxFailures = 1
INVARIANTS EveryoneCatchesUp RefreshIsNotLost QuitReachesEveryone
PROPERTIES SidebarsAreAdmitted
