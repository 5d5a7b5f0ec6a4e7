SPECIFICATION FairSpec
CONSTANTS
    Servers = {s1, s2}
    NoServer = NoServer
    MaxTampers = 1
    MaxOutages = 1
    MaxUpgrades = 1
    MaxDisturbances = 2
CHECK_DEADLOCK FALSE
INVARIANTS
    PidComesWithToken
    ExitLeavesNoIdentity
PROPERTIES
    ImplementsRegistry
    IdentityIsRepaired
    NoTmuxNoServer
    ShutdownFreesPort
