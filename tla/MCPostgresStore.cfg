CONSTANTS
    Keys <- MCKeys
    Versions <- MCVersions
    ThrottleLimit = 2
    Callers = {"a", "b"}
    Clients = {"ca", "cb"}
    ClientOf <- OneEach
    Connections = {"x", "y"}
    Calls <- AnyThenRacing
    Seeds <- MCSeeds
    MaxFaults = 1
SPECIFICATION Spec
INVARIANTS PlansWhole MigratedOnce AcknowledgedKept
PROPERTIES CleanupSparesYoung CallsEnd
CHECK_DEADLOCK FALSE
