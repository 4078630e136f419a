SPECIFICATION FairSpec
CONSTANTS
    UUIDs = {vm1, vm2}
    MaxListeners = 2
    AutoPorts <- TwoPorts
    PortRequests = {0}
    ForeignPorts = {1}
    Faults = {"init", "start"}
    ReuseUUIDs = FALSE
INVARIANTS
    TypeOK
    PortsExact
    NoRivalAtStart
PROPERTIES
    ImplementsLease
    StoppedIsDestroyed
CHECK_DEADLOCK FALSE
