SPECIFICATION Spec
CONSTANTS
    UUIDs = {vm1}
    MaxListeners = 2
    AutoPorts <- ThreePorts
    PortRequests = {0}
    ForeignPorts = {}
    Faults = {}
    ReuseUUIDs = FALSE
INVARIANT
    DestroyedUnused
CHECK_DEADLOCK FALSE
