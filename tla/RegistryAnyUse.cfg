SPECIFICATION Spec
CONSTANTS
    UUIDs = {vm1}
    MaxListeners = 2
    AutoPorts <- ThreePorts
    PortRequests = {0, 2}
    ForeignPorts = {1}
    Faults = {"ctor", "init", "start"}
    ReuseUUIDs = TRUE
INVARIANTS
    PointersLive
    ServedVMReachable
    StoppedBeforeDestroyed
CHECK_DEADLOCK FALSE
