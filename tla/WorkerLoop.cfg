SPECIFICATION FairSpec
CONSTANTS
    VMs = {vm1, vm2}
    HWM = 1
    MaxEvents = 2
    MaxUpdates = 3
    MaxConnections = 2
    Restarting = {vm1}
INVARIANTS
    TypeOK
    InputInOrder
    OwedNeverLost
    DequeueNeverWaits
PROPERTY
    InputArrives
CHECK_DEADLOCK FALSE
