SPECIFICATION Spec
CONSTANTS
    Align = 2
    Surfaces <- OneSize
    Regions <- FewRegions
    ShmPixels = 12
    ShmFaults = {}
    HWM = 1
    MaxChanges = 3
    MaxRestarts = 1
INVARIANT SwitchIsEnqueued
CHECK_DEADLOCK FALSE
