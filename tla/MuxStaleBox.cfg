SPECIFICATION Spec
CONSTANTS
    Align = 2
    Surfaces <- MCSurfaces
    Regions <- MCRegions
    ShmPixels = 12
    ShmFaults = {}
    HWM = 1
    MaxChanges = 3
    MaxRestarts = 0
INVARIANT CopyFitsDestination
CHECK_DEADLOCK FALSE
