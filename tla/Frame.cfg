SPECIFICATION FairSpec
CONSTANTS
    MaxW = 1
    MaxH = 2
    Cols = 1
    Rows = 3
    Switches <- MCSwitches
    Boxes <- MCBoxes
    MaxSwitches = 1
    MaxUpdates = 2
    JunkSizes <- MCJunkSizes
    JunkRegions <- MCJunkRegions
    JunkFormats = {1}
    ValidFormats = {1}
    Faults = {"mmap"}
INVARIANTS
    TypeOK
    CopyInSurface
    CopyFromMapped
    CopyInRegion
PROPERTIES
    StopEndsThread
    LastRegionShown
CHECK_DEADLOCK FALSE
