SPECIFICATION FairSpec
CONSTANTS
    MaxW = 2
    MaxH = 2
    Cols = 2
    Rows = 2
    Switches <- OneSwitch
    Boxes <- OneBox
    MaxSwitches = 1
    MaxUpdates = 0
    JunkSizes <- OneSize
    JunkRegions <- OneRegion
    JunkFormats = {9}
    ValidFormats = {1}
    Faults = {}
PROPERTY SurfaceFollowsSwitch
CHECK_DEADLOCK FALSE
