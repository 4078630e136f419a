SPECIFICATION FairSpec
CONSTANTS
    Align = 2
    Surfaces <- MCSurfaces
    Regions <- FewRegions
    ShmPixels = 12
    ShmFaults = {"shm_open", "ftruncate", "mmap"}
    HWM = 2
    MaxChanges = 4
    MaxRestarts = 1
INVARIANTS
    TypeOK
    StalePixelsDirty
    SurfaceAnnounced
    DamageNeverLost
    ShutdownIsLast
PROPERTIES
    DamageReachesWire
    InterruptStopsLoop
CHECK_DEADLOCK FALSE
