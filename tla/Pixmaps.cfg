SPECIFICATION Spec
CONSTANTS
    Pixmaps = {p1, p2}
    Segments = {1, 2}
    ShmSizes = {2}
    MallocSizes = {1}
    CachedSizes = {2}
    CacheSize = 1
    MaxQueued = 3
    MaxWrites = 2
    MaxWrapFailures = 2
SYMMETRY PixmapSymmetry
INVARIANTS
    TypeOK
    SegmentsHeldOnce
    BusyMemoryKept
    DelayedIsWatched
    CpuOwnedIsCurrent
    GpuOwnedIsFlushed
