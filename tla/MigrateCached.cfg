SPECIFICATION Spec
CONSTANTS
    Pixmaps = {p1, p2}
    Segments = {1, 2, 3}
    ShmSizes = {2}
    MallocSizes = {2}
    CachedSizes = {2}
    CacheSize = 1
    MaxQueued = 2
    MaxWrites = 2
    MaxWrapFailures = 2
SYMMETRY PixmapSymmetry
INVARIANT GpuOwnedIsFlushed
