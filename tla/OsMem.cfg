SPECIFICATION Spec
CONSTANTS
    ALIGNMENT = 2
    METADATA_SIZE = 2
    MMAP_THRESHOLD = 12
    PAGE_SIZE = 6
    HeapBase = 2
    HeapLimits = {8, 28}
    MapAddresses = {40, 60}
    Sizes = {1, 5, 11}
    MaxLive = 3
    MovesStale = FALSE
INVARIANTS
    BlocksPartitionHeap
    BlocksInUseAreHeld
    ContentsKept
CHECK_DEADLOCK FALSE
