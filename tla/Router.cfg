SPECIFICATION Spec
CONSTANTS
    Bits = 2
    NULL = NULL
    rtable <- MCTable
    Own <- MCOwn
    Destinations <- MCDestinations
    TTLs = {1, 3}
    ARP_TABLE_SIZE = 6
    MaxQueue = 3
INVARIANTS
    ForwardedToBestHop
    RequestsMatchQueue
    TrieFindsLongestPrefix
    ChecksumVerifies
PROPERTIES
    QueueDrains
CHECK_DEADLOCK FALSE
