SPECIFICATION Spec
CONSTANTS
    Bits = 2
    NULL = NULL
    rtable <- MCTable
    Own <- MCOwn
    Destinations <- MCDestinations
    TTLs = {1, 3}
    ARP_TABLE_SIZE = 4
    MaxQueue = 2
INVARIANT
    RouterStaysUp
CHECK_DEADLOCK FALSE
