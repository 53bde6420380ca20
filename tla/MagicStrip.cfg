SPECIFICATION StripSpec
CONSTANTS
    Arguments = {"a"}
    MaxNodes = 3
    MaxHistory = 2
    MaxQueue = 2
    MallocFails = FALSE
INVARIANT WellLinked
PROPERTY ImplementsTape
CHECK_DEADLOCK FALSE
