SPECIFICATION Spec
CONSTANTS
    MaxPid = 3
    MaxTime = 6
    MinRemaining = 1
    MaxSlice = 3
    VruntimeCap = 5
    SleepCap = 2
    Priorities = {1, 2}
    SleepTimes = {1, 3}
    Events = {1}
    NoEvent = NoEvent
INVARIANTS
    TimesAddUp
    BoundedWait
    HigherPriorityWaitsLittle
    LeastUsedWaitsLittle
PROPERTIES
    KeepsPromises
    SleepEnds
CHECK_DEADLOCK FALSE
