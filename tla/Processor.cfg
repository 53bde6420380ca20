SPECIFICATION FairSpec
CONSTANTS
    Pids = {1, 2, 3}
    Durations = {1, 3}
    Events = {e1}
    NoEvent = NoEvent
    MaxSlice = 2
    Budget = 5
    Word = 4
INVARIANTS RunsAlone ThreadPerProcess
PROPERTIES EveryThreadEnds
CHECK_DEADLOCK FALSE
