SPECIFICATION Spec
CONSTANTS
    Commands <- MCCommands
    Depth <- MCDepth
    Lines <- MCLines
    MaxPid = 6
    PipeCapacity = 2
INVARIANTS
    EveryChildIsAwaited
    TerminalRestored
    ResultIsDetermined
PROPERTIES
    LinesEnd
CHECK_DEADLOCK FALSE
