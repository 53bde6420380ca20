SPECIFICATION FairSpec
CONSTANTS
    Workers = {w1, w2, w3}
    Main = main
    Root = 0
    Tasks <- MCNodes
    Graphs <- MCGraphs
INVARIANTS
    MarkedNodeIsInOnePlace
    FinishedMeansQuiescent
    OnlyMainsTasksAreLost
    PrintedSumIsSerialSum
PROPERTIES
    TraversalSpec
    Termination
