SPECIFICATION FairSpec
CONSTANTS
    Workers = {w1, w2}
    Main = main
    Root = 0
    Tasks <- MCNodes
    Graphs <- MCBranchingGraphs
INVARIANTS
    NullOnlyWhenComplete
