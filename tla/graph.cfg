SPECIFICATION FairSpec
CONSTANTS
    Vertices <- MCVertices
    Graphs <- MCGraphs
INVARIANTS TypeOK NoCycleSolved CycleNegative NeverPanics
PROPERTY Terminates
