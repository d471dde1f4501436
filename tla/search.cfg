SPECIFICATION FairSpec
CONSTANTS
    Nodes <- MCNodes
    Roots <- MCRoots
    Literals <- MCLiterals
    Time <- MCTime
    Simple <- MCSimple
    Poised <- MCPoised
    Leaf <- MCLeaf
    Children <- MCChildren
    Covers <- MCCovers
    Consistent <- MCConsistent
    Cores <- MCCores
    Open <- MCOpen
    Under <- MCUnder
    MaxDepth = 5
    Followed = 2
    Memoization = TRUE
INVARIANTS TypeOK SatSound UnknownOnlyIfCut UnsatSound StoreSound ResultBeforeFinish SolverMirrorsBranch CoreAfterSearch TraceIsBranch ChecksAllowed
PROPERTIES Termination KeepsProtocol
