SPECIFICATION Spec
CONSTANTS
    Nesting = 6
    Formulas <- Pairwise
    Built <- AllTableaux
    FormulaOptimizations = FALSE
    JumpRuleEnabled = FALSE
    SimpleFirst = FALSE
    Nodes <- MCNodes
    Roots <- MCRoots
    Literals <- MCLiterals
    Time <- MCTime
    Simple <- MCSimple
    Poised <- MCPoised
    Leaf <- MCLeaf
    Children <- MCChildren
    Covers <- MCCovers
    Consistent <- MCConsistent
    Cores <- MCCores
    Open <- MCOpen
    Under <- MCUnder
    NodeOf <- NodeAt
    Rank <- MCRank
    MaxDepth = 1000
    Memoization = FALSE
INVARIANTS SatHasModel UnsatIsRight
