SPECIFICATION Spec
CONSTANTS
    Nesting = 6
    Formulas <- RuleFormulas
    Built <- AllTableaux
    FormulaOptimizations = TRUE
    JumpRuleEnabled = TRUE
    SimpleFirst = TRUE
    Nodes <- MCNodes
    Roots <- MCRoots
    Literals <- MCLiterals
    Time <- MCTime
    Simple <- MCSimple
    Poised <- MCPoised
    Leaf <- MCLeaf
    Children <- MCChildren
    Covers <- MCCovers
    Consistent <- MCConsistent
    Cores <- MCCores
    Open <- MCOpen
    Under <- MCUnder
    NodeOf <- NodeAt
    Rank <- MCRank
    MaxDepth = 1000
    Memoization = TRUE
INVARIANTS SatHasModel UnsatHasNoModel StoreHasNoModel MemoizedClosed TraceIsBranch TraceIsModel
