SPECIFICATION Spec
CONSTANTS
    Nesting = 6
    Formulas <- CutFormula
    Built <- AllTableaux
    FormulaOptimizations = TRUE
    JumpRuleEnabled = TRUE
    SimpleFirst = TRUE
    Nodes <- MCNodes
    Roots <- MCRoots
    Literals <- MCLiterals
    Time <- MCTime
    Simple <- MCSimple
    Poised <- MCPoised
    Leaf <- MCLeaf
    Children <- MCChildren
    Covers <- MCCovers
    Consistent <- MCConsistent
    Cores <- MCCores
    Open <- MCOpen
    Under <- MCUnder
    NodeOf <- NodeAt
    Rank <- MCRank
    MaxDepth = 1
    Memoization = TRUE
INVARIANT CutNeverUnsat
