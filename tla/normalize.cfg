SPECIFICATION Spec
CONSTANTS
    Nesting = 8
    Inputs <- MCInputs
INVARIANTS LookupsInRange IntervalsProper NegationsAtPropositions JunctionsFlat ImplicationsSplit EnginesAgree SameQuestion RootCoherent
CHECK_DEADLOCK FALSE
