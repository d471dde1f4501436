SPECIFICATION Spec
CONSTANTS
    Literal <- MCLiteral
    Consistent <- MCConsistent
    MaxScopes = 2
    MaxCached = 2
INVARIANTS TypeOK CoreRight
PROPERTY KeepsPromise
CHECK_DEADLOCK FALSE
