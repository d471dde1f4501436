SPECIFICATION Spec
CONSTANTS
    Atoms <- MCAtoms
    Relations <- MCRelations
    True = "true"
    False = "false"
    Literal <- MCLiteral
    RelationsConsistent <- MCRelationsConsistent
    RelationCores <- MCRelationCores
    MaxScopes = 3
INVARIANTS TypeOK CoreAvailable AtomCoreRight
PROPERTY KeepsPromise
