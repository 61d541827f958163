CONSTANTS
    t1 = t1
    t2 = t2
    Token <- MCToken
    NCtx = 3
    MaxBatch = 2
    Blank = Blank
    Torn = Torn
    MaxContexts = 6
    MaxLoads = 2
    Null = Null
    Alive = Alive
SYMMETRY Interchangeable
SPECIFICATION FSpec
INVARIANTS
    FTypeOK
    RowsWellPlaced
    ContextsOwned
    LossesAccounted
PROPERTIES
    ImplementsTranscript
CHECK_DEADLOCK FALSE
