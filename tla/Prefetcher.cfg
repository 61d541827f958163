CONSTANTS
    NLayers = 4
    Depth = 2
SPECIFICATION FairSpec
INVARIANTS
    TypeOK
    MappedWhileRunning
PROPERTIES
    ShutdownEnds
    PrefetchCatchesUp
CHECK_DEADLOCK FALSE
