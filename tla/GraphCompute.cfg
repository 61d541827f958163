CONSTANTS
    NThreads = 3
    Graph <- MCGraph
    ChunkSize = 1
    VecChunkSize = 4
SPECIFICATION Spec
INVARIANTS
    TypeOK
    SourcesComplete
    WorkDataIsCurrent
    NoCellTwice
    SharedOutlivesThreads
PROPERTIES
    AllReturn
CHECK_DEADLOCK FALSE
