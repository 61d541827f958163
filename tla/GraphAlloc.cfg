CONSTANTS
    Graphs <- MCGraphs
    Tensor <- MCTensor
    NoTensor = NoTensor
    Arena = 48
    Alignment = 2
    MaxFreeBlocks = 3
    NLayer = 2
    NHead = 2
    NHeadKv = 1
    HeadDim = 2
    NFf = 3
    NVocab = 5
SPECIFICATION Spec
INVARIANTS
    TypeOK
    Accounted
    OperandsIntact
    HistoryWritten
    AllReturned
CHECK_DEADLOCK FALSE
