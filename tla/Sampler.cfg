CONSTANTS
    a = a
    b = b
    c = c
    eos = eos
    Token <- MCToken
    Eos = eos
    Logit <- MCLogit
    Configs <- MCConfigs
    RecentMax = 2
    NoLimit = NoLimit
    NoToken = NoToken
SYMMETRY Interchangeable
SPECIFICATION Spec
INVARIANTS
    TypeOK
    NeverPromoted
    NucleusIsSmallest
    DrawnFromBest
    EndNeverPenalised
CHECK_DEADLOCK FALSE
