CONSTANTS
    Vocab <- MCVocab
    Merges <- MCMerges
    Texts <- MCTexts
    MaxMatch = 4
    TableLen = 3
    SkippedIds <- MCSkippedIds
SPECIFICATION Spec
INVARIANTS
    NothingLost
    LongestMatched
PROPERTIES
    MergesOnlyLongTokens
CHECK_DEADLOCK FALSE
