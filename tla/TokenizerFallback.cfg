CONSTANTS
    Vocab <- MCVocab
    Merges <- MCMerges
    Texts <- MCTexts
    MaxMatch = 4
    TableLen = 3
    SkippedIds <- MCSkippedIds
SPECIFICATION Spec
PROPERTIES
    FallbackUsesByte
CHECK_DEADLOCK FALSE
