CONSTANTS
    ContextLen = 96
    Message <- MCMessage
    Bytes <- MCBytes
    Tokens <- MCTokens
    FirstFrame = 22
    FollowFrame = 10
    MaxTokensArg <- MCMaxTokensArg
    NoMessage = NoMessage
    short = short
    spaced = spaced
    dense = dense
SPECIFICATION Spec
INVARIANTS
    ForgetsOnReset
