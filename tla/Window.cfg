CONSTANTS
    Call = {c1, c2}
    Model = {ma, mb}
    NoModel = NoModel
    NoCall = NoCall
    PromptLens = {1, 9}
    Frame = 1
    SystemLen = 1
    ContextLen = 7
    MaxNew = 1
    DropSize = 2
    MaxTurns = 2
SPECIFICATION FairWindow
INVARIANTS
    WTypeOK
    PromptFits
    ForgetsTrimmed
    LockedForAReason
    ShowsTheModel
PROPERTIES
    InputComesBack
CHECK_DEADLOCK FALSE
