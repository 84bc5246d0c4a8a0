SPECIFICATION MCSpec
CONSTANTS
    Workers = {agent, sync}
    UI = ui
    MaxPairs = 4
    MaxOpens = 2
    Tabs = {left, right}
    MaxFailed = 2
    LockTime = 2
    AccessTime = 2
    LastTime = 4
    MaxLogins = 2
    MaxWrong = 4
INVARIANTS
    ReplayIsExplained
    StoredPairIsCurrent
    LockBoundsGuesses
    AbandonedIsExplained
PROPERTIES
    RevokedIsFinal
    ExpiredIsRenewed
CHECK_DEADLOCK FALSE
