SPECIFICATION MCSpec
CONSTANTS
    Workers = {agent, sync}
    UI = ui
    MaxPairs = 4
    MaxOpens = 2
    Tabs = {left}
    MaxFailed = 2
    LockTime = 2
    AccessTime = 2
    LastTime = 0
    MaxLogins = 0
    MaxWrong = 0
PROPERTIES
    ReuseClearsTokens
CHECK_DEADLOCK FALSE
