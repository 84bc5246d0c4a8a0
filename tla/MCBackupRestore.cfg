SPECIFICATION MCSpec
CONSTANTS
    Facts = {x1}
    MaxBackups = 3
    MaxUpgrades = 1
    MaxDamage = 1
    MaxCrashes = 1
    LastTime = 7
    MaxFaults = 2
    MaxTries = 2
INVARIANTS
    VerifiedIsReadable
    CurrentIsUsable
    NothingLostByRestore
    UnlistedIsExplained
    SnapshotIsWayBack
    EachDayOnce
CHECK_DEADLOCK FALSE
