SPECIFICATION MCSpec
CONSTANTS
    Facts = {x1}
    MaxBackups = 1
    MaxUpgrades = 0
    MaxDamage = 0
    MaxCrashes = 0
    LastTime = 1
    MaxFaults = 0
    MaxTries = 1
INVARIANT JudgedWhenDone
CHECK_DEADLOCK FALSE
