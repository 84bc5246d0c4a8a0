SPECIFICATION MCSpec

CONSTANTS
    Devices      = {d1, d2}
    MaxDevices   = 2
    GraceDays    = 1
    LastDay      = 2
    Agents       = {d1, d2}
    Nobody       = Nobody
    Runs         = {1, 2}
    PullLimit    = 1
    Versions     = {1, 2}
    EffectiveAt <- MCEffectiveAt
    SeedVersion  = 1
    Trusting     = {d1}
    Mixed        = FALSE
    Unset        = Unset
    Broken       = Broken
    NoDevice     = NoDevice
    BufferSize   = 2
    QueueSize    = 2
    MaxEvents    = 3

INVARIANTS
    HeldByItsAgent
    CacheIsVerified
    StreamKeepsUp

PROPERTIES
    HandoutSpec
    RunIsTaken
    DevicesBecomeKnown

CHECK_DEADLOCK FALSE
