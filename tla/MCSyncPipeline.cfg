SPECIFICATION FairSpec
CONSTANTS
    Events = {e1, e2}
    NoEvent = NoEvent
    MaxEnvelopes = 2
    Limit = 2
    MaxCrashes = 1
    MaxExpiries = 1
INVARIANTS
    NoAckBeforeStore
    OutboxOnlyAfterApply
    LocalAckIsCloudAck
    OnlyCrashLosesEvents
PROPERTIES
    DeliverySpec
    GoodEnvelopeIsStored
    PendingAckIsConfirmed
CHECK_DEADLOCK FALSE
