SPECIFICATION FairSpec
CONSTANTS
    Events = {e1}
    NoEvent = NoEvent
    MaxEnvelopes = 1
    Limit = 1
    MaxCrashes = 0
    MaxExpiries = 0
PROPERTIES
    RedeliveredUntilStored
CHECK_DEADLOCK FALSE
