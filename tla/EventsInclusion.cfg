\* The same: who is credited with an inclusion.
SPECIFICATION EventSpec
CONSTANTS
    Event = {"s1", "u1", "a2", "u2", "s3", "u3"}
    Log <- MCLog
    Height = 3
    Pass = {"tick"}
    Heard = {"u1", "u2"}
    LookBack = 1
    None = None
INVARIANT InclusionIsCredited
CHECK_DEADLOCK FALSE
