\* Attempts that query events, and the listener, which misses one of them.
SPECIFICATION EventSpec
CONSTANTS
    Event = {"s1", "u1", "a2", "u2", "s3", "u3"}
    Log <- MCLog
    Height = 3
    Pass = {"tick"}
    Heard = {"u1", "u2"}
    LookBack = 1
    None = None
INVARIANTS EventTypeOK NoEventSkipped AggregatorOfOwnBundle
PROPERTY EveryEventHandled
CHECK_DEADLOCK FALSE
