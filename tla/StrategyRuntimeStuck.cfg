SPECIFICATION Spec
CONSTANTS
    None = None
    Starts = {a1}
    Stops = {z1}
    QueueSize = 1
    MaxEvents = 1
    PublishMayRaise = FALSE
INVARIANT StopIsFinal
CHECK_DEADLOCK FALSE
