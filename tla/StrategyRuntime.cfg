SPECIFICATION LiveSpec
CONSTANTS
    None = None
    Starts = {a1, a2}
    Stops = {z1, z2}
    QueueSize = 2
    MaxEvents = 3
    PublishMayRaise = TRUE
INVARIANT OneConsumer
INVARIANT FailureClosesTheGate
PROPERTY EventsOnlyWhileRunning
PROPERTY StopEnds
CHECK_DEADLOCK FALSE
