SPECIFICATION Spec
CONSTANTS
    None = None
    e1 = e1
    e2 = e2
    k1 = k1
    Subs = {s1, s2}
    Names = {n1, n2}
    Events <- MCEvents
    EventTypes <- MCEventTypes
    Keys <- MCKeys
    MarketOf <- MCMarketOf
    QueueSizes = {1, 2}
    MaxPublish = 2
SYMMETRY Symmetry
INVARIANT QueueAccounting
INVARIANT ExactlyOnceInOrder
INVARIANT RegistryConsistent
INVARIANT PeersSeeTheSameStream
CHECK_DEADLOCK FALSE
