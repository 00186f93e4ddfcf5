SPECIFICATION LiveSpec
CONSTANTS
    None = None
    e1 = e1
    e2 = e2
    k1 = k1
    Subs = {s1, s2}
    Names = {n1}
    Events <- MCEvents
    EventTypes <- MCOneType
    Keys <- MCKeys
    MarketOf <- MCMarketOf
    QueueSizes = {1, 2}
    MaxPublish = 2
PROPERTY CloseReturns
PROPERTY ClosedConsumersDrain
CHECK_DEADLOCK FALSE
