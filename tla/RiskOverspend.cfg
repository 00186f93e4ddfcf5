SPECIFICATION Spec
CONSTANTS
    None = None
    a1 = a1
    a2 = a2
    market = market
    Rules <- MCRules
    MaxStateAge <- MCMaxStateAge
    OpenStatuses = {"open"}
    Policies <- MCPolicies
    Attempts = {a1, a2}
    Intents <- MCIntents
    SnapshotIds = {"s1", "s2"}
    Requests <- MCRequests
    Surroundings <- MCSurroundings
    Faults = {0}
    Switches = {market}
    Applies <- MCApplies
    ListOrder <- MCListOrder
    ListLimit = 1
    ApprovalTTL = 1
    Skew = 0
    Budget = 8
    MaxTime = 1
    MaxActivations = 0
INVARIANT NoConcurrentOverspend
CHECK_DEADLOCK FALSE
