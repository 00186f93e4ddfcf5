SPECIFICATION Spec
CONSTANTS
    None = None
    a1 = a1
    a2 = a2
    market = market
    Rules <- MCRules
    MaxStateAge <- MCMaxStateAge
    OpenStatuses = {"open"}
    Policies <- MCPolicies
    Attempts = {a1, a2}
    Intents <- MCIntents
    SnapshotIds = {"s1", "s2"}
    Requests <- MCRequests
    Surroundings <- MCSurroundings
    Faults = {0, 2}
    Switches = {market}
    Applies <- MCApplies
    ListOrder <- MCListOrder
    ListLimit = 1
    ApprovalTTL = 1
    Skew = 1
    Budget = 8
    MaxTime = 2
    MaxActivations = 1
INVARIANT ApprovalsPermitted
INVARIANT NoOverspend
INVARIANT CapitalBacksApprovals
INVARIANT CommittedTogether
INVARIANT KillSwitchStopsApprovals
PROPERTY ReservationsAreFinal
CHECK_DEADLOCK FALSE
