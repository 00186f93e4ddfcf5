SPECIFICATION Spec
CONSTANTS
    None = None
    s1 = s1
    s2 = s2
    Unit = 100
    Precision = 7
    Sessions = {s1, s2}
    Contracts = {"yes"}
    Balances = {"main", "side"}
    Opening <- MCOpening
    Exchange <- MCExchange
    Past = 3
    Deliverable <- MCDeliverable
    Announced <- MCAnnounced
    Settlements <- MCSettlements
    Horizon = 7
    MaxReconciliations = 1
SYMMETRY Symmetry
INVARIANT CorrectionReplaces
INVARIANT ProjectionIsReplay
INVARIANT PnlExplainsCash
INVARIANT EventsFollowTheJournal
INVARIANT HealthyMeansComplete
PROPERTY ImplementsLedger
CHECK_DEADLOCK FALSE
