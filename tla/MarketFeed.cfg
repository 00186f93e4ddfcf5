SPECIFICATION LiveSpec
CONSTANTS
  None = None
  Venues = {"kalshi", "polymarket"}
  Histories <- MCHistories
  Asset = "A"
  InitialPlan = {"A", "B"}
  TokenUpdates = {"u2", "u3"}
  UpdatePlan <- MCUpdatePlan
  RequestIds = {"r1", "r2"}
  MissedLimit = 2
  MaxFaults <- MCMaxFaults
  WireCap = 2
INVARIANTS
  BookIsExchangeBook
  TradesMirror
  SubscriptionsAgree
PROPERTIES
  ImplementsReplica
  BooksRecover
  OnlyDeadConnectionsEnd
CHECK_DEADLOCK FALSE
