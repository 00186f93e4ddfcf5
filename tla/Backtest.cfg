SPECIFICATION Spec
CONSTANTS
  None = None
  Missing = Missing
  Manifest <- MCManifest
  ClockTimes = {1, 3}
  MaxRuns = 2
  Recordings <- MCRecordings
  Plans <- MCPlans
  Fixtures <- MCFixtures
INVARIANTS
  RestingFillsFollowTheTape
  TakesWhatTheBookShows
  FillsWithinBalance
  CancelsMatchWhenTheyCan
  DisconnectFindsOpenOrders
  RunnerAcceptsItsOutput
  PublishedInKeyOrder
  CompletedSessionIsWhole
  ReplayedBooksHaveNoGaps
CHECK_DEADLOCK FALSE
