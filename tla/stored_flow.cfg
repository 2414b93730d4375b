\* The consumer group: two replicas, two events, one of which handle() may refuse and
\* one of which may alert, one crash.  With Batch = 1 two pending entries are more than
\* one read and with FlushSize = 2 the buffer outlives a batch; with ReclaimCount = 1 a
\* claim leaves entries behind.  No symmetry, since EventuallyDelivered is a liveness
\* property.
\* Charts of up to five bars (three have levels), of two markets.  Tapes of up to four
\* prints of three tickers, and limits small enough to be exceeded: three rows, two
\* setups, two tickers, one contract of the roll-up and one ticker of the board.
\* Deadlock is not checked: when the bounded stream is consumed and the crashes are used
\* up, the replicas wait for an event that never comes; charts and tapes end at their
\* bounds.
SPECIFICATION StoredSpec
CONSTANTS
  c1 = c1
  c2 = c2
  Consumers = {c1, c2}
  Nobody = Nobody
  MaxEvents = 2
  MaxCrashes = 1
  Fallible = {2}
  Alertable = {1}
  Batch = 1
  FlushSize = 2
  ReclaimCount = 1
  None = None
  NoFlow = NoFlow
  Markets <- TwoMarkets
  MinBars = 3
  MaxBars = 5
  SwingWindow = 1
  AtrPeriod = 3
  YearOfBars = 4
  MaxPerSide = 4
  Readings <- SomeReadings
  Universe = {"A", "B", "C"}
  Setups <- SomeSetups
  Prints <- SomePrints
  MaxPrints = 4
  RowLimit = 3
  Picks = 2
  ScanTop = 2
  ScreenTop = 1
  MinSetup = 700
  FeedLimit = 2
  RollupLimit = 1
  BoardLimit = 1
  MinBoard = 2
  UnusualVolOi = 5000
  UnusualPremium = 2
INVARIANTS
  TypeOK
  NoAckedEventLost
  LiveHoldsItsPending
  RowsPerDelivery
  SeenInOrder
  UnauditedOnlyByCrash
  TradesPointTheRightWay
  ShortlistIsTheTop
PROPERTIES
  ImplementsAtLeastOnce
  EventuallyDelivered
  StrongPrintNeverDemotes
CHECK_DEADLOCK FALSE
