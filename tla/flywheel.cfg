\* From a Thursday to the Thursday after: a horizon of two sessions spans the weekend.
\* One failing request or dying process, of the job or of the scoring process.
\* Deadlock is not checked: after the last day nothing is left to do.
SPECIFICATION FairSpec
CONSTANTS
  f1 = f1
  f2 = f2
  f3 = f3
  gme = gme
  bbby = bbby
  Flows = {f1, f2, f3}
  Tickers = {gme, bbby}
  TickerOf <- TickerOfFlow
  ObservedAt <- TimeOfFlow
  Paths <- SomePaths
  Prices = {90, 121}
  FirstDay = 5
  LastDay = 8
  Horizon = 2
  Lookback = 7
  MinRows = 1
  MinPositives = 1
  MaxFaults = 1
  NoOutcome = NoOutcome
  NoFile = NoFile
INVARIANTS
  OnlyOpenSessionsMislead
PROPERTIES
  EveryHorizonLabelled
  LatestIsServed
CHECK_DEADLOCK FALSE
