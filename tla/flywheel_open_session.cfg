\* From a Thursday to the Thursday after, as in flywheel.cfg, without failures.
SPECIFICATION Spec
CONSTANTS
  f1 = f1
  f2 = f2
  f3 = f3
  gme = gme
  bbby = bbby
  Flows = {f1, f2, f3}
  Tickers = {gme, bbby}
  TickerOf <- TickerOfFlow
  ObservedAt <- TimeOfFlow
  Paths <- SomePaths
  Prices = {90, 121}
  FirstDay = 5
  LastDay = 8
  Horizon = 2
  Lookback = 7
  MinRows = 1
  MinPositives = 1
  MaxFaults = 0
  NoOutcome = NoOutcome
  NoFile = NoFile
INVARIANTS
  LabelsHold
CHECK_DEADLOCK FALSE
