\* The smallest instance in which today's bar matters: two readings of one ticker,
\* and nothing fails.  Nobody uses the rate limiter.
SPECIFICATION PollingSpec
CONSTANTS
  t1 = t1
  Tickers = {t1}
  MaxPrice = 5
  SwingHighs = {3, 5}
  SwingLows = {2}
  Resistances <- AnalystResistances
  Supports <- AnalystSupports
  Failures = {}
  ApproachPct = 25
  Cooldown = 3
  MaxCycles = 2
  NoPrice = NoPrice
  Callers = {}
  Costs = {1}
  Rate = 1
  Capacity = 1
  MaxTime = 0
PROPERTIES
  ChartCrossingAnnounced
CHECK_DEADLOCK FALSE
