\* Everything that may fail does; the chart and an analyst share a level; today's
\* bar comes up at any time.  Four cycles and a cooldown of three.
\* The rate limiter: three callers.  The bucket holds three grains and two drip in every
\* tick: a call of three finds it empty, or short of one or two grains, and the time it
\* sleeps is rounded up.  The clock runs past the emptying and refilling of the bucket.
\* Deadlock is not checked: after the last cycle the market may move on, and
\* nothing else happens.
SPECIFICATION PollingSpec
CONSTANTS
  t1 = t1
  Tickers = {t1}
  MaxPrice = 5
  SwingHighs = {3, 5}
  SwingLows = {2}
  Resistances <- AnalystResistances
  Supports <- AnalystSupports
  Failures <- AllFailures
  ApproachPct = 25
  Cooldown = 3
  MaxCycles = 4
  NoPrice = NoPrice
  c1 = c1
  c2 = c2
  c3 = c3
  Callers = {c1, c2, c3}
  Costs = {1, 3}
  Rate = 2
  Capacity = 3
  MaxTime = 3
INVARIANTS
  BucketTypeOK
  WindowBudget
  NoNeedlessSleep
  SpacedMessages
PROPERTIES
  AnalystCrossingAnnounced
  OnlyTodaysBarHides
CHECK_DEADLOCK FALSE
