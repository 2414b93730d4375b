\* One task, one websocket client.  Earnings are cached longest and the regime shortest,
\* as in the code; the clock passes the oldest age that is allowed (7).
\* Deadlock is not checked: a process that is down is not started again once
\* MaxBoots is reached.
SPECIFICATION FocusedSpec
CONSTANTS
  k1 = k1
  k2 = k2
  s1 = s1
  Contracts = {k1, k2}
  Tickers = {s1}
  Feed <- ThreePrints
  Qualifying <- Surest
  Clients = {"browser"}
  Channels = {"telegram"}
  Configured = {}
  Never = Never
  Nothing = Nothing
  Unknown = Unknown
  Grace = 1
  Cooldown = 2
  SweepWindow = 1
  SequenceWindow = 1
  IvWindow = 2
  FollowWindow = 1
  MaxEvents = 2
  MinHistory = 2
  PremiumFloor = 1
  PremiumTarget = 8
  ContextTTL = 2
  EarningsTTL = 3
  RegimeTTL = 1
  FetchMax = 1
  MaxTime = 9
  FeedTime = 3
  MaxBoots = 1
  MaxFaults = 1
INVARIANTS
  ContextFresh
  EarningsFresh
  RegimeFresh
  SignalsFromArrivals
PROPERTIES
  ImplementsLiveFeed
  QueuesDrain
CHECK_DEADLOCK FALSE
