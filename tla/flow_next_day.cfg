\* One contract at one price, over two days.
SPECIFICATION Spec
CONSTANTS
  k1 = k1
  k2 = k2
  k3 = k3
  a1 = a1
  a2 = a2
  a3 = a3
  Providers <- PolygonOnly
  KeySets <- PolygonKey
  Contracts = {k2}
  Paged = {k2}
  OpenInterest <- OneInterest
  MinVolOi = 1
  MinPremium = 4
  TopContracts = 0
  BrokenRows = {}
  Sizes <- OneTrade
  Prices <- OnePrice
  MaxVolume <- OneVolume
  MaxDay = 2
  MaxBoots = 1
  Alerts = {}
  Window = 1
INVARIANTS
  EveryBurstReported
CHECK_DEADLOCK FALSE
