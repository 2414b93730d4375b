\* Two trading days.  Three contracts, one of which cannot be converted and one is not
\* on the pages; two prices; three alerts, one of them broken, of which two are listed;
\* two starts, any configuration.
\* Deadlock is not checked: the process may stay down after its last start.
SPECIFICATION FairSpec
CONSTANTS
  k1 = k1
  k2 = k2
  k3 = k3
  a1 = a1
  a2 = a2
  a3 = a3
  Providers <- AnyProvider
  KeySets <- AnyKey
  Contracts = {k1, k2, k3}
  Paged = {k1, k2}
  OpenInterest <- Interest
  MinVolOi = 1
  MinPremium = 2
  TopContracts = 2
  BrokenRows = {k2, a1}
  Sizes <- Trades
  Prices <- TwoPrices
  MaxVolume <- MostTraded
  MaxDay = 2
  MaxBoots = 2
  Alerts = {a1, a2, a3}
  Window = 2
INVARIANTS
  TypeOK
  ReportedOncePerRun
  BurstsAreReported
PROPERTIES
  AlertsGetThrough
CHECK_DEADLOCK FALSE
