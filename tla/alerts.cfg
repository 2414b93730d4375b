\* What qualifies: every event under every combination of the settings; and prints with
\* any combination of the evidence under the default ones.
\* The gate: two contracts, one configured channel and one that is not, a replica started
\* twice.  MaxTime lets a contract cool down after each start.
\* Deadlock is not checked: the strongest event cannot be strengthened, and a stopped
\* replica is not started again once MaxBoots is reached.
SPECIFICATION AlertsSpec
CONSTANTS
  NoFeatures = NoFeatures
  NoPrint = NoPrint
  NoFloat = NoFloat
  NoVix = NoVix
  AllSettings <- EverySetting
  Defaults <- ConfigDefaults
  Evidence <- KindsOfEvidence
  Sides = {"ask", "bid", "mid", "unknown"}
  Structures = {"single", "neutral"}
  ContractTypes = {"call", "put"}
  Macros <- SomeTapes
  MaxIvRank = 900
  r1 = r1
  k1 = k1
  k2 = k2
  Replicas = {r1}
  Contracts = {k1, k2}
  Channels = {"discord", "telegram"}
  Configured = {"telegram"}
  Never = Never
  Grace = 1
  Cooldown = 2
  MaxTime = 5
  MaxBoots = 2
SYMMETRY Symmetry
INVARIANTS
  ApartInOneRun
  QuietAfterStart
  SilencedByAnAlert
  AuditIsTrue
  OneLegIsNotEnough
  UnknownIsNoEvidence
PROPERTIES
  StrongerStillAlerts
CHECK_DEADLOCK FALSE
