\* Two rows saved on a Thursday or a Friday, one of them of a ticker without
\* bars, and one failing request or crash.
\* Deadlock is not checked: after the last day nothing is left to do.
SPECIFICATION FairSpec
CONSTANTS
  a = a
  b = b
  Ids = {a, b}
  PartsOfDay = 1
  MaxDay = 6
  LastEntryDay = 1
  Sessions <- Week
  IntradayWait = 1
  NoBars = {b}
  MaxOutages = 1
  Absent = Absent
  Gone = Gone
  None = None
INVARIANTS
  RightSessions
PROPERTIES
  WrittenOnce
  EveryIdeaResolved
CHECK_DEADLOCK FALSE
