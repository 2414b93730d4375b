\* One row, saved on a Thursday or a Friday, and nothing fails.
\* Deadlock is not checked: after the last day nothing is left to do.
SPECIFICATION Spec
CONSTANTS
  a = a
  Ids = {a}
  PartsOfDay = 1
  MaxDay = 6
  LastEntryDay = 1
  Sessions <- Week
  IntradayWait = 1
  NoBars = {}
  MaxOutages = 0
  Absent = Absent
  Gone = Gone
  None = None
INVARIANTS
  AboutThreeSessions
CHECK_DEADLOCK FALSE
