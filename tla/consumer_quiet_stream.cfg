\* No crash is allowed; running processes never stop.
\* Deadlock is not checked: when the bounded stream is consumed and the
\* crashes are used up, the replicas wait for an event that never comes.
SPECIFICATION FairSpec
CONSTANTS
  c1 = c1
  c2 = c2
  Consumers = {c1, c2}
  Nobody = Nobody
  MaxEvents = 2
  MaxCrashes = 0
  Fallible = {}
  Alertable = {}
  Batch = 2
  FlushSize = 2
  ReclaimCount = 2
PROPERTIES
  BufferIsFlushed
CHECK_DEADLOCK FALSE
