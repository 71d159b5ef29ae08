SPECIFICATION Spec
CONSTANTS
  Kinds = {fold}
  Sites = {1, 2}
  NoSite = 0
  MaxMoves = 2
  MaxFound = 2
  MaxDbErrors = 1
  MayLeave = TRUE
  MayDie = TRUE
  Streams = {s1}
  Analyses = {a1, a2}
  Probes = {p1}
  Capacity = 2
  QueueSize = 1
  LogLength = 3
  EarlyDrop = FALSE
INVARIANTS RecordIsTrue SlotsKept StreamIsTrue
PROPERTIES SettledAtTail StreamsEnd
CHECK_DEADLOCK FALSE
