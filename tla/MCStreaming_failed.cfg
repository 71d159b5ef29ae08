\* Two moves, the second of which is tried on what the first left, and a deadline
\* that passes after the last event.
SPECIFICATION Spec
CONSTANTS
  Kinds = {fold}
  Sites = {1}
  NoSite = 0
  MaxMoves = 2
  MaxFound = 1
  MaxDbErrors = 0
  MayLeave = FALSE
  MayDie = FALSE
  Streams = {s1}
  Analyses = {a1}
  Probes = {p1}
  Capacity = 1
  QueueSize = 1
  LogLength = 1
  EarlyDrop = FALSE
INVARIANT SomeClaimHolds
CHECK_DEADLOCK FALSE
