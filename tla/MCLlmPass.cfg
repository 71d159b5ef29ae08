SPECIFICATION Spec
CONSTANTS
  MaxAttempts = 2
  Programs <- SomePrograms
  Keys <- TwoKeys
  KeyCounts = {1, 2}
  DeadKeys = {"k1"}
  BatchChain <- OnlyGroq
  PlayChain <- GeminiFirst
  Played = {"p1"}
  BarrenLimit = 2
  MaxKills = 1
  MaxFaults = 1
INVARIANTS CorpusIsTrue
PROPERTIES NothingLost Completes
CHECK_DEADLOCK FALSE
