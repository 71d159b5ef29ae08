SPECIFICATION FairSpec
CONSTANTS
  N = 2
  Background = bg
  Drivers = {v1}
  NoRun = none
  BusyRetries = 1
  MaxCrashes = 1
  MayCancel = TRUE
  SlowRuns = FALSE
INVARIANTS WorkedOnce NeverAheadOfRuns
PROPERTIES FinalIsFinal BoardSpec LivesInPeace
CHECK_DEADLOCK FALSE
