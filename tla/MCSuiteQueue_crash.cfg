SPECIFICATION FairSpec
CONSTANTS
  N = 2
  Background = bg
  Drivers = {v1}
  NoRun = none
  BusyRetries = 0
  MaxCrashes = 1
  MayCancel = FALSE
  SlowRuns = FALSE
PROPERTIES QueueDrains
CHECK_DEADLOCK FALSE
