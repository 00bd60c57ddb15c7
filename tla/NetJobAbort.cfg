SPECIFICATION JobSpec
CONSTANTS
  Task = {r1, r2}
  NextEvent = next
  MaxConcurrent = 2
  MaxStarts = 1
  MaxAborts = 1
  MaxTry = 3
  ManualRetries = 1
PROPERTY IdleIsNotRunning
CHECK_DEADLOCK FALSE
