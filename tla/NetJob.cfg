SPECIFICATION JobFairSpec
CONSTANTS
  Task = {r1, r2, r3}
  NextEvent = next
  MaxConcurrent = 2
  MaxStarts = 1
  MaxAborts = 1
  MaxTry = 2
  ManualRetries = 1
INVARIANTS
  JobTypeOK
  JobBooks
  AttemptsBounded
PROPERTIES
  NotFoundIsFinal
  AllDownloaded
  JobFinishes
CHECK_DEADLOCK FALSE
