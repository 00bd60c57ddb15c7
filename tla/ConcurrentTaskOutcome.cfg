SPECIFICATION FairSpec
CONSTANTS
  Task = {t1, t2, t3}
  NextEvent = next
  MaxConcurrent = 2
  MaxStarts = 2
  MaxAborts = 1
INVARIANT OneOutcome
CHECK_DEADLOCK FALSE
