SPECIFICATION FairSpec
CONSTANTS
  Task = {t1, t2, t3}
  NextEvent = next
  MaxConcurrent = 2
  MaxStarts = 2
  MaxAborts = 1
INVARIANTS
  Bookkeeping
  NeverStuck
  ConcurrencyBound
  CleanUnlessAborted
PROPERTIES
  SuccessIsEarned
  Finishes
  ImplementsPool
CHECK_DEADLOCK FALSE
