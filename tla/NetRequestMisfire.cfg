SPECIFICATION FairSpec
CONSTANTS
  RedirectLimit = 1
  RetryLimit = 1
  MaxChunks = 1
  MaxStarts = 1
  MaxAborts = 0
INVARIANT NoMisfire
CHECK_DEADLOCK FALSE
