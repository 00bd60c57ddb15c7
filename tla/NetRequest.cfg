SPECIFICATION FairSpec
CONSTANTS
  RedirectLimit = 1
  RetryLimit = 2
  MaxChunks = 2
  MaxStarts = 2
  MaxAborts = 2
INVARIANTS
  TypeOK
  BoundedTraffic
  HeardIsState
  NoNullSaveFile
PROPERTIES
  CommitIsWhole
  SuccessHasData
  AbortStops
  OneEnd
  Settles
CHECK_DEADLOCK FALSE
