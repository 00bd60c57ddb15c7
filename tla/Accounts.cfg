SPECIFICATION FairSpec
CONSTANTS
  Account = {a1, a2}
  OfflineAccount = {}
  MaxRequests = 1
  MaxAborts = 1
  MaxEdits = 1
INVARIANTS
  ActivityIsCounted
  QueueGoesOn
  WorkingHasFlow
PROPERTIES
  RequestServed
CHECK_DEADLOCK FALSE
