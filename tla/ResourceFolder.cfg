SPECIFICATION FairSpec
CONSTANTS
  File = {f1, f2}
  Broken = {3}
  MaxChanges = 3
INVARIANTS
  IndexMatchesRows
PROPERTIES
  ScanApplied
  SettlesOnDisk
CHECK_DEADLOCK FALSE
