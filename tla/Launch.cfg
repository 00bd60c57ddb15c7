SPECIFICATION FairSpec
CONSTANT MaxLaunches = 3
INVARIANTS
  RunningIsCounted
  AccountFollowsGame
  OrphanDies
PROPERTIES
  KilledEnds
CHECK_DEADLOCK FALSE
