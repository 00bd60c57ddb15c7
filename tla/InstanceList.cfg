SPECIFICATION Spec
CONSTANTS
  r1 = r1
  r2 = r2
  i1 = i1
  i2 = i2
  i3 = i3
  Id = {i1, i2, i3}
  Group = {g1, g2}
  NoGroup = NoGroup
  RootLists <- MCRootLists
  InitDisks <- MCInitDisks
  MaxOps = 3
INVARIANTS
  ReloadDue
  CountsExact
PROPERTIES
  RestartKeepsGroups
  GroupByUser
SYMMETRY Symmetry
CHECK_DEADLOCK FALSE
