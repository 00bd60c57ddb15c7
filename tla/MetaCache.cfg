SPECIFICATION Spec
CONSTANTS
  Path = {p1}
  Request = {q1, q2}
  Ref = {e1, e2, e3}
  Version = {v1, v2}
  EmptyVersion = {}
  Lives = {2}
  MaxTime = 3
SYMMETRY Symmetry
VIEW Reachable
INVARIANTS
  KnownIsSaved
PROPERTIES
  ServedIsTrue
CHECK_DEADLOCK FALSE
