CONSTANTS
  s1 = s1
  s2 = s2
  none = none
  p1 = p1
  Sessions = {s1, s2}
  Openers = {s2}
  NoSession = none
  Pipes = {p1}
  ReadUnits = 6
  MaxUnits = 6
  MaxText = 1
  MayHappen = {}
SPECIFICATION Spec
INVARIANT LineReachesItsSession
CHECK_DEADLOCK FALSE
