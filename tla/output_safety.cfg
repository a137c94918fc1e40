CONSTANTS
  s1 = s1
  s2 = s2
  none = none
  p1 = p1
  Sessions = {s1, s2}
  Openers = {s1, s2}
  NoSession = none
  Pipes = {p1}
  ReadUnits = 4
  MaxUnits = 6
  MaxText = 1
  MayHappen = {}
SPECIFICATION Spec
INVARIANTS LineQueuedOnce NoLineHeldBack CurrentAsPrinted
PROPERTIES QueuedLinesWhole TailReachesItsSession
CHECK_DEADLOCK FALSE
SYMMETRY Symmetry
