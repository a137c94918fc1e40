CONSTANTS
  s1 = s1
  s2 = s2
  none = none
  Sessions = {s1, s2}
  NoSession = none
  Garblers = {s2}
  MaxReqs = 2
  ReqUnits = 2
  ReadUnits = 3
  MayHappen = {}
SPECIFICATION Spec
INVARIANTS TypeOK LogTellsOrder OnlyBrokenGivenUp
PROPERTY ImplementsAtomQueue
CHECK_DEADLOCK FALSE
