CONSTANTS
  s1 = s1
  s2 = s2
  none = none
  p1 = p1
  Sessions = {s1, s2}
  Openers = {s1}
  NoSession = none
  Pipes = {p1}
  ReadUnits = 2
  MaxUnits = 3
  MaxText = 2
  MayHappen = {"bad hello", "close", "partial", "eof", "no stdout", "no accept"}
SPECIFICATION FairSpec
INVARIANTS TypeOK LiveStreamNotDropped
PROPERTIES HelloNames PipeRead FlushedFromRest
CHECK_DEADLOCK FALSE
