CONSTANTS
  s1 = s1
  none = none
  Sessions = {s1}
  NoSession = none
  Garblers = {}
  MaxReqs = 1
  ReqUnits = 3
  ReadUnits = 2
  MayHappen = {}
SPECIFICATION FairSpec
PROPERTY RequestSentIsRun
CHECK_DEADLOCK FALSE
