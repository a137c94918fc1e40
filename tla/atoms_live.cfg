CONSTANTS
  s1 = s1
  none = none
  Sessions = {s1}
  NoSession = none
  Garblers = {s1}
  MaxReqs = 3
  ReqUnits = 2
  ReadUnits = 3
  MayHappen = {"close", "partial"}
SPECIFICATION FairSpec
PROPERTIES RequestReadIsRun 
CHECK_DEADLOCK FALSE
