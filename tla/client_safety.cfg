CONSTANTS
  e1 = e1
  e2 = e2
  Ids = {e1, e2}
  MaxLines = 1
  BufUnits = 3
  MayHappen = {"wait", "timeout", "disconnect", "drop", "close", "partial"}
SPECIFICATION Spec
SYMMETRY IdSymmetry
INVARIANTS TypeOK OwnResultOnce NoFutureForgotten ErrorRaisedOnce
PROPERTY ImplementsSessionCalls
CHECK_DEADLOCK FALSE
