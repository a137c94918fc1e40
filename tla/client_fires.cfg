CONSTANTS
  e1 = e1
  e2 = e2
  Ids = {e1, e2}
  MaxLines = 1
  BufUnits = 4
  MayHappen = {"wait", "timeout", "disconnect", "drop", "close", "partial"}
SPECIFICATION Spec
INVARIANT FiringRequestsIsSafe
CHECK_DEADLOCK FALSE
