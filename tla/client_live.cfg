CONSTANTS
  e1 = e1
  e2 = e2
  Ids = {e1, e2}
  MaxLines = 0
  BufUnits = 4
  MayHappen = {"wait", "disconnect", "drop", "close", "partial"}
SPECIFICATION FairSpec
PROPERTIES CloseEndsThread WaitersReleased RequestFromRestWritten
CHECK_DEADLOCK FALSE
