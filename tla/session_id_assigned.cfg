CONSTANTS
  c1 = c1
  c2 = c2
  w1 = w1
  Clients = {c1, c2}
  BadClients = {}
  Workers = {w1}
  Crashable = {}
  FdQueueSize = 2
  MaxFds = 9
  HelloCuts = {}
  Quanta = {}
SPECIFICATION FairSpec
PROPERTY SessionIdAssigned
CHECK_DEADLOCK FALSE
