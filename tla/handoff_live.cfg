CONSTANTS
  c1 = c1
  c2 = c2
  w1 = w1
  Clients = {c1, c2}
  BadClients = {c2}
  Workers = {w1}
  Crashable = {w1}
  FdQueueSize = 1
  MaxFds = 9
  HelloCuts = {4}
  Quanta = {4}
SPECIFICATION FairSpec
INVARIANT StreamsInv
PROPERTIES ConnectionAccepted HelloPassedOn OutbufferFlushed TakenIsServed
CHECK_DEADLOCK FALSE
