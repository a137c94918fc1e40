CONSTANTS
  c1 = c1
  c2 = c2
  w1 = w1
  w2 = w2
  Clients = {c1, c2}
  BadClients = {c2}
  Workers = {w1, w2}
  Crashable = {w2}
  FdQueueSize = 2
  MaxFds = 9
  HelloCuts = {4}
  Quanta = {4}
SPECIFICATION Spec
INVARIANTS TypeOK HeaderMatchesDescriptor DescriptorArrivesFirst StreamsInv QueuedDescriptorOpen OneOwner LiveClientNotDropped LiveWorkerNotDropped NoOrphanEvent MasterSleepsOnlyWhenArmed
PROPERTY ImplementsSessionPool
CHECK_DEADLOCK FALSE
