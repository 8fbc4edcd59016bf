SPECIFICATION FairSpec
CONSTANTS
  t1 = t1
  t2 = t2
  k1 = k1
  k2 = k2
  k3 = k3
  None = None
  Threads <- TwoThreads
  Packets <- ThreePackets
  Program <- MCProgram
  HeadLen = 2
  DataLen <- MCData
INVARIANTS
  TypeOK
  DeliveredInOrder
PROPERTIES
  QueuedIsDelivered
CHECK_DEADLOCK FALSE
