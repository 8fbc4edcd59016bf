SPECIFICATION FairSpec
CONSTANTS
  p1 = p1
  p2 = p2
  Monitor = Monitor
  Nobody = Nobody
  Conns <- TwoConns
  Pools <- TwoPools
  PoolOf <- Spread
  Types <- MCTypes
  RouterType = 1
  Packets <- LocalPackets
  MaxSend = 1
INVARIANTS
  OpenPeerKeepsItsSocket
  NoCircularWait
PROPERTIES
  NoticeIsNotRepeated
  DisconnectReturns
CHECK_DEADLOCK FALSE
