SPECIFICATION Spec
CONSTANTS
  p1 = p1
  p2 = p2
  Monitor = Monitor
  Nobody = Nobody
  Conns <- TwoConns
  Pools <- TwoPools
  PoolOf <- Spread
  Types <- MCTypes
  RouterType = 1
  Packets <- ServicePackets
  MaxSend = 1
INVARIANTS
  DisconnectIsHandled
CHECK_DEADLOCK FALSE
