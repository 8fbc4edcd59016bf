SPECIFICATION Spec
CONSTANTS
  c1 = c1
  c2 = c2
  a1 = a1
  a2 = a2
  k1 = k1
  w1 = w1
  None = None
  Clients <- TwoClients
  Accounts <- TwoAccounts
  Characters <- OneCharacter
  Owner <- OwnerOfOne
  Workers <- OneWorker
  MaxSend = 2
  MaxFail = 1
SYMMETRY AnyClient
INVARIANTS
  TypeOK
  MapsAreLive
  MapsAgree
  OneSession
PROPERTIES
  ImplementsSessions
CHECK_DEADLOCK FALSE
