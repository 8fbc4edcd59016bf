SPECIFICATION Spec
CONSTANTS
  c1 = c1
  c2 = c2
  l1 = l1
  l2 = l2
  l3 = l3
  k1 = k1
  k2 = k2
  w1 = w1
  h1 = h1
  h2 = h2
  None = None
  Clients <- TwoClients
  Logins <- ThreeLogins
  SocketOf <- OverSockets
  Characters <- TwoCharacters
  Home <- HomeBoth
  Countries <- MCCountries
  Cities <- MCCities
  Hosts <- TwoHosts
  Residue <- Zero
  HasAccount <- OneCharacter
  Workers <- OneWorker
  MaxSelect = 2
  MaxFail = 1
SYMMETRY Symmetry
INVARIANTS
  TypeOK
  IndexesAgree
  AddressesAreOwn
  ToldWhenLoaded
  AccountsStay
  LoadIsCarriedOn
CHECK_DEADLOCK FALSE
