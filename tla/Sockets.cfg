SPECIFICATION FairSpec
CONSTANTS
  Conns <- Three
  Width = 2
  Word = 8
  MaxData = 2
INVARIANTS
  TypeOK
  DisconnectsOnce
  PoolsAgree
PROPERTIES
  ArrivalsAreServed
CHECK_DEADLOCK FALSE
