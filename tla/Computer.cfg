SPECIFICATION Spec
CONSTANTS
  p1 = p1
  p2 = p2
  console = console
  http = http
  db = db
  forum = forum
  news = news
  None = None
  Ports <- MCPorts
  Services <- MCServices
  Apps <- MCApps
  Needs <- MCNeeds
  Windowless <- MCWindowless
  Cost <- MCCost
  CPU = 5
  Memory = 4
  Word = 8
  Tables <- MCTables
  MaxSend = 5
  MaxLogins = 2
INVARIANTS
  TypeOK
  EnabledPortHasSoftware
  ViewsAgreeWhenQuiet
  UsageCoversProcesses
PROPERTIES
  NothingIsDuplicated
SYMMETRY
  AllPorts
CHECK_DEADLOCK FALSE
