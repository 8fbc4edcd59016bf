SPECIFICATION Spec
CONSTANTS
  onChild = onChild
  fileListing = fileListing
  changeDir = changeDir
  OnChild <- onChild
  Missions <- Tutorial
  Parent <- MCParent
  Trigger <- MCTrigger
  Required <- MCRequired
  Workers = 2
  MaxEvents = 3
  MaxLogins = 2
  MaxLeft = 2
  OldCounts = {1}
INVARIANTS
  TypeOK
  RewardedOnce
  ParentCompletesLast
  SavedWhenQuiet
  ParentFollows
CHECK_DEADLOCK FALSE
