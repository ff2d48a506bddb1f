SPECIFICATION FairSpec
CONSTANTS
  Sources <- PullOnly
  Secret = {"git", "pull", "new"}
  Commits = 2
  Short <- Distinct
  NoObject = NoObject
  NoRevision = NoRevision
  Rewind = FALSE
  MaxUid = 2
  MaxLag = 1
  MaxEdits = 1
  MaxFaults = 0
INVARIANTS
  ObjectsSettle
  ImageIsDeployed
  OrderInv
  DeployInv
PROPERTIES
  NeverRollsBack
  Refines
  HeadIsDeployed
  NothingIsLeft
