SPECIFICATION Spec
CONSTANTS
  Sources <- BranchOrSHA
  Secret = {"git", "pull", "new"}
  Commits = 3
  Short <- Colliding
  NoObject = NoObject
  NoRevision = NoRevision
  Rewind = FALSE
  MaxUid = 1
  MaxLag = 1
  MaxEdits = 1
  MaxFaults = 1
INVARIANTS
  TypeOK
  ObjectsSettle
  IInv
