SPECIFICATION Spec
CONSTANTS
  PullRequests = {1, 2}
  PageSize = 2
  Field <- MCField
  Value = {"v1", "v2"}
  Unset = Unset
  Base = {"r1", "r2"}
  Specs <- OneSpec
  NoObject = NoObject
  MaxUid = 1
  MaxLag = 1
  MaxEvents = 1
  MaxFaults = 1
INVARIANTS
  TypeOK
  PreviewsSettle
  IInv
PROPERTIES
  NoLostUpdate
