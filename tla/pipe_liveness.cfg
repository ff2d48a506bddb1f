SPECIFICATION FairSpec
CONSTANTS
  PullRequests = {1}
  PageSize = 1
  Field <- MCField
  Value = {"v1", "v2"}
  Unset = Unset
  Base = {"r1", "r2"}
  Specs <- TwoSpecs
  NoObject = NoObject
  MaxUid = 2
  MaxLag = 1
  MaxEvents = 2
  MaxFaults = 0
INVARIANTS
  PreviewsSettle
PROPERTIES
  PreviewsFollow
  Refines
