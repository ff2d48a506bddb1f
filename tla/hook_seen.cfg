SPECIFICATION FairSpec
CONSTANTS
  Target <- MCTarget
  Kind <- MCKind
  Source = {"master", "7"}
  Follows <- MCFollows
  SlowEvents = TRUE
  LateCache = FALSE
  MaxTime = 2
  MaxEvents = 2
  MaxFaults = 1
CHECK_DEADLOCK FALSE
INVARIANTS
  TypeOK
  ChangesAreSeen
  IInv
PROPERTIES
  ChangesArrive
