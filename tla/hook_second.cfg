SPECIFICATION Spec
CONSTANTS
  Target <- MCTarget
  Kind <- MCKind
  Source = {"master", "7"}
  Follows <- MCFollows
  SlowEvents = FALSE
  LateCache = FALSE
  MaxTime = 1
  MaxEvents = 2
  MaxFaults = 0
CHECK_DEADLOCK FALSE
INVARIANTS
  ChangesAreSeen
