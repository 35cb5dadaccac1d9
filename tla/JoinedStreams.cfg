SPECIFICATION FairSpec
CONSTANTS
  Inputs = {a, b}
  JoinCap = 1
  MaxElements = 2
INVARIANT ClosedIsDrained
PROPERTIES
  ImplementsMerge
  CloseEnds
CHECK_DEADLOCK FALSE
