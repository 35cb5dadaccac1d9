SPECIFICATION FairSpec
CONSTANTS
  IDs = {c1, c2}
  ElemCap = 1
  MaxChanges = 2
INVARIANTS
  ContainersWatched
  KnowsTheLastState
PROPERTY WalkEnds
CHECK_DEADLOCK FALSE
