SPECIFICATION ContainerSpec
CONSTANTS
  c = c
  s1 = s1
  s2 = s2
  Ids <- MCIds
  Details <- MCDetails
  Subs <- MCSubs
  Requests <- MCRequests
  BadNames = {"", "2nd"}
  ExitCodes = {0, 137}
  MaxStarts = 2
  MaxUpdates = 1
  MaxUnread = 2
  MaxQueue = 1
  MaxBehind = 1
  TypesLetThrough <- FilteredTypes
  VerdictOn <- Verdict
CONSTRAINT BehindOrSubscribed
INVARIANTS
  LifecycleInOrder
  FollowsItsContainers
  CrashesOnlyOnBadRequests
PROPERTIES
  ViewsAreGiven
  RunningIsComplete
  FiltersAreAUnion
CHECK_DEADLOCK FALSE
