SPECIFICATION FairSpec
CONSTANTS
  ServiceList <- Registered
  Callers = {c1, c2}
INVARIANT SensorOutlivesServices
PROPERTY StopEndsRun
CHECK_DEADLOCK FALSE
