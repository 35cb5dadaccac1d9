CONSTANTS
  Rings <- MCRings
  Size = 16
  TimeBase <- MCTimeBase
  RunningFor <- MCRunningFor
  ChanCap = 1
  Streams <- MCStreams
  Removable = {501}
  Sources <- MCSources
  TimeWidth = 1000
  MaxWrites = 3
SPECIFICATION Spec
CHECK_DEADLOCK FALSE
INVARIANTS
  ReadsBack
  DispatchedInOrder
  NothingIsForgotten
