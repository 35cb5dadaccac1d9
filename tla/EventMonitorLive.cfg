SPECIFICATION FairSpec
CONSTANTS
  Tracepoints = {open}
  Groups = {g1, g2}
  Fds = {fd1, fd2}
  ChanCap = 1
  MaxEventID = 1
  MaxStream = 2
  MaxTime = 2
PROPERTIES
  CloseReturns
  SamplesAreDispatched
CHECK_DEADLOCK FALSE
