SPECIFICATION Spec
CONSTANTS
  Tracepoints = {open}
  Groups = {g1}
  Fds = {fd1, fd2}
  ChanCap = 1
  MaxEventID = 2
  MaxStream = 3
  MaxTime = 2
SYMMETRY Symmetry
INVARIANTS
  RegistryConsistent
  DispatchesOwner
  QuietWhenStopped
CHECK_DEADLOCK FALSE
