SPECIFICATION Spec
CONSTANTS
  Subs = {s1, s2}
  ChanCap = 1
  MaxEventID = 2
  MaxSamples = 3
INVARIANT PendingIsDiscarded
CHECK_DEADLOCK FALSE
