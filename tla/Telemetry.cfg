SPECIFICATION TelemetryFairSpec
CONSTANTS
  Subs = {mine, other}
  Mine = mine
  ChanCap = 1
  MaxEventID = 2
  MaxSamples = 3
INVARIANTS
  EventsAreRouted
  CancelledIsGone
PROPERTIES
  NoNewDeliveries
  ImplementsSubscriptions
  DoneCancels
CHECK_DEADLOCK FALSE
