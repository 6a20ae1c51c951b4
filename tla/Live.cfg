SPECIFICATION LiveFairSpec
CHECK_DEADLOCK FALSE
CONSTANTS
  MaxFixes = 2
  MaxFaults = 2
  HubCapacity = 1
  GuestSlots = 2
  MaxRequests = 2
  MaxRoute = 1
  WireCap = 1
INVARIANT OneStream
INVARIANT SlotsAreOwned
PROPERTY MarkerNeverGoesBack
PROPERTY PageCatchesUp
