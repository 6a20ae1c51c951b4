SPECIFICATION FairSpec
CHECK_DEADLOCK FALSE
CONSTANTS
  MaxFaults = 1
  MaxGestures = 2
  MaxExpiries = 1
  Cooldown = 2
  HopCap = 6
INVARIANT FlagsAreOwned
INVARIANT RedirectsEnd
INVARIANT GatesFollowServer
INVARIANT NothingAfterSignOut
PROPERTY Settles
