SPECIFICATION ConnFairSpec
CONSTANTS
  Base = 1
  MaxDelay = 2
  Limit = 3
  TimeMod = 9
  MaxStall = 1
  QueueCap = 1
  BatchMax = 2
  MaxGnssFaults = 1
  MaxReboots = 1
INVARIANTS RecoveryOnSchedule AttemptsCounted
PROPERTY ServesAndSamples
