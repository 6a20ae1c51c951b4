SPECIFICATION ChargeFairSpec
CONSTANTS
    Debounce = 2
    Poll = 1
    TimeMod = 9
    MaxStall = 3
    MaxChanges = 2
    MaxFaults = 1
    MaxTransients = 1
INVARIANTS OneRestartPerChange
PROPERTIES LeavesDebounced ModeFollowsVbus
