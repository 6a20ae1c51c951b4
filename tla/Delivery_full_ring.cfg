SPECIFICATION DSpec
CONSTANTS
    Capacities = {2}
    BatchMax = 2
    MaxFix = 4
    MaxBoots = 1
    Faults = {}
    Blank = Blank
    Torn = Torn
    SubBatch = 1
    BadFixes = {}
    MaxDelayed = 1
INVARIANT EveryAckedIsStored
