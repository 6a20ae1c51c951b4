SPECIFICATION Spec
CONSTANTS
    Capacities = {2}
    BatchMax = 2
    MaxFix = 4
    MaxBoots = 2
    Faults = {"fail", "torn"}
    Blank = Blank
    Torn = Torn
INVARIANTS RamMatchesFlash FlashIsRecoverable
PROPERTY ImplementsFifo
