SPECIFICATION Spec
CONSTANTS
    Capacities = {1, 2}
    BatchMax = 2
    MaxFix = 3
    MaxBoots = 2
    Faults = {"fail", "torn", "silent", "format", "truncate"}
    Blank = Blank
    Torn = Torn
INVARIANTS RingsAreSound
