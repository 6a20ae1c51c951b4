SPECIFICATION IngestFairSpec
CONSTANTS
    Requests = {r1, r2, r3}
    Bodies <- MCBodies
    BadFixes = {4}
INVARIANTS AnsweredIsStored
PROPERTIES EveryRequestAnswered BatchesAreAtomic
