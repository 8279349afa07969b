\* Two requests at once; up to three processes, one after the other.
CONSTANTS
    r1 = r1
    r2 = r2
    Reqs = {r1, r2}
    Shift = 2
    MaxTime = 3
SPECIFICATION FairSpec
INVARIANTS
    SerialsUnique
    CleanExit
PROPERTIES
    ProcessEnds
