\* Half-second ticks; two requests at once, and successes not recorded.
CONSTANTS
    r1 = r1
    r2 = r2
    Reqs = {r1, r2}
    MaxInWindow = 2
    Second = 2
    TextOrder <- HalfSeconds
    Window = 4
    MaxTime = 11
    MaxSuccesses = 4
    RecordFails = TRUE
SYMMETRY ReqSymmetry
SPECIFICATION Spec
INVARIANTS
    OverlapBounded
    RetryAfterHonoured
