\* Two assertions, two requests at once, lifetimes around the maximum.
CONSTANTS
    j1 = j1
    j2 = j2
    r1 = r1
    r2 = r2
    None = None
    Jtis = {j1, j2}
    Reqs = {r1, r2}
    Lifetimes = {1, 2, 3}
    NotBefores = {0, 3}
    MaxLifetime = 2
    ClockSkew = 1
    MaxTime = 5
    MaxAccepts = 3
SYMMETRY Symmetry
SPECIFICATION Spec
\* The clock stops at its bound, with every assertion signed and used up.
CHECK_DEADLOCK FALSE
INVARIANTS
    TypeOK
    AcceptedOnceWhileValid
