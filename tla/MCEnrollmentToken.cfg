SPECIFICATION Spec
CONSTANTS
    Tokens = {t1, t2}
    Keys = {k1, k2}
    Reqs = {r1, r2}
    TTL = 2
    RetryWindow = 1
    DefaultRetryWindow = 2
    MaxRetryWindow = 3
    MaxTime = 3
    MaxSVID = 2
    Aborts = TRUE
    None = None
SYMMETRY Symmetry
INVARIANTS
    TypeOK
PROPERTIES
    ImplementsTokenGrant
    RetryGetsSameSVID
