SPECIFICATION EnrolledSpec
CONSTANTS
    ESIs = {e1, e2}
    LDIs = {l1}
    Keys = {k1, k2}
    Tickets = {t1}
    Reqs = {r1, r2}
    MaxSerial = 3
    AllowNewLDI = FALSE
    AllowKeyRotation = TRUE
    StoreErrors = FALSE
    None = None
PROPERTY
    RetiredGetsNoSVID
