SPECIFICATION HSpec
CONSTANTS
    ESIs = {e1, e2, e3}
    LDIs = {l1}
    Keys = {k1, k2}
    Tickets = {t1, t2}
    Reqs = {r1, r2}
    MaxSerial = 2
    AllowNewLDI = TRUE
    AllowKeyRotation = TRUE
    StoreErrors = TRUE
    None = None
SYMMETRY Symmetry
INVARIANTS
    TypeOK
    OneHolder
    RevokedIsPublished
    TicketBindsOnce
    LiveOnlyIfRaced
    OneLiveKey
PROPERTIES
    BindingsAreFinal
    ImplementsRegistry
