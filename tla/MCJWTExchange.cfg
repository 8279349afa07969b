\* Half-second ticks; lifetimes below a second, ordinary and above the cap.
CONSTANTS
    a = a
    b = b
    AudienceLists <- MCAudienceLists
    TTLs = {1, 6}
    Second = 2
    DefaultTTL = 3
    MaxTTL = 5
    Threshold = 2
    MaxDelay = 1
    MaxTime = 5
    Crashes = TRUE
    DiskFails = TRUE
SPECIFICATION Spec
INVARIANTS
    CachedTokenFits
    ExposureEnds
PROPERTIES
    NoTokenOnceRevoked
