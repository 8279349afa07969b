\* Four certificates; crashes, failed reads and writes, lost responses.
CONSTANTS
    MaxSerial = 4
    Crashes = TRUE
    DiskFails = TRUE
    CertReadFails = TRUE
SPECIFICATION FairSpec
\* A truncated certificate file keeps the daemon from starting for good.
CHECK_DEADLOCK FALSE
INVARIANTS
    TypeOK
    RevokedOnlyIfListed
    FilesAgree
PROPERTIES
    NoRenewalOnceRevoked
    RevocationNoticed
