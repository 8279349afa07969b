\* Three certificates, two identities of which the operator revokes at most
\* one, commands and daemon in any order, with crashes and failed writes.
CONSTANTS
    MaxSerial = 3
    MaxLDIs = 2
    Crashes = TRUE
    DiskFails = TRUE
    CertReadFails = FALSE
SPECIFICATION CommandsSpec
VIEW Observed
CONSTRAINT OneRevoked
\* No certificate is left to issue, and the daemon may be unable to start.
CHECK_DEADLOCK FALSE
INVARIANTS
    RevokedOnlyIfInstalled
    StateComesLast
    ListedUnlessRaced
