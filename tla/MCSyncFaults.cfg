SPECIFICATION FairSyncSpec
CONSTANTS
    Devices = {d1}
    Dev = d1
    Ids = {1, 2, 3}
    Specs = {s1, s2}
    MaxVersion = 4
    FetchFails = TRUE
    Restarts = TRUE
    NoManifest = NoManifest
INVARIANTS
    ManifestResolvable
    ClientFollowsServer
    InFlightResolvable
    NoStrayWorkload
PROPERTIES
    VersionOrdersManifests
    FailedFetchNeverUndeploys
    Converges
