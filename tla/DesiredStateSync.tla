-------------------------- MODULE DesiredStateSync --------------------------
(***************************************************************************)
(* A Workload Fleet Management client polling the desired-state store of     *)
(* ManifestStore for one device, while operators keep changing it.           *)
(*                                                                          *)
(* pollOnce is a sequential loop, but the server changes between its         *)
(* requests and each request may fail, so a poll is a step for the manifest  *)
(* request, one for the bundle request, one for every descriptor request     *)
(* and one for the reconciliation at its end.  Served blobs are immutable    *)
(* and their digests are verified, so a request either yields the content    *)
(* its digest names or fails (transport error, timeout, status other than    *)
(* 200, digest mismatch, unparsable document).                               *)
(***************************************************************************)
EXTENDS ManifestStore

CONSTANTS
    Dev,        \* the device this client polls for
    FetchFails, \* whether requests may fail in this instance
    Restarts,   \* whether the client process may be restarted
    NoManifest  \* no ETag yet

ASSUME DevAssumption == Dev \in Devices
ASSUME FlagsAssumption == FetchFails \in BOOLEAN /\ Restarts \in BOOLEAN
ASSUME NoManifestAssumption == NoManifest \notin Manifest

VARIABLES
    pc,             \* "idle", "bundle", "fetch": where pollOnce is
    manifestETag,   \* state.ManifestETag (the document itself) or NoManifest
    clientVersion,  \* state.ManifestVersion
    clientDeps,     \* state.Deployments: deployment id and digest
    bundleFetched,  \* state.BundleFetched
    todo,           \* deployments of the manifest the loop has not reached
    resolved        \* the resolved map of this poll

clientVars == <<pc, manifestETag, clientVersion, clientDeps, bundleFetched, todo, resolved>>
vars == <<storeVars, clientVars>>

-----------------------------------------------------------------------------
ClientInit ==
    /\ pc = "idle"
    /\ manifestETag = NoManifest
    /\ clientVersion = 0
    /\ clientDeps = {}
    /\ bundleFetched = FALSE
    /\ todo = {}
    /\ resolved = {}

\* Mutant of NewerVersion: only the direct successor is accepted.
NewerVersionIsSuccessor(m) == m.manifestVersion = clientVersion + 1

\* The rollback check; 0 is the version of a client that accepted none yet.
NewerVersion(m) == m.manifestVersion > clientVersion

\* Mutant of PollManifest: the accepted version is not remembered.
PollManifestKeepsVersion ==
    /\ pc = "idle"
    /\ LET m == GetDeploymentManifest(Dev) IN
        /\ manifestETag # m
        /\ NewerVersion(m)
        /\ manifestETag' = m
        /\ todo' = m.deployments
        /\ resolved' = {}
        /\ pc' = IF ~bundleFetched /\ clientDeps = {} THEN "bundle" ELSE "fetch"
    /\ UNCHANGED <<storeVars, clientVersion, clientDeps, bundleFetched>>

\* A 200 response whose version is greater than the last accepted one: the
\* client takes over its version and ETag and starts resolving it.  Every
\* other outcome (304 for a matching ETag, a version that is not greater, a
\* failed request) ends the poll without a change.
PollManifest ==
    /\ pc = "idle"
    /\ LET m == GetDeploymentManifest(Dev) IN
        /\ manifestETag # m
        /\ NewerVersion(m)
        /\ clientVersion' = m.manifestVersion
        /\ manifestETag' = m
        /\ todo' = m.deployments
        /\ resolved' = {}
        /\ pc' = IF ~bundleFetched /\ clientDeps = {} THEN "bundle" ELSE "fetch"
    /\ UNCHANGED <<storeVars, clientDeps, bundleFetched>>

\* Initial sync.  Without a bundle there is nothing to fetch and the bundle
\* counts as fetched; otherwise its files resolve the deployments they match.
FetchBundle ==
    /\ pc = "bundle"
    /\ pc' = "fetch"
    /\ \/ /\ manifestETag.bundle = NoBundle
          /\ bundleFetched' = TRUE
          /\ UNCHANGED resolved
       \/ /\ manifestETag.bundle # NoBundle
          /\ GetBundleFound(manifestETag.bundle)
          /\ bundleFetched' = TRUE
          /\ resolved' = manifestETag.bundle.files \cap manifestETag.deployments
       \/ /\ manifestETag.bundle # NoBundle
          /\ FetchFails \/ ~GetBundleFound(manifestETag.bundle)
          /\ UNCHANGED <<bundleFetched, resolved>>
    /\ UNCHANGED <<storeVars, manifestETag, clientVersion, clientDeps, todo>>

\* The next deployment of the manifest: already resolved, or cached with the
\* listed digest, or downloaded, or skipped for this poll because the download
\* failed.
ResolveDeployment ==
    /\ pc = "fetch"
    /\ \E x \in todo :
        /\ todo' = todo \ {x}
        /\ \/ /\ x \in resolved \cup clientDeps \/ GetDeploymentFound(x)
              /\ resolved' = resolved \cup {x}
           \/ /\ x \notin resolved \cup clientDeps
              /\ FetchFails \/ ~GetDeploymentFound(x)
              /\ UNCHANGED resolved
    /\ UNCHANGED <<storeVars, pc, manifestETag, clientVersion, clientDeps, bundleFetched>>

\* Mutant of Reconciled: what could not be resolved is undeployed.
ReconciledDropsUnresolved == resolved

\* Mutant of Reconciled: deployments that left the manifest stay.
ReconciledKeepsRemoved ==
    resolved \cup {x \in clientDeps : x.id \notin IdsOf(resolved)}

\* reconcileDeployments: remove what the manifest no longer lists, replace or
\* add what was resolved, leave the rest as it is.
Reconciled ==
    resolved \cup {x \in clientDeps : /\ x.id \in IdsOf(manifestETag.deployments)
                                      /\ x.id \notin IdsOf(resolved)}

Reconcile ==
    /\ pc = "fetch"
    /\ todo = {}
    /\ clientDeps' = Reconciled
    /\ resolved' = {}
    /\ pc' = "idle"
    /\ UNCHANGED <<storeVars, manifestETag, clientVersion, bundleFetched, todo>>

\* The client keeps its state in memory only.
Restart ==
    /\ Restarts
    /\ pc' = "idle"
    /\ manifestETag' = NoManifest
    /\ clientVersion' = 0
    /\ clientDeps' = {}
    /\ bundleFetched' = FALSE
    /\ todo' = {}
    /\ resolved' = {}
    /\ UNCHANGED storeVars

ClientStep == PollManifest \/ FetchBundle \/ ResolveDeployment \/ Reconcile

SyncInit == Init /\ ClientInit

SyncNext ==
    \/ Next /\ UNCHANGED clientVars
    \/ ClientStep
    \/ Restart

SyncSpec == SyncInit /\ [][SyncNext]_vars

\* run polls for ever, and no step of pollOnce waits for anything but a request
\* that the HTTP client's timeout ends, so the client's steps are weakly fair.
FairSyncSpec == SyncSpec /\ WF_vars(ClientStep)

-----------------------------------------------------------------------------
(* Correctness *)

\* The client's variables keep their shapes.
SyncTypeOK ==
    /\ StoreTypeOK
    /\ pc \in {"idle", "bundle", "fetch"}
    /\ manifestETag \in Manifest \cup {NoManifest}
    /\ clientVersion \in Nat
    /\ clientDeps \subseteq Descriptor
    /\ bundleFetched \in BOOLEAN
    /\ todo \subseteq Descriptor
    /\ resolved \subseteq Descriptor

\* The client never runs ahead of the server nor confuses two manifests: what
\* it accepted has at most the server's version, and the same version only if
\* it is the very document the server serves now.
ClientFollowsServer ==
    manifestETag # NoManifest =>
        LET m == GetDeploymentManifest(Dev) IN
        /\ clientVersion = manifestETag.manifestVersion
        /\ clientVersion <= m.manifestVersion
        /\ clientVersion = m.manifestVersion => manifestETag = m

\* A poll can always finish: however the operators change the desired state
\* meanwhile, all that the manifest in the client's hands links to can still be
\* downloaded (blobs are never deleted).
InFlightResolvable ==
    manifestETag # NoManifest =>
        /\ \A x \in manifestETag.deployments : GetDeploymentFound(x)
        /\ manifestETag.bundle # NoBundle => GetBundleFound(manifestETag.bundle)

\* Between polls the client runs each workload once and none that the manifest
\* it last accepted does not list, even if some downloads failed.
NoStrayWorkload ==
    /\ \A x, y \in clientDeps : x.id = y.id => x = y
    /\ pc = "idle" /\ manifestETag # NoManifest =>
          IdsOf(clientDeps) \subseteq IdsOf(manifestETag.deployments)

\* "It MUST NOT be interpreted by the client as a signal to delete the
\* workload": a workload that the accepted manifest lists survives the poll,
\* in its old form if its new descriptor cannot be downloaded.
FailedFetchNeverUndeploys ==
    [][pc = "fetch" /\ pc' = "idle" /\ manifestETag' = manifestETag =>
          \A x \in clientDeps :
              x.id \in IdsOf(manifestETag.deployments) => x.id \in IdsOf(clientDeps')]_vars

\* Between polls the client runs what the manifest it holds an ETag for lists.
\* A poll with a failed download leaves it otherwise, until the next version:
\* version and ETag are taken over before anything is downloaded.
CachedManifestIsApplied ==
    pc = "idle" /\ manifestETag # NoManifest =>
        clientDeps = manifestETag.deployments

\* A client that skips versions between polls still ends up running exactly the
\* desired deployments, once the operators leave them alone, the client is not
\* restarted any more and no poll ends without having applied its manifest.
Converges ==
    /\ \E S \in SUBSET Descriptor : <>[](deployments[Dev] = S)
    /\ <>[][~Restart]_vars
    /\ <>[]CachedManifestIsApplied
    => <>[](clientDeps = deployments[Dev])
=============================================================================
