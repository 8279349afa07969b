---------------------------- MODULE ManifestStore ----------------------------
(***************************************************************************)
(* The Workload Fleet Manager's desired-state store: the deployments a      *)
(* device should run, the manifest that lists them and the                  *)
(* content-addressed blobs a device downloads.                              *)
(*                                                                          *)
(* Every mutation is one SQLite transaction (UpsertDeployments) that loads   *)
(* the manifest, lets the service edit it and writes all of it back, so it   *)
(* is one action here.  A request that fails (unknown device or deployment,  *)
(* invalid descriptor, a database error) rolls back and leaves every         *)
(* variable alone: it is a stuttering step.                                  *)
(*                                                                          *)
(* Abstractions.  A descriptor's digest identifies its bytes, so a digest is *)
(* the rendered descriptor itself: the deployment id patched into the spec   *)
(* the operator submitted.  A bundle archive is the tar of the rendered      *)
(* descriptors in the order of the in-memory list.  That list is read ORDER  *)
(* BY id and Create appends to it, so all files but the last are in          *)
(* ascending order of id: the set of files and the id of the last one        *)
(* determine the archive's bytes, hence its digest.                          *)
(***************************************************************************)
EXTENDS Naturals

CONSTANTS
    Devices,     \* rows of the devices table
    Ids,         \* deployment UUIDs, ordered as ORDER BY d.id orders them
    Specs,       \* what an operator may submit as a deployment descriptor
    MaxVersion   \* bound on manifest versions, so that instances are finite

ASSUME IdsAssumption == Ids \subseteq Nat \ {0}
ASSUME MaxVersionAssumption == MaxVersion \in Nat \ {0}

VARIABLES
    version,      \* application_deployment_manifests.version; 0: no row yet
    bundle,       \* application_deployment_manifests.bundle_digest
    deployments,  \* application_deployments, per device
    deploymentBlobs,
    bundleBlobs

storeVars == <<version, bundle, deployments, deploymentBlobs, bundleBlobs>>

-----------------------------------------------------------------------------
(* Data *)

\* A rendered ApplicationDeployment document, which is also its digest.
Descriptor == [id : Ids, spec : Specs]

\* A bundle archive, which is also its digest.
Archive == [files : SUBSET Descriptor, last : Ids \cup {0}]

\* The empty BundleDigest ("" / SQL NULL) of a device without deployments.
NoBundle == [files |-> {}, last |-> 0]

IdsOf(deps) == {x.id : x \in deps}

\* The id of the last row of deps read ORDER BY id (0 when there is none).
LastIds(deps) ==
    IF deps = {} THEN {0}
    ELSE {i \in IdsOf(deps) : \A j \in IdsOf(deps) : j <= i}

\* The version of the manifest a request works on: a device without a row
\* starts from an empty manifest of version 1.
LoadedVersion(d) == IF version[d] = 0 THEN 1 ELSE version[d]

\* The archive of the list deps whose last element has id last.
BundleOf(deps, last) ==
    IF deps = {} THEN NoBundle ELSE [files |-> deps, last |-> last]

\* Mutant of NextVersion: the ids of the files are compared, not the digest.
NextVersionComparesIds(d, b) ==
    IF IdsOf(b.files) = IdsOf(bundle[d].files) THEN LoadedVersion(d) ELSE LoadedVersion(d) + 1

\* The version counts the changes of the bundle digest.
NextVersion(d, b) ==
    IF b = bundle[d] THEN LoadedVersion(d) ELSE LoadedVersion(d) + 1

-----------------------------------------------------------------------------
(* The transaction and the three mutations *)

Init ==
    /\ version = [d \in Devices |-> 0]
    /\ bundle = [d \in Devices |-> NoBundle]
    /\ deployments = [d \in Devices |-> {}]
    /\ deploymentBlobs = {}
    /\ bundleBlobs = {}

\* Mutant of UpsertDeployments: the bundle blob is only stored for the first
\* manifest of a device.
UpsertWithoutBundleBlob(d, deps, last) ==
    LET b == BundleOf(deps, last) IN
    /\ NextVersion(d, b) <= MaxVersion
    /\ version' = [version EXCEPT ![d] = NextVersion(d, b)]
    /\ bundle' = [bundle EXCEPT ![d] = b]
    /\ deployments' = [deployments EXCEPT ![d] = deps]
    /\ deploymentBlobs' = deploymentBlobs \cup deps
    /\ bundleBlobs' = IF version[d] = 0 THEN bundleBlobs \cup {b} ELSE bundleBlobs

\* Mutant of UpsertDeployments: descriptors no manifest lists are collected.
UpsertCollectsBlobs(d, deps, last) ==
    LET b == BundleOf(deps, last) IN
    /\ NextVersion(d, b) <= MaxVersion
    /\ version' = [version EXCEPT ![d] = NextVersion(d, b)]
    /\ bundle' = [bundle EXCEPT ![d] = b]
    /\ deployments' = [deployments EXCEPT ![d] = deps]
    /\ deploymentBlobs' = deps
    /\ bundleBlobs' = bundleBlobs \cup {b}

\* Write back the edited manifest of d: the deployments deps, the last of
\* which in list order is last.  Blobs are only ever added.
UpsertDeployments(d, deps, last) ==
    LET b == BundleOf(deps, last) IN
    /\ NextVersion(d, b) <= MaxVersion
    /\ version' = [version EXCEPT ![d] = NextVersion(d, b)]
    /\ bundle' = [bundle EXCEPT ![d] = b]
    /\ deployments' = [deployments EXCEPT ![d] = deps]
    /\ deploymentBlobs' = deploymentBlobs \cup deps
    /\ bundleBlobs' = IF deps = {} THEN bundleBlobs ELSE bundleBlobs \cup {b}

\* A fresh UUID is one no descriptor was ever rendered with.
CreateDeployment(d) ==
    \E i \in Ids \ IdsOf(deploymentBlobs), s \in Specs :
        UpsertDeployments(d, deployments[d] \cup {[id |-> i, spec |-> s]}, i)

UpdateDeployment(d) ==
    \E i \in IdsOf(deployments[d]), s \in Specs :
        LET deps == {x \in deployments[d] : x.id # i} \cup {[id |-> i, spec |-> s]}
        IN  \E last \in LastIds(deps) : UpsertDeployments(d, deps, last)

DeleteDeployment(d) ==
    \E i \in IdsOf(deployments[d]) :
        LET deps == {x \in deployments[d] : x.id # i}
        IN  \E last \in LastIds(deps) : UpsertDeployments(d, deps, last)

Next ==
    \E d \in Devices :
        CreateDeployment(d) \/ UpdateDeployment(d) \/ DeleteDeployment(d)

Spec == Init /\ [][Next]_storeVars

-----------------------------------------------------------------------------
(* The read side *)

\* The manifest document served for d.  Its ETag is the digest of its bytes,
\* and deployments are listed in order of id, so the document is its own ETag.
GetDeploymentManifest(d) ==
    [manifestVersion |-> LoadedVersion(d),
     bundle          |-> bundle[d],
     deployments     |-> deployments[d]]

\* 200 rather than 404 for a digest in the URL.
GetDeploymentFound(x) == x \in deploymentBlobs
GetBundleFound(b) == b \in bundleBlobs

Manifest ==
    [manifestVersion : Nat, bundle : Archive, deployments : SUBSET Descriptor]

-----------------------------------------------------------------------------
(* Correctness *)

\* Every variable keeps the shape of its table.
StoreTypeOK ==
    /\ version \in [Devices -> Nat]
    /\ bundle \in [Devices -> Archive]
    /\ deployments \in [Devices -> SUBSET Descriptor]
    /\ deploymentBlobs \subseteq Descriptor
    /\ bundleBlobs \subseteq Archive

\* The bundle a manifest names holds exactly the documents the manifest lists,
\* a deployment is listed once, and everything the manifest links to can be
\* downloaded: rebuildManifestBundle, the row upserts and the blob inserts of
\* UpsertDeployments agree after any sequence of mutations.
ManifestResolvable ==
    \A d \in Devices :
        /\ bundle[d].files = deployments[d]
        /\ \A x, y \in deployments[d] : x.id = y.id => x = y
        /\ \A x \in deployments[d] : GetDeploymentFound(x)
        /\ deployments[d] # {} => GetBundleFound(bundle[d])

\* A device is never served two different manifests under one version, nor a
\* newer manifest under a smaller version: any step that changes the document
\* GetDeploymentManifest serves increases manifestVersion, so a client that
\* ignores a version that is not greater misses nothing.
VersionOrdersManifests ==
    [][\A d \in Devices :
          GetDeploymentManifest(d)' # GetDeploymentManifest(d)
             => GetDeploymentManifest(d)'.manifestVersion
                  > GetDeploymentManifest(d).manifestVersion]_storeVars
=============================================================================
