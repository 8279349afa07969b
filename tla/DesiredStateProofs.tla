------------------------- MODULE DesiredStateProofs --------------------------
(***************************************************************************)
(* Proofs about ManifestStore and DesiredStateSync, for every set of         *)
(* devices, ids and specs and every version bound.  Of the store: the types, *)
(* the agreement of manifest, bundle and blobs, and the order the versions   *)
(* put on the manifests.  Of the client: that it follows the store, can      *)
(* finish every poll and runs nothing stray.                                 *)
(***************************************************************************)
EXTENDS DesiredStateSync, TLAPS

\* The inductive invariant: the order of manifests needs that the stored
\* digest is the digest of the stored list, which ManifestResolvable says.
StoreInv == StoreTypeOK /\ ManifestResolvable

\* The three mutations hand UpsertDeployments a list without repeated ids
\* whose last id is one of Ids (or 0 for none).
LEMMA MutationsUpsert ==
    ASSUME StoreInv, NEW d \in Devices,
           CreateDeployment(d) \/ UpdateDeployment(d) \/ DeleteDeployment(d)
    PROVE  \E deps \in SUBSET Descriptor, last \in Ids \cup {0} :
              /\ \A x, y \in deps : x.id = y.id => x = y
              /\ UpsertDeployments(d, deps, last)
<1> DEFINE Good(deps, last) ==
        /\ deps \in SUBSET Descriptor
        /\ last \in Ids \cup {0}
        /\ \A x, y \in deps : x.id = y.id => x = y
        /\ UpsertDeployments(d, deps, last)
<1>0. /\ deployments[d] \subseteq Descriptor
      /\ deployments[d] \subseteq deploymentBlobs
      /\ \A x, y \in deployments[d] : x.id = y.id => x = y
  BY DEF StoreInv, StoreTypeOK, ManifestResolvable, GetDeploymentFound
<1>1. CASE CreateDeployment(d)
  <2>1. PICK i \in Ids \ IdsOf(deploymentBlobs), s \in Specs :
            UpsertDeployments(d, deployments[d] \cup {[id |-> i, spec |-> s]}, i)
    BY <1>1 DEF CreateDeployment
  <2> DEFINE deps == deployments[d] \cup {[id |-> i, spec |-> s]}
  <2>2. deps \in SUBSET Descriptor
    BY <1>0 DEF Descriptor
  <2>3. \A x \in deployments[d] : x.id # i
    BY <1>0, <2>1 DEF IdsOf
  <2>4. \A x, y \in deps : x.id = y.id => x = y
    BY <1>0, <2>3
  <2>5. Good(deps, i)
    BY <2>1, <2>2, <2>4
  <2> QED BY <2>5
<1>2. CASE UpdateDeployment(d)
  <2>1. PICK i \in IdsOf(deployments[d]), s \in Specs :
            LET deps == {x \in deployments[d] : x.id # i} \cup {[id |-> i, spec |-> s]}
            IN  \E last \in LastIds(deps) : UpsertDeployments(d, deps, last)
    BY <1>2 DEF UpdateDeployment
  <2> DEFINE deps == {x \in deployments[d] : x.id # i} \cup {[id |-> i, spec |-> s]}
  <2>2. PICK last \in LastIds(deps) : UpsertDeployments(d, deps, last)
    BY <2>1
  <2>3. i \in Ids
    BY <1>0 DEF IdsOf, Descriptor
  <2>4. deps \in SUBSET Descriptor
    BY <1>0, <2>3 DEF Descriptor
  <2>5. last \in Ids \cup {0}
    BY <2>2, <2>4 DEF LastIds, IdsOf, Descriptor
  <2>6. \A x, y \in deps : x.id = y.id => x = y
    BY <1>0
  <2>7. Good(deps, last)
    BY <2>2, <2>4, <2>5, <2>6
  <2> QED BY <2>7
<1>3. CASE DeleteDeployment(d)
  <2>1. PICK i \in IdsOf(deployments[d]) :
            LET deps == {x \in deployments[d] : x.id # i}
            IN  \E last \in LastIds(deps) : UpsertDeployments(d, deps, last)
    BY <1>3 DEF DeleteDeployment
  <2> DEFINE deps == {x \in deployments[d] : x.id # i}
  <2>2. PICK last \in LastIds(deps) : UpsertDeployments(d, deps, last)
    BY <2>1
  <2>3. deps \in SUBSET Descriptor
    BY <1>0
  <2>4. last \in Ids \cup {0}
    BY <2>2, <2>3 DEF LastIds, IdsOf, Descriptor
  <2>5. Good(deps, last)
    BY <1>0, <2>2, <2>3, <2>4
  <2> QED BY <2>5
<1> QED BY <1>1, <1>2, <1>3

\* What one transaction leaves behind keeps the invariant.
LEMMA UpsertKeepsInv ==
    ASSUME StoreInv, NEW d \in Devices,
           NEW deps \in SUBSET Descriptor, NEW last \in Ids \cup {0},
           \A x, y \in deps : x.id = y.id => x = y,
           UpsertDeployments(d, deps, last)
    PROVE  StoreInv'
<1> DEFINE b == BundleOf(deps, last)
<1>1. /\ version' = [version EXCEPT ![d] = NextVersion(d, b)]
      /\ bundle' = [bundle EXCEPT ![d] = b]
      /\ deployments' = [deployments EXCEPT ![d] = deps]
      /\ deploymentBlobs' = deploymentBlobs \cup deps
      /\ bundleBlobs' = IF deps = {} THEN bundleBlobs ELSE bundleBlobs \cup {b}
  BY DEF UpsertDeployments
<1>2. b \in Archive /\ b.files = deps
  BY DEF BundleOf, NoBundle, Archive
<1>3. NextVersion(d, b) \in Nat
  BY DEF NextVersion, LoadedVersion, StoreInv, StoreTypeOK
<1> HIDE DEF b
<1>4. StoreTypeOK'
  BY <1>1, <1>2, <1>3 DEF StoreInv, StoreTypeOK
<1>5. ASSUME NEW e \in Devices
      PROVE  /\ bundle'[e].files = deployments'[e]
             /\ \A x, y \in deployments'[e] : x.id = y.id => x = y
             /\ deployments'[e] \subseteq deploymentBlobs'
             /\ deployments'[e] # {} => bundle'[e] \in bundleBlobs'
  BY <1>1, <1>2 DEF StoreInv, StoreTypeOK, ManifestResolvable, GetDeploymentFound, GetBundleFound
<1>6. ManifestResolvable'
  BY <1>5 DEF ManifestResolvable, GetDeploymentFound, GetBundleFound
<1> QED BY <1>4, <1>6 DEF StoreInv

LEMMA StoreInvInit == Init => StoreInv
<1> SUFFICES ASSUME Init PROVE StoreInv
  OBVIOUS
<1>1. NoBundle \in Archive
  BY DEF NoBundle, Archive
<1>2. StoreTypeOK
  BY <1>1 DEF Init, StoreTypeOK
<1>3. ManifestResolvable
  BY DEF Init, ManifestResolvable, NoBundle
<1> QED BY <1>2, <1>3 DEF StoreInv

LEMMA StoreInvNext == StoreInv /\ [Next]_storeVars => StoreInv'
<1> SUFFICES ASSUME StoreInv, [Next]_storeVars PROVE StoreInv'
  OBVIOUS
<1>1. CASE Next
  <2>1. PICK d \in Devices : CreateDeployment(d) \/ UpdateDeployment(d) \/ DeleteDeployment(d)
    BY <1>1 DEF Next
  <2>2. PICK deps \in SUBSET Descriptor, last \in Ids \cup {0} :
            /\ \A x, y \in deps : x.id = y.id => x = y
            /\ UpsertDeployments(d, deps, last)
    BY <2>1, MutationsUpsert
  <2> QED BY <2>2, UpsertKeepsInv
<1>2. CASE UNCHANGED storeVars
  BY <1>2 DEF storeVars, StoreInv, StoreTypeOK, ManifestResolvable, GetDeploymentFound, GetBundleFound
<1> QED BY <1>1, <1>2

\* The variables keep the shape of their tables, whatever the mutations.
THEOREM StoreTyped == Spec => []StoreTypeOK
<1>1. StoreInv => StoreTypeOK
  BY DEF StoreInv
<1> QED BY <1>1, StoreInvInit, StoreInvNext, PTL DEF Spec

\* Manifest, bundle and blobs agree after any sequence of mutations of any
\* number of deployments (rebuildManifestBundle and UpsertDeployments).
THEOREM Resolvable == Spec => []ManifestResolvable
<1>1. StoreInv => ManifestResolvable
  BY DEF StoreInv
<1> QED BY <1>1, StoreInvInit, StoreInvNext, PTL DEF Spec

\* A transaction that changes the served document gives it a greater version.
\* If the digest is unchanged then so is the list, because the old digest was
\* the digest of the old list: this is where the invariant is needed.
LEMMA UpsertOrders ==
    ASSUME StoreInv, NEW d \in Devices,
           NEW deps \in SUBSET Descriptor, NEW last \in Ids \cup {0},
           UpsertDeployments(d, deps, last),
           NEW e \in Devices,
           GetDeploymentManifest(e)' # GetDeploymentManifest(e)
    PROVE  GetDeploymentManifest(e)'.manifestVersion
              > GetDeploymentManifest(e).manifestVersion
<1> DEFINE b == BundleOf(deps, last)
<1>1. /\ version' = [version EXCEPT ![d] = NextVersion(d, b)]
      /\ bundle' = [bundle EXCEPT ![d] = b]
      /\ deployments' = [deployments EXCEPT ![d] = deps]
  BY DEF UpsertDeployments
<1>2. b.files = deps
  BY DEF BundleOf, NoBundle
<1>3. /\ version \in [Devices -> Nat]
      /\ bundle \in [Devices -> Archive]
      /\ deployments \in [Devices -> SUBSET Descriptor]
      /\ bundle[d].files = deployments[d]
  BY DEF StoreInv, StoreTypeOK, ManifestResolvable
<1>4. NextVersion(d, b) = IF b = bundle[d] THEN LoadedVersion(d) ELSE LoadedVersion(d) + 1
  BY DEF NextVersion
<1> HIDE DEF b
<1>5. LoadedVersion(d) \in Nat \ {0}
  BY <1>3 DEF LoadedVersion
<1>6. e = d
  BY <1>1, <1>3 DEF GetDeploymentManifest, LoadedVersion
<1>7. b # bundle[d]
  <2> SUFFICES ASSUME b = bundle[d] PROVE FALSE
    OBVIOUS
  <2>1. bundle'[d] = bundle[d] /\ deployments'[d] = deployments[d]
    BY <1>1, <1>2, <1>3
  <2>2. version'[d] = LoadedVersion(d)
    BY <1>1, <1>3, <1>4
  <2>3. LoadedVersion(d)' = LoadedVersion(d)
    BY <2>2, <1>5 DEF LoadedVersion
  <2> QED BY <2>1, <2>3, <1>6 DEF GetDeploymentManifest
<1>8. version'[d] = LoadedVersion(d) + 1
  BY <1>1, <1>3, <1>4, <1>7
<1>9. LoadedVersion(d)' > LoadedVersion(d)
  BY <1>8, <1>5 DEF LoadedVersion
<1> QED BY <1>6, <1>9 DEF GetDeploymentManifest

\* manifestVersion orders the manifests of a device: a changed document has a
\* greater version, so the clients' rollback check rejects no real update.
THEOREM VersionsOrder == Spec => VersionOrdersManifests
<1> DEFINE Ordered ==
        \A d \in Devices :
          GetDeploymentManifest(d)' # GetDeploymentManifest(d)
             => GetDeploymentManifest(d)'.manifestVersion
                  > GetDeploymentManifest(d).manifestVersion
<1>1. ASSUME StoreInv, [Next]_storeVars
      PROVE  [Ordered]_storeVars
  <2> SUFFICES ASSUME Next, NEW e \in Devices,
                      GetDeploymentManifest(e)' # GetDeploymentManifest(e)
               PROVE  GetDeploymentManifest(e)'.manifestVersion
                         > GetDeploymentManifest(e).manifestVersion
    BY <1>1
  <2>1. PICK d \in Devices : CreateDeployment(d) \/ UpdateDeployment(d) \/ DeleteDeployment(d)
    BY DEF Next
  <2>2. PICK deps \in SUBSET Descriptor, last \in Ids \cup {0} :
            UpsertDeployments(d, deps, last)
    BY <1>1, <2>1, MutationsUpsert
  <2> QED BY <1>1, <2>2, UpsertOrders
<1> QED BY <1>1, StoreInvInit, StoreInvNext, PTL DEF Spec, VersionOrdersManifests

-----------------------------------------------------------------------------
(* The client.                                                             *)

\* Only an empty manifest has no bundle: rebuildManifestBundle leaves the
\* digest empty, and does so for no other list.
EmptyHasNoBundle == \A d \in Devices : deployments[d] = {} => bundle[d] = NoBundle

\* During a poll the client resolves deployments of the manifest it holds,
\* which lists every id once.
PollOfManifest ==
    pc # "idle" =>
        /\ manifestETag \in Manifest
        /\ \A x, y \in manifestETag.deployments : x.id = y.id => x = y
        /\ todo \cup resolved \subseteq manifestETag.deployments

\* The inductive invariant of store and client.
SyncInv ==
    /\ StoreInv /\ EmptyHasNoBundle
    /\ SyncTypeOK
    /\ ClientFollowsServer
    /\ InFlightResolvable
    /\ PollOfManifest
    /\ NoStrayWorkload

\* The served document has the type of a manifest.
LEMMA ManifestTyped ==
    ASSUME StoreTypeOK, NEW d \in Devices
    PROVE  /\ GetDeploymentManifest(d) \in Manifest
           /\ GetDeploymentManifest(d).manifestVersion \in Nat
           /\ GetDeploymentManifest(d).deployments = deployments[d]
           /\ GetDeploymentManifest(d).bundle = bundle[d]
  BY DEF StoreTypeOK, GetDeploymentManifest, LoadedVersion, Manifest

LEMMA SyncInvInit == SyncInit => SyncInv
<1> SUFFICES ASSUME SyncInit PROVE SyncInv
  OBVIOUS
<1>1. StoreInv /\ EmptyHasNoBundle
  BY StoreInvInit DEF SyncInit, Init, EmptyHasNoBundle
<1>2. SyncTypeOK
  BY <1>1 DEF SyncInit, ClientInit, SyncTypeOK, StoreInv
<1> QED
  BY <1>1, <1>2 DEF SyncInit, ClientInit, SyncInv, ClientFollowsServer,
     InFlightResolvable, PollOfManifest, NoStrayWorkload

\* What a mutation of the store leaves of the client's invariant: blobs stay,
\* and a manifest that changes gets a greater version.
LEMMA StoreStep ==
    ASSUME SyncInv, Next, UNCHANGED clientVars
    PROVE  SyncInv'
<1>1. PICK d \in Devices : CreateDeployment(d) \/ UpdateDeployment(d) \/ DeleteDeployment(d)
  BY DEF Next
<1>2. PICK deps \in SUBSET Descriptor, last \in Ids \cup {0} :
          /\ \A x, y \in deps : x.id = y.id => x = y
          /\ UpsertDeployments(d, deps, last)
  BY <1>1, MutationsUpsert DEF SyncInv
<1>3. StoreInv'
  BY <1>2, UpsertKeepsInv DEF SyncInv
<1>4. EmptyHasNoBundle'
  BY <1>2 DEF SyncInv, EmptyHasNoBundle, StoreInv, StoreTypeOK, UpsertDeployments, BundleOf
<1>5. SyncTypeOK'
  BY <1>3 DEF SyncInv, SyncTypeOK, StoreInv, clientVars
<1>6. deploymentBlobs \subseteq deploymentBlobs' /\ bundleBlobs \subseteq bundleBlobs'
  BY <1>2 DEF UpsertDeployments
<1>7. InFlightResolvable'
  BY <1>6 DEF SyncInv, InFlightResolvable, GetDeploymentFound, GetBundleFound, clientVars
<1>8. ClientFollowsServer'
  <2> DEFINE m == GetDeploymentManifest(Dev)
  <2>1. m.manifestVersion \in Nat /\ m'.manifestVersion \in Nat
    BY <1>3, DevAssumption
       DEF SyncInv, StoreInv, StoreTypeOK, GetDeploymentManifest, LoadedVersion
  <2>2. m' = m \/ m'.manifestVersion > m.manifestVersion
    BY <1>2, UpsertOrders, DevAssumption DEF SyncInv
  <2>3. clientVersion \in Nat
    BY DEF SyncInv, SyncTypeOK
  <2> HIDE DEF m
  <2> QED
    BY <2>1, <2>2, <2>3 DEF SyncInv, ClientFollowsServer, clientVars, m
<1>9. PollOfManifest' /\ NoStrayWorkload'
  BY DEF SyncInv, PollOfManifest, NoStrayWorkload, clientVars
<1> QED
  BY <1>3, <1>4, <1>5, <1>7, <1>8, <1>9 DEF SyncInv

\* An accepted manifest: it is the one served now, so the store's invariant
\* says what the client needs of it.
LEMMA PollManifestStep ==
    ASSUME SyncInv, PollManifest
    PROVE  SyncInv'
<1> DEFINE m == GetDeploymentManifest(Dev)
<1>1. /\ clientVersion' = m.manifestVersion /\ manifestETag' = m
      /\ todo' = m.deployments /\ resolved' = {}
      /\ pc' \in {"bundle", "fetch"}
      /\ UNCHANGED <<storeVars, clientDeps, bundleFetched>>
  BY DEF PollManifest
<1>2. /\ m \in Manifest /\ m.manifestVersion \in Nat
      /\ m.deployments = deployments[Dev] /\ m.bundle = bundle[Dev]
  BY ManifestTyped, DevAssumption DEF SyncInv, StoreInv
<1>3. m' = m
  BY <1>1 DEF GetDeploymentManifest, LoadedVersion, storeVars
<1>4. StoreInv' /\ EmptyHasNoBundle'
  BY <1>1 DEF SyncInv, StoreInv, StoreTypeOK, ManifestResolvable, EmptyHasNoBundle,
     GetDeploymentFound, GetBundleFound, storeVars
<1>5. ClientFollowsServer'
  BY <1>1, <1>2, <1>3 DEF ClientFollowsServer
<1>6. /\ \A x \in deployments[Dev] : GetDeploymentFound(x)
      /\ bundle[Dev] # NoBundle => GetBundleFound(bundle[Dev])
      /\ \A x, y \in deployments[Dev] : x.id = y.id => x = y
      /\ deployments[Dev] \subseteq Descriptor
  BY DevAssumption DEF SyncInv, StoreInv, StoreTypeOK, ManifestResolvable, EmptyHasNoBundle
<1> HIDE DEF m
<1>7. SyncTypeOK'
  BY <1>1, <1>2, <1>4, <1>6 DEF SyncInv, SyncTypeOK, StoreInv
<1>8. InFlightResolvable'
  BY <1>1, <1>2, <1>6 DEF InFlightResolvable, GetDeploymentFound, GetBundleFound, storeVars
<1>9. PollOfManifest' /\ NoStrayWorkload'
  BY <1>1, <1>2, <1>6 DEF SyncInv, PollOfManifest, NoStrayWorkload
<1> QED
  BY <1>4, <1>5, <1>7, <1>8, <1>9 DEF SyncInv

\* A step of the client that keeps the manifest leaves alone what relates the
\* manifest to the store.
LEMMA SameManifest ==
    ASSUME SyncInv, UNCHANGED <<storeVars, manifestETag, clientVersion>>
    PROVE  /\ StoreInv' /\ EmptyHasNoBundle'
           /\ ClientFollowsServer' /\ InFlightResolvable'
  BY DEF SyncInv, StoreInv, StoreTypeOK, ManifestResolvable, EmptyHasNoBundle,
     GetDeploymentFound, GetBundleFound, storeVars, ClientFollowsServer,
     InFlightResolvable, GetDeploymentManifest, LoadedVersion

LEMMA FetchBundleStep ==
    ASSUME SyncInv, FetchBundle
    PROVE  SyncInv'
<1>1. /\ StoreInv' /\ EmptyHasNoBundle'
      /\ ClientFollowsServer' /\ InFlightResolvable'
  BY SameManifest DEF FetchBundle
<1>2. PollOfManifest'
  BY DEF SyncInv, PollOfManifest, FetchBundle
<1>3. resolved' \subseteq Descriptor /\ bundleFetched' \in BOOLEAN
  BY DEF SyncInv, PollOfManifest, FetchBundle, SyncTypeOK, Manifest
<1>4. SyncTypeOK'
  BY <1>1, <1>3 DEF SyncInv, StoreInv, SyncTypeOK, FetchBundle
<1>5. NoStrayWorkload'
  BY DEF SyncInv, NoStrayWorkload, FetchBundle
<1> QED
  BY <1>1, <1>2, <1>4, <1>5 DEF SyncInv

LEMMA ResolveStep ==
    ASSUME SyncInv, ResolveDeployment
    PROVE  SyncInv'
<1>1. /\ StoreInv' /\ EmptyHasNoBundle'
      /\ ClientFollowsServer' /\ InFlightResolvable'
  BY SameManifest DEF ResolveDeployment
<1>2. PICK x \in todo : todo' = todo \ {x} /\ resolved' \in {resolved, resolved \cup {x}}
  BY DEF ResolveDeployment
<1>3. PollOfManifest'
  BY <1>2 DEF SyncInv, PollOfManifest, ResolveDeployment
<1>4. SyncTypeOK'
  BY <1>1, <1>2 DEF SyncInv, StoreInv, SyncTypeOK, ResolveDeployment
<1>5. NoStrayWorkload'
  BY DEF SyncInv, NoStrayWorkload, ResolveDeployment
<1> QED
  BY <1>1, <1>3, <1>4, <1>5 DEF SyncInv

\* Reconciliation: what was resolved replaces what had its id, and what the
\* manifest does not list goes.
LEMMA ReconcileStep ==
    ASSUME SyncInv, Reconcile
    PROVE  SyncInv'
<1>1. /\ StoreInv' /\ EmptyHasNoBundle'
      /\ ClientFollowsServer' /\ InFlightResolvable'
  BY SameManifest DEF Reconcile
<1>2. /\ resolved \subseteq manifestETag.deployments
      /\ \A x, y \in manifestETag.deployments : x.id = y.id => x = y
      /\ \A x, y \in clientDeps : x.id = y.id => x = y
      /\ clientDeps \subseteq Descriptor /\ resolved \subseteq Descriptor
  BY DEF SyncInv, PollOfManifest, NoStrayWorkload, SyncTypeOK, Reconcile
<1>3. /\ clientDeps' = Reconciled /\ resolved' = {} /\ pc' = "idle"
      /\ UNCHANGED <<storeVars, manifestETag, clientVersion, bundleFetched, todo>>
  BY DEF Reconcile
<1>4. /\ Reconciled \subseteq Descriptor
      /\ \A x, y \in Reconciled : x.id = y.id => x = y
      /\ IdsOf(Reconciled) \subseteq IdsOf(manifestETag.deployments)
  BY <1>2 DEF Reconciled, IdsOf
<1>5. SyncTypeOK'
  BY <1>1, <1>3, <1>4 DEF SyncInv, StoreInv, SyncTypeOK
<1>6. PollOfManifest' /\ NoStrayWorkload'
  BY <1>3, <1>4 DEF PollOfManifest, NoStrayWorkload, IdsOf
<1> QED
  BY <1>1, <1>5, <1>6 DEF SyncInv

LEMMA RestartStep ==
    ASSUME SyncInv, Restart
    PROVE  SyncInv'
<1>1. StoreInv' /\ EmptyHasNoBundle'
  BY DEF SyncInv, StoreInv, StoreTypeOK, ManifestResolvable, EmptyHasNoBundle,
     GetDeploymentFound, GetBundleFound, storeVars, Restart
<1>2. SyncTypeOK'
  BY <1>1 DEF StoreInv, SyncTypeOK, Restart
<1> QED
  BY <1>1, <1>2 DEF SyncInv, Restart, ClientFollowsServer, InFlightResolvable,
     PollOfManifest, NoStrayWorkload

LEMMA SyncInvNext == SyncInv /\ [SyncNext]_vars => SyncInv'
<1> SUFFICES ASSUME SyncInv, [SyncNext]_vars PROVE SyncInv'
  OBVIOUS
<1>1. CASE UNCHANGED vars
  <2>1. /\ StoreInv' /\ EmptyHasNoBundle'
        /\ ClientFollowsServer' /\ InFlightResolvable'
    BY <1>1, SameManifest DEF vars, clientVars
  <2>2. SyncTypeOK'
    BY <1>1, <2>1 DEF vars, clientVars, SyncInv, StoreInv, SyncTypeOK
  <2> QED
    BY <1>1, <2>1, <2>2 DEF vars, clientVars, SyncInv, PollOfManifest, NoStrayWorkload
<1> QED
  BY <1>1, StoreStep, PollManifestStep, FetchBundleStep, ResolveStep, ReconcileStep,
     RestartStep DEF SyncNext, ClientStep

LEMMA AlwaysSyncInv == SyncSpec => []SyncInv
  BY SyncInvInit, SyncInvNext, PTL DEF SyncSpec

\* Client and store keep their shapes.
THEOREM SyncTyped == SyncSpec => []SyncTypeOK
<1>1. SyncInv => SyncTypeOK
  BY DEF SyncInv
<1> QED BY <1>1, AlwaysSyncInv, PTL

\* pollOnce and the version counter of the store: through skipped versions,
\* failed requests and restarts, the client holds the manifest served now or
\* one of a smaller version.
THEOREM FollowsServer == SyncSpec => []ClientFollowsServer
<1>1. SyncInv => ClientFollowsServer
  BY DEF SyncInv
<1> QED BY <1>1, AlwaysSyncInv, PTL

\* Whatever the operators do between the manifest request and the others, the
\* links of the manifest in the client's hands resolve.
THEOREM PollsCanFinish == SyncSpec => []InFlightResolvable
<1>1. SyncInv => InFlightResolvable
  BY DEF SyncInv
<1> QED BY <1>1, AlwaysSyncInv, PTL

\* reconcileDeployments leaves one workload per id, and between polls none
\* that the accepted manifest does not list.
THEOREM NothingStray == SyncSpec => []NoStrayWorkload
<1>1. SyncInv => NoStrayWorkload
  BY DEF SyncInv
<1> QED BY <1>1, AlwaysSyncInv, PTL

\* reconcileDeployments never takes a failed download for a removal.
THEOREM FailuresUndeployNothing == SyncSpec => FailedFetchNeverUndeploys
<1> DEFINE Keeps ==
        pc = "fetch" /\ pc' = "idle" /\ manifestETag' = manifestETag =>
          \A x \in clientDeps :
              x.id \in IdsOf(manifestETag.deployments) => x.id \in IdsOf(clientDeps')
<1>1. ASSUME SyncInv, [SyncNext]_vars
      PROVE  [Keeps]_vars
  <2> SUFFICES ASSUME SyncNext, pc = "fetch", pc' = "idle", manifestETag' = manifestETag
               PROVE  \A x \in clientDeps :
                        x.id \in IdsOf(manifestETag.deployments) => x.id \in IdsOf(clientDeps')
    BY <1>1
  <2>1. manifestETag # NoManifest
    BY <1>1, NoManifestAssumption DEF SyncInv, PollOfManifest
  <2>2. clientDeps' = Reconciled
    BY <2>1 DEF SyncNext, ClientStep, Restart, Reconcile, ResolveDeployment, FetchBundle,
       PollManifest, clientVars
  <2> QED
    BY <2>2 DEF Reconciled, IdsOf
<1> QED
  BY <1>1, AlwaysSyncInv, PTL DEF SyncSpec, FailedFetchNeverUndeploys

\* A client only reads: with it beside the store, the store still is the one
\* the theorems above are about.
THEOREM ClientOnlyReads == SyncSpec => Spec
<1>1. SyncInit => Init
  BY DEF SyncInit
<1>2. [SyncNext]_vars => [Next]_storeVars
  BY DEF SyncNext, ClientStep, Restart, Reconcile, ResolveDeployment, FetchBundle,
     PollManifest, vars
<1> QED
  BY <1>1, <1>2, PTL DEF SyncSpec, Spec
=============================================================================
