# Formal models of the Margo proof-of-concept services

This directory models the two Go programs of the repository that keep state:

- `src/completed/sup_desired_state_via_manifest_api`: a Workload Fleet Manager (WFM) that
  publishes the desired state of devices as versioned manifests, and a client that polls it;
- `src/completed/miaf-poc`: the Margo Identity Service (MIS), which enrolls devices and issues,
  renews and revokes their SVIDs, and the device agent that holds them.

Below, `wfm/` stands for the first directory and `miaf/` for the second.

## The system

| Part | State | Operations | Interacts with |
|---|---|---|---|
| WFM deployment service and repository | per device: manifest version, bundle digest, deployments; descriptor and bundle blobs (SQLite) | create, update, delete (one transaction each); serve manifest, descriptor, bundle | operators, WFM client |
| WFM client | last version and ETag, running deployments, "bundle fetched" (memory) | poll: manifest, bundle, descriptors, reconcile | WFM over HTTP |
| Identity service | LDIs, ESI bindings, replacement tickets, issued SVIDs, revocation list (SQLite) | enroll (initial, replacement, re-enrollment), renew, revoke; prune | enrollment, renewal and admin handlers, CA |
| Enrollment-token bootstrap | tokens and recorded outcomes (SQLite) | create, validate (retry or consume), commit | enrollment handler |
| JWT-SVID exchange | none but an audit log that nobody reads | look up the identity, sign, answer | rate limit, replay store, device agent |
| Renewal rate limit | success events per identity (SQLite, times as text) | allow, record | renewal and JWT-SVID handlers |
| Assertion replay store | jti and expiry (SQLite, or memory with a sweep) | witness | factory-cert-jwt validator, JWT-SVID exchange |
| MIS process | signal context, the two servers, their error channel, the serial generator's two atomics | start, serve, drain, exit; next serial | every handler |
| Device-agent daemon | command channel, reply channels, timers, signal context | submit, dispatch, reply, stop | control socket, scheduler, manager |
| Identity manager | certificate, key and state files; state in memory; cache of JWT-SVIDs | renew, check revocations, refresh bundle, exchange | MIS, scheduler, control socket |
| Device-agent commands | the same files, as processes of their own | enroll, renew, jwt-exchange | MIS, the daemon's files |

What is hard to get right in them: MIS handlers run concurrently and `Service` holds no lock, so
a request is a sequence of store calls with others in between; errors of some of those calls are
dropped; tokens, tickets and assertions are single-use under concurrent presentation; a request may
end anywhere because the device went away or because the other server of the process ended first;
the client and the agent remember validators (ETags) of documents they have not finished processing;
the agent's identity is three files that a crash can separate and that commands write beside the
daemon; the daemon's goroutines wait for one another over bounded channels; times lose their fraction
on the way into tokens, headers and the text columns of the store. `PROJECT.json` lists these hazards
at their lines.

## Modules

| Module | Models | Checked by |
|---|---|---|
| `ManifestStore` | WFM service, repository and read side | `MCDesiredStateSync` (as the part it extends), `DesiredStateProofs` |
| `DesiredStateSync` (extends `ManifestStore`) | a WFM client against the changing store | `MCDesiredStateSync`, `DesiredStateProofs` |
| `IdentityRegistry` | what the bindings promise: one holder per identity (abstract) | refined by `IdentityService` |
| `IdentityService` | `miaf/pkg/mis/identity/service.go` and its stores | `MCIdentityService`, `IdentityServiceProofs` |
| `IdentityOverlap` (extends `IdentityService`) | history of which requests ran beside each other, and what holds in spite of it | `MCIdentityService`, `IdentityServiceProofs` |
| `TokenGrant` | what single-use enrollment tokens promise (abstract) | refined by `EnrollmentToken` |
| `EnrollmentToken` | enrollment handler, token validator, token store | `MCEnrollmentToken`, `EnrollmentTokenProofs` |
| `AgentDaemon` | goroutines and channels of the device agent | `MCAgentDaemon`, `AgentProofs` |
| `AgentIdentity` | the identity the agent keeps, against MIS renewal and revocation | `MCAgentIdentity`, `AgentProofs` |
| `AgentCommands` (extends `AgentIdentity`) | `device-agent enroll` and `renew` on the daemon's data directory | `MCAgentCommands`, `AgentProofs` |
| `JWTExchange` | JWT-SVIDs: the daemon's cache, the command, the exchange, revocation | `MCJWTExchange`, `JWTExchangeProofs` |
| `RenewalRateLimit` | the sliding-window limit shared by two handlers | `MCRenewalRateLimit`, `RenewalRateLimitProofs` |
| `AssertionReplay` | claim checks and replay stores of signed assertions | `MCAssertionReplay`, `AssertionReplayProofs` |
| `MISProcess` | the MIS process, its two servers, and its serial numbers | `MCMISProcess`, `MISProcessProofs` |

`PROJECT.json` maps each definition to the lines it models. Definitions whose comment says
"Mutant" or "faulty form" are wrong on purpose: each replaces one definition to show that a
property can fail. They are not part of any specification. `TypeOK` (`SyncTypeOK`, `CommandsTypeOK`,
`DaemonTypeOK`) gives the shapes of a module's variables; a configuration lists it where the types say something of the
code, or where a proof rests on them.

### ManifestStore

`UpsertDeployments` is one SQLite transaction, so create, update and delete are one action each.
A descriptor is its own digest; an archive is the set of its files plus the id of the last one,
because the in-memory list is read `ORDER BY id` and `CreateDeployment` appends to it, so that pair
decides the archive's bytes. The version follows the code: it moves when the digest does, starting
from 1 for a device without a row.

### DesiredStateSync

`pollOnce` is a step per request (manifest, bundle, each descriptor) and one for the reconciliation,
so that operators can act in between. With `FetchFails` a request may fail; with `Restarts` the
client may lose its memory. An ETag is the document it is the hash of.

### IdentityService, IdentityOverlap and IdentityRegistry

A slot of `Reqs` is a request in flight; `req[r].pc` names its next store or CA call, and each call
is a step. The flows are the branches of `Enroll`, `Renew` and `RevokeSPIFFEID`. `Abort` ends a
request before any step; `StoreError` and the second branch of `MarkRevoked` are the errors the code
drops. Unique indexes are the guards of `CreateLDIAndBind` and `Rebind`. A serial is the position in
the issuance log; time is the set of expired serials.

`Service` holds no lock, so what a request read of an LDI or a binding may no longer be so when it
issues. `IdentityOverlap` adds three history variables that only watch: the requests that were in flight
beside a revocation of their LDI (`beside`), the live SVIDs such requests recorded (`raced`), and the LDIs
that two requests worked on at once, or one request after a dropped error (`disturbed`). With them it
states what the overlap can spoil and that nothing else can.

`IdentityRegistry` forgets requests, keys and certificates: an identity gets a holder when it is
created, passes on with a ticket that names it, once for each ticket, and former holders and withdrawn
identities stay so. The refinement maps `holder` to the active bindings of an LDI, `former` to the
retired ones, `names` and `spent` to the tickets and to those that a binding carries.

### EnrollmentToken and TokenGrant

A request looks for a recorded outcome, consumes the token, enrolls, answers and then records the
outcome, interleaved with others, and may be cut short between any two of these. `TokenGrant` says
what this is for: a token is exchanged once, and every answer carries that grant. The refinement maps
`grant` to what was issued for a token and `answered` to the replies.

### AgentDaemon

A goroutine has at most one command outstanding, so a queued command is represented by its submitter.
`Submit`'s `select`, its unsynchronised read of `stopped`, its ignored result, the manager's choice
between a cancelled context and a queued command, and `Run`'s shutdown sequence are all there.

### AgentIdentity and AgentCommands

The manager runs one command at a time, so a command is one step, except renewal. Of a renewal the
service's check of the identity (`Renew`), the revocation of the prior certificates (`RenewPriors`) and
the issuance (`RenewIssue`) are steps of their own, and so are the operator's revocation of the active
certificates (`RevokeSPIFFEID`) and the change of the status (`SetLDIStatus`): a renewal that found the
identity active may issue after it was revoked. The answer may be lost, or the request fail at any of its
steps. The three file writes follow, each of which may fail or be cut off by a crash that leaves a
truncated file. A revocation check stores the ETag, then reads the certificate, then persists.

The service of this module is `IdentityService` seen from one device: the store calls inside a revocation
are one step, operators revoke an LDI one at a time, and a request that its client has given up on makes no
further step (its context is cancelled) beyond an issuance whose answer is lost. What single store calls
and their errors do is checked in `IdentityService`.

`AgentCommands` adds the commands as processes that write the same three files, with a fresh state,
while the daemon is down or beside it. An enrollment is a re-enrollment or replacement onto an LDI the
device has been given (`CliEnroll`), or that of a fresh enrollment token, whose ESI is new, so that the
device gets another LDI and leaves the former one with its certificates (`CliEnrollNew`). A renewal with
the key of the latest certificate revokes no priors. `overlap` and `alone` are history: they tell the
directories that a command and a running daemon worked on side by side from the others. `raced` holds the
LDIs that a request was being served for while their last revocation ran.

### JWTExchange

The manager serves an exchange from its cache, or sends it and waits; the command only sends. At the
service the lookup of the identity, the signature and the answer are separate steps, between which the
operator's revocation may run. Entries of the cache go by the sorted audiences (`SameKey`) and by the
expiry of the response; the token has its own. Both expiries are cut to whole seconds (`Second` ticks).
`MaxDelay` bounds the time from lookup to signature. `reply`, `revokedAt` and `longest` are history.

### RenewalRateLimit and AssertionReplay

Requests of one identity between `Allow` and `Record`; requests that present an assertion between the
claim checks and `Witness`. Both have a discrete clock. Authentication, chain and signature are taken
as valid: a request that fails them changes nothing. In `RenewalRateLimit` instants are compared as
their RFC3339Nano texts are (`Rank`). `TextOrder`, a constant, is the place that the text of a tick has
among those of its second: a whole second, which has no fraction, sorts after all fractions
(`TextOrderAssumption`), and of fractions of different lengths nothing is assumed (".5Z" sorts after
".55Z"). The run takes half-second ticks; the theorems hold for every such order. `Sweep` is the sweep of the in-memory replay store; the SQLite store has none.

### MISProcess

`run` starts two servers, waits for the first to end and returns; `Gone` is the end of the process with
whatever is in flight. A server drains when the context is cancelled, by a signal or by the deferred
`stop` of a `run` that returns because the other server ended. The serial generator is modelled atomic operation by atomic operation, from zero
in every process. The clock moves between processes and is never set back, and no process takes serials
faster than `Shift` (2^20 in the code) a nanosecond: `SerialsUnique` rests on both.

## Runs

Runs that pass:

| Run | Shows | Bounds |
|---|---|---|
| `sync_faults` | the store keeps manifest, bundle and blobs in agreement and its version orders the manifests; the client follows it, can finish every poll, runs nothing stray, undeploys nothing over a failed download, and converges | 1 device, 3 ids, 2 descriptors, version ≤ 4, failures and restarts |
| `identity_concurrent` | one holder per identity, final bindings, single-use tickets, published revocations; refinement of `IdentityRegistry`; a revoked identity's live SVIDs, and second live keys, come from overlap only (`LiveOnlyIfRaced`, `OneLiveKey`) | 3 ESIs, 1 LDI, 2 keys, 2 tickets, 2 requests, 2 SVIDs, store errors |
| `token_grant` | refinement of `TokenGrant`; a committed enrollment can be retried for a whole window | 2 tokens, 2 keys, 2 requests, time ≤ 3 |
| `daemon_queue` | no command lost or doubled; every command answered until the signal; after it the daemon ends unless a full channel was abandoned | 3 submitters, channel of 2 |
| `agent_faults` | halts only over the own certificate, files agree, a persisted revocation ends renewal, a revocation is noticed | 4 certificates, crashes, failed reads and writes, lost responses |
| `agent_commands` | a settled directory says "revoked" only of its own certificate; the state file comes last through every failure (`StateComesLast`); an operator's revocation lists every certificate of the identity except those of requests it raced with (`ListedUnlessRaced`) | 3 certificates, 2 identities of which at most one is revoked (`OneRevoked`), crashes, failed writes; failed reads of the certificate are left to `agent_faults` |
| `jwt_exchange` | a cached token fits the request and has the threshold left; revocation ends a device's tokens within the longest lifetime; none is handed out once the revocation is recorded | half-second ticks, lifetimes below a second and above the cap of 2.5 s, threshold 1 s, time ≤ 5, crashes and failed writes |
| `rate_overlap` | the excess over the limit is bounded by overlap and lost records; Retry-After is enough | 2 requests, limit 2, half-second ticks, window of 2 s, time ≤ 11, 4 successes |
| `assertion_replay` | an assertion is accepted once while valid | 2 assertions, 2 requests, lifetimes up to one above the maximum, with and without nbf, time ≤ 5 |
| `mis_process` | serials are unique within and across processes; status 0 only when asked to, with at most one server cut off; the process ends | 2 requests, 2 serials a tick, 3 processes |

Two runs find a disagreement between the code and what it says of itself (quoted under "findings" in
`PROJECT.json`). Both start from a device that has enrolled, with new identities turned off:

- `identity_revoke_race` (`RevokedHasNoLiveSVID`): a renewal reads the active LDI; the operator's
  revocation reads the active SVIDs; the renewal records its SVID; the LDI is set to revoked. The revoked
  LDI has a live SVID.
- `identity_retired_race` (`RetiredGetsNoSVID`): a re-enrollment is past its checks; a replacement by
  ticket retires its ESI; the re-enrollment's SVID is recorded, for the retired ESI.

What the code does keep is `LiveOnlyIfRaced` and `ListedUnlessRaced`: no other order of steps, no dropped
error and no aborted request leaves a revoked identity a live or an unlisted certificate, and revoking it
again while no request is served for it reaches the one that was left.

What else the models show of the code, where a property is worded so as to leave it out:

- WFM: version and ETag are taken over before the manifest is applied, and a failed download is not
  retried until the desired state changes, where line 257 of
  `src/completed/sup_desired_state_via_manifest_api.md` wants the manifest persisted "Upon successful
  reconciliation"; `Converges` speaks of clients whose polls end with the manifest applied. An update that changes nothing can reorder the archive and so move the version.
- Identity service: overlapping key rotations of one identity can leave it two live keys (`disturbed`).
- Tokens: a request that ends between its response and `Commit` uses its token up.
- Rate limit: overlapping requests all pass `Allow` (`OverlapBounded` says how far this goes). The text
  order costs up to a second at either end of a window; without that second both properties fail.
- Daemon: with a full channel and the manager gone, `Run` blocks submitting Stop
  (`ShutsDownUnlessFull` names the case, which the comment at `miaf/pkg/device-agent/daemon/daemon.go:129`
  means to exclude). Handlers whose Submit came after the manager left wait until the process ends. A revocation found through the control socket does not halt
  the scheduler, whose later renewals the manager refuses.
- Agent: after one failed read of the certificate a revocation stays hidden behind 304 until the list
  changes; `RevocationNoticed` leaves out such lists (`missed`).
- Commands: "either all three artefacts (chain, key, state) to land or none of them"
  (`miaf/cmd/device-agent/cmd_identity.go:239`) is not given when a write fails or the process dies;
  `StateComesLast` says what is. A running daemon overwrites the state a command has installed. `renew --auth bearer` cannot
  succeed, as the command passes the exchange no SVID chain (`miaf/cmd/device-agent/cmd_identity.go:195`).
- Assertions: at the instant exp + skew the lifetime check still passes and the replay store has forgotten
  the jti, and so it has for a `Witness` that is delayed past that instant.
  `miaf/pkg/mis/bootstrap/factorycertjwt/replay/store.go:3` wants every jti seen before refused;
  `AcceptedOnceWhileValid` leaves out this edge.
- JWT-SVIDs: tokens signed before or around a revocation live on until they expire. The default
  lifetime (5 minutes) equals the cache's threshold, so default tokens are never served from the cache.
- MIS process: the first server to end cuts off the other's requests. The dates that If-Modified-Since
  is compared with keep their nanoseconds, so the condition practically never holds.

The bounds are the smallest at which the interesting cases happen: two requests for a race, a third
ESI for a replacement of a replacement, two keys for a rotation, a channel smaller than the number of
submitters, more certificates than one interrupted renewal uses, ticks of half a second where fractions
count, a clock that runs past the window or the retry window, a process after a process that was killed.
Every action and disjunct is taken in some passing run.

`MCAgentCommands` compares states by a view (`Observed`) that leaves out what is set anew before it is
read: the scheduler, the serial of a renewal that is over, the memory of a daemon that is down, and the
`raced` history of identities that are neither being revoked nor revoked. No invariant of the run reads
them. `MCIdentityService` uses symmetry; its properties are invariants, action properties and a safety
refinement.

Deadlock is checked except where an instance really may stop: a truncated certificate keeps the agent
from starting, the clock of `assertion_replay` ends with every assertion used, and the daemon can block
while it shuts down (`ShutsDownUnlessFull`).

Fairness:

- `FairSyncSpec`: the poll loop runs for ever and an HTTP timeout ends each request, so the client's
  steps are weakly fair. Operators owe nothing.
- `DaemonFairSpec`: runnable goroutines run; blocked senders of a Go channel are served in order,
  which makes sends strongly fair. No signal, request or timer is assumed to come.
- `AgentIdentity!FairSpec`: the scheduler re-arms its check timer and the manager takes commands from its
  channel in order, so renewals, failing ones included, delay a check of a changed list and cannot keep it
  out: the check is strongly fair. A renewal request ends, at the latest with the client's timeout
  (`httpclient.NewMTLS`), and the writes end. Nothing is assumed of restarts.
- `MISProcess!FairSpec`: the goroutines of `run` and the servers run, and the timer of `Shutdown` fires.
  No request is assumed to end.

## Proofs

TLAPS checks these for every value of the constants that satisfies the modules' assumptions: every
safety property of a passing run (invariant, action property or refinement) is a theorem. Each
inductive invariant was model-checked on the run's instance before it was proved.

- `DesiredStateProofs`. Every mutation is an `UpsertDeployments` with pairwise different ids
  (`MutationsUpsert`); `StoreInv` (types and `ManifestResolvable`) is preserved by it. Hence `StoreTyped`,
  `Resolvable`. `VersionsOrder` follows because the manifest can only change when the digest does, and
  the digest determines the listed deployments by `ManifestResolvable`. With a client, `SyncInv` adds what
  a poll in flight holds (`PollOfManifest`: what it has left to download and what it downloaded are
  descriptors of the manifest it accepted, which lists every id once) and that an empty list has no bundle. Hence `FollowsServer`,
  `PollsCanFinish`, `NothingStray` and `FailuresUndeployNothing`. `ClientOnlyReads` is the refinement
  `SyncSpec => Spec`: clients leave the store as it is.
- `IdentityServiceProofs`. `IInv` adds to `TypeOK`, `OneHolder`, `TicketBindsOnce` and
  `RevokedIsPublished` what the requests in flight hold: an unbound ESI has no LDI (`UnboundIsEmpty`),
  tickets name existing LDIs and absent ones none (`TicketsOK`), a request past `ValidateTicket` owns a
  consumed ticket and an existing LDI (`ReqsOK`), no two requests and no binding share such a ticket
  (`TicketsExclusive`), and the serial about to be marked is already listed. One lemma per call shows
  that it preserves `IInv`. Hence `Typed`, `AlwaysOneHolder`, `TicketsBindOnce`, `RevokedArePublished`;
  `BindingsFinal` is the action property that follows from it. `RegistryRefinement` uses `IInv` too:
  `CreateLDIAndBind` is `Create`, `Rebind` is `Replace` (its ticket is unspent by `TicketsExclusive`),
  `CreateTicket` is `Entitle`, `SetLDIStatus` is `Withdraw`, and every other call leaves the registry
  alone.

  Two theorems are about what overlap can spoil, for any number of requests in flight, with dropped errors
  and aborts (`HSpec`). `RevokedLiveOnlyIfRaced` rests on `RaceInv`: a revocation that has read the active
  rows knows every live SVID that is not raced, and a request past its check of an LDI that is revoked by
  now ran beside the revocation. `KeysStaySingle` rests on `KeyInv`: a request on an LDI that is not
  disturbed is the only one there (`Alone`), so it revokes all that is live or has its key when it issues
  (`KeyOK`); and a live SVID agrees with every active row after it (`OlderAgree`), which is why comparing
  with the latest active row is enough although that row may already be listed.
- `EnrollmentTokenProofs`. The invariant ties a request past `Consume` to a consumed token that no other
  request and no issuance has, and outcomes and pending answers to issuances. Hence `Typed`,
  `TokensSingleUse` and `Refinement`: `Enroll` is `Exchange`, an answer is `Answer`, all else stutters.
  `RetriesAnswered` adds `Windows`: the window of a recorded outcome ends no earlier than one that opened
  with the first answer.
- `AgentProofs`. `RevokedOnlyIfListed` and `FilesAgree` are not inductive: a write could replace a
  revoked certificate, and the files differ during a renewal. `RevocationKnown` (a revocation on disk is
  known in memory, and no renewal is under way with one) and `FilesProgress` (how far the writes have got)
  close them. Hence `Typed`, `HaltsForCause`, `FilesStayTogether`, `RevocationEndsRenewal`. With commands
  beside the daemon these no longer hold as they stand; `CInv` says what the histories record of the two
  working side by side (`SideBySide`), how far an installation has got (`InstallProgress`), that what is
  installed later is newer (`Ordered`), that a running daemon knows of a revocation on disk and does not
  renew (`RevocationHeld`), that every certificate issued is active or listed (`Accounted`), and that an
  LDI that is revoked or being revoked, and that no request raced with, is not being served and has all its
  certificates on the list (`Reached`). Hence `SettledRevocation`, `StateNeverAhead`, `RevocationReaches`. Of
  the daemon's goroutines, `DInv` counts a submitter's commands in the channel, in the manager's hands and
  in its reply channel: together one while it waits, unless the context was cancelled, and none otherwise
  (`CommandsHeldOnce`); a manager that was told to stop has a cancelled context (`StopForCause`).
- `JWTExchangeProofs`. The cache goes by the expiry of the response, which is the token's (`CacheKept`), so a
  fresh entry is a fresh token (`CacheServesFitting`); keys that agree come from lists of the same
  audiences. `Bounded` keeps the instant of the status check of every request that is about to sign, which
  is what `RevocationBoundsTokens` needs. `Silent` (a recorded revocation is known in memory, and a manager
  that knows of one has no exchange under way) gives `RecordedRevocationSilences`.
- `RenewalRateLimitProofs`. `OverlapBounded` is not inductive: a request that `Allow` let pass has to be
  counted before it succeeds. `Overlap` bounds the recorded successes of a window together with the
  requests past `Allow`, and holds at the last `Allow` because pruning leaves what that call has to count
  (`Kept`). That the text order puts instants a second or more apart in their order is the lemma
  `RankOrders`; it is where the second in both properties comes from. `Refused` keeps, for
  `RetryAfterSuffices`, the event whose window the Retry-After waits for.
- `AssertionReplayProofs`. `AcceptedOnceWhileValid` becomes inductive with `Remembered` (an accepted
  assertion that is still valid has its entry in the store, so `Witness` refuses it) and `Validated` (what
  a request in flight presents was signed, with an accepted lifetime). Hence `Typed` and `AcceptedOnce`.
- `MISProcessProofs`. `SerialsUnique` needs to know whose the numbers of the counter are: numbers taken
  and not yet used are different (`Taken`), what was signed is below the base or made of the base and a
  number that is spent (`SignedBelow`), and a process without a base will take one above all that was
  signed (`NoBaseYet`). Hence `SerialsNeverRepeat`. `ServersInv` counts the servers that ended in the error
  channel, for `StatusZeroIsClean`.

Assumptions on constants are named in the modules. Apart from ranges of numbers they are: a token that
stands for "no manifest" is no manifest (`NoManifestAssumption`), audience lists are finite sequences
(`ExchangeAssumption`), the window of the rate limit is longer than a second, and the requests at once are
finitely many (`RateAssumption`), and the text of a whole second sorts after its fractions
(`TextOrderAssumption`).

Only model-checked: the liveness properties `Converges`, `RequestsAnswered`, `ShutsDownUnlessFull`,
`RevocationNoticed` and `ProcessEnds`, as fairness is out of the prover's reach here.

## Not modelled

Certificate, CSR and JWT cryptography, the factory-certificate mTLS validator (stateless chain
verification), the contents of trust-bundle documents (read once at start), step-ca itself (a call
that signs or fails), discovery, problem details and DTOs, the admin client and the remaining command
lines (flag parsing and single requests), the SPIRE demonstration workload, and the proposals as such.
The text order of times is modelled where windows of seconds depend on it; the expiry queries of the
other tables compare the same way and are off by less than a second.

## Plan

1. A composition of `AgentIdentity` with the store calls of `IdentityService`: a renewal whose client has
   given up and that the service still works on, beside the agent's next one.
2. The safety part of the liveness properties as theorems: what a daemon that cannot end, and a client that
   has not converged, are waiting for.
