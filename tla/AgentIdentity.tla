--------------------------- MODULE AgentIdentity ---------------------------
(***************************************************************************)
(* The identity a device agent keeps on disk and in its manager's memory,  *)
(* against the renewal and revocation side of the Margo Identity Service:  *)
(* renewal writes three files one after another, the revocation check      *)
(* remembers the ETag of the list it has seen, a found revocation is       *)
(* persisted and halts the scheduler.                                      *)
(*                                                                         *)
(* The manager runs one command at a time (module AgentDaemon), so a       *)
(* command is one step, except renewal: the service takes no lock between  *)
(* its check of the identity's status, the revocation of the prior         *)
(* certificates and the issuance, so an operator's revocation can come in  *)
(* between, and the file writes can be cut off by a crash.  A request that *)
(* the agent gives up on ends at the service as well; the single store     *)
(* calls of a revocation, and their failures, are in IdentityService.      *)
(* Certificates are represented by their serial numbers, in order of       *)
(* issue; a key by the serial of the first certificate for it; an identity *)
(* (LDI) by a number, in order of creation.                                *)
(***************************************************************************)
EXTENDS Naturals

CONSTANTS
    MaxSerial,      \* bound on the certificates the service issues
    Crashes,        \* TRUE iff the agent may crash and be restarted
    DiskFails,      \* TRUE iff a file write may fail
    CertReadFails   \* TRUE iff the check may fail to read the certificate

ASSUME AgentAssumption ==
    /\ MaxSerial \in Nat \ {0}
    /\ {Crashes, DiskFails, CertReadFails} \subseteq BOOLEAN

VARIABLES
    last,       \* MIS: the last serial issued
    keyOf,      \* MIS: the key that each issued serial certifies
    ldiOf,      \* MIS: the LDI that each issued serial names
    active,     \* MIS: the unrevoked serials on record
    list,       \* MIS: the published revocation list
    ldis,       \* MIS: the number of LDIs this device has been given
    revoking,   \* MIS: the LDIs whose revocation by the operator is running
    withdrawn,  \* MIS: the LDIs with status "revoked"
    up,         \* the daemon runs
    cert,       \* the SVID certificate file
    key,        \* the SVID key file
    disk,       \* the state file
    mem,        \* Manager.state; Manager.revoked is mem.revoked
    op,         \* what the manager does next: "idle", a step of the service
                \* that it waits for, or a file to write
    pending,    \* the serial being installed by a renewal
    sched,      \* the scheduler: "running" or "halted"
    missed,     \* history: a list was fetched and could not be looked up
    cutOff      \* history: a renewal was cut off since the last full one

misVars == <<last, keyOf, ldiOf, active, list, ldis, revoking, withdrawn>>
vars ==
    <<misVars, up, cert, key, disk, mem, op, pending, sched, missed, cutOff>>

Serials == 1..MaxSerial
Torn == 0           \* a file that was truncated and not written
NoETag == {0}       \* RevocationsETag = "", which no list has

State == [serial : Serials, etag : SUBSET (0..MaxSerial), revoked : BOOLEAN]

(* The type invariant: in particular the list names issued certificates    *)
(* only.                                                                   *)
TypeOK ==
    /\ last \in Serials /\ keyOf \in [Serials -> 0..last]
    /\ active \subseteq 1..last /\ list \subseteq 1..last
    /\ ldis \in Nat /\ ldiOf \in [Serials -> 0..ldis]
    /\ revoking \subseteq 1..ldis /\ withdrawn \subseteq 1..ldis
    /\ up \in BOOLEAN /\ sched \in {"running", "halted"}
    /\ cert \in 0..last /\ key \in 0..last /\ pending \in 1..last
    /\ disk \in State /\ mem \in State
    /\ op \in {"idle", "priors", "issue", "cert", "key", "state"}
    /\ missed \in BOOLEAN /\ cutOff \in BOOLEAN

(* An agent that has just enrolled and started its daemon. *)
Init ==
    /\ last = 1 /\ keyOf = [s \in Serials |-> IF s = 1 THEN 1 ELSE 0]
    /\ active = {1} /\ list = {}
    /\ ldis = 1 /\ ldiOf = keyOf /\ revoking = {} /\ withdrawn = {}
    /\ up = TRUE /\ cert = 1 /\ key = 1
    /\ disk = [serial |-> 1, etag |-> NoETag, revoked |-> FALSE]
    /\ mem = disk
    /\ op = "idle" /\ pending = 1
    /\ sched = "running" /\ missed = FALSE /\ cutOff = FALSE

Idle == up /\ op = "idle"
AtFiles == op \in {"cert", "key", "state"}

-----------------------------------------------------------------------------
(* Faulty forms of the definitions below, for mutation runs. *)

\* The new certificate is recorded before the issuer has answered.
IssueRecordedFirst(l, k) ==
    /\ last < MaxSerial
    /\ active' = active \cup {last + 1}
    /\ \/ /\ last' = last + 1
          /\ keyOf' = [keyOf EXCEPT ![last + 1] = k]
          /\ ldiOf' = [ldiOf EXCEPT ![last + 1] = l]
       \/ UNCHANGED <<last, keyOf, ldiOf>>
    /\ UNCHANGED <<list, ldis, revoking, withdrawn>>

\* Any ETag that was remembered is taken for that of the current list.
NotModifiedOnceSeen == mem.etag # NoETag

\* Any entry on the list is taken for one's own.
ListedIfAny == list # {}

\* The key file is never written.
WriteCertOnly ==
    /\ up /\ op = "cert"
    /\ cert' = pending /\ op' = "state"
    /\ UNCHANGED <<misVars, up, key, disk, mem, pending, sched, missed, cutOff>>

\* The revocation flag is not taken from the state file.
RestartForgetsRevocation ==
    /\ ~up /\ cert # Torn
    /\ up' = TRUE /\ sched' = "running"
    /\ mem' = [disk EXCEPT !.revoked = FALSE]
    /\ UNCHANGED <<misVars, cert, key, disk, op, pending, missed, cutOff>>

-----------------------------------------------------------------------------
(* What the service does for a request. *)

(* ActiveBySPIFFEID: the unrevoked certificates that name l... *)
ActiveOf(l) == {s \in active : ldiOf[s] = l}

(* ...and LeafByActiveSPIFFEID: the one that was issued last. *)
Latest(l) == CHOOSE s \in ActiveOf(l) : \A t \in ActiveOf(l) : t <= s

(* Service.Renew goes on if the identity is active and has a certificate. *)
Renewable(l) == l \notin withdrawn /\ ActiveOf(l) # {}

(* revokeActivePriors. *)
RevokePriors(l) ==
    /\ list' = list \cup ActiveOf(l)
    /\ active' = active \ ActiveOf(l)
    /\ UNCHANGED <<last, keyOf, ldiOf>>

(* The issuer signs a certificate for key k, and recordIssuance records    *)
(* it: whatever has become of the identity since its status was read.      *)
Issue(l, k) ==
    /\ last < MaxSerial
    /\ last' = last + 1
    /\ keyOf' = [keyOf EXCEPT ![last + 1] = k]
    /\ ldiOf' = [ldiOf EXCEPT ![last + 1] = l]
    /\ active' = active \cup {last + 1}
    /\ UNCHANGED <<list, ldis, revoking, withdrawn>>

-----------------------------------------------------------------------------
(* Renewal by the daemon. *)

(* A certificate file and a key file that form a TLS key pair. *)
KeyPair == cert # Torn /\ key = keyOf[cert]

(* The LDI that the manager's state names, and renewal asks for. *)
OwnLDI == ldiOf[mem.serial]

(* handleRenew up to the service's checks.  A revoked agent, a certificate *)
(* that does not fit the key or names another LDI than the state, and a    *)
(* service that refuses leave everything as it was.  The renewal endpoint  *)
(* checks the certificate's name, not whether it is on the revocation      *)
(* list.  The daemon generates a new key for every renewal, so the service *)
(* always sees a key rotation.                                             *)
Renew ==
    /\ Idle /\ ~mem.revoked
    /\ KeyPair /\ ldiOf[cert] = OwnLDI
    /\ Renewable(OwnLDI)
    /\ op' = "priors"
    /\ UNCHANGED <<misVars, up, cert, key, disk, mem, pending,
                   sched, missed, cutOff>>

RenewPriors ==
    /\ up /\ op = "priors"
    /\ RevokePriors(OwnLDI)
    /\ op' = "issue"
    /\ UNCHANGED <<ldis, revoking, withdrawn, up, cert, key, disk, mem, pending,
                   sched, missed, cutOff>>

(* The answer arrives, or is lost. *)
RenewIssue ==
    /\ up /\ op = "issue"
    /\ Issue(OwnLDI, last + 1)
    /\ \/ op' = "cert" /\ pending' = last'
       \/ op' = "idle" /\ UNCHANGED pending
    /\ UNCHANGED <<up, cert, key, disk, mem, sched, missed, cutOff>>

(* The request fails, or times out. *)
RenewFails ==
    /\ up /\ op \in {"priors", "issue"}
    /\ op' = "idle"
    /\ UNCHANGED <<misVars, up, cert, key, disk, mem, pending,
                   sched, missed, cutOff>>

(* The three writes that install the new identity.  os.WriteFile truncates *)
(* before it writes; Save replaces the state file atomically.              *)
WriteCert ==
    /\ up /\ op = "cert"
    /\ \/ cert' = pending /\ op' = "key" /\ UNCHANGED cutOff
       \/ DiskFails /\ cert' \in {cert, Torn} /\ op' = "idle" /\ cutOff' = TRUE
    /\ UNCHANGED <<misVars, up, key, disk, mem, pending, sched, missed>>

WriteKey ==
    /\ up /\ op = "key"
    /\ \/ key' = keyOf[pending] /\ op' = "state" /\ UNCHANGED cutOff
       \/ DiskFails /\ key' \in {key, Torn} /\ op' = "idle" /\ cutOff' = TRUE
    /\ UNCHANGED <<misVars, up, cert, disk, mem, pending, sched, missed>>

SaveState ==
    /\ up /\ op = "state"
    /\ mem' = [mem EXCEPT !.serial = pending]
    /\ op' = "idle"
    /\ \/ disk' = mem' /\ cutOff' = FALSE
       \/ DiskFails /\ disk' = disk /\ cutOff' = TRUE
    /\ UNCHANGED <<misVars, up, cert, key, pending, sched, missed>>

-----------------------------------------------------------------------------
(* Manager.persist, which may fail. *)
Persist(s) == disk' = s \/ (DiskFails /\ disk' = disk)

(* The revocation check.  The service compares If-None-Match with the hash *)
(* of the list it would send; an ETag is represented by the list it is the *)
(* hash of.  A check that gets no answer changes nothing.                  *)
NotModified == mem.etag = list

(* The ETag is stored before the certificate is read... *)
Remembered == [mem EXCEPT !.etag = list]

(* ...and the fingerprint of the certificate file looked up. *)
OwnSVIDListed == cert # Torn /\ cert \in list

CheckUnchanged ==
    /\ Idle /\ NotModified
    /\ Persist(mem)
    /\ UNCHANGED <<misVars, up, cert, key, mem, op, pending,
                   sched, missed, cutOff>>

CheckCertUnreadable ==
    /\ Idle /\ ~NotModified
    /\ CertReadFails
    /\ mem' = Remembered
    /\ missed' = TRUE
    /\ UNCHANGED <<misVars, up, cert, key, disk, op, pending, sched, cutOff>>

(* A check by the scheduler or, when bySched is FALSE, by a control-socket *)
(* request.  Only the scheduler's own check can halt the scheduler, and    *)
(* only when its reply carries no error.                                   *)
CheckChanged(bySched) ==
    /\ Idle /\ ~NotModified
    /\ bySched => sched = "running"
    /\ mem' = [Remembered EXCEPT !.revoked = @ \/ OwnSVIDListed]
    /\ \/ /\ disk' = mem'
          /\ sched' = IF bySched /\ OwnSVIDListed THEN "halted" ELSE sched
       \/ DiskFails /\ UNCHANGED <<disk, sched>>
    /\ missed' = FALSE
    /\ UNCHANGED <<misVars, up, cert, key, op, pending, cutOff>>

(* The bundle refresh persists the whole state as well. *)
RefreshBundle ==
    /\ Idle
    /\ Persist(mem)
    /\ UNCHANGED <<misVars, up, cert, key, mem, op, pending,
                   sched, missed, cutOff>>

-----------------------------------------------------------------------------
(* Service.RevokeSPIFFEID, by the operator, one at a time for an LDI.  It  *)
(* revokes the certificates it finds active...                             *)
RevokeSPIFFEID(l) ==
    /\ l \notin revoking
    /\ RevokePriors(l)
    /\ revoking' = revoking \cup {l}
    /\ UNCHANGED <<ldis, withdrawn, up, cert, key, disk, mem, op, pending,
                   sched, missed, cutOff>>

(* ...and then sets the LDI's status, which may fail. *)
SetLDIStatus(l) ==
    /\ l \in revoking
    /\ revoking' = revoking \ {l}
    /\ withdrawn' \in {withdrawn, withdrawn \cup {l}}
    /\ UNCHANGED <<last, keyOf, ldiOf, active, list, ldis, up, cert, key, disk,
                   mem, op, pending, sched, missed, cutOff>>

(* The process dies, in the middle of a file write perhaps. *)
Crash ==
    /\ up /\ Crashes
    /\ up' = FALSE
    /\ cert' \in IF op = "cert" THEN {cert, Torn} ELSE {cert}
    /\ key' \in IF op = "key" THEN {key, Torn} ELSE {key}
    /\ mem' = disk /\ op' = "idle"
    /\ cutOff' = (cutOff \/ AtFiles)
    /\ UNCHANGED <<misVars, disk, pending, sched, missed>>

(* daemon.Run refuses to start without a readable certificate; the manager *)
(* loads the state, and the scheduler starts whatever the state says.      *)
Restart ==
    /\ ~up /\ cert # Torn
    /\ up' = TRUE /\ sched' = "running"
    /\ mem' = disk
    /\ UNCHANGED <<misVars, cert, key, disk, op, pending, missed, cutOff>>

Next ==
    \/ Renew \/ RenewPriors \/ RenewIssue \/ RenewFails
    \/ WriteCert \/ WriteKey \/ SaveState
    \/ CheckUnchanged \/ CheckCertUnreadable
    \/ \E bySched \in BOOLEAN : CheckChanged(bySched)
    \/ RefreshBundle
    \/ \E l \in 1..ldis : RevokeSPIFFEID(l) \/ SetLDIStatus(l)
    \/ Crash \/ Restart

Spec == Init /\ [][Next]_vars

(* The scheduler's check timer is re-armed after every check and the       *)
(* manager serves its channel in order: renewals, failing ones included,   *)
(* keep a check waiting and cannot keep it out, so a check that finds the  *)
(* list changed eventually gets through.  A renewal request ends, at the   *)
(* latest with the client's timeout (httpclient.NewMTLS), and so do the    *)
(* writes.                                                                 *)
Fairness ==
    /\ SF_vars(CheckChanged(TRUE))
    /\ WF_vars(RenewPriors \/ RenewIssue \/ RenewFails)
    /\ WF_vars(WriteCert) /\ WF_vars(WriteKey) /\ WF_vars(SaveState)

FairSpec == Spec /\ Fairness

-----------------------------------------------------------------------------
(* An agent that takes itself for revoked holds a certificate that is on   *)
(* the published list: no renewal, restart or failed write makes it halt   *)
(* over somebody else's, or a former, certificate.                         *)
RevokedOnlyIfListed == (mem.revoked \/ disk.revoked) => cert \in list

(* While no renewal is at the files the certificate, the key and the       *)
(* recorded serial belong together, unless a renewal was cut off on its    *)
(* way through the three files.                                            *)
FilesAgree ==
    ~AtFiles /\ ~cutOff => KeyPair /\ disk.serial = cert

(* Once the revocation is on disk the agent obtains no certificate, not    *)
(* even after a restart, and not even from a service that would still      *)
(* renew (it revoked the old certificate for a renewal whose response was  *)
(* lost).                                                                  *)
NoRenewalOnceRevoked == [][disk.revoked => last' = last]_vars

(* "set by the IdentityManager when own serial is observed in the          *)
(* revocation list" (agentstate/state.go:29): a daemon that runs on with a *)
(* listed certificate comes to know it.  Only a certificate that could not *)
(* be read when the list arrived keeps it from that, until a later list is *)
(* looked up: the ETag is stored, so this list is not sent again.          *)
RevocationNoticed ==
    (up /\ cert \in list) ~> (mem.revoked \/ cert \notin list \/ ~up \/ missed)
=============================================================================
