--------------------------- MODULE IdentityService ---------------------------
(***************************************************************************)
(* The identity core of the Margo Identity Service (MIS): logical device     *)
(* identities (LDIs), the evidence subjects (ESIs) bound to them, the log of *)
(* issued X.509 SVIDs, the revocation list and the replacement tickets.      *)
(*                                                                          *)
(* HTTP handlers run concurrently, and Service keeps no lock: a request is a *)
(* sequence of store calls and one CA call, and other requests run between   *)
(* any two of them.  Each store call is one SQL statement or one transaction *)
(* and is one step here.  A slot of Reqs is one request in flight; it is     *)
(* reused when the request has returned.                                     *)
(*                                                                          *)
(* Failures.  Abort ends a request before any of its steps: the client went   *)
(* away or timed out (every later call fails on the cancelled context), the  *)
(* CA refused, the process crashed (all state is in the store).  StoreError  *)
(* is a single failed call whose error the code drops: the request goes on.  *)
(* A request that is refused without having changed anything is not a step.  *)
(*                                                                          *)
(* Abstractions.  A serial is the position of the certificate in the order    *)
(* of recordIssuance; a certificate signed but not recorded is never handed  *)
(* out, so it has none.  Time is the set of serials whose NotAfter has       *)
(* passed.  Unsuccessful lookups of unknown LDIs or tickets are not modelled.*)
(***************************************************************************)
EXTENDS Naturals, FiniteSets

CONSTANTS
    ESIs, LDIs, Keys, Tickets,
    Reqs,              \* slots for requests in flight
    MaxSerial,         \* bound on the number of recorded SVIDs
    AllowNewLDI,       \* policy
    AllowKeyRotation,  \* policy
    StoreErrors,       \* whether single store calls may fail in this instance
    None

ASSUME PolicyAssumption ==
    AllowNewLDI \in BOOLEAN /\ AllowKeyRotation \in BOOLEAN /\ StoreErrors \in BOOLEAN
ASSUME MaxSerialAssumption == MaxSerial \in Nat
ASSUME NoneAssumption == None \notin LDIs \cup Keys \cup Tickets \cup ESIs

VARIABLES
    ldi,        \* ldis.status, "absent" before the row exists
    binding,    \* esi_bindings, with the ticket the binding was made with
    ticket,     \* replacement_tickets
    svid,       \* issued_svids by serial
    nextSerial, \* first serial not in issued_svids
    revoked,    \* serials in revoked_svids
    expired,    \* serials whose NotAfter has passed
    req         \* the requests in flight

vars == <<ldi, binding, ticket, svid, nextSerial, revoked, expired, req>>

Serials == 1 .. MaxSerial

\* pc names the next call of the request.
Idle == [pc |-> "idle", flow |-> "none", esi |-> None, ldi |-> None,
         key |-> None, ticket |-> None, priors |-> {}]

PCs == {"idle", "CreateLDIAndBind", "ValidateTicket", "GetLDI", "Rebind", "Leaf",
        "ActivePriors", "Revoke", "MarkRevoked", "Issue", "Record", "SetLDIStatus"}

Flows == {"none", "initial", "replacement", "re-enrollment", "renewal", "revocation"}

Request ==
    [pc : PCs, flow : Flows, esi : ESIs \cup {None}, ldi : LDIs \cup {None},
     key : Keys \cup {None}, ticket : Tickets \cup {None}, priors : SUBSET Serials]

LDIStatus == {"absent", "active", "revoked"}
Binding == [status : {"unbound", "active", "retired"},
            ldi : LDIs \cup {None}, ticket : Tickets \cup {None}]
Ticket == [status : {"absent", "active", "consumed", "expired"}, ldi : LDIs \cup {None}]
SVID == [status : {"absent", "active", "revoked"}, ldi : LDIs \cup {None},
         key : Keys \cup {None}, esi : ESIs \cup {None}]

Unbound == [status |-> "unbound", ldi |-> None, ticket |-> None]

\* The rows ActiveBySPIFFEID returns.
ActiveSVIDs(l) ==
    {s \in Serials : svid[s].status = "active" /\ svid[s].ldi = l /\ s \notin expired}

\* What relying parties accept: not expired and not on the revocation list.
Live(s) == svid[s].status # "absent" /\ s \notin expired /\ s \notin revoked

\* A free slot takes up a request whose first lookup has been answered.
Begin(r, pc, flow, e, l, k, t) ==
    /\ req[r] = Idle
    /\ req' = [req EXCEPT ![r] = [pc |-> pc, flow |-> flow, esi |-> e, ldi |-> l,
                                  key |-> k, ticket |-> t, priors |-> {}]]
Goto(r, pc) == req' = [req EXCEPT ![r].pc = pc]
Return(r) == req' = [req EXCEPT ![r] = Idle]

storeUnchanged == UNCHANGED <<ldi, binding, ticket, svid, nextSerial, revoked, expired>>

-----------------------------------------------------------------------------
Init ==
    /\ ldi = [l \in LDIs |-> "absent"]
    /\ binding = [e \in ESIs |-> Unbound]
    /\ ticket = [t \in Tickets |-> [status |-> "absent", ldi |-> None]]
    /\ svid = [s \in Serials |-> [status |-> "absent", ldi |-> None, key |-> None, esi |-> None]]
    /\ nextSerial = 1
    /\ revoked = {}
    /\ expired = {}
    /\ req = [r \in Reqs |-> Idle]

\* The bounds of the instance.  The requests in flight have their serials; a
\* first enrollment that finds no LDI left at CreateLDIAndBind can only abort.
SerialLeft ==
    nextSerial + Cardinality({r \in Reqs : req[r].flow \notin {"none", "revocation"}})
        <= MaxSerial
LDILeft == \E l \in LDIs : ldi[l] = "absent"

(* Enroll: LookupByESI returns the binding and its LDI in one query. *)

StartInitial(r) ==
    /\ SerialLeft /\ LDILeft
    /\ AllowNewLDI
    /\ \E e \in ESIs, k \in Keys :
        /\ binding[e].status = "unbound"
        /\ Begin(r, "CreateLDIAndBind", "initial", e, None, k, None)
    /\ storeUnchanged

StartReplacement(r) ==
    /\ SerialLeft
    /\ \E e \in ESIs, k \in Keys, t \in Tickets :
        /\ binding[e].status = "unbound"
        /\ ticket[t].status # "absent"
        /\ Begin(r, "ValidateTicket", "replacement", e, None, k, t)
    /\ storeUnchanged

\* Mutant of StartReEnrollment: the status of the LDI is not looked at.
StartReEnrollmentRevoked(r) ==
    /\ SerialLeft
    /\ \E e \in ESIs, k \in Keys :
        /\ binding[e].status = "active"
        /\ Begin(r, "Leaf", "re-enrollment", e, binding[e].ldi, k, None)
    /\ storeUnchanged

StartReEnrollment(r) ==
    /\ SerialLeft
    /\ \E e \in ESIs, k \in Keys :
        /\ binding[e].status = "active"
        /\ ldi[binding[e].ldi] = "active"
        /\ Begin(r, "Leaf", "re-enrollment", e, binding[e].ldi, k, None)
    /\ storeUnchanged

(* Renew: GetLDIBySPIFFEID. *)

StartRenewal(r) ==
    /\ SerialLeft
    /\ \E l \in LDIs, k \in Keys :
        /\ ldi[l] = "active"
        /\ Begin(r, "Leaf", "renewal", None, l, k, None)
    /\ storeUnchanged

(* RevokeSPIFFEID: GetLDIBySPIFFEID; the LDI's status is not looked at. *)

StartRevocation(r) ==
    /\ \E l \in LDIs :
        /\ ldi[l] # "absent"
        /\ Begin(r, "ActivePriors", "revocation", None, l, None, None)
    /\ storeUnchanged

-----------------------------------------------------------------------------
(* Binding ESIs to LDIs *)

\* One transaction; the unique index on the ESI makes it fail if another
\* request has bound the ESI since the lookup.
CreateLDIAndBind(r) ==
    /\ req[r].pc = "CreateLDIAndBind"
    /\ \/ /\ binding[req[r].esi].status = "unbound"
          /\ \E l \in LDIs :
              /\ ldi[l] = "absent"
              /\ ldi' = [ldi EXCEPT ![l] = "active"]
              /\ binding' = [binding EXCEPT ![req[r].esi] =
                                [status |-> "active", ldi |-> l, ticket |-> None]]
              /\ req' = [req EXCEPT ![r].pc = "Issue", ![r].ldi = l]
       \/ /\ binding[req[r].esi].status # "unbound"
          /\ Return(r)
          /\ UNCHANGED <<ldi, binding>>
    /\ UNCHANGED <<ticket, svid, nextSerial, revoked, expired>>

\* Mutant of ValidateTicket: the status is checked, the ticket not consumed.
ValidateTicketKeeps(r) ==
    /\ req[r].pc = "ValidateTicket"
    /\ IF ticket[req[r].ticket].status = "active"
       THEN req' = [req EXCEPT ![r].pc = "GetLDI", ![r].ldi = ticket[req[r].ticket].ldi]
       ELSE Return(r)
    /\ UNCHANGED <<ldi, binding, ticket, svid, nextSerial, revoked, expired>>

\* Consumes the ticket, whatever becomes of the request.
ValidateTicket(r) ==
    /\ req[r].pc = "ValidateTicket"
    /\ \/ /\ ticket[req[r].ticket].status = "active"
          /\ ticket' = [ticket EXCEPT ![req[r].ticket].status = "consumed"]
          /\ req' = [req EXCEPT ![r].pc = "GetLDI", ![r].ldi = ticket[req[r].ticket].ldi]
       \/ /\ ticket[req[r].ticket].status # "active"
          /\ Return(r)
          /\ UNCHANGED ticket
    /\ UNCHANGED <<ldi, binding, svid, nextSerial, revoked, expired>>

GetLDI(r) ==
    /\ req[r].pc = "GetLDI"
    /\ IF ldi[req[r].ldi] = "active" THEN Goto(r, "Rebind") ELSE Return(r)
    /\ storeUnchanged

\* Mutant of Rebound: the previously active ESI is not retired.
ReboundKeepsPrevious(e, l, t) ==
    [binding EXCEPT ![e] = [status |-> "active", ldi |-> l, ticket |-> t]]

\* The bindings when e takes over the LDI l with the ticket t.
Rebound(e, l, t) ==
    [f \in ESIs |->
        IF f = e THEN [status |-> "active", ldi |-> l, ticket |-> t]
        ELSE IF binding[f].ldi = l THEN [binding[f] EXCEPT !.status = "retired"]
        ELSE binding[f]]

\* Mutant of Rebind: the transaction also puts the LDI back to active.
RebindReactivates(r) ==
    /\ req[r].pc = "Rebind"
    /\ binding[req[r].esi].status = "unbound"
    /\ binding' = Rebound(req[r].esi, req[r].ldi, req[r].ticket)
    /\ ldi' = [ldi EXCEPT ![req[r].ldi] = "active"]
    /\ Goto(r, "ActivePriors")
    /\ UNCHANGED <<ticket, svid, nextSerial, revoked, expired>>

\* One transaction: retire the active binding of the LDI and insert the new
\* one, or fail on the unique index and leave both alone.
Rebind(r) ==
    /\ req[r].pc = "Rebind"
    /\ \/ /\ binding[req[r].esi].status = "unbound"
          /\ binding' = Rebound(req[r].esi, req[r].ldi, req[r].ticket)
          /\ Goto(r, "ActivePriors")
       \/ /\ binding[req[r].esi].status # "unbound"
          /\ Return(r)
          /\ UNCHANGED binding
    /\ UNCHANGED <<ldi, ticket, svid, nextSerial, revoked, expired>>

-----------------------------------------------------------------------------
(* Deciding on the key, revoking prior SVIDs *)

\* The most recently recorded active SVID; serials count recordings.
IsLatest(s, S) == s \in S /\ \A t \in S : t <= s

\* Mutant of Leaf: a renewal with a new key is not treated as a rotation.
LeafKeepsPriors(r) ==
    /\ req[r].pc = "Leaf"
    /\ IF req[r].flow = "renewal" /\ ActiveSVIDs(req[r].ldi) = {} THEN Return(r)
       ELSE Goto(r, IF req[r].flow = "renewal" THEN "Issue" ELSE "ActivePriors")
    /\ storeUnchanged

\* Re-enrollment always goes on to revoke the active SVIDs, a renewal only if
\* the CSR's key differs from the latest one's.
Leaf(r) ==
    LET active == ActiveSVIDs(req[r].ldi)
        keyChanged == \E s \in active : IsLatest(s, active) /\ svid[s].key # req[r].key
    IN
    /\ req[r].pc = "Leaf"
    /\ IF (keyChanged /\ ~AllowKeyRotation) \/ (req[r].flow = "renewal" /\ active = {})
       THEN Return(r)
       ELSE Goto(r, IF req[r].flow = "renewal" /\ ~keyChanged THEN "Issue" ELSE "ActivePriors")
    /\ storeUnchanged

\* Where revokeActivePriors (or the loop of RevokeSPIFFEID) goes when done.
AfterPriors(r) == IF req[r].flow = "revocation" THEN "SetLDIStatus" ELSE "Issue"

ActivePriors(r) ==
    LET active == ActiveSVIDs(req[r].ldi) IN
    /\ req[r].pc = "ActivePriors"
    /\ req' = [req EXCEPT ![r].pc = IF active = {} THEN AfterPriors(r) ELSE "Revoke",
                          ![r].priors = active]
    /\ storeUnchanged

\* The next prior in the order ORDER BY issued_at ASC.
IsFirst(s, S) == s \in S /\ \A t \in S : s <= t

\* Mutant of Revoke: the audit row is marked, the list is not written.
RevokeUnlisted(r) ==
    /\ req[r].pc = "Revoke"
    /\ Goto(r, "MarkRevoked")
    /\ storeUnchanged

\* Insert into the revocation list unless it is there already.
Revoke(r) ==
    /\ req[r].pc = "Revoke"
    /\ \E s \in Serials : IsFirst(s, req[r].priors) /\ revoked' = revoked \cup {s}
    /\ Goto(r, "MarkRevoked")
    /\ UNCHANGED <<ldi, binding, ticket, svid, nextSerial, expired>>

\* To the next prior, or past the loop.
NextPrior(r, s) ==
    req' = [req EXCEPT ![r].pc = IF req[r].priors = {s} THEN AfterPriors(r) ELSE "Revoke",
                       ![r].priors = @ \ {s}]

\* A failure to mark the audit row is ignored.
MarkRevoked(r) ==
    /\ req[r].pc = "MarkRevoked"
    /\ \E s \in Serials :
        /\ IsFirst(s, req[r].priors)
        /\ \/ svid' = [svid EXCEPT ![s].status = "revoked"]
           \/ StoreErrors /\ UNCHANGED svid
        /\ NextPrior(r, s)
    /\ UNCHANGED <<ldi, binding, ticket, nextSerial, revoked, expired>>

\* A failed call of revokeActivePriors ends the loop, and the callers drop its
\* error; RevokeSPIFFEID returns it.
StoreError(r) ==
    /\ StoreErrors
    /\ req[r].pc \in {"ActivePriors", "Revoke"}
    /\ req[r].flow # "revocation"
    /\ req' = [req EXCEPT ![r].pc = "Issue", ![r].priors = {}]
    /\ storeUnchanged

-----------------------------------------------------------------------------
(* Issuing *)

\* The CA signs.  A refusal is Abort.
IssueX509SVID(r) ==
    /\ req[r].pc = "Issue"
    /\ Goto(r, "Record")
    /\ storeUnchanged

\* Mutant of RecordIssuance: ESI and LDI change places in the row.
RecordIssuanceSwaps(r) ==
    /\ req[r].pc = "Record"
    /\ nextSerial \in Serials
    /\ svid' = [svid EXCEPT ![nextSerial] =
                  [status |-> "active", ldi |-> req[r].esi, key |-> req[r].key,
                   esi |-> req[r].ldi]]
    /\ nextSerial' = nextSerial + 1
    /\ Return(r)
    /\ UNCHANGED <<ldi, binding, ticket, revoked, expired>>

\* recordIssuance, after which the SVID is handed to the device.
RecordIssuance(r) ==
    /\ req[r].pc = "Record"
    /\ nextSerial \in Serials
    /\ svid' = [svid EXCEPT ![nextSerial] =
                  [status |-> "active", ldi |-> req[r].ldi, key |-> req[r].key,
                   esi |-> req[r].esi]]
    /\ nextSerial' = nextSerial + 1
    /\ Return(r)
    /\ UNCHANGED <<ldi, binding, ticket, revoked, expired>>

\* The last call of RevokeSPIFFEID.
SetLDIStatus(r) ==
    /\ req[r].pc = "SetLDIStatus"
    /\ ldi' = [ldi EXCEPT ![req[r].ldi] = "revoked"]
    /\ Return(r)
    /\ UNCHANGED <<binding, ticket, svid, nextSerial, revoked, expired>>

Abort(r) ==
    /\ req[r].pc # "idle"
    /\ Return(r)
    /\ storeUnchanged

-----------------------------------------------------------------------------
(* Operator and clock *)

\* Mutant of CreateTicket: the LDI is not looked up.
CreateTicketUnknown(t) ==
    /\ ticket[t].status = "absent"
    /\ \E l \in LDIs :
        ticket' = [ticket EXCEPT ![t] = [status |-> "active", ldi |-> l]]
    /\ UNCHANGED <<ldi, binding, svid, nextSerial, revoked, expired, req>>

\* An operator may ask for a ticket for any LDI that exists.
CreateTicket(t) ==
    /\ ticket[t].status = "absent"
    /\ \E l \in LDIs :
        /\ ldi[l] # "absent"
        /\ ticket' = [ticket EXCEPT ![t] = [status |-> "active", ldi |-> l]]
    /\ UNCHANGED <<ldi, binding, svid, nextSerial, revoked, expired, req>>

\* A ticket whose expires_at passed is rejected like a consumed one.
ExpireTicket(t) ==
    /\ ticket[t].status = "active"
    /\ ticket' = [ticket EXCEPT ![t].status = "expired"]
    /\ UNCHANGED <<ldi, binding, svid, nextSerial, revoked, expired, req>>

ExpireSVID(s) ==
    /\ svid[s].status # "absent"
    /\ s \notin expired
    /\ expired' = expired \cup {s}
    /\ UNCHANGED <<ldi, binding, ticket, svid, nextSerial, revoked, req>>

PruneExpired ==
    /\ revoked \cap expired # {}
    /\ revoked' = revoked \ expired
    /\ UNCHANGED <<ldi, binding, ticket, svid, nextSerial, expired, req>>

-----------------------------------------------------------------------------
Start(r) ==
    \/ StartInitial(r)
    \/ StartReplacement(r)
    \/ StartReEnrollment(r)
    \/ StartRenewal(r)
    \/ StartRevocation(r)

\* The steps of a request that is not disturbed.
Step(r) ==
    \/ CreateLDIAndBind(r)
    \/ ValidateTicket(r)
    \/ GetLDI(r)
    \/ Rebind(r)
    \/ Leaf(r)
    \/ ActivePriors(r)
    \/ Revoke(r)
    \/ MarkRevoked(r)
    \/ IssueX509SVID(r)
    \/ RecordIssuance(r)
    \/ SetLDIStatus(r)

Environment ==
    \/ \E t \in Tickets : CreateTicket(t) \/ ExpireTicket(t)
    \/ \E s \in Serials : ExpireSVID(s)
    \/ PruneExpired

Next ==
    \/ \E r \in Reqs : Start(r) \/ Step(r) \/ StoreError(r) \/ Abort(r)
    \/ Environment

Spec == Init /\ [][Next]_vars

-----------------------------------------------------------------------------
(* Correctness: whatever the interleaving and the failures *)

\* Every variable keeps the shape of its table.
TypeOK ==
    /\ ldi \in [LDIs -> LDIStatus]
    /\ binding \in [ESIs -> Binding]
    /\ ticket \in [Tickets -> Ticket]
    /\ svid \in [Serials -> SVID]
    /\ nextSerial \in 1 .. MaxSerial + 1
    /\ revoked \subseteq Serials
    /\ expired \subseteq Serials
    /\ req \in [Reqs -> Request]

\* An LDI has exactly one active ESI from its creation on: concurrent
\* enrollments and replacements (CreateLDIAndBind, Rebind) neither leave an LDI
\* without a holder nor with two, and bind no ESI to an LDI that is not there.
OneHolder ==
    /\ \A e \in ESIs : binding[e].status # "unbound" =>
          binding[e].ldi \in LDIs /\ ldi[binding[e].ldi] # "absent"
    /\ \A l \in LDIs : ldi[l] # "absent" =>
          \E e \in ESIs :
             /\ binding[e].status = "active" /\ binding[e].ldi = l
             /\ \A f \in ESIs : binding[f].status = "active" /\ binding[f].ldi = l => f = e

BindingsKept ==
    \A e \in ESIs : binding[e].status # "unbound" =>
        /\ binding'[e].ldi = binding[e].ldi
        /\ binding[e].status = "retired" => binding'[e].status = "retired"
        /\ binding'[e].status # "unbound"
RevokedKept == \A l \in LDIs : ldi[l] = "revoked" => ldi'[l] = "revoked"

\* "At most one binding row per ESI across all statuses": an ESI once bound
\* stays with its LDI, a retired one never becomes active again (Rebind,
\* CreateLDIAndBind), and a revoked LDI never leaves that status.
BindingsAreFinal == [][BindingsKept /\ RevokedKept]_vars

\* An SVID the issuance log no longer counts as active is on the revocation
\* list until it expires: an interrupted revocation never leaves an SVID that
\* is neither published as revoked nor found by the next revocation.
RevokedIsPublished ==
    \A s \in Serials : svid[s].status = "revoked" => s \in revoked \cup expired

\* A replacement ticket moves at most one ESI onto the LDI it names, however
\* many requests present it at the same time.
TicketBindsOnce ==
    \A e \in ESIs : binding[e].ticket # None =>
        /\ ticket[binding[e].ticket].status = "consumed"
        /\ ticket[binding[e].ticket].ldi = binding[e].ldi
        /\ \A f \in ESIs : binding[f].ticket = binding[e].ticket => f = e

Holders(l) == {e \in ESIs : binding[e].status = "active" /\ binding[e].ldi = l}

Registry == INSTANCE IdentityRegistry WITH
    holder <- [l \in LDIs |-> Holders(l)],
    former <- {e \in ESIs : binding[e].status = "retired"},
    names <- [t \in Tickets |-> ticket[t].ldi],
    spent <- {t \in Tickets : \E e \in ESIs : binding[e].ticket = t},
    withdrawn <- {l \in LDIs : ldi[l] = "revoked"}

\* The store calls of concurrent and interrupted requests implement the
\* registry: CreateLDIAndBind is its Create, Rebind its Replace, with the
\* ticket that ValidateTicket consumed steps before, and all else stutters.
ImplementsRegistry == Registry!RegistrySpec

-----------------------------------------------------------------------------
(* Two sentences of the documents the code cannot keep when requests overlap *)

\* "Revoked and Retired are terminal; they MUST NOT be re-issued": once an LDI
\* is revoked it has no SVID that relying parties accept (RevokeSPIFFEID).
RevokedHasNoLiveSVID ==
    \A s \in Serials : Live(s) => ldi[svid[s].ldi] # "revoked"

\* "A retired ESI MUST NOT be sufficient to obtain new SVIDs for the LDI": an
\* SVID is only handed to an enrollment whose ESI is active at that moment
\* (Enroll, recordIssuance).
RetiredGetsNoSVID ==
    [][\A s \in Serials :
          svid[s].status = "absent" /\ svid'[s].status # "absent" /\ svid'[s].esi # None
             => binding[svid'[s].esi].status = "active"]_vars
=============================================================================
