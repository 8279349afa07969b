--------------------------- MODULE IdentityOverlap ---------------------------
(***************************************************************************)
(* What IdentityService promises although its requests overlap.            *)
(*                                                                         *)
(* Service reads the status of an LDI, and the key of its latest SVID,     *)
(* before it issues, and keeps no lock, so a request may issue on what is  *)
(* no longer so: "no live SVID of a revoked LDI" and "one live key per     *)
(* LDI" are not invariants of the tables.  The history variables below     *)
(* record which requests ran beside each other; with them the module says  *)
(* that overlap (and, for keys, a dropped store error) is the only way     *)
(* either can fail.  They only watch: every step is a step of              *)
(* IdentityService.                                                        *)
(***************************************************************************)
EXTENDS IdentityService

VARIABLES
    beside,    \* requests in flight that shared their LDI with a revocation in flight
    raced,     \* live serials that such requests recorded
    disturbed  \* LDIs whose keys two requests, or one after an error, worked on

history == <<beside, raced, disturbed>>
hvars == <<vars, history>>

LiveOf(l) == {s \in Serials : Live(s) /\ svid[s].ldi = l}

HInit == Init /\ beside = {} /\ raced = {} /\ disturbed = {}

Revoking(q, l) == q.flow = "revocation" /\ q.ldi = l

MetRevocation(r) ==
    req[r].flow # "revocation" /\ \E p \in Reqs : Revoking(req[p], req[r].ldi)

Shared(l) == \E r, p \in Reqs : r # p /\ req[r].ldi = l /\ req[p].ldi = l

\* A request goes on to issue although it revoked only some of the priors.
LeftPriors(l) ==
    \E r \in Reqs :
        /\ req[r].ldi = l /\ LiveOf(l) # {}
        /\ req[r].pc \in {"ActivePriors", "Revoke"} /\ req'[r].pc = "Issue"

Track ==
    /\ beside' = {r \in Reqs : req'[r].pc # "idle" /\ (r \in beside \/ MetRevocation(r)')}
    /\ raced' = {s \in Serials :
                    Live(s)' /\ \/ s \in raced
                                \/ svid[s].status = "absent" /\ \E r \in beside : req'[r] # req[r]}
    /\ disturbed' = disturbed \cup {l \in LDIs : Shared(l)' \/ LeftPriors(l)}

HNext == Next /\ Track
HSpec == HInit /\ [][HNext]_hvars

-----------------------------------------------------------------------------
\* "Revoked and Retired are terminal; they MUST NOT be re-issued": a revoked LDI
\* has no SVID that relying parties accept, except those of requests that were
\* in flight beside its revocation.  Aborted revocations, dropped store errors
\* and overlap with anything else leave none (RevokeSPIFFEID, Enroll, Renew).
LiveOnlyIfRaced ==
    \A s \in Serials : Live(s) /\ ldi[svid[s].ldi] = "revoked" => s \in raced

\* The SVIDs of an LDI that relying parties accept all certify one key, unless
\* two of its requests overlapped or one dropped an error of revokeActivePriors.
\* Renew compares with the latest active row only, and that row may already be
\* listed (a revocation was cut off, or MarkRevoked failed), so the comparison
\* is with an SVID nobody accepts any more; it still settles the live ones.
OneLiveKey ==
    \A s, t \in Serials :
        /\ Live(s) /\ Live(t)
        /\ svid[s].ldi = svid[t].ldi /\ svid[s].ldi \notin disturbed
        => svid[s].key = svid[t].key
=============================================================================
