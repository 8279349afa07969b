--------------------------- MODULE EnrollmentToken ---------------------------
(***************************************************************************)
(* Enrollment with a single-use token: the enrollment handler of MIS, the    *)
(* enrollment-token validator and the token store.                           *)
(*                                                                          *)
(* A request looks for a recorded outcome (a retry is answered from it),     *)
(* consumes the token, enrolls, writes the response and only then records    *)
(* the outcome.  Requests run concurrently and nothing is locked between     *)
(* these calls; each is one SQL statement or transaction.  Abort ends a      *)
(* request before any of them: the CSR is rejected, the identity service     *)
(* refuses, the store fails, the device goes away (which cancels the         *)
(* context of every later call) or the process stops.                        *)
(*                                                                          *)
(* Abstractions.  A token is its secret, its id and the ESI derived from it. *)
(* An SVID is a number, fresh for every successful Service.Enroll.  A key    *)
(* stands for the fingerprint of the CSR's public key.  The SVID profile is  *)
(* the only one the handler lets through.                                    *)
(***************************************************************************)
EXTENDS Naturals

CONSTANTS
    Tokens, Keys, Reqs,
    TTL,                 \* lifetime the operator asked for
    RetryWindow,         \* configured window
    DefaultRetryWindow, MaxRetryWindow,
    MaxTime,             \* bound on the clock
    MaxSVID,             \* bound on the number of SVIDs
    Aborts,              \* whether requests may be cut short in this instance
    None

ASSUME TimeAssumption ==
    /\ TTL \in Nat \ {0} /\ RetryWindow \in Nat /\ MaxTime \in Nat /\ MaxSVID \in Nat
    /\ DefaultRetryWindow \in Nat \ {0} /\ MaxRetryWindow \in Nat \ {0}
    /\ Aborts \in BOOLEAN
ASSUME NoneAssumption ==
    None \notin Tokens /\ None \notin Keys /\ None \notin Keys \X (1 .. MaxSVID)

VARIABLES
    now,      \* the clock of MIS
    token,    \* enrollment_tokens: status and expires_at
    outcome,  \* enrollment_token_outcomes: at most one row per token
    req,      \* the requests in flight
    nextSVID, \* first SVID not issued yet
    issued,   \* history: token, key and SVID of every successful Enroll
    replies   \* history: the SVIDs sent, to whom and when

vars == <<now, token, outcome, req, nextSVID, issued, replies>>
storeVars == <<token, outcome, nextSVID, issued>>

PCs == {"idle", "FindConsumed", "Consume", "Enroll", "Respond", "RecordOutcome"}
SVIDs == 1 .. MaxSVID

Idle == [pc |-> "idle", token |-> None, key |-> None, svid |-> 0]
Request == [pc : PCs, token : Tokens \cup {None}, key : Keys \cup {None},
            svid : SVIDs \cup {0}]
NoOutcome == [key |-> None, svid |-> 0, ends |-> 0]
Outcome == [key : Keys, svid : SVIDs, ends : Nat]
Reply == [token : Tokens, key : Keys, svid : SVIDs, at : Nat]

\* New: a window that is not positive is defaulted, one too large is capped.
EffectiveWindow ==
    LET w == IF RetryWindow = 0 THEN DefaultRetryWindow ELSE RetryWindow
    IN  IF w > MaxRetryWindow THEN MaxRetryWindow ELSE w

Goto(r, pc) == req' = [req EXCEPT ![r].pc = pc]
Return(r) == req' = [req EXCEPT ![r] = Idle]
Send(t, k, s) == replies' = replies \cup {[token |-> t, key |-> k, svid |-> s, at |-> now]}

-----------------------------------------------------------------------------
Init ==
    /\ now = 0
    /\ token = [t \in Tokens |-> [status |-> "absent", expires |-> 0]]
    /\ outcome = [t \in Tokens |-> NoOutcome]
    /\ req = [r \in Reqs |-> Idle]
    /\ nextSVID = 1
    /\ issued = {}
    /\ replies = {}

\* The operator's admin request.
CreateEnrollmentToken(t) ==
    /\ token[t].status = "absent"
    /\ token' = [token EXCEPT ![t] = [status |-> "active", expires |-> now + TTL]]
    /\ UNCHANGED <<now, outcome, req, nextSVID, issued, replies>>

\* The body, the profile and the method were accepted.
StartEnrollment(r) ==
    /\ req[r] = Idle
    /\ \E t \in Tokens, k \in Keys :
        /\ token[t].status # "absent"
        /\ req' = [req EXCEPT ![r] = [pc |-> "FindConsumed", token |-> t, key |-> k, svid |-> 0]]
    /\ UNCHANGED <<now, storeVars, replies>>

\* Mutant of FindConsumed: a token without an outcome is answered with an
\* empty one.
FindConsumedEmpty(r) ==
    /\ req[r].pc = "FindConsumed"
    /\ Send(req[r].token, outcome[req[r].token].key, outcome[req[r].token].svid)
    /\ Return(r)
    /\ UNCHANGED <<now, storeVars>>

\* checkReplay: without an outcome the request is not a retry; a retry is
\* answered within the window and for the same key, and rejected otherwise.
FindConsumed(r) ==
    LET t == req[r].token
        o == outcome[t]
    IN
    /\ req[r].pc = "FindConsumed"
    /\ \/ /\ o = NoOutcome
          /\ Goto(r, "Consume")
          /\ UNCHANGED replies
       \/ /\ o # NoOutcome /\ now <= o.ends /\ o.key = req[r].key
          /\ Send(t, o.key, o.svid)
          /\ Return(r)
       \/ /\ o # NoOutcome /\ (now > o.ends \/ o.key # req[r].key)
          /\ Return(r)
          /\ UNCHANGED replies
    /\ UNCHANGED <<now, storeVars>>

\* Mutant of Consume: a consumed token is accepted until it expires.
ConsumeUnlessExpired(r) ==
    LET t == req[r].token IN
    /\ req[r].pc = "Consume"
    /\ IF now < token[t].expires
       THEN token' = [token EXCEPT ![t].status = "consumed"] /\ Goto(r, "Enroll")
       ELSE Return(r) /\ UNCHANGED token
    /\ UNCHANGED <<now, outcome, nextSVID, issued, replies>>

Consume(r) ==
    LET t == req[r].token IN
    /\ req[r].pc = "Consume"
    /\ \/ /\ now < token[t].expires /\ token[t].status = "active"
          /\ token' = [token EXCEPT ![t].status = "consumed"]
          /\ Goto(r, "Enroll")
       \/ /\ now >= token[t].expires \/ token[t].status # "active"
          /\ Return(r)
          /\ UNCHANGED token
    /\ UNCHANGED <<now, outcome, nextSVID, issued, replies>>

\* csr.Parse and Service.Enroll succeed; a refusal is Abort.
Enroll(r) ==
    /\ req[r].pc = "Enroll"
    /\ nextSVID \in SVIDs
    /\ nextSVID' = nextSVID + 1
    /\ issued' = issued \cup {<<req[r].token, req[r].key, nextSVID>>}
    /\ req' = [req EXCEPT ![r].pc = "Respond", ![r].svid = nextSVID]
    /\ UNCHANGED <<now, token, outcome, replies>>

WriteResponse(r) ==
    /\ req[r].pc = "Respond"
    /\ Send(req[r].token, req[r].key, req[r].svid)
    /\ Goto(r, "RecordOutcome")
    /\ UNCHANGED <<now, storeVars>>

\* Mutant of RecordOutcome: the window ends when the token expires.
RecordOutcomeUntilExpiry(r) ==
    LET t == req[r].token IN
    /\ req[r].pc = "RecordOutcome"
    /\ outcome' = [outcome EXCEPT ![t] =
                     [key |-> req[r].key, svid |-> req[r].svid, ends |-> token[t].expires]]
    /\ Return(r)
    /\ UNCHANGED <<now, token, nextSVID, issued, replies>>

\* Commit; the unique index refuses a second outcome.
RecordOutcome(r) ==
    LET t == req[r].token IN
    /\ req[r].pc = "RecordOutcome"
    /\ outcome' = IF outcome[t] = NoOutcome
                  THEN [outcome EXCEPT ![t] = [key |-> req[r].key, svid |-> req[r].svid,
                                               ends |-> now + EffectiveWindow]]
                  ELSE outcome
    /\ Return(r)
    /\ UNCHANGED <<now, token, nextSVID, issued, replies>>

Abort(r) ==
    /\ Aborts
    /\ req[r].pc # "idle"
    /\ Return(r)
    /\ UNCHANGED <<now, storeVars, replies>>

Tick ==
    /\ now < MaxTime
    /\ now' = now + 1
    /\ UNCHANGED <<storeVars, req, replies>>

Step(r) ==
    \/ FindConsumed(r)
    \/ Consume(r)
    \/ Enroll(r)
    \/ WriteResponse(r)
    \/ RecordOutcome(r)

Next ==
    \/ \E t \in Tokens : CreateEnrollmentToken(t)
    \/ \E r \in Reqs : StartEnrollment(r) \/ Step(r) \/ Abort(r)
    \/ Tick

Spec == Init /\ [][Next]_vars

-----------------------------------------------------------------------------
(* Correctness *)

\* Every variable keeps its shape.
TypeOK ==
    /\ now \in Nat
    /\ token \in [Tokens -> [status : {"absent", "active", "consumed"}, expires : Nat]]
    /\ outcome \in [Tokens -> Outcome \cup {NoOutcome}]
    /\ req \in [Reqs -> Request]
    /\ nextSVID \in 1 .. MaxSVID + 1
    /\ issued \subseteq Tokens \X Keys \X SVIDs
    /\ replies \subseteq Reply

\* A token buys one SVID for one key: whatever requests present it, at the same
\* time or after a failure, Enroll succeeds once, and no device is ever sent an
\* SVID that was issued for another token or key.
OneSVIDPerToken ==
    /\ \A i, j \in issued : i[1] = j[1] => i = j
    /\ \A p \in replies : <<p.token, p.key, p.svid>> \in issued

\* What the issuances I gave for the token t, as a grant of TokenGrant.
GrantOf(I, t) ==
    IF \E i \in I : i[1] = t
    THEN LET i == CHOOSE i \in I : i[1] = t IN <<i[2], i[3]>>
    ELSE None
Granted == INSTANCE TokenGrant WITH
    Grants <- Keys \X SVIDs, NoGrant <- None,
    grant <- [t \in Tokens |-> GrantOf(issued, t)],
    answered <- {<<p.token, <<p.key, p.svid>>>> : p \in replies}

\* The validator, the token store and the handler together implement the
\* single-use grant.
ImplementsTokenGrant == Granted!GrantSpec

\* "Replay is non-nil when a previous identical enrollment succeeded within the
\* retry window": once an enrollment has been committed, a request with its
\* token and key that comes at most a window after its first answer is given
\* the SVID of that answer, also when the token has expired meanwhile.  An
\* enrollment that was cut short before Commit cannot be retried.
RetryGetsSameSVID ==
    [][\A r \in Reqs, p \in replies :
          /\ FindConsumed(r) /\ outcome[p.token] # NoOutcome
          /\ req[r].token = p.token /\ req[r].key = p.key
          /\ now <= p.at + EffectiveWindow
          /\ \A q \in replies : q.token = p.token => q.at >= p.at
          => [token |-> p.token, key |-> p.key, svid |-> p.svid, at |-> now] \in replies']_vars
=============================================================================
