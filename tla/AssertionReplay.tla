-------------------------- MODULE AssertionReplay --------------------------
(***************************************************************************)
(* Signed assertions (the factory-cert-jwt bootstrap assertion and the     *)
(* client assertion of the JWT-SVID exchange) and the store of the jtis    *)
(* that were seen.  A request checks the assertion's lifetime against the  *)
(* clock; then Witness looks the jti up and records it, in one transaction *)
(* that reads the clock again.                                             *)
(*                                                                         *)
(* Signature, chain, issuer and audience are taken as valid: an assertion  *)
(* that fails them changes nothing.  An assertion is its jti.  Both stores *)
(* are here: the table jwt_replay, and the map of replay.MemoryStore,      *)
(* which also sweeps.                                                      *)
(***************************************************************************)
EXTENDS Naturals, FiniteSets

CONSTANTS
    Jtis, Reqs,
    Lifetimes,   \* what a client may put between iat and exp
    NotBefores,  \* the nbf claims: an instant, or 0 for none
    MaxLifetime, \* the longest lifetime that is accepted
    ClockSkew,
    MaxTime,     \* bound on the clock
    MaxAccepts,  \* bound on the acceptances of one assertion
    None

ASSUME ReplayAssumption ==
    /\ Lifetimes \subseteq Nat /\ NotBefores \subseteq 0..MaxTime
    /\ MaxLifetime \in Nat /\ ClockSkew \in Nat
    /\ MaxTime \in Nat /\ MaxAccepts \in Nat
    /\ None \notin Jtis

VARIABLES
    now,
    claims,    \* iat, exp and nbf (or 0) of each assertion, once it is signed
    seen,      \* when the entry of a jti expires, or 0
    req,       \* the assertion a request will present to Witness, or None
    accepted   \* history: the acceptances, numbered per assertion

vars == <<now, claims, seen, req, accepted>>

Unsigned == [iat |-> 0, exp |-> 0, nbf |-> 0]
Of(j) == {a \in accepted : a.jti = j}
ValidUntil(j) == claims[j].exp + ClockSkew

(* Every variable has its type; an entry lives as long as its assertion    *)
(* passes the lifetime check, which the longest lifetime bounds.           *)
TypeOK ==
    /\ now \in 0..MaxTime
    /\ claims \in [Jtis -> [iat : 0..MaxTime, exp : Nat, nbf : 0..MaxTime]]
    /\ seen \in [Jtis -> 0 .. MaxTime + MaxLifetime + ClockSkew]
    /\ req \in [Reqs -> Jtis \cup {None}]
    /\ accepted \subseteq [jti : Jtis, n : 1..MaxAccepts, at : 0..MaxTime]

Init ==
    /\ now = 0
    /\ claims = [j \in Jtis |-> Unsigned]
    /\ seen = [j \in Jtis |-> 0]
    /\ req = [r \in Reqs |-> None]
    /\ accepted = {}

(* A client signs an assertion with a fresh jti, by its own clock. *)
Sign(j) ==
    /\ claims[j] = Unsigned
    /\ \E t \in 0..MaxTime, l \in Lifetimes \ {0}, nbf \in NotBefores :
        claims' = [claims EXCEPT ![j] =
                      [iat |-> t, exp |-> t + l, nbf |-> nbf]]
    /\ UNCHANGED <<now, seen, req, accepted>>

\* A faulty form of Validate, for a mutation run: any lifetime is accepted.
ValidateAnyLifetime(r, j) ==
    /\ req[r] = None /\ claims[j] # Unsigned
    /\ now <= ValidUntil(j) /\ now + ClockSkew >= claims[j].nbf
    /\ req' = [req EXCEPT ![r] = j]
    /\ UNCHANGED <<now, claims, seen, accepted>>

(* The claim checks: lifetime, expiry and nbf, with the allowed skew. *)
Validate(r, j) ==
    /\ req[r] = None /\ claims[j] # Unsigned
    /\ claims[j].exp - claims[j].iat <= MaxLifetime
    /\ now <= ValidUntil(j) /\ now + ClockSkew >= claims[j].nbf
    /\ req' = [req EXCEPT ![r] = j]
    /\ UNCHANGED <<now, claims, seen, accepted>>

\* A faulty form of Recorded, for a mutation run: the skew is left out.
RecordedWithoutSkew(j) == claims[j].exp

\* The expiry handed to Witness.
Recorded(j) == ValidUntil(j)

(* Witness: an unseen jti, or one whose entry is no longer in the future,  *)
(* is recorded and the assertion accepted.                                 *)
Witness(r) ==
    LET j == req[r] IN
    /\ j # None
    /\ \/ /\ seen[j] <= now
          /\ Cardinality(Of(j)) < MaxAccepts
          /\ seen' = [seen EXCEPT ![j] = Recorded(j)]
          /\ accepted' = accepted \cup
                {[jti |-> j, n |-> Cardinality(Of(j)) + 1, at |-> now]}
       \/ seen[j] > now /\ UNCHANGED <<seen, accepted>>
    /\ req' = [req EXCEPT ![r] = None]
    /\ UNCHANGED <<now, claims>>

(* The memory store drops what Witness would overwrite. *)
Sweep ==
    /\ \E j \in Jtis : seen[j] # 0 /\ seen[j] <= now
    /\ seen' = [j \in Jtis |-> IF seen[j] <= now THEN 0 ELSE seen[j]]
    /\ UNCHANGED <<now, claims, req, accepted>>

(* The request ends before Witness commits. *)
Abort(r) ==
    /\ req[r] # None
    /\ req' = [req EXCEPT ![r] = None]
    /\ UNCHANGED <<now, claims, seen, accepted>>

Tick ==
    /\ now < MaxTime
    /\ now' = now + 1
    /\ UNCHANGED <<claims, seen, req, accepted>>

Next ==
    \/ \E j \in Jtis : Sign(j)
    \/ \E r \in Reqs, j \in Jtis : Validate(r, j)
    \/ \E r \in Reqs : Witness(r) \/ Abort(r)
    \/ Sweep
    \/ Tick

Spec == Init /\ [][Next]_vars

-----------------------------------------------------------------------------
(* An assertion is accepted once for as long as it passes the lifetime     *)
(* check, whatever requests present it at the same time; the store forgets *)
(* it at the very instant the check still lets it pass (the check is       *)
(* now <= exp + skew, the entry holds while now < exp + skew), so nothing  *)
(* is said of that instant and later.                                      *)
AcceptedOnceWhileValid ==
    \A a, b \in accepted :
        a.jti = b.jti /\ a.at < ValidUntil(a.jti) /\ b.at < ValidUntil(b.jti)
            => a = b
=============================================================================
