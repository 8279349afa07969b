---------------------------- MODULE JWTExchange ----------------------------
(***************************************************************************)
(* JWT-SVIDs from end to end: the device agent's daemon, which keeps them  *)
(* in a cache by audience, the "jwt-exchange" command beside it, the       *)
(* exchange at the Margo Identity Service, and the operator's revocation   *)
(* of the identity while tokens are asked for, signed and kept.            *)
(*                                                                         *)
(* The device holds one certificate throughout.  Time passes in ticks, of  *)
(* which Second make a second: expiries lose their fraction on the way     *)
(* into the token and into the response.  The rate limit and the replay    *)
(* check (modules RenewalRateLimit and AssertionReplay) may refuse any     *)
(* request here.  Nobody reads the log of issued tokens.                   *)
(***************************************************************************)
EXTENDS Naturals, Sequences, FiniteSets, Functions

CONSTANTS
    AudienceLists,  \* the audience lists that are asked for, as sequences
    TTLs,           \* the lifetimes that are asked for, in ticks
    Second,         \* ticks in a second
    DefaultTTL, MaxTTL,
    Threshold,      \* the life a cached token must have left to be served
    MaxDelay,       \* bound on the service's time from the LDI to the token
    MaxTime,        \* bound on the clock
    Crashes, DiskFails

ASSUME ExchangeAssumption ==
    /\ \A a \in AudienceLists : a \in Seq(Range(a))
    /\ TTLs \subseteq Nat
    /\ Second \in Nat \ {0} /\ MaxTTL \in Nat \ {0}
    /\ {DefaultTTL, Threshold, MaxDelay, MaxTime} \subseteq Nat
    /\ {Crashes, DiskFails} \subseteq BOOLEAN

VARIABLES
    now,
    listed,     \* MIS: the device's certificate is on the revocation list
    ldi,        \* MIS: the identity's status
    req,        \* MIS: the exchange that each caller waits for
    up,         \* the daemon runs
    revoked,    \* Manager.revoked
    disk,       \* the state file records the revocation
    sched,      \* the scheduler: "running" or "halted"
    cache,      \* jwtsvid/cache: its entries
    reply,      \* history: the token the manager replied with at this instant
    revokedAt,  \* history: when the identity was revoked
    longest     \* history: the latest expiry of a token signed so far

vars == <<now, listed, ldi, req, up, revoked, disk, sched, cache, reply,
          revokedAt, longest>>

Callers == {"daemon", "command"}
NoReq == [pc |-> "none", aud |-> <<>>, ttl |-> 0, at |-> 0]
NoReply == [cached |-> FALSE, asked |-> <<>>, aud |-> <<>>, exp |-> 0, at |-> 0]

\* The latest instant a token can expire at.
Horizon == MaxTime + MaxTTL

(* Every variable has its type; a token's life is capped. *)
TypeOK ==
    /\ now \in 0..MaxTime /\ revokedAt \in 0..now /\ longest \in 0..Horizon
    /\ listed \in BOOLEAN /\ ldi \in {"active", "revoked"}
    /\ \A c \in Callers :
        /\ req[c].pc \in {"none", "asked", "sign", "answer"}
        /\ req[c].aud \in AudienceLists \cup {<<>>}
        /\ req[c].ttl \in TTLs \cup {0} /\ req[c].at \in 0..Horizon
    /\ up \in BOOLEAN /\ revoked \in BOOLEAN /\ disk \in BOOLEAN
    /\ sched \in {"running", "halted"}
    /\ cache \subseteq [aud : AudienceLists, exp : 0..Horizon, expires : 0..Horizon]
    /\ reply \in {NoReply} \cup
            [cached : BOOLEAN, asked : AudienceLists, aud : AudienceLists,
             exp : 0..Horizon, at : 0..MaxTime]

(* An enrolled device whose daemon has just started. *)
Init ==
    /\ now = 0 /\ listed = FALSE /\ ldi = "active"
    /\ req = [c \in Callers |-> NoReq]
    /\ up = TRUE /\ revoked = FALSE /\ disk = FALSE /\ sched = "running"
    /\ cache = {} /\ reply = NoReply
    /\ revokedAt = 0 /\ longest = 0

(* The manager is free for a command. *)
Idle == up /\ req["daemon"] = NoReq

-----------------------------------------------------------------------------
(* Faulty forms of the definitions below, for mutation runs. *)

\* An expiry in the response is rounded up.
RFC3339Up(t) == t + (Second - 1) - ((t + Second - 1) % Second)

\* The status of the identity is not looked at.
ReadLDIAnyStatus(c) ==
    /\ req[c].pc = "asked"
    /\ req' = [req EXCEPT ![c].pc = "sign", ![c].at = now]
    /\ UNCHANGED <<now, listed, ldi, up, revoked, disk, sched, cache, reply,
                   revokedAt, longest>>

\* The cache is asked before the revocation flag is.
ExchangeCachedFirst(a) ==
    /\ Idle
    /\ \E e \in cache :
        /\ Range(e.aud) = Range(a)
        /\ e.expires >= now + Threshold
        /\ reply' = [cached |-> TRUE, asked |-> a, aud |-> e.aud,
                     exp |-> e.exp, at |-> now]
    /\ UNCHANGED <<now, listed, ldi, req, up, revoked, disk, sched, cache,
                   revokedAt, longest>>

-----------------------------------------------------------------------------
(* The cache. *)

(* key sorts the audiences: two lists share an entry when they are         *)
(* permutations of each other.                                             *)
SameKey(a, b) ==
    \A x \in Range(a) \cup Range(b) :
        Cardinality({i \in DOMAIN a : a[i] = x}) = Cardinality({i \in DOMAIN b : b[i] = x})

(* What Get does not miss and EvictExpired does not drop. *)
Fresh(e) == e.expires >= now + Threshold

Hits(a) == {e \in cache : SameKey(e.aud, a) /\ Fresh(e)}

Put(e) == {f \in cache : ~SameKey(f.aud, e.aud)} \cup {e}

(* The scheduler's eviction timer. *)
EvictExpired ==
    /\ up /\ sched = "running"
    /\ cache' = {e \in cache : Fresh(e)}
    /\ UNCHANGED <<now, listed, ldi, req, up, revoked, disk, sched, reply,
                   revokedAt, longest>>

-----------------------------------------------------------------------------
(* handleExchangeJWT: refused when the manager knows of a revocation,      *)
(* served from the cache...                                                *)
ExchangeRefused ==
    /\ Idle /\ revoked
    /\ reply' = NoReply
    /\ UNCHANGED <<now, listed, ldi, req, up, revoked, disk, sched, cache,
                   revokedAt, longest>>

ExchangeCached(a) ==
    /\ Idle /\ ~revoked
    /\ \E e \in Hits(a) :
        reply' = [cached |-> TRUE, asked |-> a, aud |-> e.aud,
                  exp |-> e.exp, at |-> now]
    /\ UNCHANGED <<now, listed, ldi, req, up, revoked, disk, sched, cache,
                   revokedAt, longest>>

(* ...or sent to the service, while the manager waits. *)
ExchangeSent(a, ttl) ==
    /\ Idle /\ ~revoked
    /\ Hits(a) = {}
    /\ req' = [req EXCEPT !["daemon"] = [pc |-> "asked", aud |-> a, ttl |-> ttl, at |-> now]]
    /\ reply' = NoReply
    /\ UNCHANGED <<now, listed, ldi, up, revoked, disk, sched, cache,
                   revokedAt, longest>>

(* The jwt-exchange command looks at neither the cache nor the recorded    *)
(* revocation; its audiences are left out, as they decide nothing.         *)
CommandSends(ttl) ==
    /\ req["command"] = NoReq
    /\ req' = [req EXCEPT !["command"] = [pc |-> "asked", aud |-> <<>>, ttl |-> ttl, at |-> now]]
    /\ UNCHANGED <<now, listed, ldi, up, revoked, disk, sched, cache, reply,
                   revokedAt, longest>>

-----------------------------------------------------------------------------
(* The service. *)
WholeSecond(t) == t - (t % Second)

(* An expiry as the token carries it, and as the response does. *)
NumericDate(t) == WholeSecond(t)
RFC3339(t) == WholeSecond(t)

(* The request carries whole seconds; none asks for the default. *)
Granted(ttl) ==
    LET asked == WholeSecond(ttl)
        default == IF DefaultTTL = 0 \/ DefaultTTL > MaxTTL THEN MaxTTL ELSE DefaultTTL
    IN  IF asked = 0 THEN default ELSE IF asked > MaxTTL THEN MaxTTL ELSE asked

(* IssueJWTSVID: the identity is read and must be active... *)
ReadLDI(c) ==
    /\ req[c].pc = "asked"
    /\ ldi = "active"
    /\ req' = [req EXCEPT ![c].pc = "sign", ![c].at = now]
    /\ UNCHANGED <<now, listed, ldi, up, revoked, disk, sched, cache, reply,
                   revokedAt, longest>>

(* ...then the clock, which the expiry is counted from. *)
Sign(c) ==
    /\ req[c].pc = "sign"
    /\ LET exp == now + Granted(req[c].ttl) IN
       /\ req' = [req EXCEPT ![c].pc = "answer", ![c].at = exp]
       /\ longest' = IF NumericDate(exp) > longest THEN NumericDate(exp) ELSE longest
    /\ UNCHANGED <<now, listed, ldi, up, revoked, disk, sched, cache, reply,
                   revokedAt>>

(* The manager takes the answer: the token goes into the cache under the   *)
(* expiry of the response, and to the caller.                              *)
DaemonAnswered ==
    LET r == req["daemon"]
        e == [aud |-> r.aud, exp |-> NumericDate(r.at), expires |-> RFC3339(r.at)]
    IN
    /\ up /\ r.pc = "answer"
    /\ cache' = Put(e)
    /\ reply' = [cached |-> FALSE, asked |-> r.aud, aud |-> e.aud,
                 exp |-> e.exp, at |-> now]
    /\ req' = [req EXCEPT !["daemon"] = NoReq]
    /\ UNCHANGED <<now, listed, ldi, up, revoked, disk, sched, revokedAt, longest>>

(* The command's token goes to a file or the terminal; and any exchange    *)
(* may be refused or lose its answer.                                      *)
ExchangeEnds(c) ==
    /\ req[c].pc # "none"
    /\ req' = [req EXCEPT ![c] = NoReq]
    /\ UNCHANGED <<now, listed, ldi, up, revoked, disk, sched, cache, reply,
                   revokedAt, longest>>

-----------------------------------------------------------------------------
(* RevokeSPIFFEID: the certificate is listed first, the identity's status  *)
(* set last; an error in between leaves it at that.                        *)
RevokeSVIDs ==
    /\ ~listed /\ listed' = TRUE
    /\ UNCHANGED <<now, ldi, req, up, revoked, disk, sched, cache, reply,
                   revokedAt, longest>>

SetLDIStatus ==
    /\ listed /\ ldi = "active"
    /\ ldi' = "revoked" /\ revokedAt' = now
    /\ UNCHANGED <<now, listed, req, up, revoked, disk, sched, cache, reply, longest>>

(* handleCheckRevocations, by the scheduler or a control-socket request.   *)
(* The cached tokens stay where they are.                                  *)
CheckRevocations(bySched) ==
    /\ Idle /\ listed
    /\ bySched => sched = "running"
    /\ revoked' = TRUE
    /\ \/ /\ disk' = TRUE
          /\ sched' = IF bySched THEN "halted" ELSE sched
       \/ DiskFails /\ UNCHANGED <<disk, sched>>
    /\ reply' = NoReply
    /\ UNCHANGED <<now, listed, ldi, req, up, cache, revokedAt, longest>>

(* The cache and the exchange under way are lost with the process. *)
Crash ==
    /\ Crashes /\ up
    /\ up' = FALSE
    /\ req' = [req EXCEPT !["daemon"] = NoReq]
    /\ revoked' = disk /\ cache' = {} /\ reply' = NoReply
    /\ UNCHANGED <<now, listed, ldi, disk, sched, revokedAt, longest>>

Restart ==
    /\ ~up
    /\ up' = TRUE /\ sched' = "running"
    /\ UNCHANGED <<now, listed, ldi, req, revoked, disk, cache, reply,
                   revokedAt, longest>>

Tick ==
    /\ now < MaxTime
    /\ \A c \in Callers : req[c].pc = "sign" => now < req[c].at + MaxDelay
    /\ now' = now + 1
    /\ reply' = NoReply
    /\ UNCHANGED <<listed, ldi, req, up, revoked, disk, sched, cache,
                   revokedAt, longest>>

Next ==
    \/ EvictExpired \/ ExchangeRefused
    \/ \E a \in AudienceLists :
        \/ ExchangeCached(a)
        \/ \E ttl \in TTLs : ExchangeSent(a, ttl)
    \/ \E ttl \in TTLs : CommandSends(ttl)
    \/ \E c \in Callers : ReadLDI(c) \/ Sign(c) \/ ExchangeEnds(c)
    \/ DaemonAnswered
    \/ RevokeSVIDs \/ SetLDIStatus
    \/ \E bySched \in BOOLEAN : CheckRevocations(bySched)
    \/ Crash \/ Restart \/ Tick

Spec == Init /\ [][Next]_vars

-----------------------------------------------------------------------------
(* A token out of the cache is for exactly the audiences asked for now,    *)
(* and by its own expiry has at least the threshold left, whatever         *)
(* exchanges, evictions and lifetimes went before.                         *)
CachedTokenFits ==
    reply.cached =>
        /\ Range(reply.aud) = Range(reply.asked)
        /\ reply.exp >= reply.at + Threshold

(* Revocation ends a device's JWT-SVIDs: once the identity is revoked, no  *)
(* token, whoever asked for it and wherever it is kept, outlives the       *)
(* longest lifetime by more than the time that a request under way may     *)
(* take.                                                                   *)
ExposureEnds ==
    ldi = "revoked" => longest <= revokedAt + MaxDelay + MaxTTL

(* Once the state file records the revocation the daemon hands out no      *)
(* token: not from its cache, not from an exchange it had begun, not after *)
(* a restart.                                                              *)
NoTokenOnceRevoked == [][disk => reply' \in {reply, NoReply}]_vars
=============================================================================
