------------------------- MODULE JWTExchangeProofs -------------------------
(***************************************************************************)
(* For every set of audience lists, every lifetime, threshold, length of a *)
(* second and combination of faults: a token out of the cache fits the     *)
(* request it answers, revocation bounds the life of every token that was  *)
(* signed, and a recorded revocation silences the daemon.                  *)
(***************************************************************************)
EXTENDS JWTExchange, FiniteSetTheorems, TLAPS

Request == [pc : {"none", "asked", "sign", "answer"},
            aud : AudienceLists \cup {<<>>},
            ttl : TTLs \cup {0}, at : 0..Horizon]

Entry == [aud : AudienceLists, exp : 0..Horizon, expires : 0..Horizon]

Reply == [cached : BOOLEAN, asked : AudienceLists, aud : AudienceLists,
          exp : 0..Horizon, at : 0..MaxTime]

(* TypeOK, by what its parts are about. *)
ClockTyped == now \in 0..MaxTime /\ revokedAt \in 0..now /\ longest \in 0..Horizon

ReqTyped == req \in [Callers -> Request]

FlagsTyped ==
    /\ listed \in BOOLEAN /\ ldi \in {"active", "revoked"}
    /\ up \in BOOLEAN /\ revoked \in BOOLEAN /\ disk \in BOOLEAN
    /\ sched \in {"running", "halted"}

TokensTyped == cache \subseteq Entry /\ reply \in {NoReply} \cup Reply

(* The response carries the expiry of the token, so the cache's idea of    *)
(* freshness is the token's; and what the daemon waits for is for a list   *)
(* that was asked for.                                                     *)
CacheKept ==
    /\ \A e \in cache : e.exp = e.expires
    /\ req["daemon"].pc # "none" => req["daemon"].aud \in AudienceLists

(* A revocation on disk is known in memory, and a manager that knows of    *)
(* one has no exchange under way.                                          *)
Silent ==
    /\ disk => revoked
    /\ revoked => req["daemon"] = NoReq

(* A request past the status check was there before the revocation and is  *)
(* not older than the delay; until the revocation no token outlives the    *)
(* longest lifetime.                                                       *)
Bounded ==
    /\ \A c \in Callers : req[c].pc = "sign" =>
        /\ req[c].at <= now /\ now <= req[c].at + MaxDelay
        /\ ldi = "revoked" => req[c].at <= revokedAt
    /\ ldi = "active" => longest <= now + MaxTTL

Types == ClockTyped /\ ReqTyped /\ FlagsTyped /\ TokensTyped

JInv ==
    /\ Types /\ CacheKept
    /\ Silent /\ Bounded
    /\ CachedTokenFits /\ ExposureEnds

-----------------------------------------------------------------------------
(* The operators. *)

(* Cutting the fraction off never adds to an instant. *)
LEMMA WholeSecondBelow ==
  ASSUME NEW t \in Nat
  PROVE  WholeSecond(t) \in Nat /\ WholeSecond(t) <= t
<1>1. t % Second \in Nat /\ t % Second <= t
  BY ExchangeAssumption
<1> QED
  BY <1>1 DEF WholeSecond

(* The lifetime granted is capped, whatever is asked for and whatever the  *)
(* default is set to.                                                      *)
LEMMA GrantedCapped ==
  ASSUME NEW ttl \in TTLs \cup {0}
  PROVE  Granted(ttl) \in Nat /\ Granted(ttl) <= MaxTTL
<1>1. ttl \in Nat /\ MaxTTL \in Nat /\ DefaultTTL \in Nat
  BY ExchangeAssumption
<1>2. WholeSecond(ttl) \in Nat
  BY <1>1, WholeSecondBelow
<1> QED
  BY <1>1, <1>2 DEF Granted

(* Lists with the same key name the same audiences. *)
LEMMA SameKeySameRange ==
  ASSUME NEW a \in AudienceLists, NEW b \in AudienceLists, SameKey(a, b)
  PROVE  Range(a) = Range(b)
<1> DEFINE At(s, x) == {i \in DOMAIN s : s[i] = x}
<1>1. ASSUME NEW s \in AudienceLists, NEW x
      PROVE  /\ IsFiniteSet(At(s, x))
             /\ x \in Range(s) <=> At(s, x) # {}
  <2>1. s \in Seq(Range(s))
    BY ExchangeAssumption
  <2>2. Len(s) \in Nat /\ DOMAIN s = 1..Len(s)
    BY <2>1
  <2>3. IsFiniteSet(DOMAIN s)
    BY <2>2, FS_Interval
  <2>4. At(s, x) \in SUBSET DOMAIN s
    OBVIOUS
  <2>5. IsFiniteSet(At(s, x))
    BY <2>3, <2>4, FS_Subset
  <2>6. x \in Range(s) <=> At(s, x) # {}
    BY DEF Range
  <2> QED
    BY <2>5, <2>6
<1>2. \A x \in Range(a) \cup Range(b) : Cardinality(At(a, x)) = Cardinality(At(b, x))
  BY DEF SameKey
<1>3. ASSUME NEW x \in Range(a) \cup Range(b)
      PROVE  x \in Range(a) <=> x \in Range(b)
  <2>1. /\ IsFiniteSet(At(a, x)) /\ (x \in Range(a) <=> At(a, x) # {})
        /\ IsFiniteSet(At(b, x)) /\ (x \in Range(b) <=> At(b, x) # {})
    BY <1>1
  <2>2. Cardinality(At(a, x)) = Cardinality(At(b, x))
    BY <1>2
  <2> HIDE DEF At
  <2> QED
    BY <2>1, <2>2, FS_EmptySet
<1> QED
  BY <1>3

-----------------------------------------------------------------------------
(* The types. *)
LEMMA ConstantsTyped ==
    /\ Horizon \in Nat /\ Horizon = MaxTime + MaxTTL
    /\ MaxTime \in Nat /\ MaxTTL \in Nat /\ MaxDelay \in Nat /\ Threshold \in Nat
    /\ 0 \in 0..Horizon /\ NoReq \in Request
    /\ "daemon" \in Callers /\ "command" \in Callers
<1>1. /\ MaxTime \in Nat /\ MaxTTL \in Nat /\ MaxDelay \in Nat /\ Threshold \in Nat
      /\ Horizon \in Nat
  BY ExchangeAssumption DEF Horizon
<1>2. NoReq \in Request
  BY <1>1 DEF NoReq, Request
<1> QED
  BY <1>1, <1>2 DEF Horizon, Callers

LEMMA InitJInv == Init => JInv
<1> SUFFICES ASSUME Init PROVE JInv
  OBVIOUS
<1>1. ClockTyped /\ ReqTyped /\ TokensTyped
  BY ConstantsTyped DEF Init, ClockTyped, ReqTyped, TokensTyped
<1>2. FlagsTyped
  BY Zenon DEF Init, FlagsTyped
<1>3. CacheKept /\ Silent /\ CachedTokenFits
  BY ConstantsTyped DEF Init, CacheKept, Silent, CachedTokenFits, NoReq, NoReply
<1>4. Bounded /\ ExposureEnds
  BY ConstantsTyped DEF Init, Bounded, ExposureEnds, NoReq
<1> QED
  BY <1>1, <1>2, <1>3, <1>4 DEF JInv, Types

(* The types stay.  The expiry of a token is within the horizon because    *)
(* the lifetime granted is capped.                                         *)
LEMMA NextTypes ==
  ASSUME Types, CacheKept, [Next]_vars
  PROVE  Types'
<1>a. ClockTyped /\ ReqTyped /\ FlagsTyped /\ TokensTyped
  BY DEF Types
<1>p. ASSUME ClockTyped', ReqTyped', FlagsTyped', TokensTyped' PROVE Types'
  BY <1>p DEF Types
<1>n. now \in Nat /\ now <= MaxTime /\ now \in 0..Horizon
  BY <1>a, ConstantsTyped DEF ClockTyped
<1>1. CASE EvictExpired
  <2>1. ClockTyped' /\ ReqTyped' /\ TokensTyped'
    BY <1>a, <1>1 DEF EvictExpired, ClockTyped, ReqTyped, TokensTyped
  <2>2. FlagsTyped'
    BY <1>a, <1>1, Zenon DEF EvictExpired, FlagsTyped
  <2> QED
    BY <2>1, <2>2, <1>p
<1>2. CASE ExchangeRefused
  <2>1. ClockTyped' /\ ReqTyped' /\ TokensTyped'
    BY <1>a, <1>2 DEF ExchangeRefused, ClockTyped, ReqTyped, TokensTyped
  <2>2. FlagsTyped'
    BY <1>a, <1>2, Zenon DEF ExchangeRefused, FlagsTyped
  <2> QED
    BY <2>1, <2>2, <1>p
<1>3. ASSUME NEW a \in AudienceLists, ExchangeCached(a) PROVE Types'
  <2>1. ClockTyped' /\ ReqTyped'
    BY <1>a, <1>3 DEF ExchangeCached, ClockTyped, ReqTyped
  <2>2. TokensTyped'
    <3>1. PICK e \in cache : reply' = [cached |-> TRUE, asked |-> a, aud |-> e.aud,
                                       exp |-> e.exp, at |-> now]
      BY <1>3 DEF ExchangeCached, Hits
    <3>2. reply' \in Reply
      BY <3>1, <1>a, <1>n DEF TokensTyped, Entry, Reply
    <3> QED
      BY <3>2, <1>a, <1>3 DEF ExchangeCached, TokensTyped
  <2>3. FlagsTyped'
    BY <1>a, <1>3, Zenon DEF ExchangeCached, FlagsTyped
  <2> QED
    BY <2>1, <2>2, <2>3, <1>p
<1>4. ASSUME NEW a \in AudienceLists, NEW ttl \in TTLs, ExchangeSent(a, ttl) PROVE Types'
  <2>1. ClockTyped' /\ TokensTyped'
    BY <1>a, <1>4 DEF ExchangeSent, ClockTyped, TokensTyped
  <2>2. ReqTyped'
    <3>1. [pc |-> "asked", aud |-> a, ttl |-> ttl, at |-> now] \in Request
      BY <1>n DEF Request
    <3> QED
      BY <3>1, <1>a, <1>4 DEF ExchangeSent, ReqTyped
  <2>3. FlagsTyped'
    BY <1>a, <1>4, Zenon DEF ExchangeSent, FlagsTyped
  <2> QED
    BY <2>1, <2>2, <2>3, <1>p
<1>5. ASSUME NEW ttl \in TTLs, CommandSends(ttl) PROVE Types'
  <2>1. ClockTyped' /\ TokensTyped'
    BY <1>a, <1>5 DEF CommandSends, ClockTyped, TokensTyped
  <2>2. ReqTyped'
    <3>1. [pc |-> "asked", aud |-> <<>>, ttl |-> ttl, at |-> now] \in Request
      BY <1>n DEF Request
    <3> QED
      BY <3>1, <1>a, <1>5 DEF CommandSends, ReqTyped
  <2>3. FlagsTyped'
    BY <1>a, <1>5, Zenon DEF CommandSends, FlagsTyped
  <2> QED
    BY <2>1, <2>2, <2>3, <1>p
<1>6. ASSUME NEW c \in Callers, ReadLDI(c) PROVE Types'
  <2>1. ClockTyped' /\ TokensTyped'
    BY <1>a, <1>6 DEF ReadLDI, ClockTyped, TokensTyped
  <2>2. ReqTyped'
    BY <1>a, <1>n, <1>6 DEF ReadLDI, ReqTyped, Request
  <2>3. FlagsTyped'
    BY <1>a, <1>6, Zenon DEF ReadLDI, FlagsTyped
  <2> QED
    BY <2>1, <2>2, <2>3, <1>p
<1>7. ASSUME NEW c \in Callers, Sign(c) PROVE Types'
  <2> DEFINE exp == now + Granted(req[c].ttl)
  <2>1. exp \in 0..Horizon
    <3>1. req[c].ttl \in TTLs \cup {0}
      BY <1>a DEF ReqTyped, Request
    <3>2. Granted(req[c].ttl) \in Nat /\ Granted(req[c].ttl) <= MaxTTL
      BY <3>1, GrantedCapped
    <3> QED
      BY <3>2, <1>n, ConstantsTyped
  <2>2. NumericDate(exp) \in 0..Horizon
    BY <2>1, WholeSecondBelow, ConstantsTyped DEF NumericDate
  <2>3. /\ req' = [req EXCEPT ![c].pc = "answer", ![c].at = exp]
        /\ longest' = NumericDate(exp) \/ longest' = longest
    BY <1>7 DEF Sign
  <2> HIDE DEF exp
  <2>4. ClockTyped' /\ TokensTyped'
    BY <2>2, <2>3, <1>a, <1>7 DEF Sign, ClockTyped, TokensTyped
  <2>5. ReqTyped'
    BY <2>1, <2>3, <1>a DEF ReqTyped, Request
  <2>6. FlagsTyped'
    BY <1>a, <1>7, Zenon DEF Sign, FlagsTyped
  <2> QED
    BY <2>4, <2>5, <2>6, <1>p
<1>8. ASSUME NEW c \in Callers, ExchangeEnds(c) PROVE Types'
  <2>1. ClockTyped' /\ TokensTyped'
    BY <1>a, <1>8 DEF ExchangeEnds, ClockTyped, TokensTyped
  <2>2. ReqTyped'
    BY <1>a, <1>8, ConstantsTyped DEF ExchangeEnds, ReqTyped
  <2>3. FlagsTyped'
    BY <1>a, <1>8, Zenon DEF ExchangeEnds, FlagsTyped
  <2> QED
    BY <2>1, <2>2, <2>3, <1>p
<1>9. CASE DaemonAnswered
  <2> DEFINE r == req["daemon"]
             e == [aud |-> r.aud, exp |-> NumericDate(r.at), expires |-> RFC3339(r.at)]
  <2>1. r.aud \in AudienceLists /\ r.at \in 0..Horizon
    BY <1>a, <1>9, ConstantsTyped DEF DaemonAnswered, CacheKept, ReqTyped, Request
  <2>2. e \in Entry
    <3>1. NumericDate(r.at) \in 0..Horizon /\ RFC3339(r.at) \in 0..Horizon
      BY <2>1, WholeSecondBelow, ConstantsTyped DEF NumericDate, RFC3339
    <3> QED
      BY <2>1, <3>1 DEF Entry
  <2>3. TokensTyped'
    <3>1. cache' \subseteq Entry
      BY <2>2, <1>a, <1>9 DEF DaemonAnswered, Put, TokensTyped
    <3>2. reply' \in Reply
      BY <2>1, <2>2, <1>n, <1>9, ConstantsTyped DEF DaemonAnswered, Reply, Entry
    <3> QED
      BY <3>1, <3>2, <1>9 DEF TokensTyped
  <2>4. ClockTyped' /\ ReqTyped'
    BY <1>a, <1>9, ConstantsTyped DEF DaemonAnswered, ClockTyped, ReqTyped
  <2>5. FlagsTyped'
    BY <1>a, <1>9, Zenon DEF DaemonAnswered, FlagsTyped
  <2> QED
    BY <2>3, <2>4, <2>5, <1>p
<1>10. CASE RevokeSVIDs
  <2>1. ClockTyped' /\ ReqTyped' /\ TokensTyped'
    BY <1>a, <1>10 DEF RevokeSVIDs, ClockTyped, ReqTyped, TokensTyped
  <2>2. FlagsTyped'
    BY <1>a, <1>10, Zenon DEF RevokeSVIDs, FlagsTyped
  <2> QED
    BY <2>1, <2>2, <1>p
<1>11. CASE SetLDIStatus
  <2>1. ClockTyped' /\ ReqTyped' /\ TokensTyped'
    BY <1>a, <1>n, <1>11 DEF SetLDIStatus, ClockTyped, ReqTyped, TokensTyped
  <2>2. FlagsTyped'
    BY <1>a, <1>11, Zenon DEF SetLDIStatus, FlagsTyped
  <2> QED
    BY <2>1, <2>2, <1>p
<1>12. ASSUME NEW b \in BOOLEAN, CheckRevocations(b) PROVE Types'
  <2>1. ClockTyped' /\ ReqTyped' /\ TokensTyped'
    BY <1>a, <1>12 DEF CheckRevocations, ClockTyped, ReqTyped, TokensTyped
  <2>2. FlagsTyped'
    BY <1>a, <1>12, Zenon DEF CheckRevocations, FlagsTyped
  <2> QED
    BY <2>1, <2>2, <1>p
<1>13. CASE Crash
  <2>1. ClockTyped' /\ ReqTyped' /\ TokensTyped'
    BY <1>a, <1>13, ConstantsTyped DEF Crash, ClockTyped, ReqTyped, TokensTyped
  <2>2. FlagsTyped'
    BY <1>a, <1>13, Zenon DEF Crash, FlagsTyped
  <2> QED
    BY <2>1, <2>2, <1>p
<1>14. CASE Restart
  <2>1. ClockTyped' /\ ReqTyped' /\ TokensTyped'
    BY <1>a, <1>14 DEF Restart, ClockTyped, ReqTyped, TokensTyped
  <2>2. FlagsTyped'
    BY <1>a, <1>14, Zenon DEF Restart, FlagsTyped
  <2> QED
    BY <2>1, <2>2, <1>p
<1>15. CASE Tick
  <2>1. ClockTyped' /\ ReqTyped' /\ TokensTyped'
    BY <1>a, <1>n, <1>15, ConstantsTyped DEF Tick, ClockTyped, ReqTyped, TokensTyped
  <2>2. FlagsTyped'
    BY <1>a, <1>15, Zenon DEF Tick, FlagsTyped
  <2> QED
    BY <2>1, <2>2, <1>p
<1>16. CASE UNCHANGED vars
  BY <1>a, <1>16 DEF vars, Types, ClockTyped, ReqTyped, FlagsTyped, TokensTyped
<1> QED
  BY <1>1, <1>2, <1>3, <1>4, <1>5, <1>6, <1>7, <1>8, <1>9, <1>10, <1>11, <1>12, <1>13,
     <1>14, <1>15, <1>16 DEF Next

-----------------------------------------------------------------------------
(* Of the cache, only an answer adds an entry, and of the daemon's request *)
(* only ExchangeSent changes the audiences.                                *)
LEMMA NextCacheKept ==
  ASSUME Types, CacheKept, [Next]_vars
  PROVE  CacheKept'
<1>a. ReqTyped
  BY DEF Types
<1>1. CASE EvictExpired
  BY <1>1 DEF EvictExpired, CacheKept
<1>2. ASSUME NEW a \in AudienceLists, NEW ttl \in TTLs, ExchangeSent(a, ttl) PROVE CacheKept'
  BY <1>2, <1>a, ConstantsTyped DEF ExchangeSent, CacheKept, ReqTyped
<1>3. ASSUME NEW ttl \in TTLs, CommandSends(ttl) PROVE CacheKept'
  BY <1>3, <1>a, ConstantsTyped DEF CommandSends, CacheKept, ReqTyped
<1>4. ASSUME NEW c \in Callers, ReadLDI(c) \/ Sign(c) \/ ExchangeEnds(c) PROVE CacheKept'
  <2>1. CASE ReadLDI(c)
    BY <2>1, <1>a, ConstantsTyped DEF ReadLDI, CacheKept, ReqTyped, Request
  <2>2. CASE Sign(c)
    BY <2>2, <1>a, ConstantsTyped DEF Sign, CacheKept, ReqTyped, Request
  <2>3. CASE ExchangeEnds(c)
    BY <2>3, <1>a, ConstantsTyped DEF ExchangeEnds, CacheKept, ReqTyped, NoReq
  <2> QED
    BY <1>4, <2>1, <2>2, <2>3
<1>5. CASE DaemonAnswered
  <2>1. \A e \in cache' : e.exp = e.expires
    BY <1>5 DEF DaemonAnswered, Put, NumericDate, RFC3339, CacheKept
  <2> QED
    BY <2>1, <1>5, <1>a, ConstantsTyped DEF DaemonAnswered, CacheKept, ReqTyped, NoReq
<1>6. CASE Crash
  BY <1>6, <1>a, ConstantsTyped DEF Crash, CacheKept, ReqTyped, NoReq
<1>7. CASE UNCHANGED <<cache, req>>
  BY <1>7 DEF CacheKept
<1> QED
  BY <1>1, <1>2, <1>3, <1>4, <1>5, <1>6, <1>7 DEF Next, vars, ExchangeRefused, ExchangeCached,
     RevokeSVIDs, SetLDIStatus, CheckRevocations, Restart, Tick

(* The flag is set while the manager is idle, and keeps it from asking.    *)
LEMMA NextSilent ==
  ASSUME Types, Silent, [Next]_vars
  PROVE  Silent'
<1>a. ReqTyped
  BY DEF Types
<1>1. ASSUME NEW a \in AudienceLists, NEW ttl \in TTLs, ExchangeSent(a, ttl) PROVE Silent'
  BY <1>1 DEF ExchangeSent, Silent
<1>2. ASSUME NEW ttl \in TTLs, CommandSends(ttl) PROVE Silent'
  BY <1>2, <1>a, ConstantsTyped DEF CommandSends, Silent, ReqTyped
<1>3. ASSUME NEW c \in Callers, ReadLDI(c) \/ Sign(c) \/ ExchangeEnds(c) PROVE Silent'
  <2>1. UNCHANGED <<disk, revoked>>
    BY <1>3 DEF ReadLDI, Sign, ExchangeEnds
  <2>2. req["daemon"] = NoReq => req["daemon"].pc = "none"
    BY DEF NoReq
  <2>3. req["daemon"] = NoReq => req'["daemon"] = NoReq
    <3>1. CASE c = "daemon"
      BY <3>1, <2>2, <1>3 DEF ReadLDI, Sign, ExchangeEnds
    <3>2. CASE c # "daemon"
      BY <3>2, <1>3, <1>a, ConstantsTyped DEF ReadLDI, Sign, ExchangeEnds, ReqTyped
    <3> QED
      BY <3>1, <3>2
  <2> QED
    BY <2>1, <2>3 DEF Silent
<1>4. CASE DaemonAnswered
  BY <1>4, <1>a, ConstantsTyped DEF DaemonAnswered, Silent, ReqTyped
<1>5. ASSUME NEW b \in BOOLEAN, CheckRevocations(b) PROVE Silent'
  BY <1>5 DEF CheckRevocations, Idle, Silent
<1>6. CASE Crash
  BY <1>6, <1>a, ConstantsTyped DEF Crash, Silent, ReqTyped
<1>7. CASE UNCHANGED <<disk, revoked, req>>
  BY <1>7 DEF Silent
<1> QED
  BY <1>1, <1>2, <1>3, <1>4, <1>5, <1>6, <1>7 DEF Next, vars, EvictExpired, ExchangeRefused,
     ExchangeCached, RevokeSVIDs, SetLDIStatus, Restart, Tick

(* A hit has the key asked for and is fresh; every other reply is not out  *)
(* of the cache.                                                           *)
LEMMA NextFits ==
  ASSUME Types, CacheKept, CachedTokenFits, [Next]_vars
  PROVE  CachedTokenFits'
<1>1. ASSUME NEW a \in AudienceLists, ExchangeCached(a) PROVE CachedTokenFits'
  <2>1. PICK e \in Hits(a) : reply' = [cached |-> TRUE, asked |-> a, aud |-> e.aud,
                                       exp |-> e.exp, at |-> now]
    BY <1>1 DEF ExchangeCached
  <2>2. e \in cache /\ SameKey(e.aud, a) /\ e.expires >= now + Threshold
    BY DEF Hits, Fresh
  <2>3. e.aud \in AudienceLists /\ e.exp = e.expires
    BY <2>2 DEF Types, TokensTyped, Entry, CacheKept
  <2>4. Range(e.aud) = Range(a)
    BY <2>2, <2>3, SameKeySameRange
  <2> QED
    BY <2>1, <2>2, <2>3, <2>4 DEF CachedTokenFits
<1>2. CASE reply' = NoReply
  BY <1>2 DEF CachedTokenFits, NoReply
<1>3. CASE DaemonAnswered
  BY <1>3 DEF DaemonAnswered, CachedTokenFits
<1>4. CASE UNCHANGED reply
  BY <1>4 DEF CachedTokenFits
<1> QED
  BY <1>1, <1>2, <1>3, <1>4 DEF Next, vars, EvictExpired, ExchangeRefused, ExchangeSent,
     CommandSends, ReadLDI, Sign, ExchangeEnds, RevokeSVIDs, SetLDIStatus, CheckRevocations,
     Crash, Restart, Tick

(* What a request that goes away or starts over does to the bounds:        *)
(* nothing.                                                                *)
LEMMA BoundedByRequests ==
  ASSUME Bounded, UNCHANGED <<now, ldi, revokedAt, longest>>,
         \A c \in Callers : req'[c].pc = "sign" => req'[c] = req[c]
  PROVE  Bounded'
  BY DEF Bounded

(* The expiry of a token is counted from an instant that is at most the    *)
(* delay after the status was found active.                                *)
LEMMA NextBounded ==
  ASSUME Types, Bounded, ExposureEnds, [Next]_vars
  PROVE  Bounded' /\ ExposureEnds'
<1>a. ReqTyped /\ now \in Nat /\ revokedAt \in Nat /\ longest \in Nat /\ revokedAt <= now
  BY ConstantsTyped DEF Types, ClockTyped
<1>b. \A c \in Callers : req[c].at \in Nat
  BY <1>a, ConstantsTyped DEF ReqTyped, Request
<1>c. ldi \in {"active", "revoked"}
  BY DEF Types, FlagsTyped
<1>1. ASSUME NEW c \in Callers, Sign(c) PROVE Bounded' /\ ExposureEnds'
  <2> DEFINE exp == now + Granted(req[c].ttl)
  <2>1. Granted(req[c].ttl) \in Nat /\ Granted(req[c].ttl) <= MaxTTL
    BY <1>a, GrantedCapped DEF ReqTyped, Request
  <2>2. exp \in Nat /\ exp <= now + MaxTTL
    BY <2>1, <1>a, ConstantsTyped
  <2>3. NumericDate(exp) \in Nat /\ NumericDate(exp) <= now + MaxTTL
    BY <2>2, <1>a, WholeSecondBelow, ConstantsTyped DEF NumericDate
  <2>4. /\ req' = [req EXCEPT ![c].pc = "answer", ![c].at = exp]
        /\ longest' = NumericDate(exp) \/ longest' = longest
        /\ req[c].pc = "sign" /\ UNCHANGED <<now, ldi, revokedAt>>
    BY <1>1 DEF Sign
  <2> HIDE DEF exp
  <2>5. \A d \in Callers : req'[d].pc = "sign" => req'[d] = req[d]
    BY <2>4, <1>a DEF ReqTyped, Request
  <2>6. Bounded'
    BY <2>3, <2>4, <2>5 DEF Bounded
  <2>7. ldi = "revoked" => now <= revokedAt + MaxDelay
    BY <2>4, <1>a, <1>b, ConstantsTyped DEF Bounded
  <2>8. ExposureEnds'
    BY <2>3, <2>4, <2>7, <1>a, ConstantsTyped DEF ExposureEnds
  <2> QED
    BY <2>6, <2>8
<1>2. ASSUME NEW c \in Callers, ReadLDI(c) PROVE Bounded' /\ ExposureEnds'
  <2>1. ldi = "active" /\ UNCHANGED <<now, ldi, revokedAt, longest>>
    BY <1>2 DEF ReadLDI
  <2>2. req'[c].at = now /\ \A d \in Callers : d # c => req'[d] = req[d]
    BY <1>2, <1>a DEF ReadLDI, ReqTyped, Request
  <2>3. ASSUME NEW d \in Callers, req'[d].pc = "sign"
        PROVE  req'[d].at <= now /\ now <= req'[d].at + MaxDelay
    <3>1. CASE d = c
      BY <3>1, <2>2, <1>a, ConstantsTyped
    <3>2. CASE d # c
      BY <3>2, <2>2, <2>3 DEF Bounded
    <3> QED
      BY <3>1, <3>2
  <2>4. Bounded'
    BY <2>1, <2>3 DEF Bounded
  <2> QED
    BY <2>1, <2>4 DEF ExposureEnds
<1>3. CASE SetLDIStatus
  BY <1>3, <1>a, <1>b, ConstantsTyped DEF SetLDIStatus, Bounded, ExposureEnds
<1>4. CASE Tick
  BY <1>4, <1>a, <1>b, ConstantsTyped DEF Tick, Bounded, ExposureEnds
<1>5. ASSUME UNCHANGED <<now, ldi, revokedAt, longest>>,
             \A c \in Callers : req'[c].pc = "sign" => req'[c] = req[c]
      PROVE  Bounded' /\ ExposureEnds'
  BY <1>5, BoundedByRequests DEF ExposureEnds
<1>6. ASSUME NEW a \in AudienceLists, NEW ttl \in TTLs, ExchangeSent(a, ttl)
      PROVE  Bounded' /\ ExposureEnds'
  BY <1>5, <1>6, <1>a DEF ExchangeSent, ReqTyped
<1>7. ASSUME NEW ttl \in TTLs, CommandSends(ttl) PROVE Bounded' /\ ExposureEnds'
  BY <1>5, <1>7, <1>a DEF CommandSends, ReqTyped
<1>8. ASSUME NEW c \in Callers, ExchangeEnds(c) PROVE Bounded' /\ ExposureEnds'
  BY <1>5, <1>8, <1>a DEF ExchangeEnds, ReqTyped, NoReq
<1>9. CASE DaemonAnswered
  BY <1>5, <1>9, <1>a DEF DaemonAnswered, ReqTyped, NoReq
<1>10. CASE Crash
  BY <1>5, <1>10, <1>a DEF Crash, ReqTyped, NoReq
<1>11. CASE UNCHANGED <<now, ldi, revokedAt, longest, req>>
  BY <1>5, <1>11
<1> QED
  BY <1>1, <1>2, <1>3, <1>4, <1>6, <1>7, <1>8, <1>9, <1>10, <1>11 DEF Next, vars, EvictExpired,
     ExchangeRefused, ExchangeCached, RevokeSVIDs, CheckRevocations, Restart

-----------------------------------------------------------------------------
(* The invariant holds throughout. *)
THEOREM ExchangeInvariance == Spec => []JInv
<1>1. JInv /\ [Next]_vars => JInv'
  BY NextTypes, NextCacheKept, NextSilent, NextBounded, NextFits DEF JInv
<1> QED
  BY <1>1, InitJInv, PTL DEF Spec

(* The state keeps its type; in particular no token's life exceeds the     *)
(* cap that IssueJWTSVID puts on it.                                       *)
THEOREM ExchangeTyped == Spec => []TypeOK
<1>1. JInv => TypeOK
  <2> SUFFICES ASSUME JInv PROVE TypeOK
    OBVIOUS
  <2>1. \A c \in Callers :
          /\ req[c].pc \in {"none", "asked", "sign", "answer"}
          /\ req[c].aud \in AudienceLists \cup {<<>>}
          /\ req[c].ttl \in TTLs \cup {0} /\ req[c].at \in 0..Horizon
    BY DEF JInv, Types, ReqTyped, Request
  <2>2. ClockTyped /\ FlagsTyped /\ TokensTyped
    BY DEF JInv, Types
  <2> QED
    BY <2>1, <2>2, Zenon DEF TypeOK, ClockTyped, FlagsTyped, TokensTyped, Entry, Reply
<1> QED
  BY <1>1, ExchangeInvariance, PTL

(* What Cache.Get serves is for the audiences asked for and outlives the   *)
(* threshold, for every list of audiences, in any order and with any       *)
(* repetition.                                                             *)
THEOREM CacheServesFitting == Spec => []CachedTokenFits
<1>1. JInv => CachedTokenFits
  BY DEF JInv
<1> QED
  BY <1>1, ExchangeInvariance, PTL

(* RevokeSPIFFEID bounds what IssueJWTSVID has signed and will sign: no    *)
(* token lives longer past it than the delay of a request and the cap.     *)
THEOREM RevocationBoundsTokens == Spec => []ExposureEnds
<1>1. JInv => ExposureEnds
  BY DEF JInv
<1> QED
  BY <1>1, ExchangeInvariance, PTL

(* A revocation in the state file silences handleExchangeJWT: neither the  *)
(* cache nor an exchange under way yields another token.                   *)
THEOREM RecordedRevocationSilences == Spec => NoTokenOnceRevoked
<1>1. JInv /\ [Next]_vars => [disk => reply' \in {reply, NoReply}]_vars
  <2> SUFFICES ASSUME JInv, Next, disk PROVE reply' \in {reply, NoReply}
    BY DEF vars
  <2>1. revoked /\ req["daemon"] = NoReq
    BY DEF JInv, Silent
  <2>2. ~DaemonAnswered /\ \A a \in AudienceLists : ~ExchangeCached(a)
    BY <2>1 DEF DaemonAnswered, ExchangeCached, NoReq
  <2> QED
    BY <2>2 DEF Next, EvictExpired, ExchangeRefused, ExchangeSent, CommandSends, ReadLDI, Sign,
       ExchangeEnds, RevokeSVIDs, SetLDIStatus, CheckRevocations, Crash, Restart, Tick
<1> QED
  BY <1>1, ExchangeInvariance, PTL DEF Spec, NoTokenOnceRevoked
=============================================================================
