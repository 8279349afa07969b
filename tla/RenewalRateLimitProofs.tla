---------------------- MODULE RenewalRateLimitProofs ----------------------
(***************************************************************************)
(* For any number of requests at once, any limit and any window longer     *)
(* than a second, whether or not successes can be recorded: requests that  *)
(* overlap obtain at most one SVID more for each further request and for   *)
(* each success that was lost, and a Retry-After that was waited out, with *)
(* the second by which the text order may be wrong, lets a device through. *)
(*                                                                         *)
(* The bound is not inductive: what Allow has let pass must be counted     *)
(* before it succeeds (Overlap), and pruning must leave the events that a  *)
(* later Allow has to count (Kept).                                        *)
(***************************************************************************)
EXTENDS RenewalRateLimit, FiniteSetTheorems, WellFoundedInduction, TLAPS

(* The successes that are still to be recorded, and those that were. *)
Pending ==
    {[n |-> req[r].n, at |-> req[r].at] : r \in {p \in Reqs : req[p].pc = "record"}}
Settled == (successes \ lost) \ Pending

(* The requests past Allow whose success would fall into the window that   *)
(* ends at t.                                                              *)
Busy(t) ==
    {r \in Reqs : req[r].pc # "idle" /\ req[r].at <= t /\ req[r].at + Window >= t + Second}

(* Instants lie in the past, and only what was issued is recorded.         *)
InPast ==
    /\ now >= Window
    /\ \A s \in successes : s.at <= now
    /\ \A r \in Reqs : req[r].pc # "idle" => req[r].at >= Window /\ req[r].at <= now

Counted ==
    /\ IsFiniteSet(successes) /\ Cardinality(successes) <= MaxSuccesses
    /\ events \subseteq successes /\ Pending \subseteq successes

(* Pruning takes away no event that a later Allow has to count.            *)
Kept == \A s \in Settled : s \in events \/ s.at + Window < now + Second

(* The bound, with the requests that may still succeed: the last of them   *)
(* that Allow let pass found fewer than MaxInWindow recorded.              *)
Overlap ==
    \A t \in Window..MaxTime :
        Cardinality(During(Settled, t)) + Cardinality(Busy(t))
            <= MaxInWindow - 1 + Cardinality(Reqs)

(* While a Retry-After stands, the events that refused the request stand,  *)
(* and it does not end before the window of one of them does.              *)
Refused ==
    retry.until # 0 =>
        \E t \in Window..now : \E e \in InWindow(events, t) :
            /\ retry.until >= t /\ retry.until >= e.at + Window
            /\ retry.count = Cardinality(InWindow(events, t))

RInv == TypeOK /\ InPast /\ Counted /\ Kept /\ Overlap /\ Refused

-----------------------------------------------------------------------------
(* The text order *)

(* Whole seconds are a second apart.                                       *)
LEMMA SecondsApart ==
  ASSUME NEW a \in Nat, NEW b \in Nat, a * Second < b * Second + Second
  PROVE  a <= b
<1>1. Second \in Nat /\ Second > 0
  BY RateAssumption
<1>2. ASSUME a >= b + 1 PROVE a * Second >= b * Second + Second
  <2>1. PICK d \in Nat : a = b + 1 + d
    <3>1. a - (b + 1) \in Nat /\ a = b + 1 + (a - (b + 1))
      BY <1>2
    <3> QED BY <3>1
  <2>2. a * Second = b * Second + Second + d * Second
    BY <1>1, <2>1
  <2>3. d * Second >= 0 /\ d * Second \in Nat /\ b * Second \in Nat
    BY <1>1
  <2> QED BY <1>1, <2>2, <2>3
<1>3. a * Second \in Nat /\ b * Second \in Nat
  BY <1>1
<1> QED BY <1>1, <1>2, <1>3

(* Rank stays within the second.                                           *)
LEMMA RankWithin ==
  ASSUME NEW t \in Nat
  PROVE  \E a \in Nat : /\ a * Second <= t /\ t < a * Second + Second
                        /\ Rank(t) \in Nat
                        /\ a * Second <= Rank(t) /\ Rank(t) < a * Second + Second
<1>1. Second \in Nat /\ Second > 0
  BY RateAssumption
<1> DEFINE a == t \div Second
           f == t % Second
<1>2. a \in Nat /\ f \in 0..(Second - 1) /\ t = a * Second + f
  BY <1>1, SMTT(30)
<1>3. a * Second \in Nat
  BY <1>1, <1>2
<1>4. PICK o \in 0 .. Second - 1 : Rank(t) = t - f + o
  BY <1>2, TextOrderAssumption DEF Rank
<1> HIDE DEF a, f
<1>5. Rank(t) = a * Second + o
  BY <1>1, <1>2, <1>3, <1>4
<1>6. /\ a * Second <= t /\ t < a * Second + Second
      /\ Rank(t) \in Nat /\ a * Second <= Rank(t) /\ Rank(t) < a * Second + Second
  <2> DEFINE k == a * Second
  <2>1. k \in Nat /\ t = k + f /\ Rank(t) = k + o
    BY <1>2, <1>3, <1>5
  <2> HIDE DEF k
  <2>2. k <= t /\ t < k + Second /\ Rank(t) \in Nat /\ k <= Rank(t) /\ Rank(t) < k + Second
    BY <1>1, <1>2, <1>4, <2>1
  <2> QED BY <2>2 DEF k
<1> QED BY <1>2, <1>6

(* Instants a second or more apart are ordered by their texts.             *)
LEMMA RankOrders ==
  ASSUME NEW x \in Nat, NEW y \in Nat
  PROVE  /\ x >= y + Second => Rank(x) > Rank(y)
         /\ Rank(x) \in Nat
<1>1. Second \in Nat /\ Second > 0
  BY RateAssumption
<1>2. PICK a \in Nat : /\ a * Second <= x /\ x < a * Second + Second
                       /\ Rank(x) \in Nat
                       /\ a * Second <= Rank(x) /\ Rank(x) < a * Second + Second
  BY RankWithin
<1>3. PICK b \in Nat : /\ b * Second <= y /\ y < b * Second + Second
                       /\ Rank(y) \in Nat
                       /\ b * Second <= Rank(y) /\ Rank(y) < b * Second + Second
  BY RankWithin
<1>4. a * Second \in Nat /\ b * Second \in Nat
  BY <1>1
<1>5. ASSUME x >= y + Second PROVE Rank(x) > Rank(y)
  <2>1. a * Second > b * Second
    BY <1>1, <1>2, <1>3, <1>4, <1>5
  <2>2. ~(a <= b)
    <3>1. ASSUME a <= b PROVE a * Second <= b * Second
      <4>1. PICK d \in Nat : b = a + d
        <5>1. b - a \in Nat /\ b = a + (b - a)
          BY <3>1
        <5> QED BY <5>1
      <4>2. b * Second = a * Second + d * Second /\ d * Second \in Nat
        BY <1>1, <4>1
      <4> QED BY <1>4, <4>2
    <3> QED BY <2>1, <3>1, <1>4
  <2>3. ~(a * Second < b * Second + Second)
    BY <2>2, SecondsApart
  <2> QED BY <1>1, <1>2, <1>3, <1>4, <2>3
<1> QED BY <1>2, <1>5

(* A non-empty set of events has one that comes first in the text order.   *)
LEMMA EarliestIn ==
  ASSUME NEW S \in SUBSET Success, S # {}
  PROVE  Earliest(S) \in S
<1>1. \A s \in S : s.at \in Nat /\ Rank(s.at) \in Nat
  BY RankOrders, RateAssumption DEF Success
<1> DEFINE T == {n \in Nat : \E s \in S : n = Rank(s.at)}
           R == OpToRel(<, Nat)
<1>2. T \subseteq Nat /\ T # {} /\ \A s \in S : Rank(s.at) \in T
  BY <1>1
<1>3. IsWellFoundedOn(R, Nat)
  BY NatLessThanWellFounded
<1> HIDE DEF R, T
<1>4. PICK m \in T : \A y \in T : ~ (<<y, m>> \in R)
  BY <1>2, <1>3, WFMin
<1>5. ASSUME NEW y \in T PROVE m <= y
  <2>1. y < m => <<y, m>> \in R
    BY <1>2 DEF R, OpToRel
  <2> QED BY <1>2, <1>4, <2>1
<1>6. PICK s \in S : m = Rank(s.at)
  BY DEF T
<1>7. \A x \in S : Rank(s.at) <= Rank(x.at)
  BY <1>2, <1>5, <1>6
<1> QED BY <1>7 DEF Earliest

(* Rounding up to whole seconds adds less than a second.                   *)
LEMMA CeilUp ==
  ASSUME NEW d \in Nat
  PROVE  CeilSecond(d) \in Nat /\ CeilSecond(d) >= d /\ CeilSecond(d) < d + Second
<1>1. Second \in Nat /\ Second > 0
  BY RateAssumption
<1> DEFINE r == d % Second
<1>2. r \in 0..(Second - 1)
  BY <1>1, SMTT(30)
<1>3. CeilSecond(d) = IF r = 0 THEN d ELSE d - r + Second
  BY DEF CeilSecond
<1> HIDE DEF r
<1>4. CASE r = 0
  BY <1>1, <1>3, <1>4
<1>5. CASE r # 0
  <2>1. CeilSecond(d) = d + (Second - r) /\ Second - r \in Nat /\ Second - r < Second
    BY <1>1, <1>2, <1>3, <1>5
  <2> QED BY <1>1, <2>1
<1> QED BY <1>4, <1>5

-----------------------------------------------------------------------------
(* What the invariant says of the sets that are counted.                   *)
LEMMA Sizes ==
  ASSUME RInv, NEW t
  PROVE  /\ IsFiniteSet(Reqs) /\ Cardinality(Reqs) \in Nat
         /\ IsFiniteSet(Busy(t)) /\ Cardinality(Busy(t)) \in Nat
         /\ Cardinality(Busy(t)) <= Cardinality(Reqs)
         /\ IsFiniteSet(Settled) /\ IsFiniteSet(lost)
         /\ IsFiniteSet(During(Settled, t)) /\ Cardinality(During(Settled, t)) \in Nat
         /\ IsFiniteSet(events) /\ IsFiniteSet(InWindow(events, t))
         /\ Cardinality(InWindow(events, t)) \in 0..MaxSuccesses
<1>1. IsFiniteSet(Reqs) /\ Busy(t) \in SUBSET Reqs
  BY RateAssumption DEF Busy
<1>2. IsFiniteSet(successes) /\ Cardinality(successes) <= MaxSuccesses /\ events \in SUBSET successes
  BY DEF RInv, Counted
<1>3. Settled \in SUBSET successes /\ During(Settled, t) \in SUBSET successes
  BY DEF Settled, During
<1>4. lost \in SUBSET successes
  BY DEF RInv, TypeOK
<1>5. InWindow(events, t) \in SUBSET successes
  BY <1>2 DEF InWindow
<1>6. MaxSuccesses \in Nat
  BY RateAssumption
<1>7. IsFiniteSet(Busy(t)) /\ Cardinality(Busy(t)) <= Cardinality(Reqs)
  BY <1>1, FS_Subset
<1>8. /\ IsFiniteSet(Settled) /\ IsFiniteSet(lost) /\ IsFiniteSet(During(Settled, t))
      /\ IsFiniteSet(events) /\ IsFiniteSet(InWindow(events, t))
      /\ Cardinality(InWindow(events, t)) <= Cardinality(successes)
  BY <1>2, <1>3, <1>4, <1>5, FS_Subset
<1>9. /\ Cardinality(Reqs) \in Nat /\ Cardinality(Busy(t)) \in Nat
      /\ Cardinality(During(Settled, t)) \in Nat /\ Cardinality(successes) \in Nat
      /\ Cardinality(InWindow(events, t)) \in Nat
  BY <1>1, <1>2, <1>7, <1>8, FS_CardinalityType
<1> QED BY <1>1, <1>2, <1>6, <1>7, <1>8, <1>9

(* What TypeOK and InPast say of one success.                               *)
LEMMA Facts ==
  ASSUME RInv
  PROVE  /\ now \in Nat /\ now >= Window /\ now <= MaxTime /\ Window \in Nat /\ Second \in Nat \ {0}
         /\ MaxTime \in Nat /\ Window > Second
         /\ req \in [Reqs -> [pc : {"idle", "issue", "record"}, at : 0..MaxTime, n : 0..MaxSuccesses]]
         /\ \A s \in successes : s.at \in Nat /\ s.at <= now /\ s \in Success
         /\ \A r \in Reqs : /\ req[r].at \in Nat
                            /\ req[r].pc # "idle" => req[r].at >= Window /\ req[r].at <= now
BY RateAssumption DEF RInv, TypeOK, InPast, Success

LEMMA InitRInv == Init => RInv
<1> SUFFICES ASSUME Init PROVE RInv
  OBVIOUS
<1>1. TypeOK
  BY RateAssumption DEF Init, TypeOK, Idle, Void
<1>2. InPast /\ Pending = {}
  BY RateAssumption DEF Init, InPast, Idle, Pending
<1>3. Counted
  BY <1>2, FS_EmptySet, RateAssumption DEF Init, Counted
<1>4. Settled = {}
  BY DEF Init, Settled
<1>5. ASSUME NEW t \in Window..MaxTime
      PROVE  Cardinality(During(Settled, t)) + Cardinality(Busy(t))
                <= MaxInWindow - 1 + Cardinality(Reqs)
  <2>1. During(Settled, t) = {} /\ Busy(t) = {}
    BY <1>4 DEF During, Busy, Init, Idle
  <2>2. Cardinality(Reqs) \in Nat /\ MaxInWindow \in Nat \ {0}
    BY RateAssumption, FS_CardinalityType
  <2> QED BY <2>1, <2>2, FS_EmptySet
<1> QED BY <1>1, <1>2, <1>3, <1>4, <1>5 DEF RInv, Kept, Overlap, Refused, Init, Void

(* The bound is kept where nothing is added to what is counted.            *)
LEMMA OverlapKept ==
  ASSUME RInv, Settled' \subseteq Settled, \A t \in Window..MaxTime : Busy(t)' \subseteq Busy(t)
  PROVE  Overlap'
<1> SUFFICES ASSUME NEW t \in Window..MaxTime
             PROVE  Cardinality(During(Settled, t)') + Cardinality(Busy(t)')
                       <= MaxInWindow - 1 + Cardinality(Reqs)
  BY DEF Overlap
<1>1. During(Settled, t)' \in SUBSET During(Settled, t)
  BY DEF During
<1>2. Busy(t)' \in SUBSET Busy(t)
  OBVIOUS
<1>3. /\ Cardinality(During(Settled, t)') <= Cardinality(During(Settled, t))
      /\ Cardinality(Busy(t)') <= Cardinality(Busy(t))
      /\ IsFiniteSet(During(Settled, t)') /\ IsFiniteSet(Busy(t)')
  BY <1>1, <1>2, Sizes, FS_Subset
<1>4. Cardinality(During(Settled, t)') \in Nat /\ Cardinality(Busy(t)') \in Nat
  BY <1>3, FS_CardinalityType
<1>5. Cardinality(During(Settled, t)) + Cardinality(Busy(t)) <= MaxInWindow - 1 + Cardinality(Reqs)
  BY DEF RInv, Overlap
<1>6. MaxInWindow \in Nat
  BY RateAssumption
<1> QED BY <1>3, <1>4, <1>5, <1>6, Sizes

-----------------------------------------------------------------------------
(* A set grows by at most one with an element.                             *)
LEMMA AddOne ==
  ASSUME NEW S, NEW x, IsFiniteSet(S)
  PROVE  /\ IsFiniteSet(S \cup {x}) /\ Cardinality(S) \in Nat
         /\ Cardinality(S \cup {x}) \in Nat
         /\ Cardinality(S \cup {x}) <= Cardinality(S) + 1
<1>1. /\ IsFiniteSet(S \cup {x})
      /\ Cardinality(S \cup {x}) = IF x \in S THEN Cardinality(S) ELSE Cardinality(S) + 1
  BY FS_AddElement
<1>2. Cardinality(S) \in Nat
  BY FS_CardinalityType
<1> QED BY <1>1, <1>2

(* What is left of the window of the earliest event, or a second.          *)
LEMMA WaitOf ==
  ASSUME NEW S, NEW e, e = Earliest(S)
  PROVE  Wait(S) = IF e.at + Window > now THEN (e.at + Window) - now ELSE Second
BY Zenon DEF Wait

-----------------------------------------------------------------------------
(* Steps that add nothing to what is counted: a refusal, a failure to      *)
(* issue, a success that is lost, and time.                                *)

LEMMA TickRInv ==
  ASSUME RInv, Tick \/ UNCHANGED vars
  PROVE  RInv'
<1>0. /\ UNCHANGED <<req, events, successes, lost, retry>>
      /\ now' \in 0..MaxTime /\ now <= now'
  BY Facts DEF Tick, vars, RInv, TypeOK
<1>1. /\ now \in Nat /\ Window \in Nat /\ Second \in Nat
      /\ retry \in [until : 0 .. now + Window + Second, count : 0..MaxSuccesses]
  BY Facts DEF RInv, TypeOK
<1>2. retry \in [until : 0 .. now' + Window + Second, count : 0..MaxSuccesses]
  BY <1>0, <1>1, RateAssumption
<1>3. TypeOK'
  BY <1>0, <1>2 DEF RInv, TypeOK
<1>4. InPast'
  BY <1>0, Facts, RateAssumption DEF RInv, InPast
<1>5. Counted' /\ Settled' = Settled /\ Pending' = Pending
  BY <1>0 DEF RInv, Counted, Settled, Pending
<1>6. Kept'
  <2> SUFFICES ASSUME NEW s \in Settled
               PROVE  s \in events \/ s.at + Window < now' + Second
    BY <1>0, <1>5 DEF Kept
  <2>1. s.at \in Nat
    BY Facts DEF Settled
  <2> QED BY <1>0, <1>1, <2>1, RateAssumption DEF RInv, Kept
<1>7. Overlap'
  BY <1>0, <1>5, OverlapKept DEF Busy
<1>8. Refused'
  <2>1. \A t \in Window..now : t \in Window..now'
    BY <1>0, <1>1, RateAssumption
  <2> QED BY <1>0, <2>1 DEF RInv, Refused, InWindow
<1> QED BY <1>3, <1>4, <1>5, <1>6, <1>7, <1>8 DEF RInv

(* The Retry-After ends at the end of the earliest event's window or later. *)
LEMMA RefuseRInv ==
  ASSUME RInv, NEW r \in Reqs, Refuse(r)
  PROVE  RInv'
<1> DEFINE W == InWindow(events, now)
           e == Earliest(W)
           d == Wait(W)
<1>0. /\ UNCHANGED <<now, req, events, successes, lost>>
      /\ retry' = [until |-> now + CeilSecond(d), count |-> Cardinality(W)]
      /\ Cardinality(W) >= MaxInWindow
  BY DEF Refuse
<1>1. /\ now \in Nat /\ Window \in Nat /\ Second \in Nat \ {0} /\ now >= Window
      /\ Window > Second
      /\ Cardinality(W) \in 0..MaxSuccesses
  BY Facts, Sizes
<1>2. W # {}
  BY <1>0, <1>1, FS_EmptySet, RateAssumption
<1>3. W \subseteq events /\ events \subseteq successes /\ \A s \in successes : s \in Success
  BY Facts DEF InWindow, RInv, Counted
<1>4. e \in W
  <2>1. W \in SUBSET Success
    BY <1>3
  <2> HIDE DEF W
  <2> QED BY <1>2, <2>1, EarliestIn
<1>5. e.at \in Nat /\ e.at <= now
  BY <1>3, <1>4, Facts
<1>6. d = IF e.at + Window > now THEN (e.at + Window) - now ELSE Second
  <2> HIDE DEF W, e
  <2>1. e = Earliest(W)
    BY DEF e
  <2> QED BY <2>1, WaitOf
<1> HIDE DEF W, e, d
<1>7. d \in Nat /\ d <= Window /\ now + d >= e.at + Window
  BY <1>1, <1>5, <1>6
<1>8. CeilSecond(d) \in Nat /\ CeilSecond(d) >= d /\ CeilSecond(d) < d + Second
  BY <1>7, CeilUp
<1>9. /\ retry'.until \in 0 .. now + Window + Second /\ retry'.count = Cardinality(W)
      /\ retry'.until >= now /\ retry'.until >= e.at + Window
  BY <1>0, <1>1, <1>5, <1>7, <1>8
<1>10. TypeOK'
  <2>1. retry' \in [until : 0 .. now + Window + Second, count : 0..MaxSuccesses]
    BY <1>0, <1>1, <1>9
  <2> QED BY <1>0, <2>1 DEF RInv, TypeOK
<1>11. InPast' /\ Counted' /\ Kept' /\ Settled' = Settled
  BY <1>0 DEF RInv, InPast, Counted, Kept, Settled, Pending
<1>12. Overlap'
  BY <1>0, <1>11, OverlapKept DEF Busy
<1>13. Refused'
  <2>1. now \in Window..now /\ UNCHANGED <<now, events>>
    BY <1>0, <1>1
  <2>2. \E f \in InWindow(events, now) :
           /\ retry'.until >= now /\ retry'.until >= f.at + Window
           /\ retry'.count = Cardinality(InWindow(events, now))
    BY <1>4, <1>9 DEF W
  <2>3. \E t \in Window..now : \E f \in InWindow(events, t) :
           /\ retry'.until >= t /\ retry'.until >= f.at + Window
           /\ retry'.count = Cardinality(InWindow(events, t))
    BY <2>1, <2>2
  <2> QED BY <2>1, <2>3 DEF Refused, InWindow
<1> QED BY <1>10, <1>11, <1>12, <1>13 DEF RInv

(* A request that ends: what was pending of others stays so.               *)
LEMMA EndsRInv ==
  ASSUME RInv, NEW r \in Reqs, IssueFails(r) \/ RecordError(r)
  PROVE  RInv'
<1> DEFINE x == [n |-> req[r].n, at |-> req[r].at]
<1>0. /\ UNCHANGED <<now, events, successes>> /\ req' = [req EXCEPT ![r] = Idle]
      /\ req[r].pc # "idle"
      /\ \/ req[r].pc = "issue" /\ UNCHANGED <<lost, retry>>
         \/ req[r].pc = "record" /\ lost' = lost \cup {x} /\ retry' = Void
  BY DEF IssueFails, RecordError
<1>1. req \in [Reqs -> [pc : {"idle", "issue", "record"}, at : 0..MaxTime, n : 0..MaxSuccesses]]
  BY DEF RInv, TypeOK
<1>2. req[r].pc = "record" => x \in successes
  BY DEF RInv, Counted, Pending
<1>3. /\ req'[r] = Idle /\ \A p \in Reqs : p # r => req'[p] = req[p]
      /\ Idle.pc = "idle"
  BY <1>0, <1>1 DEF Idle
<1>4. TypeOK'
  <2>1. Idle \in [pc : {"idle", "issue", "record"}, at : 0..MaxTime, n : 0..MaxSuccesses]
    BY RateAssumption DEF Idle
  <2>2. retry' \in [until : 0 .. now + Window + Second, count : 0..MaxSuccesses]
    BY <1>0, Facts, RateAssumption DEF RInv, TypeOK, Void
  <2>3. lost' \subseteq successes
    BY <1>0, <1>2 DEF RInv, TypeOK
  <2> QED BY <1>0, <1>1, <2>1, <2>2, <2>3 DEF RInv, TypeOK
<1>5. InPast'
  BY <1>0, <1>3 DEF RInv, InPast
<1>6. Pending' \subseteq Pending /\ Pending \subseteq Pending' \cup {x}
      /\ (req[r].pc = "issue" => Pending' = Pending)
  BY <1>3 DEF Pending
<1>7. Counted'
  BY <1>0, <1>6 DEF RInv, Counted
<1>8. Settled' \subseteq Settled
  <2>1. CASE req[r].pc = "issue"
    BY <1>0, <1>6, <2>1 DEF Settled
  <2>2. CASE req[r].pc = "record"
    BY <1>0, <1>6, <2>2 DEF Settled
  <2> QED BY <1>0, <2>1, <2>2
<1>9. Kept'
  BY <1>0, <1>8 DEF RInv, Kept
<1>10. Overlap'
  <2>1. \A t \in Window..MaxTime : Busy(t)' \subseteq Busy(t)
    BY <1>3 DEF Busy
  <2> QED BY <1>8, <2>1, OverlapKept
<1>11. Refused'
  BY <1>0 DEF RInv, Refused, Void, InWindow
<1> QED BY <1>4, <1>5, <1>7, <1>9, <1>10, <1>11 DEF RInv

(* A success is pending until it is recorded.                              *)
LEMMA IssueRInv ==
  ASSUME RInv, NEW r \in Reqs, Issue(r)
  PROVE  RInv'
<1> DEFINE n == Cardinality(successes) + 1
           x == [n |-> n, at |-> req[r].at]
<1>0. /\ UNCHANGED <<now, events, lost, retry>> /\ req[r].pc = "issue"
      /\ n <= MaxSuccesses /\ successes' = successes \cup {x}
      /\ req' = [req EXCEPT ![r].pc = "record", ![r].n = n]
  BY DEF Issue
<1>1. req \in [Reqs -> [pc : {"idle", "issue", "record"}, at : 0..MaxTime, n : 0..MaxSuccesses]]
  BY DEF RInv, TypeOK
<1>2. IsFiniteSet(successes) /\ Cardinality(successes) \in Nat
  BY FS_CardinalityType DEF RInv, Counted
<1>3. n \in 1..MaxSuccesses
  BY <1>0, <1>2, RateAssumption
<1> HIDE DEF n
<1>4. /\ req'[r].pc = "record" /\ req'[r].n = n /\ req'[r].at = req[r].at
      /\ \A p \in Reqs : p # r => req'[p] = req[p]
      /\ req' \in [Reqs -> [pc : {"idle", "issue", "record"}, at : 0..MaxTime, n : 0..MaxSuccesses]]
  <2>1. [req[r] EXCEPT !.pc = "record", !.n = n]
           \in [pc : {"idle", "issue", "record"}, at : 0..MaxTime, n : 0..MaxSuccesses]
    <3> DEFINE q == req[r]
    <3>1. q \in [pc : {"idle", "issue", "record"}, at : 0..MaxTime, n : 0..MaxSuccesses]
      BY <1>1
    <3>2. n \in 0..MaxSuccesses
      BY <1>3
    <3> HIDE DEF q
    <3>3. [q EXCEPT !.pc = "record", !.n = n]
             \in [pc : {"idle", "issue", "record"}, at : 0..MaxTime, n : 0..MaxSuccesses]
      BY <3>1, <3>2
    <3> QED BY <3>3 DEF q
  <2>2. req' = [req EXCEPT ![r] = [req[r] EXCEPT !.pc = "record", !.n = n]]
    BY <1>0, <1>1
  <2> QED BY <1>1, <2>1, <2>2
<1>5. x \in Success /\ x.at >= Window /\ x.at <= now
  BY <1>0, <1>1, <1>3, Facts DEF Success
<1>6. TypeOK'
  BY <1>0, <1>4, <1>5 DEF RInv, TypeOK
<1>7. InPast'
  BY <1>0, <1>4, <1>5 DEF RInv, InPast
<1>8. Pending' = Pending \cup {x}
  BY <1>0, <1>4 DEF Pending
<1>9. Counted'
  <2>1. IsFiniteSet(successes') /\ Cardinality(successes') <= n
    <3> HIDE DEF x
    <3> QED BY <1>0, <1>2, AddOne DEF n
  <2>2. Cardinality(successes') <= MaxSuccesses
    BY <1>3, <2>1, FS_CardinalityType, RateAssumption
  <2> QED BY <1>0, <1>8, <2>1, <2>2 DEF RInv, Counted
<1>10. Settled' \subseteq Settled
  BY <1>0, <1>8 DEF Settled
<1>11. Kept'
  BY <1>0, <1>10 DEF RInv, Kept
<1>12. Overlap'
  <2>1. \A t \in Window..MaxTime : Busy(t)' \subseteq Busy(t)
    BY <1>0, <1>4 DEF Busy
  <2> QED BY <1>10, <2>1, OverlapKept
<1>13. Refused'
  BY <1>0 DEF RInv, Refused, InWindow
<1> QED BY <1>6, <1>7, <1>9, <1>11, <1>12, <1>13 DEF RInv

-----------------------------------------------------------------------------
(* Allow: what was recorded in a window that lasts to t is in events, and  *)
(* in the window that ends now, so there is less of it than MaxInWindow.   *)
LEMMA AllowRInv ==
  ASSUME RInv, NEW r \in Reqs, Allow(r)
  PROVE  RInv'
<1>0. /\ UNCHANGED <<now, events, successes, lost, retry>> /\ req[r] = Idle
      /\ req' = [req EXCEPT ![r] = [pc |-> "issue", at |-> now, n |-> 0]]
      /\ Cardinality(InWindow(events, now)) < MaxInWindow
  BY DEF Allow
<1>1. /\ req \in [Reqs -> [pc : {"idle", "issue", "record"}, at : 0..MaxTime, n : 0..MaxSuccesses]]
      /\ now \in Nat /\ Window \in Nat /\ Second \in Nat \ {0} /\ now >= Window
      /\ \A s \in successes : s.at \in Nat
  BY Facts
<1>2. /\ req'[r].pc = "issue" /\ req'[r].at = now
      /\ \A p \in Reqs : p # r => req'[p] = req[p]
  BY <1>0, <1>1
<1>3. TypeOK'
  BY <1>0, <1>1, RateAssumption DEF RInv, TypeOK
<1>4. InPast'
  BY <1>0, <1>1, <1>2 DEF RInv, InPast
<1>5. Pending' = Pending
  BY <1>0, <1>2 DEF Pending, Idle
<1>6. Counted' /\ Settled' = Settled /\ Kept'
  BY <1>0, <1>5 DEF RInv, Counted, Settled, Kept
<1>7. Refused'
  BY <1>0 DEF RInv, Refused, InWindow
<1>8. ASSUME NEW t \in Window..MaxTime
      PROVE  Cardinality(During(Settled, t)') + Cardinality(Busy(t)')
                <= MaxInWindow - 1 + Cardinality(Reqs)
  <2>1. During(Settled, t)' = During(Settled, t)
    BY <1>6 DEF During
  <2>2. MaxInWindow \in Nat
    BY RateAssumption
  <2>3. CASE t >= now
    <3>1. During(Settled, t) \subseteq InWindow(events, now)
      <4> SUFFICES ASSUME NEW s \in During(Settled, t) PROVE s \in InWindow(events, now)
        OBVIOUS
      <4>1. /\ s \in Settled /\ s.at + Window >= t + Second /\ s.at \in Nat /\ t \in Nat
        BY <1>1 DEF During, Settled
      <4>2. s \in events
        BY <1>1, <2>3, <4>1 DEF RInv, Kept
      <4>3. now - Window \in Nat /\ s.at >= (now - Window) + Second
        BY <1>1, <2>3, <4>1
      <4>4. Rank(s.at) > Rank(now - Window)
        BY <4>1, <4>3, RankOrders
      <4> QED BY <4>2, <4>4 DEF InWindow
    <3>2. Cardinality(During(Settled, t)) <= Cardinality(InWindow(events, now))
      BY <3>1, Sizes, FS_Subset
    <3>3. Busy(t)' \in SUBSET Reqs
      BY DEF Busy
    <3>4. IsFiniteSet(Busy(t)') /\ Cardinality(Busy(t)') <= Cardinality(Reqs)
      BY <3>3, Sizes, FS_Subset
    <3>5. Cardinality(Busy(t)') \in Nat
      BY <3>4, FS_CardinalityType
    <3>6. Cardinality(InWindow(events, now)) \in Nat
      BY Sizes, RateAssumption
    <3> QED BY <1>0, <2>1, <2>2, <3>2, <3>4, <3>5, <3>6, Sizes
  <2>4. CASE ~(t >= now)
    <3>1. Busy(t)' = Busy(t)
      BY <1>0, <1>1, <1>2, <2>4 DEF Busy, Idle
    <3> QED BY <2>1, <3>1 DEF RInv, Overlap
  <2> QED BY <2>3, <2>4
<1>9. Overlap'
  BY <1>8 DEF Overlap
<1> QED BY <1>3, <1>4, <1>6, <1>7, <1>9 DEF RInv

(* Record: the success moves from the pending to the settled ones, and the *)
(* prune drops what left the window a second ago or more.                  *)
LEMMA RecordRInv ==
  ASSUME RInv, NEW r \in Reqs, Record(r)
  PROVE  RInv'
<1> DEFINE x == [n |-> req[r].n, at |-> req[r].at]
           E == events \cup {x}
<1>0. /\ UNCHANGED <<now, successes, lost>> /\ req[r].pc = "record"
      /\ req' = [req EXCEPT ![r] = Idle] /\ retry' = Void
      /\ events' = InWindow(E, x.at) \/ events' = E
  BY DEF Record
<1>1. /\ req \in [Reqs -> [pc : {"idle", "issue", "record"}, at : 0..MaxTime, n : 0..MaxSuccesses]]
      /\ now \in Nat /\ Window \in Nat /\ Second \in Nat \ {0} /\ now >= Window
      /\ \A s \in successes : s.at \in Nat
  BY Facts
<1>2. x \in successes /\ x \in Pending
  BY <1>0 DEF RInv, Counted, Pending
<1>3. /\ req'[r] = Idle /\ \A p \in Reqs : p # r => req'[p] = req[p]
      /\ Idle.pc = "idle"
  BY <1>0, <1>1 DEF Idle
<1>4. E \subseteq successes /\ events' \subseteq E
  BY <1>0, <1>2 DEF RInv, Counted, InWindow
<1>5. TypeOK'
  <2>1. Idle \in [pc : {"idle", "issue", "record"}, at : 0..MaxTime, n : 0..MaxSuccesses]
    BY RateAssumption DEF Idle
  <2>2. retry' \in [until : 0 .. now + Window + Second, count : 0..MaxSuccesses]
    BY <1>0, <1>1, RateAssumption DEF Void
  <2>3. events' \subseteq Success
    BY <1>4 DEF RInv, TypeOK
  <2> QED BY <1>0, <1>1, <2>1, <2>2, <2>3 DEF RInv, TypeOK
<1>6. InPast'
  BY <1>0, <1>3 DEF RInv, InPast
<1>7. Pending' \subseteq Pending /\ Pending \subseteq Pending' \cup {x}
  BY <1>3 DEF Pending
<1>8. Counted'
  BY <1>0, <1>4, <1>7 DEF RInv, Counted
<1>9. Settled' \subseteq Settled \cup {x}
  BY <1>0, <1>7 DEF Settled
<1>10. Kept'
  <2> SUFFICES ASSUME NEW s \in Settled', s \notin events'
               PROVE  s.at + Window < now + Second
    BY <1>0 DEF Kept
  <2>1. s \in successes /\ s.at \in Nat
    BY <1>0, <1>1 DEF Settled
  <2>2. CASE s \notin E
    BY <1>9, <2>2 DEF RInv, Kept
  <2>3. CASE s \in E
    <3>1. events' = InWindow(E, x.at) /\ ~(Rank(s.at) > Rank(x.at - Window))
      BY <1>0, <2>3 DEF InWindow
    <3>2. x.at \in Nat /\ x.at >= Window /\ x.at <= now
      BY <1>0, Facts
    <3>3. x.at - Window \in Nat
      BY <1>1, <3>2
    <3>4. ~(s.at >= (x.at - Window) + Second)
      BY <2>1, <3>1, <3>3, RankOrders
    <3> QED BY <1>1, <2>1, <3>2, <3>4
  <2> QED BY <2>2, <2>3
<1>11. ASSUME NEW t \in Window..MaxTime
       PROVE  Cardinality(During(Settled, t)') + Cardinality(Busy(t)')
                 <= MaxInWindow - 1 + Cardinality(Reqs)
  <2>1. Busy(t)' = Busy(t) \ {r}
    BY <1>3 DEF Busy
  <2>2. Cardinality(During(Settled, t)) + Cardinality(Busy(t)) <= MaxInWindow - 1 + Cardinality(Reqs)
    BY DEF RInv, Overlap
  <2>3. /\ IsFiniteSet(During(Settled, t)) /\ IsFiniteSet(Busy(t)) /\ Cardinality(Reqs) \in Nat
        /\ Cardinality(During(Settled, t)) \in Nat /\ Cardinality(Busy(t)) \in Nat
    BY Sizes
  <2>4. MaxInWindow \in Nat
    BY RateAssumption
  <2>5. CASE r \in Busy(t)
    <3>1. During(Settled, t)' \in SUBSET (During(Settled, t) \cup {x})
      BY <1>9 DEF During
    <3> HIDE DEF x
    <3>2. /\ IsFiniteSet(During(Settled, t) \cup {x})
          /\ Cardinality(During(Settled, t) \cup {x}) \in Nat
          /\ Cardinality(During(Settled, t) \cup {x}) <= Cardinality(During(Settled, t)) + 1
      BY <2>3, AddOne
    <3>3. /\ IsFiniteSet(During(Settled, t)')
          /\ Cardinality(During(Settled, t)') <= Cardinality(During(Settled, t) \cup {x})
      BY <3>1, <3>2, FS_Subset
    <3>4. Cardinality(During(Settled, t)') \in Nat
      BY <3>3, FS_CardinalityType
    <3>5. Cardinality(Busy(t)') = Cardinality(Busy(t)) - 1
      BY <2>1, <2>3, <2>5, FS_RemoveElement
    <3> QED BY <2>2, <2>3, <2>4, <3>2, <3>3, <3>4, <3>5
  <2>6. CASE r \notin Busy(t)
    <3>1. ~(x.at <= t /\ x.at + Window >= t + Second)
      BY <1>0, <2>6 DEF Busy
    <3>2. During(Settled, t)' \in SUBSET During(Settled, t)
      BY <1>9, <3>1 DEF During
    <3>3. Busy(t)' = Busy(t)
      BY <2>1, <2>6
    <3>4. /\ IsFiniteSet(During(Settled, t)')
          /\ Cardinality(During(Settled, t)') <= Cardinality(During(Settled, t))
      BY <2>3, <3>2, FS_Subset
    <3>5. Cardinality(During(Settled, t)') \in Nat
      BY <3>4, FS_CardinalityType
    <3> QED BY <2>2, <2>3, <2>4, <3>3, <3>4, <3>5
  <2> QED BY <2>5, <2>6
<1>12. Overlap' /\ Refused'
  BY <1>0, <1>11 DEF Overlap, Refused, Void
<1> QED BY <1>5, <1>6, <1>8, <1>10, <1>12 DEF RInv

LEMMA NextRInv == RInv /\ [Next]_vars => RInv'
BY TickRInv, RefuseRInv, EndsRInv, IssueRInv, AllowRInv, RecordRInv DEF Next

-----------------------------------------------------------------------------
(* The invariant, for any number of requests at once, any window and any   *)
(* limit, whether or not successes can be recorded.                        *)
THEOREM LimiterInvariance == Spec => []RInv
BY InitRInv, NextRInv, PTL DEF Spec

(* The clock, the requests, the events and the successes keep their types, *)
(* and a Retry-After ends within a window and a second of the refusal.     *)
THEOREM LimiterTyped == Spec => []TypeOK
<1>1. RInv => TypeOK
  BY DEF RInv
<1> QED BY <1>1, LimiterInvariance, PTL

(* Different requests that are pending may stand for no more successes     *)
(* than there are requests.                                                *)
LEMMA PendingBusy ==
  ASSUME RInv, NEW t
  PROVE  /\ IsFiniteSet(During(Pending, t))
         /\ Cardinality(During(Pending, t)) <= Cardinality(Busy(t))
<1> DEFINE B == {r \in Busy(t) : req[r].pc = "record"}
           f == [r \in B |-> [n |-> req[r].n, at |-> req[r].at]]
<1>1. B \in SUBSET Busy(t)
  OBVIOUS
<1>2. IsFiniteSet(B) /\ Cardinality(B) <= Cardinality(Busy(t))
  BY <1>1, Sizes, FS_Subset
<1>3. \A s \in During(Pending, t) : \E r \in B : f[r] = s
  <2> SUFFICES ASSUME NEW s \in During(Pending, t) PROVE \E r \in B : f[r] = s
    OBVIOUS
  <2>1. PICK r \in Reqs : req[r].pc = "record" /\ s = [n |-> req[r].n, at |-> req[r].at]
    BY DEF During, Pending
  <2>2. s.at <= t /\ s.at + Window >= t + Second
    BY DEF During
  <2>3. r \in B
    BY <2>1, <2>2 DEF Busy
  <2> QED BY <2>1, <2>3
<1>4. \A r \in B : f[r] \in During(Pending, t)
  BY DEF During, Pending, Busy
<1>5. f \in Surjection(B, During(Pending, t))
  BY <1>3, <1>4 DEF Surjection
<1>6. IsFiniteSet(During(Pending, t)) /\ Cardinality(During(Pending, t)) <= Cardinality(B)
  BY <1>2, <1>5, FS_Surjection
<1>7. Cardinality(B) \in Nat /\ Cardinality(During(Pending, t)) \in Nat
  BY <1>2, <1>6, FS_CardinalityType
<1> QED BY <1>2, <1>6, <1>7, Sizes

(* However requests for an identity overlap, they obtain at most           *)
(* MaxInWindow SVIDs in a window shortened by a second, one more for every *)
(* further request at once and for every success that was not recorded.    *)
THEOREM OverlapIsBounded == Spec => []OverlapBounded
<1>1. RInv => OverlapBounded
  <2> SUFFICES ASSUME RInv, NEW t \in Window..MaxTime
               PROVE  Cardinality(During(successes, t))
                         <= MaxInWindow + (Cardinality(Reqs) - 1) + Cardinality(During(lost, t))
    BY DEF OverlapBounded
  <2> DEFINE S == During(Settled, t)
             P == During(Pending, t)
             L == During(lost, t)
             D == During(successes, t)
  <2>1. D \in SUBSET ((S \cup P) \cup L)
    BY DEF During, Settled
  <2>2. /\ IsFiniteSet(S) /\ Cardinality(S) \in Nat /\ Cardinality(Busy(t)) \in Nat
        /\ Cardinality(Reqs) \in Nat
    BY Sizes
  <2>3. IsFiniteSet(P) /\ Cardinality(P) <= Cardinality(Busy(t)) /\ Cardinality(P) \in Nat
    BY PendingBusy, FS_CardinalityType
  <2>4. IsFiniteSet(L) /\ Cardinality(L) \in Nat
    <3>1. L \in SUBSET lost
      BY DEF During
    <3> QED BY <3>1, Sizes, FS_Subset, FS_CardinalityType
  <2>5. Cardinality(S) + Cardinality(Busy(t)) <= MaxInWindow - 1 + Cardinality(Reqs)
    BY DEF RInv, Overlap
  <2> HIDE DEF S, P, L, D
  <2>6. /\ IsFiniteSet(S \cup P) /\ Cardinality(S \cup P) \in Nat
        /\ Cardinality(S \cup P) <= Cardinality(S) + Cardinality(P)
    <3>1. S \cap P \in SUBSET S
      OBVIOUS
    <3>2. Cardinality(S \cap P) \in Nat
      BY <2>2, <3>1, FS_Subset, FS_CardinalityType
    <3>3. /\ IsFiniteSet(S \cup P)
          /\ Cardinality(S \cup P) = Cardinality(S) + Cardinality(P) - Cardinality(S \cap P)
      BY <2>2, <2>3, FS_Union
    <3> QED BY <2>2, <2>3, <3>2, <3>3, FS_CardinalityType
  <2>7. /\ IsFiniteSet((S \cup P) \cup L)
        /\ Cardinality((S \cup P) \cup L) \in Nat
        /\ Cardinality((S \cup P) \cup L) <= Cardinality(S \cup P) + Cardinality(L)
    <3> DEFINE A == S \cup P
    <3>0. IsFiniteSet(A) /\ Cardinality(A) \in Nat
      BY <2>6
    <3> HIDE DEF A
    <3>1. A \cap L \in SUBSET L
      OBVIOUS
    <3>2. Cardinality(A \cap L) \in Nat
      BY <2>4, <3>1, FS_Subset, FS_CardinalityType
    <3>3. /\ IsFiniteSet(A \cup L)
          /\ Cardinality(A \cup L) = Cardinality(A) + Cardinality(L) - Cardinality(A \cap L)
      BY <2>4, <3>0, FS_Union
    <3>4. /\ IsFiniteSet(A \cup L) /\ Cardinality(A \cup L) \in Nat
          /\ Cardinality(A \cup L) <= Cardinality(A) + Cardinality(L)
      BY <2>4, <3>0, <3>2, <3>3, FS_CardinalityType
    <3> QED BY <3>4 DEF A
  <2>8. Cardinality(D) <= Cardinality((S \cup P) \cup L) /\ Cardinality(D) \in Nat
    BY <2>1, <2>7, FS_Subset, FS_CardinalityType
  <2>9. Cardinality(D) <= MaxInWindow + (Cardinality(Reqs) - 1) + Cardinality(L)
    BY <2>2, <2>3, <2>4, <2>5, <2>6, <2>7, <2>8, RateAssumption
  <2> QED BY <2>9 DEF D, L
<1> QED BY <1>1, LimiterInvariance, PTL

(* A device that waits out its Retry-After and a second is let through,    *)
(* unless it succeeded meanwhile or overlapping requests left more than    *)
(* MaxInWindow events: the events that refused it have not changed, time   *)
(* brings none of the others back into the window, and one has left it.    *)
THEOREM RetryAfterSuffices == Spec => []RetryAfterHonoured
<1>1. RInv => RetryAfterHonoured
  <2> SUFFICES ASSUME RInv, retry.until # 0, now >= retry.until + Second,
                      retry.count = MaxInWindow
               PROVE  Cardinality(InWindow(events, now)) < MaxInWindow
    BY DEF RetryAfterHonoured
  <2>1. PICK t \in Window..now : \E e \in InWindow(events, t) :
            /\ retry.until >= t /\ retry.until >= e.at + Window
            /\ retry.count = Cardinality(InWindow(events, t))
    BY DEF RInv, Refused
  <2>2. PICK e \in InWindow(events, t) :
            /\ retry.until >= t /\ retry.until >= e.at + Window
            /\ retry.count = Cardinality(InWindow(events, t))
    BY <2>1
  <2>3. /\ now \in Nat /\ Window \in Nat /\ Second \in Nat \ {0} /\ retry.until \in Nat
        /\ t \in Nat /\ t >= Window /\ now >= Window
        /\ \A s \in events : s.at \in Nat
    BY Facts DEF RInv, TypeOK, Counted
  <2>4. now - Window \in Nat /\ t - Window \in Nat /\ now - Window >= (t - Window) + Second
    BY <2>2, <2>3
  <2>5. Rank(now - Window) > Rank(t - Window) /\ Rank(now - Window) \in Nat /\ Rank(t - Window) \in Nat
    BY <2>4, RankOrders
  <2>6. e \in events /\ e.at \in Nat /\ now - Window >= e.at + Second
    BY <2>2, <2>3 DEF InWindow
  <2>7. Rank(now - Window) > Rank(e.at) /\ Rank(e.at) \in Nat
    BY <2>4, <2>6, RankOrders
  <2>8. InWindow(events, now) \in SUBSET (InWindow(events, t) \ {e})
    <3> SUFFICES ASSUME NEW s \in InWindow(events, now)
                 PROVE  s \in InWindow(events, t) /\ s # e
      OBVIOUS
    <3>1. s \in events /\ s.at \in Nat /\ Rank(s.at) > Rank(now - Window)
      BY <2>3 DEF InWindow
    <3>2. Rank(s.at) \in Nat
      BY <3>1, RankOrders
    <3>3. Rank(s.at) > Rank(t - Window) /\ s # e
      BY <2>5, <2>7, <3>1, <3>2
    <3> QED BY <3>1, <3>3 DEF InWindow
  <2>9. /\ IsFiniteSet(InWindow(events, t) \ {e})
        /\ Cardinality(InWindow(events, t) \ {e}) = MaxInWindow - 1
    BY <2>2, Sizes, FS_RemoveElement
  <2>10. Cardinality(InWindow(events, now)) <= MaxInWindow - 1
    BY <2>8, <2>9, FS_Subset
  <2>11. Cardinality(InWindow(events, now)) \in Nat
    BY Sizes, RateAssumption
  <2> QED BY <2>10, <2>11, RateAssumption
<1> QED BY <1>1, LimiterInvariance, PTL
=============================================================================
