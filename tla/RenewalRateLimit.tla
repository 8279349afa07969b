-------------------------- MODULE RenewalRateLimit --------------------------
(***************************************************************************)
(* The sliding-window limit on the SVIDs one identity obtains.  The        *)
(* renewal handler and the JWT-SVID exchange handler share it: they ask    *)
(* Allow, issue, and Record the success afterwards, with other requests    *)
(* for the same identity running in between.                               *)
(*                                                                         *)
(* A handler reads the clock on the line before it calls Allow, and hands  *)
(* the same instant to Record: here reading the clock and Allow's query    *)
(* are one step.  A success is a number, in order of issue.                *)
(*                                                                         *)
(* The instants are stored as RFC3339Nano text, which drops the zeros of a *)
(* fraction, and compared as text: Rank is their place in that order.      *)
(***************************************************************************)
EXTENDS Naturals, FiniteSets

CONSTANTS
    Reqs,          \* requests for the identity that can run at once
    MaxInWindow,   \* successes allowed per window
    Second,        \* the clock's ticks in a second
    TextOrder,     \* the place of a tick among those of its second, as text
    Window,        \* in ticks
    MaxTime,       \* bound on the clock
    MaxSuccesses,  \* bound on the SVIDs issued
    RecordFails    \* TRUE iff recording a success may fail

ASSUME RateAssumption ==
    /\ MaxInWindow \in Nat \ {0} /\ Second \in Nat \ {0}
    /\ Window \in Nat /\ Window > Second
    /\ MaxTime \in Nat /\ MaxTime >= Window /\ MaxSuccesses \in Nat
    /\ IsFiniteSet(Reqs)
    /\ RecordFails \in BOOLEAN

ASSUME TextOrderAssumption ==
    TextOrder \in [0 .. Second - 1 -> 0 .. Second - 1] /\ TextOrder[0] = Second - 1

VARIABLES
    now,
    req,        \* where a request is, and the instant its Allow ran at
    events,     \* renewal_events: the recorded successes
    successes,  \* history: every success, with the instant of its Allow
    lost,       \* history: the successes that were not recorded
    retry       \* when the last Retry-After ends, 0 once it is void, and
                \* the events that refused the request

vars == <<now, req, events, successes, lost, retry>>

Success == [n : 1..MaxSuccesses, at : 0..MaxTime]
Idle == [pc |-> "idle", at |-> 0, n |-> 0]

Void == [until |-> 0, count |-> 0]

(* Every variable has its type; a Retry-After ends within a window and a   *)
(* second.                                                                 *)
TypeOK ==
    /\ now \in 0..MaxTime
    /\ req \in [Reqs -> [pc : {"idle", "issue", "record"},
                         at : 0..MaxTime, n : 0..MaxSuccesses]]
    /\ events \subseteq Success /\ successes \subseteq Success
    /\ lost \subseteq successes
    /\ retry \in [until : 0 .. now + Window + Second, count : 0..MaxSuccesses]

\* The clock starts where a whole window lies behind it.
Init ==
    /\ now = Window
    /\ req = [r \in Reqs |-> Idle]
    /\ events = {} /\ successes = {} /\ lost = {}
    /\ retry = Void

\* The text order follows the time from second to second.  Within one it does
\* not: ":05Z" sorts after ":05.5Z", and ".5Z" after ".55Z".
Rank(t) == LET f == t % Second IN t - f + TextOrder[f]

\* WHERE recorded_at > now - Window
InWindow(S, t) == {s \in S : Rank(s.at) > Rank(t - Window)}

\* MIN(recorded_at), also by the text.
Earliest(S) == CHOOSE s \in S : \A x \in S : Rank(s.at) <= Rank(x.at)

\* The window of the earliest event ends then, or the text order took it for
\* a later one, and the wait is a second.
Wait(S) ==
    LET end == Earliest(S).at + Window
    IN  IF end > now THEN end - now ELSE Second

\* A faulty form of CeilSecond, for a mutation run.
FloorSecond(d) == d - (d % Second)

\* The header holds whole seconds, math.Ceil.
CeilSecond(d) == LET r == d % Second IN IF r = 0 THEN d ELSE d - r + Second

-----------------------------------------------------------------------------
(* Faulty forms of the definitions below, for mutation runs. *)

\* The prune after a success empties the table.
RecordPrunesAll(r) ==
    /\ req[r].pc = "record"
    /\ events' = {}
    /\ req' = [req EXCEPT ![r] = Idle]
    /\ retry' = Void
    /\ UNCHANGED <<now, successes, lost>>

-----------------------------------------------------------------------------
(* Allow: the request has been authenticated and parsed. *)
Allow(r) ==
    /\ req[r] = Idle
    /\ Cardinality(InWindow(events, now)) < MaxInWindow
    /\ req' = [req EXCEPT ![r] = [pc |-> "issue", at |-> now, n |-> 0]]
    /\ UNCHANGED <<now, events, successes, lost, retry>>

(* 429 with a Retry-After up to the end of the earliest event's window. *)
Refuse(r) ==
    /\ req[r] = Idle
    /\ Cardinality(InWindow(events, now)) >= MaxInWindow
    /\ retry' = [until |-> now + CeilSecond(Wait(InWindow(events, now))),
                 count |-> Cardinality(InWindow(events, now))]
    /\ UNCHANGED <<now, req, events, successes, lost>>

(* Service.Renew or Service.IssueJWTSVID; its failure consumes no budget. *)
Issue(r) ==
    /\ req[r].pc = "issue"
    /\ LET n == Cardinality(successes) + 1 IN
       /\ n <= MaxSuccesses
       /\ successes' = successes \cup {[n |-> n, at |-> req[r].at]}
       /\ req' = [req EXCEPT ![r].pc = "record", ![r].n = n]
    /\ UNCHANGED <<now, events, lost, retry>>

IssueFails(r) ==
    /\ req[r].pc = "issue"
    /\ req' = [req EXCEPT ![r] = Idle]
    /\ UNCHANGED <<now, events, successes, lost, retry>>

(* The INSERT, and the prune of what has left the window, whose error is   *)
(* ignored.                                                                *)
Record(r) ==
    /\ req[r].pc = "record"
    /\ LET E == events \cup {[n |-> req[r].n, at |-> req[r].at]} IN
       \/ events' = InWindow(E, req[r].at)
       \/ RecordFails /\ events' = E
    /\ req' = [req EXCEPT ![r] = Idle]
    /\ retry' = Void
    /\ UNCHANGED <<now, successes, lost>>

(* The error of Record is logged and the response sent: a store error, or  *)
(* a device that went away and so cancelled the request's context.         *)
RecordError(r) ==
    /\ RecordFails
    /\ req[r].pc = "record"
    /\ lost' = lost \cup {[n |-> req[r].n, at |-> req[r].at]}
    /\ req' = [req EXCEPT ![r] = Idle]
    /\ retry' = Void
    /\ UNCHANGED <<now, events, successes>>

Tick ==
    /\ now < MaxTime
    /\ now' = now + 1
    /\ UNCHANGED <<req, events, successes, lost, retry>>

Next ==
    \/ \E r \in Reqs :
        \/ Allow(r) \/ Refuse(r)
        \/ Issue(r) \/ IssueFails(r)
        \/ Record(r) \/ RecordError(r)
    \/ Tick

Spec == Init /\ [][Next]_vars

-----------------------------------------------------------------------------
\* The members of S in the window that ends at t, less the second by which
\* the text order may bring its far end forward.
During(S, t) == {s \in S : s.at <= t /\ s.at + Window >= t + Second}

(* However requests overlap, a window shortened by a second has at most    *)
(* MaxInWindow successes, one more for every further request that can be   *)
(* between Allow and Record, and one more for every success that could not *)
(* be recorded.                                                            *)
OverlapBounded ==
    \A t \in Window..MaxTime :
        Cardinality(During(successes, t))
            <= MaxInWindow + (Cardinality(Reqs) - 1)
               + Cardinality(During(lost, t))

(* A device that waits out its Retry-After, and the second the text order  *)
(* may add, is let through, unless another of its requests succeeded in    *)
(* the meantime, or overlapping requests left more than MaxInWindow        *)
(* events, of which the wait sees off only the earliest.                   *)
RetryAfterHonoured ==
    /\ retry.until # 0 /\ now >= retry.until + Second
    /\ retry.count = MaxInWindow
    => Cardinality(InWindow(events, now)) < MaxInWindow
=============================================================================
