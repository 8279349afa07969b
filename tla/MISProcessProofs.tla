-------------------------- MODULE MISProcessProofs --------------------------
(***************************************************************************)
(* For any number of requests, any shift and any number of processes one   *)
(* after the other: no serial is used twice, and a process that ends with  *)
(* status 0 was asked to and let one of its servers finish.                *)
(***************************************************************************)
EXTENDS MISProcess, FiniteSetTheorems, TLAPS

Request == [on : Servers \cup {"none"},
            pc : {"idle", "work", "cas", "add", "load"},
            at : 0..MaxTime, n : Nat]

(* TypeOK, by what its parts are about. *)
ProcessTyped ==
    /\ main \in {"down", "serving", "closing"} /\ ctx \in BOOLEAN
    /\ status \in Ends \cup {"none"} /\ cut \subseteq Servers

ServersTyped ==
    /\ srv \in [Servers -> {"off", "serving", "draining", "ended"}]
    /\ errCh \in Seq(Ends) /\ Len(errCh) <= Cardinality(Servers)

RequestsTyped == req \in [Reqs -> Request]

SerialsTyped ==
    /\ now \in 0..MaxTime /\ base \in 0..now /\ n \in Nat
    /\ issued \subseteq Nat /\ count \in Nat

LEMMA TypeParts ==
    TypeOK <=> ProcessTyped /\ ServersTyped /\ RequestsTyped /\ SerialsTyped
  BY Zenon DEF TypeOK, ProcessTyped, ServersTyped, RequestsTyped, SerialsTyped, Request

-----------------------------------------------------------------------------
(* The servers. *)

EndedServers ==
    (IF srv["api"] = "ended" THEN 1 ELSE 0) + (IF srv["admin"] = "ended" THEN 1 ELSE 0)

(* Every server that ended has said so, once; a server drains because of   *)
(* the signal, or because run is returning; and when the first to end was  *)
(* drained, it still has no request, since a server that ended accepts     *)
(* none.                                                                   *)
ServersInv ==
    /\ main = "down" => /\ \A s \in Servers : srv[s] = "off"
                        /\ \A r \in Reqs : req[r] = NoReq
    /\ main # "down" => Len(errCh) = EndedServers
    /\ main = "closing" => errCh # <<>>
    /\ \A s \in Servers : srv[s] = "draining" => ctx \/ main = "closing"
    /\ main # "down" /\ errCh # <<>> /\ Head(errCh) = "ok" =>
        ctx /\ \E s \in Servers : srv[s] = "ended" /\ On(s) = {}

-----------------------------------------------------------------------------
(* The serials. *)

(* m was taken from the counter, and no request is going to use it. *)
Spent(m) == m \in 1..n /\ \A r \in Reqs : req[r].pc = "load" => req[r].n # m

(* A process with a base: what was signed is below the base, or made of    *)
(* the base and a number of the counter that is spent.                     *)
SignedBelow ==
    base # 0 => \A s \in issued :
        s <= base * Shift \/ \E m \in 1..n : s = base * Shift + m /\ Spent(m)

(* A process that has no base yet will take one above everything signed    *)
(* before it.                                                              *)
NoBaseYet ==
    base = 0 => /\ n = 0
                /\ \A r \in Reqs : req[r].pc \notin {"add", "load"}
                /\ main # "down" => \A s \in issued : s <= Shift * now

(* The instants that compete for the base, and the numbers taken.          *)
Taken ==
    /\ \A r \in Reqs : req[r].pc = "cas" =>
        /\ req[r].at \in 1..now
        /\ base = 0 => \A s \in issued : s <= Shift * req[r].at
    /\ \A r \in Reqs : req[r].pc = "load" => req[r].n \in 1..n
    /\ \A r, q \in Reqs :
        req[r].pc = "load" /\ req[q].pc = "load" /\ r # q => req[r].n # req[q].n

(* The clock runs ahead of the serials. *)
ClockAhead ==
    /\ main # "down" => now >= 1
    /\ n <= Shift * (now - base + 1)
    /\ \A s \in issued : s <= Shift * (now + 1)

SerialsInv ==
    /\ SignedBelow /\ NoBaseYet /\ Taken /\ ClockAhead
    /\ IsFiniteSet(issued) /\ SerialsUnique

MInv == TypeOK /\ ServersInv /\ SerialsInv /\ CleanExit

LEMMA TwoServers == Cardinality(Servers) = 2 /\ "api" \in Servers /\ "admin" \in Servers
<1>1. Servers = {"api"} \cup {"admin"} /\ "admin" \notin {"api"}
  BY DEF Servers
<1>2. IsFiniteSet({"api"}) /\ Cardinality({"api"}) = 1
  BY FS_Singleton
<1> QED
  BY <1>1, <1>2, FS_AddElement

LEMMA InitMInv == Init => MInv
<1> SUFFICES ASSUME Init PROVE MInv
  OBVIOUS
<1>1. ProcessTyped
  BY Zenon DEF Init, ProcessTyped
<1>2. ServersTyped
  BY TwoServers DEF Init, ServersTyped
<1>3. RequestsTyped /\ SerialsTyped
  BY ProcessAssumption DEF Init, RequestsTyped, SerialsTyped, Request, NoReq
<1>4. ServersInv
  BY DEF Init, ServersInv
<1>5. SerialsInv
  <2>1. Shift \in Nat
    BY ProcessAssumption
  <2>2. SignedBelow /\ NoBaseYet /\ Taken
    BY DEF Init, SignedBelow, NoBaseYet, Taken, NoReq
  <2>3. ClockAhead
    BY <2>1 DEF Init, ClockAhead
  <2>4. IsFiniteSet(issued) /\ SerialsUnique
    BY FS_EmptySet DEF Init, SerialsUnique
  <2> QED
    BY <2>2, <2>3, <2>4 DEF SerialsInv
<1>6. CleanExit
  BY DEF Init, CleanExit
<1> QED
  BY <1>1, <1>2, <1>3, <1>4, <1>5, <1>6, TypeParts DEF MInv

-----------------------------------------------------------------------------
(* The steps, by what they leave alone. *)

ServerStep == \E s \in Servers :
    ListenerFails(s) \/ Drain(s) \/ Drained(s) \/ DrainTimesOut(s)

RequestStep == \E r \in Reqs :
    \/ \E s \in Servers : Accept(r, s)
    \/ Finish(r) \/ LoadBase(r) \/ CompareAndSwap(r) \/ AddN(r) \/ LoadAndSign(r)

LEMMA StepKinds ==
    [Next]_vars => \/ Start \/ StartFails \/ Signal \/ FirstEnd \/ Tick
                   \/ Exit \/ Killed \/ ServerStep \/ RequestStep \/ UNCHANGED vars
  BY DEF Next, ServerStep, RequestStep

(* A server ends once: there is room for what it returns. *)
LEMMA ServersNext ==
  ASSUME TypeOK, ServersInv, [Next]_vars
  PROVE  ServersTyped'
<1>a. ServersTyped
  BY TypeParts
<1>1. ASSUME NEW s \in Servers, srv[s] # "ended", main # "down", NEW end \in Ends, Returns(s, end)
      PROVE  ServersTyped'
  <2>1. Len(errCh) = EndedServers /\ Len(errCh) \in Nat
    BY <1>1, <1>a DEF ServersInv, ServersTyped
  <2>2. EndedServers <= 1
    BY <1>1 DEF EndedServers, Servers
  <2>3. Len(errCh) + 1 <= Cardinality(Servers)
    BY <2>1, <2>2, TwoServers
  <2> QED
    BY <2>1, <2>3, <1>1, <1>a DEF Returns, ServersTyped
<1>2. CASE ServerStep
  <2> SUFFICES ASSUME NEW s \in Servers,
                      ListenerFails(s) \/ Drain(s) \/ Drained(s) \/ DrainTimesOut(s)
               PROVE  ServersTyped'
    BY <1>2 DEF ServerStep
  <2>1. "ok" \in Ends /\ "error" \in Ends
    BY DEF Ends
  <2>2. srv[s] = "draining" => main # "down"
    BY DEF ServersInv
  <2>3. CASE Drain(s)
    BY <2>3, <1>a DEF Drain, ServersTyped
  <2>4. CASE ListenerFails(s) \/ Drained(s) \/ DrainTimesOut(s)
    BY <2>1, <2>2, <2>4, <1>1 DEF ListenerFails, Drained, DrainTimesOut
  <2> QED
    BY <2>3, <2>4
<1>3. CASE Start
  BY <1>3, TwoServers DEF Start, ServersTyped
<1>4. CASE Exit \/ Killed
  BY <1>4, <1>a DEF Exit, Killed, Gone, ServersTyped
<1>5. CASE UNCHANGED <<srv, errCh>>
  BY <1>5, <1>a DEF ServersTyped
<1> QED
  BY <1>2, <1>3, <1>4, <1>5, StepKinds DEF StartFails, Signal, FirstEnd, Tick, RequestStep, Accept,
     Finish, LoadBase, CompareAndSwap, AddN, LoadAndSign, procVars, vars

(* What the steps of a request write keeps its type. *)
LEMMA RequestUpdates ==
  ASSUME RequestsTyped, NEW r \in Reqs,
         NEW p \in {"idle", "work", "cas", "add", "load"}, NEW t \in 0..MaxTime, NEW m \in Nat
  PROVE  /\ [req EXCEPT ![r].pc = p] \in [Reqs -> Request]
         /\ [req EXCEPT ![r].pc = p, ![r].at = t] \in [Reqs -> Request]
         /\ [req EXCEPT ![r].pc = p, ![r].n = m] \in [Reqs -> Request]
<1>1. /\ [req[r] EXCEPT !.pc = p] \in Request
      /\ [req[r] EXCEPT !.pc = p, !.at = t] \in Request
      /\ [req[r] EXCEPT !.pc = p, !.n = m] \in Request
  BY DEF RequestsTyped, Request
<1>2. /\ [req EXCEPT ![r].pc = p] = [req EXCEPT ![r] = [req[r] EXCEPT !.pc = p]]
      /\ [req EXCEPT ![r].pc = p, ![r].at = t]
            = [req EXCEPT ![r] = [req[r] EXCEPT !.pc = p, !.at = t]]
      /\ [req EXCEPT ![r].pc = p, ![r].n = m]
            = [req EXCEPT ![r] = [req[r] EXCEPT !.pc = p, !.n = m]]
  BY DEF RequestsTyped
<1> QED
  BY <1>1, <1>2 DEF RequestsTyped

LEMMA NextTypeOK ==
  ASSUME TypeOK, ServersInv, Taken, [Next]_vars
  PROVE  TypeOK'
<1>a. ProcessTyped /\ ServersTyped /\ RequestsTyped /\ SerialsTyped
  BY TypeParts
<1>b. /\ MaxTime \in Nat /\ now \in Nat /\ now <= MaxTime /\ base \in Nat /\ n \in Nat
      /\ Shift \in Nat /\ NoReq \in Request
  BY <1>a, ProcessAssumption DEF SerialsTyped, NoReq, Request
<1>c. ServersTyped'
  BY ServersNext
<1>p. ASSUME ProcessTyped', RequestsTyped', SerialsTyped' PROVE TypeOK'
  BY <1>p, <1>c, Zenon DEF TypeOK, ProcessTyped, ServersTyped, RequestsTyped, SerialsTyped, Request
<1>1. CASE Start \/ Tick
  <2>1. ProcessTyped'
    BY <1>1, <1>a, Zenon DEF Start, Tick, procVars, ProcessTyped
  <2>2. RequestsTyped'
    BY <1>1, <1>a DEF Start, Tick, RequestsTyped
  <2>3. SerialsTyped'
    <3>1. now' \in Nat /\ now' <= MaxTime /\ base' \in Nat /\ base' <= now'
      BY <1>1, <1>a, <1>b DEF Start, Tick, serialVars, SerialsTyped
    <3>2. n' \in Nat /\ UNCHANGED <<issued, count>>
      BY <1>1, <1>b DEF Start, Tick, serialVars
    <3> QED
      BY <3>1, <3>2, <1>a, <1>b DEF SerialsTyped
  <2> QED
    BY <2>1, <2>2, <2>3, <1>p
<1>2. CASE StartFails \/ Signal \/ FirstEnd
  <2>1. ProcessTyped'
    BY <1>2, <1>a, Zenon DEF StartFails, Signal, FirstEnd, ProcessTyped, Ends
  <2>2. RequestsTyped' /\ SerialsTyped'
    BY <1>2, <1>a DEF StartFails, Signal, FirstEnd, serialVars, RequestsTyped, SerialsTyped
  <2> QED
    BY <2>1, <2>2, <1>p
<1>3. ASSUME NEW end \in Ends, Gone(end) PROVE TypeOK'
  <2>1. ProcessTyped'
    <3>1. cut' \subseteq Servers
      BY <1>3 DEF Gone
    <3> QED
      BY <3>1, <1>3, <1>a, Zenon DEF Gone, ProcessTyped
  <2>2. RequestsTyped' /\ SerialsTyped'
    BY <1>3, <1>a, <1>b DEF Gone, serialVars, RequestsTyped, SerialsTyped
  <2> QED
    BY <2>1, <2>2, <1>p
<1>4. CASE Exit \/ Killed
  <2>1. Killed => Gone("error") /\ "error" \in Ends
    BY DEF Killed, Ends
  <2>2. Exit => Gone(Head(errCh)) /\ Head(errCh) \in Ends
    BY <1>a DEF Exit, ServersInv, ServersTyped
  <2> QED
    BY <2>1, <2>2, <1>3, <1>4
<1>5. CASE ServerStep
  <2>1. ProcessTyped'
    BY <1>5, <1>a, Zenon DEF ServerStep, ListenerFails, Drain, Drained, DrainTimesOut, Returns,
       ProcessTyped
  <2>2. RequestsTyped' /\ SerialsTyped'
    BY <1>5, <1>a DEF ServerStep, ListenerFails, Drain, Drained, DrainTimesOut, Returns,
       serialVars, RequestsTyped, SerialsTyped
  <2> QED
    BY <2>1, <2>2, <1>p
<1>6. CASE RequestStep
  <2>1. ProcessTyped'
    BY <1>6, <1>a, Zenon DEF RequestStep, Accept, Finish, LoadBase, CompareAndSwap, AddN,
       LoadAndSign, procVars, ProcessTyped
  <2>2. PICK r \in Reqs :
            \/ \E s \in Servers : Accept(r, s)
            \/ Finish(r) \/ LoadBase(r) \/ CompareAndSwap(r) \/ AddN(r) \/ LoadAndSign(r)
    BY <1>6 DEF RequestStep
  <2>3. RequestsTyped'
    <3>1. ASSUME NEW s \in Servers, Accept(r, s) PROVE RequestsTyped'
      BY <3>1, <1>a DEF Accept, RequestsTyped, Request
    <3>2. CASE Finish(r)
      BY <3>2, <1>a, <1>b DEF Finish, RequestsTyped
    <3>3. CASE LoadBase(r)
      <4>1. now \in 0..MaxTime
        BY <1>b
      <4> QED
        BY <3>3, <4>1, <1>a, RequestUpdates DEF LoadBase, RequestsTyped
    <3>4. CASE CompareAndSwap(r)
      <4>1. 0 \in 0..MaxTime
        BY <1>b
      <4> QED
        BY <3>4, <4>1, <1>a, RequestUpdates DEF CompareAndSwap, RequestsTyped
    <3>5. CASE AddN(r)
      <4>1. n + 1 \in Nat /\ 0 \in 0..MaxTime
        BY <1>b
      <4>2. req' = [req EXCEPT ![r].pc = "load", ![r].n = n + 1]
        BY <3>5 DEF AddN
      <4> QED
        BY <4>1, <4>2, <1>a, RequestUpdates DEF RequestsTyped
    <3>6. CASE LoadAndSign(r)
      BY <3>6, <1>a, <1>b DEF LoadAndSign, RequestsTyped
    <3> QED
      BY <2>2, <3>1, <3>2, <3>3, <3>4, <3>5, <3>6
  <2>4. SerialsTyped'
    <3>1. CASE CompareAndSwap(r)
      BY <3>1, <1>a, <1>b DEF CompareAndSwap, Taken, SerialsTyped
    <3>2. CASE AddN(r)
      BY <3>2, <1>a, <1>b DEF AddN, SerialsTyped
    <3>3. CASE LoadAndSign(r)
      <4>1. req[r].n \in Nat
        BY <1>a DEF RequestsTyped, Request
      <4> DEFINE serial == base * Shift + req[r].n
      <4>2. serial \in Nat
        BY <4>1, <1>b
      <4>3. issued' = issued \cup {serial} /\ count' = count + 1 /\ UNCHANGED <<now, base, n>>
        BY <3>3 DEF LoadAndSign
      <4> HIDE DEF serial
      <4> QED
        BY <4>2, <4>3, <1>a DEF SerialsTyped
    <3>4. CASE UNCHANGED <<now, serialVars>>
      BY <3>4, <1>a DEF serialVars, SerialsTyped
    <3> QED
      BY <2>2, <3>1, <3>2, <3>3, <3>4 DEF Accept, Finish, LoadBase
  <2> QED
    BY <2>1, <2>3, <2>4, <1>p
<1>7. CASE UNCHANGED vars
  BY <1>7, Zenon DEF vars, procVars, serialVars, TypeOK
<1> QED
  BY <1>1, <1>2, <1>4, <1>5, <1>6, <1>7, StepKinds

(* A server that has ended and has no request gets none. *)
LEMMA EndedStaysEmpty ==
  ASSUME TypeOK, RequestStep, NEW s \in Servers, srv[s] = "ended", On(s) = {}
  PROVE  On(s)' = {}
<1>1. \A r \in Reqs : req[r].on # s
  BY DEF On
<1>2. req \in [Reqs -> Request] /\ s # "none"
  BY TypeParts DEF RequestsTyped, Servers
<1>3. PICK r \in Reqs :
        \/ \E t \in Servers : Accept(r, t)
        \/ Finish(r) \/ LoadBase(r) \/ CompareAndSwap(r) \/ AddN(r) \/ LoadAndSign(r)
  BY DEF RequestStep
<1>4. \A q \in Reqs : q # r => req'[q] = req[q]
  BY <1>2, <1>3 DEF Accept, Finish, LoadBase, CompareAndSwap, AddN, LoadAndSign
<1>5. req'[r].on # s
  <2>1. ASSUME NEW t \in Servers, Accept(r, t) PROVE req'[r].on # s
    <3>1. t # s
      BY <2>1 DEF Accept
    <3> QED
      BY <2>1, <3>1, <1>2 DEF Accept, Request
  <2>2. CASE Finish(r) \/ LoadAndSign(r)
    BY <2>2, <1>2 DEF Finish, LoadAndSign, NoReq
  <2>3. CASE LoadBase(r) \/ CompareAndSwap(r) \/ AddN(r)
    <3>1. req'[r].on = req[r].on
      <4>1. CASE LoadBase(r)
        BY <4>1, <1>2 DEF LoadBase, Request
      <4>2. CASE CompareAndSwap(r)
        BY <4>2, <1>2 DEF CompareAndSwap, Request
      <4>3. CASE AddN(r)
        <5>1. req' = [req EXCEPT ![r].pc = "load", ![r].n = n + 1]
          BY <4>3 DEF AddN
        <5> QED
          BY <5>1, <1>2 DEF Request
      <4> QED
        BY <2>3, <4>1, <4>2, <4>3
    <3> QED
      BY <3>1, <1>1
  <2> QED
    BY <1>3, <2>1, <2>2, <2>3
<1> QED
  BY <1>1, <1>4, <1>5 DEF On

(* No request is in flight in a process that is gone. *)
LEMMA DownHasNoRequest ==
  ASSUME TypeOK, ServersInv, RequestStep
  PROVE  main # "down" /\ UNCHANGED procVars
<1>1. UNCHANGED procVars
  BY DEF RequestStep, Accept, Finish, LoadBase, CompareAndSwap, AddN, LoadAndSign
<1>2. ASSUME main = "down" PROVE FALSE
  <2>1. \A r \in Reqs : req[r] = NoReq /\ req[r].pc = "idle"
    BY <1>2 DEF ServersInv, NoReq
  <2>2. \A r \in Reqs, s \in Servers : ~Accept(r, s)
    BY <1>2 DEF Accept
  <2> QED
    BY <2>1, <2>2 DEF RequestStep, Finish, LoadBase, CompareAndSwap, AddN, LoadAndSign
<1> QED
  BY <1>1, <1>2

LEMMA NextServersInv ==
  ASSUME TypeOK, ServersInv, [Next]_vars
  PROVE  ServersInv'
<1>a. /\ srv \in [Servers -> {"off", "serving", "draining", "ended"}]
      /\ errCh \in Seq(Ends) /\ Len(errCh) \in Nat
  BY DEF TypeOK
<1>1. CASE Start
  BY <1>1 DEF Start, ServersInv, EndedServers, Servers
<1>2. CASE StartFails
  BY <1>2 DEF StartFails, ServersInv, EndedServers, On, serialVars
<1>3. CASE Signal
  BY <1>3 DEF Signal, ServersInv, EndedServers, On, serialVars
<1>4. CASE FirstEnd
  BY <1>4 DEF FirstEnd, ServersInv, EndedServers, On, serialVars
<1>5. CASE Exit \/ Killed
  BY <1>5 DEF Exit, Killed, Gone, ServersInv
<1>6. CASE Tick \/ UNCHANGED vars
  BY <1>6 DEF Tick, vars, procVars, ServersInv, EndedServers, On
<1>7. CASE ServerStep
  <2> SUFFICES ASSUME NEW s \in Servers,
                      ListenerFails(s) \/ Drain(s) \/ Drained(s) \/ DrainTimesOut(s)
               PROVE  ServersInv'
    BY <1>7 DEF ServerStep
  <2>1. CASE Drain(s)
    BY <2>1, <1>a DEF Drain, ServersInv, EndedServers, On, serialVars
  <2>2. ASSUME NEW end \in Ends, Returns(s, end), srv[s] \in {"serving", "draining"}, main # "down",
               end = "ok" => (ctx \/ main = "closing") /\ On(s) = {}
        PROVE  ServersInv'
    <3>1. /\ srv' = [srv EXCEPT ![s] = "ended"] /\ errCh' = Append(errCh, end)
          /\ UNCHANGED <<main, ctx, req>>
      BY <2>2 DEF Returns
    <3>2. Len(errCh') = Len(errCh) + 1 /\ errCh' # <<>>
      BY <3>1, <1>a
    <3>3. EndedServers' = EndedServers + 1
      BY <3>1, <2>2, <1>a DEF EndedServers, Servers
    <3>4. \A t \in Servers : On(t)' = On(t)
      BY <3>1 DEF On
    <3>5. Head(errCh') = IF errCh = <<>> THEN end ELSE Head(errCh)
      BY <3>1, <1>a
    <3>6. Head(errCh') = "ok" => ctx /\ \E t \in Servers : srv'[t] = "ended" /\ On(t)' = {}
      <4>1. CASE errCh = <<>>
        BY <4>1, <3>1, <3>4, <3>5, <2>2, <1>a DEF ServersInv
      <4>2. CASE errCh # <<>>
        BY <4>2, <3>1, <3>4, <3>5, <2>2, <1>a DEF ServersInv
      <4> QED
        BY <4>1, <4>2
    <3>7. \A t \in Servers : srv'[t] = "draining" => (ctx \/ main = "closing")'
      BY <3>1, <1>a DEF ServersInv
    <3> QED
      BY <3>1, <3>2, <3>3, <3>6, <3>7, <2>2, <1>a DEF ServersInv
  <2>3. "ok" \in Ends /\ "error" \in Ends /\ "ok" # "error"
    BY DEF Ends
  <2>4. srv[s] = "draining" => main # "down" /\ (ctx \/ main = "closing")
    BY DEF ServersInv
  <2>5. CASE ListenerFails(s)
    BY <2>5, <2>2, <2>3 DEF ListenerFails
  <2>6. CASE Drained(s)
    BY <2>6, <2>2, <2>3, <2>4 DEF Drained
  <2>7. CASE DrainTimesOut(s)
    BY <2>7, <2>2, <2>3, <2>4 DEF DrainTimesOut
  <2> QED
    BY <2>1, <2>5, <2>6, <2>7
<1>8. CASE RequestStep
  <2>1. main # "down" /\ UNCHANGED <<main, ctx, srv, errCh>>
    BY <1>8, DownHasNoRequest DEF procVars
  <2>2. \A s \in Servers : srv[s] = "ended" /\ On(s) = {} => On(s)' = {}
    BY <1>8, EndedStaysEmpty
  <2> QED
    BY <2>1, <2>2 DEF ServersInv, EndedServers
<1> QED
  BY <1>1, <1>2, <1>3, <1>4, <1>5, <1>6, <1>7, <1>8, StepKinds

(* The status of a process is that of the server that ended first. *)
LEMMA NextCleanExit ==
  ASSUME TypeOK, ServersInv, CleanExit, [Next]_vars
  PROVE  CleanExit'
<1>1. CASE Exit
  <2>1. /\ status' = Head(errCh) /\ cut' = {s \in Servers : On(s) # {}} /\ UNCHANGED ctx
        /\ main # "down" /\ errCh # <<>>
    BY <1>1 DEF Exit, Gone, ServersInv
  <2>2. status' = "ok" => ctx /\ \E s \in Servers : On(s) = {}
    BY <2>1 DEF ServersInv
  <2> QED
    BY <2>1, <2>2 DEF CleanExit
<1>2. CASE Killed \/ Start \/ StartFails
  BY <1>2 DEF Killed, Gone, Start, StartFails, CleanExit
<1>3. CASE Signal
  BY <1>3 DEF Signal, CleanExit
<1>4. CASE UNCHANGED <<ctx, status, cut>>
  BY <1>4 DEF CleanExit
<1> QED
  BY <1>1, <1>2, <1>3, <1>4, StepKinds DEF FirstEnd, Tick, ServerStep, ListenerFails, Drain, Drained,
     DrainTimesOut, Returns, RequestStep, Accept, Finish, LoadBase, CompareAndSwap, AddN,
     LoadAndSign, procVars, vars

-----------------------------------------------------------------------------
(* Multiplication by the shift, the only products in the model. *)
LEMMA ShiftProducts ==
  ASSUME NEW a \in Nat, NEW b \in Nat
  PROVE  /\ Shift * a \in Nat /\ a * Shift = Shift * a
         /\ a <= b => Shift * a <= Shift * b
         /\ a <= b => Shift * (b - a + 1) \in Nat
         /\ a <= b => a * Shift + Shift * (b - a + 1) = Shift * (b + 1)
<1>1. Shift \in Nat
  BY ProcessAssumption
<1>2. Shift * a \in Nat /\ a * Shift = Shift * a
  BY <1>1
<1>3. a <= b => Shift * a <= Shift * b
  BY <1>1
<1>4. a <= b => Shift * (b - a + 1) \in Nat
  BY <1>1
<1>5. a <= b => a * Shift + Shift * (b - a + 1) = Shift * (b + 1)
  BY <1>1
<1> QED
  BY <1>2, <1>3, <1>4, <1>5

(* A request that leaves the counter alone and does not take a number. *)
LEMMA SpentStays ==
  ASSUME NEW m, Spent(m), UNCHANGED n,
         \A r \in Reqs : req'[r].pc = "load" => req'[r] = req[r]
  PROVE  Spent(m)'
  BY DEF Spent

(* A step that leaves the counter, the base and what was signed alone, and *)
(* moves no request up to the base or the counter.                         *)
LEMMA SerialsStay ==
  ASSUME SerialsInv, UNCHANGED <<now, serialVars>>, main' = "down" \/ (main # "down" /\ main' # "down"),
         \A r \in Reqs : req'[r].pc \in {"cas", "add", "load"} => req'[r] = req[r]
  PROVE  SerialsInv'
<1> USE DEF serialVars
<1>1. SignedBelow'
  <2> SUFFICES ASSUME base # 0, NEW s \in issued, ~(s <= base * Shift)
               PROVE  \E m \in 1..n : s = base * Shift + m /\ Spent(m)'
    BY DEF SignedBelow
  <2>1. PICK m \in 1..n : s = base * Shift + m /\ Spent(m)
    BY DEF SerialsInv, SignedBelow
  <2>2. Spent(m)'
    BY <2>1, SpentStays
  <2> QED
    BY <2>1, <2>2
<1>2. NoBaseYet'
  BY DEF SerialsInv, NoBaseYet
<1>3. Taken'
  BY DEF SerialsInv, Taken
<1>4. ClockAhead'
  BY DEF SerialsInv, ClockAhead
<1> QED
  BY <1>1, <1>2, <1>3, <1>4 DEF SerialsInv, SerialsUnique

LEMMA SerialsStart ==
  ASSUME TypeOK, ServersInv, SerialsInv, Start
  PROVE  SerialsInv'
<1>a. now \in Nat /\ Shift \in Nat /\ issued \subseteq Nat
  BY ProcessAssumption DEF TypeOK
<1>b. /\ now' = now + 1 /\ base' = 0 /\ n' = 0 /\ UNCHANGED <<issued, count>>
      /\ \A r \in Reqs : req'[r].pc = "idle"
  BY DEF Start, ServersInv, NoReq
<1>1. \A s \in issued : s <= Shift * (now + 1)
  BY DEF SerialsInv, ClockAhead
<1>2. SignedBelow' /\ Taken'
  BY <1>b DEF SignedBelow, Taken
<1>3. NoBaseYet'
  BY <1>1, <1>b DEF NoBaseYet
<1>4. ClockAhead'
  <2>1. Shift * (now + 1) <= Shift * (now + 2) /\ Shift * (now + 2) \in Nat /\ Shift * (now + 1) \in Nat
    BY <1>a
  <2>2. \A s \in issued : s <= Shift * (now + 2)
    BY <2>1, <1>1, <1>a
  <2>3. now' + 1 = now + 2 /\ now' - base' + 1 = now + 2
    BY <1>a, <1>b
  <2> QED
    BY <2>1, <2>2, <2>3, <1>a, <1>b DEF ClockAhead
<1> QED
  BY <1>2, <1>3, <1>4, <1>b DEF SerialsInv, SerialsUnique

LEMMA SerialsTick ==
  ASSUME TypeOK, SerialsInv, Tick
  PROVE  SerialsInv'
<1>a. now \in Nat /\ base \in Nat /\ base <= now /\ Shift \in Nat /\ issued \subseteq Nat /\ n \in Nat
  BY ProcessAssumption DEF TypeOK
<1>b. now' = now + 1 /\ UNCHANGED <<base, n, issued, count, req, main>>
  BY DEF Tick, procVars, serialVars
<1>1. SignedBelow'
  BY <1>b DEF SerialsInv, SignedBelow, Spent
<1>2. /\ Shift * now <= Shift * (now + 1) /\ Shift * (now + 1) <= Shift * (now + 2)
      /\ Shift * now \in Nat /\ Shift * (now + 1) \in Nat /\ Shift * (now + 2) \in Nat
      /\ Shift * (now - base + 1) \in Nat /\ Shift * (now - base + 2) \in Nat
      /\ Shift * (now - base + 1) <= Shift * (now - base + 2)
  BY <1>a
<1>3. NoBaseYet'
  BY <1>a, <1>b, <1>2 DEF SerialsInv, NoBaseYet
<1>4. Taken'
  BY <1>a, <1>b DEF SerialsInv, Taken
<1>5. ClockAhead'
  <2>1. now' + 1 = now + 2 /\ now' - base' + 1 = now - base + 2
    BY <1>a, <1>b
  <2>2. n <= Shift * (now - base + 2) /\ \A s \in issued : s <= Shift * (now + 2)
    BY <1>a, <1>2 DEF SerialsInv, ClockAhead
  <2> QED
    BY <2>1, <2>2, <1>a, <1>b DEF SerialsInv, ClockAhead
<1> QED
  BY <1>1, <1>3, <1>4, <1>5, <1>b DEF SerialsInv, SerialsUnique

(* A request that found no base yet takes an instant that is above all     *)
(* that was signed before the process started.                             *)
LEMMA SerialsLoadBase ==
  ASSUME TypeOK, ServersInv, SerialsInv, NEW r \in Reqs, LoadBase(r)
  PROVE  SerialsInv'
<1>a. req \in [Reqs -> Request] /\ now \in Nat
  BY TypeParts DEF RequestsTyped, SerialsTyped
<1>b. main # "down" /\ UNCHANGED <<now, main, base, n, issued, count>>
  BY DownHasNoRequest DEF LoadBase, RequestStep, procVars, serialVars
<1>c. now \in 1..now
  BY <1>a, <1>b DEF SerialsInv, ClockAhead
<1>1. /\ \A q \in Reqs : q # r => req'[q] = req[q]
      /\ base = 0 => req'[r].pc = "cas" /\ req'[r].at = now
      /\ base # 0 => req'[r].pc = "add"
  BY <1>a DEF LoadBase, Request
<1>2. \A q \in Reqs : req'[q].pc = "load" => req'[q] = req[q]
  BY <1>1
<1>3. SignedBelow'
  <2> SUFFICES ASSUME base # 0, NEW s \in issued, ~(s <= base * Shift)
               PROVE  \E m \in 1..n : s = base * Shift + m /\ Spent(m)'
    BY <1>b DEF SignedBelow
  <2>1. PICK m \in 1..n : s = base * Shift + m /\ Spent(m)
    BY DEF SerialsInv, SignedBelow
  <2> QED
    BY <2>1, <1>2, <1>b, SpentStays
<1>4. NoBaseYet'
  BY <1>1, <1>b DEF SerialsInv, NoBaseYet
<1>5. Taken'
  <2>1. ASSUME NEW q \in Reqs, req'[q].pc = "cas"
        PROVE  req'[q].at \in 1..now /\ (base = 0 => \A s \in issued : s <= Shift * req'[q].at)
    <3>1. CASE q = r
      BY <3>1, <2>1, <1>1, <1>b, <1>c DEF SerialsInv, NoBaseYet
    <3>2. CASE q # r
      BY <3>2, <2>1, <1>1 DEF SerialsInv, Taken
    <3> QED
      BY <3>1, <3>2
  <2> QED
    BY <2>1, <1>2, <1>b DEF SerialsInv, Taken
<1>6. ClockAhead'
  BY <1>b DEF SerialsInv, ClockAhead
<1> QED
  BY <1>3, <1>4, <1>5, <1>6, <1>b DEF SerialsInv, SerialsUnique

(* The first instant that is swapped in becomes the base; it is above all  *)
(* that was signed, and later ones are dropped.                            *)
LEMMA SerialsCompareAndSwap ==
  ASSUME TypeOK, ServersInv, SerialsInv, NEW r \in Reqs, CompareAndSwap(r)
  PROVE  SerialsInv'
<1>a. /\ req \in [Reqs -> Request] /\ now \in Nat /\ base \in Nat /\ base <= now /\ n \in Nat
      /\ issued \subseteq Nat /\ Shift \in Nat
  BY TypeParts, ProcessAssumption DEF RequestsTyped, SerialsTyped
<1>b. UNCHANGED <<now, main, n, issued, count>>
  BY DEF CompareAndSwap, procVars
<1>c. req[r].at \in 1..now /\ (base = 0 => \A s \in issued : s <= Shift * req[r].at)
  BY DEF CompareAndSwap, SerialsInv, Taken
<1>d. base' = IF base = 0 THEN req[r].at ELSE base
  BY DEF CompareAndSwap
<1>e. base' # 0 /\ base' \in Nat /\ base' <= now
  BY <1>a, <1>c, <1>d
<1>1. /\ \A q \in Reqs : q # r => req'[q] = req[q]
      /\ req'[r].pc = "add"
  BY <1>a DEF CompareAndSwap, Request
<1>2. \A q \in Reqs : req'[q].pc = "load" => req'[q] = req[q]
  BY <1>1
<1>3. SignedBelow'
  <2> SUFFICES ASSUME NEW s \in issued, ~(s <= base' * Shift)
               PROVE  \E m \in 1..n : s = base' * Shift + m /\ Spent(m)'
    BY <1>b DEF SignedBelow
  <2>1. base # 0
    <3>1. req[r].at * Shift = Shift * req[r].at
      BY <1>a, <1>c
    <3> QED
      BY <3>1, <1>c, <1>d
  <2>2. base' = base
    BY <2>1, <1>d
  <2>3. PICK m \in 1..n : s = base * Shift + m /\ Spent(m)
    BY <2>1, <2>2 DEF SerialsInv, SignedBelow
  <2> QED
    BY <2>2, <2>3, <1>2, <1>b, SpentStays
<1>4. NoBaseYet'
  BY <1>e DEF NoBaseYet
<1>5. Taken'
  BY <1>1, <1>b, <1>e DEF SerialsInv, Taken
<1>6. ClockAhead'
  <2>1. n <= Shift * (now - base' + 1)
    <3>1. CASE base = 0
      <4>1. n = 0
        BY <3>1 DEF SerialsInv, NoBaseYet
      <4>2. Shift * (now - base' + 1) \in Nat
        BY <1>a, <1>e, ShiftProducts
      <4> QED
        BY <4>1, <4>2
    <3>2. CASE base # 0
      BY <3>2, <1>d DEF SerialsInv, ClockAhead
    <3> QED
      BY <3>1, <3>2
  <2> QED
    BY <2>1, <1>b DEF SerialsInv, ClockAhead
<1> QED
  BY <1>3, <1>4, <1>5, <1>6, <1>b DEF SerialsInv, SerialsUnique

(* The counter hands out a number that nobody has had. *)
LEMMA SerialsAddN ==
  ASSUME TypeOK, ServersInv, SerialsInv, NEW r \in Reqs, AddN(r)
  PROVE  SerialsInv'
<1>a. req \in [Reqs -> Request] /\ n \in Nat
  BY TypeParts DEF RequestsTyped, SerialsTyped
<1>b. n' = n + 1 /\ UNCHANGED <<now, main, base, issued, count>>
  BY DEF AddN, procVars
<1>c. base # 0
  BY DEF AddN, SerialsInv, NoBaseYet
<1>1. /\ \A q \in Reqs : q # r => req'[q] = req[q]
      /\ req'[r].pc = "load" /\ req'[r].n = n + 1
  <2>1. req' = [req EXCEPT ![r].pc = "load", ![r].n = n + 1]
    BY DEF AddN
  <2> QED
    BY <2>1, <1>a DEF Request
<1>2. \A q \in Reqs : req[q].pc = "load" => req[q].n \in 1..n
  BY DEF SerialsInv, Taken
<1>3. \A m \in 1..n : Spent(m) => Spent(m)'
  BY <1>a, <1>b, <1>1 DEF Spent
<1>4. SignedBelow'
  <2> SUFFICES ASSUME NEW s \in issued, ~(s <= base * Shift)
               PROVE  \E m \in 1..n' : s = base * Shift + m /\ Spent(m)'
    BY <1>b DEF SignedBelow
  <2>1. PICK m \in 1..n : s = base * Shift + m /\ Spent(m)
    BY <1>c DEF SerialsInv, SignedBelow
  <2>2. m \in 1..n'
    BY <1>a, <1>b
  <2> QED
    BY <2>1, <2>2, <1>3
<1>5. NoBaseYet'
  BY <1>b, <1>c DEF NoBaseYet
<1>6. Taken'
  <2>1. \A q \in Reqs : req'[q].pc = "load" => req'[q].n \in 1..n'
    BY <1>a, <1>b, <1>1, <1>2
  <2>2. ASSUME NEW p \in Reqs, NEW q \in Reqs, req'[p].pc = "load", req'[q].pc = "load", p # q
        PROVE  req'[p].n # req'[q].n
    <3>1. CASE p = r \/ q = r
      BY <3>1, <2>2, <1>a, <1>1, <1>2
    <3>2. CASE p # r /\ q # r
      BY <3>2, <2>2, <1>1 DEF SerialsInv, Taken
    <3> QED
      BY <3>1, <3>2
  <2>3. \A q \in Reqs : req'[q].pc = "cas" => req'[q] = req[q]
    BY <1>1
  <2> QED
    BY <2>1, <2>2, <2>3, <1>b DEF SerialsInv, Taken
<1>7. ClockAhead'
  <2>1. n' <= Shift * (now - base + 1)
    BY DEF AddN
  <2> QED
    BY <2>1, <1>b DEF SerialsInv, ClockAhead
<1> QED
  BY <1>4, <1>5, <1>6, <1>7, <1>b DEF SerialsInv, SerialsUnique

(* The serial of a number that is taken and not spent is a new one. *)
LEMMA SerialsLoadAndSign ==
  ASSUME TypeOK, ServersInv, SerialsInv, NEW r \in Reqs, LoadAndSign(r)
  PROVE  SerialsInv'
<1> DEFINE serial == base * Shift + req[r].n
<1>a. /\ req \in [Reqs -> Request] /\ now \in Nat /\ base \in Nat /\ base <= now /\ n \in Nat
      /\ issued \subseteq Nat /\ count \in Nat /\ Shift \in Nat
  BY TypeParts, ProcessAssumption DEF RequestsTyped, SerialsTyped
<1>b. /\ issued' = issued \cup {serial} /\ count' = count + 1
      /\ UNCHANGED <<now, main, base, n>>
  BY DEF LoadAndSign, procVars
<1>c. base # 0 /\ req[r].pc = "load" /\ req[r].n \in 1..n
  BY DEF LoadAndSign, SerialsInv, NoBaseYet, Taken
<1>1. /\ \A q \in Reqs : q # r => req'[q] = req[q]
      /\ req'[r].pc = "idle"
  BY <1>a DEF LoadAndSign, NoReq
<1>2. \A q \in Reqs : req'[q].pc = "load" => req'[q] = req[q]
  BY <1>1
<1>3. base * Shift \in Nat
  BY <1>a
<1>4. serial \notin issued
  <2> SUFFICES ASSUME serial \in issued PROVE FALSE
    OBVIOUS
  <2>1. ~(serial <= base * Shift)
    BY <1>3, <1>c, <1>a
  <2>2. PICK m \in 1..n : serial = base * Shift + m /\ Spent(m)
    BY <2>1, <1>c DEF SerialsInv, SignedBelow
  <2>3. m = req[r].n
    BY <2>2, <1>3, <1>c, <1>a
  <2> QED
    BY <2>2, <2>3, <1>c DEF Spent
<1>5. IsFiniteSet(issued') /\ SerialsUnique'
  BY <1>4, <1>a, <1>b, FS_AddElement DEF SerialsInv, SerialsUnique
<1>6. SignedBelow'
  <2> SUFFICES ASSUME NEW s \in issued', ~(s <= base * Shift)
               PROVE  \E m \in 1..n : s = base * Shift + m /\ Spent(m)'
    BY <1>b DEF SignedBelow
  <2>1. CASE s = serial
    <3>1. PICK m \in 1..n : m = req[r].n
      BY <1>c
    <3>2. \A q \in Reqs : req'[q].pc = "load" => req'[q].n # m
      BY <3>1, <1>1, <1>c DEF SerialsInv, Taken
    <3>3. Spent(m)'
      BY <3>2, <1>b DEF Spent
    <3> QED
      BY <2>1, <3>1, <3>3
  <2>2. CASE s \in issued
    <3>1. PICK m \in 1..n : s = base * Shift + m /\ Spent(m)
      BY <2>2, <1>c DEF SerialsInv, SignedBelow
    <3> QED
      BY <3>1, <1>2, <1>b, SpentStays
  <2> QED
    BY <2>1, <2>2, <1>b
<1>7. NoBaseYet'
  BY <1>b, <1>c DEF NoBaseYet
<1>8. Taken'
  BY <1>1, <1>b, <1>c DEF SerialsInv, Taken
<1>9. ClockAhead'
  <2>1. serial <= base * Shift + n
    BY <1>3, <1>c, <1>a
  <2>2. base * Shift + Shift * (now - base + 1) = Shift * (now + 1)
    BY <1>a, ShiftProducts
  <2>3. /\ n <= Shift * (now - base + 1) /\ (main # "down" => now >= 1)
        /\ \A s \in issued : s <= Shift * (now + 1)
    BY DEF SerialsInv, ClockAhead
  <2>4. Shift * (now - base + 1) \in Nat
    BY <1>a
  <2>5. serial \in Nat
    BY <1>3, <1>c, <1>a
  <2> HIDE DEF serial
  <2>6. serial <= Shift * (now + 1)
    BY <2>1, <2>2, <2>3, <2>4, <2>5, <1>3, <1>a
  <2> QED
    BY <2>3, <2>6, <1>b DEF ClockAhead
<1> QED
  BY <1>5, <1>6, <1>7, <1>8, <1>9 DEF SerialsInv

LEMMA NextSerialsInv ==
  ASSUME TypeOK, ServersInv, SerialsInv, [Next]_vars
  PROVE  SerialsInv'
<1>a. req \in [Reqs -> Request]
  BY TypeParts DEF RequestsTyped
<1>1. CASE StartFails \/ Signal \/ FirstEnd \/ Exit \/ Killed \/ ServerStep \/ UNCHANGED vars
  <2>1. UNCHANGED <<now, serialVars>>
    BY <1>1 DEF StartFails, Signal, FirstEnd, Exit, Killed, Gone, ServerStep, ListenerFails, Drain,
       Drained, DrainTimesOut, Returns, vars
  <2>2. main' = "down" \/ (main # "down" /\ main' # "down")
    BY <1>1 DEF StartFails, Signal, FirstEnd, Exit, Killed, Gone, ServerStep, ListenerFails, Drain,
       Drained, DrainTimesOut, Returns, vars, procVars
  <2>3. \A r \in Reqs : req'[r] = req[r] \/ req'[r] = NoReq
    BY <1>1 DEF StartFails, Signal, FirstEnd, Exit, Killed, Gone, ServerStep, ListenerFails, Drain,
       Drained, DrainTimesOut, Returns, vars
  <2> QED
    BY <2>1, <2>2, <2>3, SerialsStay DEF NoReq
<1>2. CASE Start
  BY <1>2, SerialsStart
<1>3. CASE Tick
  BY <1>3, SerialsTick
<1>4. CASE RequestStep
  <2>1. PICK r \in Reqs :
            \/ \E s \in Servers : Accept(r, s)
            \/ Finish(r) \/ LoadBase(r) \/ CompareAndSwap(r) \/ AddN(r) \/ LoadAndSign(r)
    BY <1>4 DEF RequestStep
  <2>2. main # "down" /\ UNCHANGED procVars
    BY <1>4, DownHasNoRequest
  <2>3. ASSUME NEW s \in Servers, Accept(r, s) PROVE SerialsInv'
    <3>1. \A q \in Reqs : req'[q] = req[q] \/ req'[q].pc = "work"
      BY <2>3, <1>a DEF Accept, Request
    <3> QED
      BY <2>2, <2>3, <3>1, SerialsStay DEF Accept, procVars
  <2>4. CASE Finish(r)
    <3>1. \A q \in Reqs : req'[q] = req[q] \/ req'[q].pc = "idle"
      BY <2>4, <1>a DEF Finish, NoReq
    <3> QED
      BY <2>2, <2>4, <3>1, SerialsStay DEF Finish, procVars
  <2> QED
    BY <2>1, <2>3, <2>4, SerialsLoadBase, SerialsCompareAndSwap, SerialsAddN, SerialsLoadAndSign
<1> QED
  BY <1>1, <1>2, <1>3, <1>4, StepKinds

-----------------------------------------------------------------------------
(* The invariant holds throughout. *)
THEOREM ProcessInvariance == Spec => []MInv
<1>1. MInv /\ [Next]_vars => MInv'
  BY NextTypeOK, NextServersInv, NextSerialsInv, NextCleanExit DEF MInv, SerialsInv
<1> QED
  BY <1>1, InitMInv, PTL DEF Spec

(* The state keeps its type: errCh has room for what every server returns, *)
(* so no goroutine of run blocks on it.                                    *)
THEOREM ProcessTypeCorrect == Spec => []TypeOK
<1>1. MInv => TypeOK
  BY DEF MInv
<1> QED
  BY <1>1, ProcessInvariance, PTL

(* No serial of serialGenerator.Next is used twice, whatever requests      *)
(* overlap at the compare-and-swap and however many processes there are,   *)
(* as long as none takes serials faster than the shift leaves room for.    *)
THEOREM SerialsNeverRepeat == Spec => []SerialsUnique
<1>1. MInv => SerialsUnique
  BY DEF MInv, SerialsInv
<1> QED
  BY <1>1, ProcessInvariance, PTL

(* A process that run ends with status 0 had been signalled, and it let    *)
(* the requests of one of its servers finish.                              *)
THEOREM StatusZeroIsClean == Spec => []CleanExit
<1>1. MInv => CleanExit
  BY DEF MInv
<1> QED
  BY <1>1, ProcessInvariance, PTL
=============================================================================
