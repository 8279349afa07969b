----------------------------- MODULE MISProcess -----------------------------
(***************************************************************************)
(* The MIS process: `mis` opens the store, runs the API server and the     *)
(* admin server, and returns what the first of them to end returned.  The  *)
(* other server's requests are then cut off, whatever their state.         *)
(*                                                                         *)
(* A request to the API server that issues an X.509 SVID takes its serial  *)
(* from the serialGenerator of the intermediate issuer, whose two atomics  *)
(* start at zero in every process.  What else requests do is in the other  *)
(* modules; here they are in flight or not.                                *)
(***************************************************************************)
EXTENDS Naturals, Sequences, FiniteSets

CONSTANTS
    Reqs,      \* requests that can be in flight at once
    Shift,     \* 2^20: the serials a tick of the clock leaves room for
    MaxTime    \* bound on the clock, which ticks at every start

ASSUME ProcessAssumption ==
    /\ Shift \in Nat \ {0}
    /\ MaxTime \in Nat

Servers == {"api", "admin"}

VARIABLES
    now,      \* the wall clock, in nanoseconds; it is not set back
    main,     \* where run is: "down", "serving" or "closing"
    ctx,      \* TRUE once SIGINT or SIGTERM arrived
    srv,      \* where each server's ListenAndServe is
    errCh,    \* what the servers that ended returned
    req,      \* the server of a request, and its place in Next
    base, n,  \* serialGenerator
    issued,   \* history: the serials of the certificates that were signed
    count,    \* history: how many certificates were signed
    status,   \* how the last process ended
    cut       \* history: the servers whose requests that cut off

procVars == <<main, ctx, srv, errCh, status, cut>>
serialVars == <<base, n, issued, count>>
vars == <<now, procVars, req, serialVars>>

NoReq == [on |-> "none", pc |-> "idle", at |-> 0, n |-> 0]
On(s) == {r \in Reqs : req[r].on = s}
Ends == {"ok", "error"}

(* Every variable has its type, and errCh has room for what is sent. *)
TypeOK ==
    /\ now \in 0..MaxTime
    /\ main \in {"down", "serving", "closing"}
    /\ ctx \in BOOLEAN
    /\ srv \in [Servers -> {"off", "serving", "draining", "ended"}]
    /\ errCh \in Seq(Ends) /\ Len(errCh) <= Cardinality(Servers)
    /\ req \in [Reqs -> [on : Servers \cup {"none"},
                         pc : {"idle", "work", "cas", "add", "load"},
                         at : 0..MaxTime, n : Nat]]
    /\ base \in 0..now /\ n \in Nat
    /\ issued \subseteq Nat /\ count \in Nat
    /\ status \in Ends \cup {"none"}
    /\ cut \subseteq Servers

Init ==
    /\ now = 0
    /\ main = "down" /\ ctx = FALSE
    /\ srv = [s \in Servers |-> "off"]
    /\ errCh = <<>>
    /\ req = [r \in Reqs |-> NoReq]
    /\ base = 0 /\ n = 0 /\ issued = {} /\ count = 0
    /\ status = "none" /\ cut = {}

-----------------------------------------------------------------------------
(* The process. *)

\* run, up to the two goroutines that serve.  The clock has moved since the
\* process before.
Start ==
    /\ main = "down" /\ now < MaxTime
    /\ now' = now + 1
    /\ main' = "serving" /\ ctx' = FALSE
    /\ srv' = [s \in Servers |-> "serving"]
    /\ errCh' = <<>>
    /\ base' = 0 /\ n' = 0
    /\ status' = "none" /\ cut' = {}
    /\ UNCHANGED <<req, issued, count>>

\* A key, a certificate or the database could not be loaded.
StartFails ==
    /\ main = "down"
    /\ status' = "error" /\ ctx' = FALSE /\ cut' = {}
    /\ UNCHANGED <<now, main, srv, errCh, req, serialVars>>

Signal ==
    /\ main = "serving" /\ ~ctx
    /\ ctx' = TRUE
    /\ UNCHANGED <<now, main, srv, errCh, status, cut, req, serialVars>>

\* Server s returns, and its goroutine hands on what it returned.
Returns(s, end) ==
    /\ srv' = [srv EXCEPT ![s] = "ended"]
    /\ errCh' = Append(errCh, end)
    /\ UNCHANGED <<now, main, ctx, status, cut, req, serialVars>>

\* The key pair or the listener failed.
ListenerFails(s) == main # "down" /\ srv[s] = "serving" /\ Returns(s, "error")

\* case <-ctx.Done(): the listener closes, and Shutdown waits.  A signal
\* cancels the context, and so does the deferred stop of a run that returns.
Drain(s) ==
    /\ main # "down" /\ (ctx \/ main = "closing") /\ srv[s] = "serving"
    /\ srv' = [srv EXCEPT ![s] = "draining"]
    /\ UNCHANGED <<now, main, ctx, errCh, status, cut, req, serialVars>>

\* A faulty form of Drained, for a mutation run: Close in place of Shutdown.
DrainedAtOnce(s) == srv[s] = "draining" /\ Returns(s, "ok")

\* Shutdown returns once no request of the server is in flight ...
Drained(s) == srv[s] = "draining" /\ On(s) = {} /\ Returns(s, "ok")

\* ... or when its five seconds have passed.
DrainTimesOut(s) == srv[s] = "draining" /\ On(s) # {} /\ Returns(s, "error")

\* A faulty form of FirstEnd, for a mutation run: run waits for both servers.
FirstEndOfBoth ==
    /\ main = "serving" /\ Len(errCh) = 2
    /\ main' = "closing"
    /\ UNCHANGED <<now, ctx, srv, errCh, status, cut, req, serialVars>>

\* return <-errCh, and with it st.Close: what is in flight can no longer
\* write, but runs on until the process is gone.
FirstEnd ==
    /\ main = "serving" /\ errCh # <<>>
    /\ main' = "closing"
    /\ UNCHANGED <<now, ctx, srv, errCh, status, cut, req, serialVars>>

\* The process is gone, and all that was in flight with it.
Gone(end) ==
    /\ main' = "down"
    /\ srv' = [s \in Servers |-> "off"]
    /\ req' = [r \in Reqs |-> NoReq]
    /\ status' = end
    /\ cut' = {s \in Servers : On(s) # {}}
    /\ UNCHANGED <<now, ctx, errCh, serialVars>>

\* main: the error of run is logged, and the status is 1.
Exit == main = "closing" /\ Gone(Head(errCh))

Killed == main # "down" /\ Gone("error")

Tick ==
    /\ now < MaxTime
    /\ now' = now + 1
    /\ UNCHANGED <<procVars, req, serialVars>>

-----------------------------------------------------------------------------
(* The requests. *)

Accept(r, s) ==
    /\ main # "down" /\ srv[s] = "serving" /\ req[r] = NoReq
    /\ req' = [req EXCEPT ![r].on = s, ![r].pc = "work"]
    /\ UNCHANGED <<now, procVars, serialVars>>

\* Answered, refused, or given up by its client, at any point.
Finish(r) ==
    /\ req[r] # NoReq
    /\ req' = [req EXCEPT ![r] = NoReq]
    /\ UNCHANGED <<now, procVars, serialVars>>

\* if s.base.Load() == 0, and then time.Now().UnixNano()
LoadBase(r) ==
    /\ req[r].pc = "work" /\ req[r].on = "api"
    /\ req' = IF base = 0
              THEN [req EXCEPT ![r].pc = "cas", ![r].at = now]
              ELSE [req EXCEPT ![r].pc = "add"]
    /\ UNCHANGED <<now, procVars, serialVars>>

\* A faulty form of CompareAndSwap, for a mutation run: a plain Store, whose
\* instant may be the older one.
StoreBase(r) ==
    /\ req[r].pc = "cas"
    /\ base' = req[r].at
    /\ req' = [req EXCEPT ![r].pc = "add", ![r].at = 0]
    /\ UNCHANGED <<now, procVars, n, issued, count>>

\* s.base.CompareAndSwap(0, ...)
CompareAndSwap(r) ==
    /\ req[r].pc = "cas"
    /\ base' = IF base = 0 THEN req[r].at ELSE base
    /\ req' = [req EXCEPT ![r].pc = "add", ![r].at = 0]
    /\ UNCHANGED <<now, procVars, n, issued, count>>

\* s.n.Add(1).  Signing takes time: no process takes serials faster than
\* Shift a tick.
AddN(r) ==
    /\ req[r].pc = "add"
    /\ n + 1 <= Shift * (now - base + 1)
    /\ n' = n + 1
    /\ req' = [req EXCEPT ![r].pc = "load", ![r].n = n + 1]
    /\ UNCHANGED <<now, procVars, base, issued, count>>

\* base << 20 + n, and the certificate is signed; the request may go on to
\* issue no other.
LoadAndSign(r) ==
    /\ req[r].pc = "load"
    /\ issued' = issued \cup {base * Shift + req[r].n}
    /\ count' = count + 1
    /\ req' = [req EXCEPT ![r] = NoReq]
    /\ UNCHANGED <<now, procVars, base, n>>

Next ==
    \/ Start \/ StartFails \/ Signal \/ FirstEnd \/ Exit \/ Killed \/ Tick
    \/ \E s \in Servers :
        ListenerFails(s) \/ Drain(s) \/ Drained(s) \/ DrainTimesOut(s)
    \/ \E r \in Reqs, s \in Servers : Accept(r, s)
    \/ \E r \in Reqs :
        \/ Finish(r)
        \/ LoadBase(r) \/ CompareAndSwap(r) \/ AddN(r) \/ LoadAndSign(r)

Spec == Init /\ [][Next]_vars

(* The goroutines of run and of the servers are scheduled, and Shutdown's  *)
(* timer fires; of the requests nothing is assumed.                        *)
FairSpec ==
    /\ Spec
    /\ WF_vars(FirstEnd) /\ WF_vars(Exit)
    /\ \A s \in Servers :
        WF_vars(Drain(s)) /\ WF_vars(Drained(s) \/ DrainTimesOut(s))

-----------------------------------------------------------------------------
(* No serial is used twice, by overlapping requests or by a process and    *)
(* the ones before it: the first base is kept whoever takes it, and the    *)
(* time in it separates the processes.                                     *)
SerialsUnique == Cardinality(issued) = count

(* A process that ends with status 0 was asked to, and it cut off requests *)
(* of one server at most: the one whose end run did not wait for.          *)
CleanExit == status = "ok" => ctx /\ cut # Servers

(* After a signal or the end of a server the process ends, however long    *)
(* its requests take.                                                      *)
ProcessEnds ==
    (main = "serving" /\ (ctx \/ \E s \in Servers : srv[s] = "ended"))
        ~> main = "down"
=============================================================================
