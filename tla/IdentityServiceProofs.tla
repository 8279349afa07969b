------------------------ MODULE IdentityServiceProofs ------------------------
(***************************************************************************)
(* Proofs about IdentityService for any number of ESIs, LDIs, keys, tickets  *)
(* and concurrent requests, with every failure the module allows.            *)
(*                                                                          *)
(* The safety properties speak of the tables only; the inductive invariant   *)
(* adds what a request in flight knows (ReqOK), which is what keeps the       *)
(* tables in order when its next call is made: above all that a ticket it    *)
(* consumed is held by no other request and has bound nothing yet, that the  *)
(* LDI it works on exists, and that the prior it is about to mark is already *)
(* on the revocation list.  The last section is about what overlapping       *)
(* requests can spoil (module IdentityOverlap).                              *)
(***************************************************************************)
EXTENDS IdentityOverlap, TLAPS, WellFoundedInduction

\* The request consumed its ticket and has not used it yet.
HoldsTicket(q) == q.pc \in {"GetLDI", "Rebind"}

KnowsLDI(q) == q.pc \in {"GetLDI", "Rebind", "Leaf", "ActivePriors", "Revoke",
                         "MarkRevoked", "Issue", "Record", "SetLDIStatus"}

ReqOK(q) ==
    /\ KnowsLDI(q) => q.ldi \in LDIs /\ ldi[q.ldi] # "absent"
    /\ q.pc \in {"CreateLDIAndBind", "ValidateTicket", "GetLDI", "Rebind"} => q.esi \in ESIs
    /\ q.pc \in {"ValidateTicket", "GetLDI", "Rebind"} =>
          q.ticket \in Tickets /\ ticket[q.ticket].status # "absent"
    /\ HoldsTicket(q) =>
          /\ ticket[q.ticket].status = "consumed"
          /\ ticket[q.ticket].ldi = q.ldi
          /\ \A e \in ESIs : binding[e].ticket # q.ticket
    /\ q.pc = "MarkRevoked" =>
          \A s \in Serials : IsFirst(s, q.priors) => s \in revoked \cup expired

ReqsOK == \A r \in Reqs : ReqOK(req[r])

TicketsExclusive ==
    \A r1, r2 \in Reqs :
        HoldsTicket(req[r1]) /\ HoldsTicket(req[r2]) /\ req[r1].ticket = req[r2].ticket
            => r1 = r2

\* A ticket names an LDI that exists, from its creation on.
TicketsOK ==
    \A t \in Tickets :
        /\ ticket[t].status = "absent" => ticket[t].ldi = None
        /\ ticket[t].status # "absent" =>
              ticket[t].ldi \in LDIs /\ ldi[ticket[t].ldi] # "absent"

\* An ESI without a binding row has no LDI and no ticket.
UnboundIsEmpty == \A e \in ESIs : binding[e].status = "unbound" => binding[e] = Unbound

IInv ==
    /\ TypeOK
    /\ UnboundIsEmpty
    /\ OneHolder
    /\ TicketsOK
    /\ TicketBindsOnce
    /\ RevokedIsPublished
    /\ ReqsOK
    /\ TicketsExclusive

-----------------------------------------------------------------------------
LEMMA IdleTyped == Idle \in Request /\ ReqOK(Idle) /\ ~HoldsTicket(Idle)
BY DEF Idle, Request, PCs, Flows, ReqOK, HoldsTicket, KnowsLDI

LEMMA InitInv == Init => IInv
<1> SUFFICES ASSUME Init PROVE IInv
  OBVIOUS
<1>1. TypeOK
  BY IdleTyped, MaxSerialAssumption DEF Init, TypeOK, Unbound, LDIStatus, Binding, Ticket, SVID
<1>2. UnboundIsEmpty /\ OneHolder /\ TicketsOK /\ TicketBindsOnce /\ RevokedIsPublished
  BY DEF Init, UnboundIsEmpty, OneHolder, TicketsOK, TicketBindsOnce, RevokedIsPublished, Unbound
<1>3. ReqsOK /\ TicketsExclusive
  BY IdleTyped DEF Init, ReqsOK, TicketsExclusive
<1> QED BY <1>1, <1>2, <1>3 DEF IInv

\* A step that only moves the request r on, to the state q, keeps the
\* invariant if q is in order and holds no ticket that r did not hold already.
LEMMA RequestMoves ==
    ASSUME IInv, NEW r \in Reqs, NEW q \in Request, ReqOK(q),
           HoldsTicket(q) => HoldsTicket(req[r]) /\ q.ticket = req[r].ticket,
           req' = [req EXCEPT ![r] = q], storeUnchanged
    PROVE  IInv'
<1>1. TypeOK'
  BY DEF IInv, TypeOK, storeUnchanged
<1>2. UnboundIsEmpty' /\ OneHolder' /\ TicketsOK' /\ TicketBindsOnce' /\ RevokedIsPublished'
  BY DEF IInv, UnboundIsEmpty, OneHolder, TicketsOK, TicketBindsOnce, RevokedIsPublished,
         storeUnchanged
<1>3. req \in [Reqs -> Request]
  BY DEF IInv, TypeOK
<1>4. ReqsOK'
  BY <1>3 DEF IInv, ReqsOK, ReqOK, storeUnchanged
<1>5. TicketsExclusive'
  BY <1>3 DEF IInv, TicketsExclusive
<1> QED BY <1>1, <1>2, <1>4, <1>5 DEF IInv

LEMMA StartKeepsInv ==
    ASSUME IInv, NEW r \in Reqs, Start(r)
    PROVE  IInv'
<1> USE DEF Begin, Request, PCs, Flows, ReqOK, HoldsTicket, KnowsLDI
<1>0. storeUnchanged
  BY DEF Start, StartInitial, StartReplacement, StartReEnrollment, StartRenewal, StartRevocation
<1>1. CASE StartInitial(r)
  <2>1. PICK e \in ESIs, k \in Keys :
          Begin(r, "CreateLDIAndBind", "initial", e, None, k, None)
    BY <1>1 DEF StartInitial
  <2> QED BY <1>0, <2>1, RequestMoves
<1>2. CASE StartReplacement(r)
  <2>1. PICK e \in ESIs, k \in Keys, t \in Tickets :
          /\ ticket[t].status # "absent"
          /\ Begin(r, "ValidateTicket", "replacement", e, None, k, t)
    BY <1>2 DEF StartReplacement
  <2> QED BY <1>0, <2>1, RequestMoves
<1>3. CASE StartReEnrollment(r)
  <2>1. PICK e \in ESIs, k \in Keys :
          /\ binding[e].status = "active"
          /\ Begin(r, "Leaf", "re-enrollment", e, binding[e].ldi, k, None)
    BY <1>3 DEF StartReEnrollment
  <2>2. binding[e].ldi \in LDIs /\ ldi[binding[e].ldi] # "absent"
    BY <2>1 DEF IInv, OneHolder
  <2> QED BY <1>0, <2>1, <2>2, RequestMoves
<1>4. CASE StartRenewal(r)
  <2>1. PICK l \in LDIs, k \in Keys :
          /\ ldi[l] = "active"
          /\ Begin(r, "Leaf", "renewal", None, l, k, None)
    BY <1>4 DEF StartRenewal
  <2> QED BY <1>0, <2>1, RequestMoves
<1>5. CASE StartRevocation(r)
  <2>1. PICK l \in LDIs :
          /\ ldi[l] # "absent"
          /\ Begin(r, "ActivePriors", "revocation", None, l, None, None)
    BY <1>5 DEF StartRevocation
  <2> QED BY <1>0, <2>1, RequestMoves
<1> QED BY <1>1, <1>2, <1>3, <1>4, <1>5 DEF Start

\* Returning, whatever the request was about to do.
LEMMA ReturnKeepsInv ==
    ASSUME IInv, NEW r \in Reqs, Return(r), storeUnchanged
    PROVE  IInv'
BY IdleTyped, RequestMoves DEF Return

\* The calls that read the store (or the CA) and decide where to go next.
LEMMA ReadingStepKeepsInv ==
    ASSUME IInv, NEW r \in Reqs,
           GetLDI(r) \/ Leaf(r) \/ ActivePriors(r) \/ IssueX509SVID(r) \/ StoreError(r)
    PROVE  IInv'
<1> USE DEF ReqOK, HoldsTicket, KnowsLDI
<1>0. req[r] \in Request /\ ReqOK(req[r]) /\ storeUnchanged
  BY DEF IInv, TypeOK, ReqsOK, GetLDI, Leaf, ActivePriors, IssueX509SVID, StoreError
<1>1. ASSUME NEW pc \in {"Rebind", "Issue", "ActivePriors", "Record"},
             Goto(r, pc), KnowsLDI(req[r]), pc = "Rebind" => HoldsTicket(req[r])
      PROVE  IInv'
  <2> DEFINE q == [req[r] EXCEPT !.pc = pc]
  <2>1. q \in Request /\ q.pc = pc /\ q.ldi = req[r].ldi /\ q.esi = req[r].esi
        /\ q.ticket = req[r].ticket /\ q.priors = req[r].priors
    BY <1>0 DEF Request, PCs
  <2>2. req' = [req EXCEPT ![r] = q]
    BY <1>1 DEF Goto
  <2> HIDE DEF q
  <2>3. ReqOK(q) /\ (HoldsTicket(q) => HoldsTicket(req[r]) /\ q.ticket = req[r].ticket)
    BY <1>0, <1>1, <2>1
  <2> QED BY <1>0, <2>1, <2>2, <2>3, RequestMoves
<1>2. CASE GetLDI(r)
  <2>1. Goto(r, "Rebind") \/ Return(r)
    BY <1>2 DEF GetLDI
  <2>2. KnowsLDI(req[r]) /\ HoldsTicket(req[r])
    BY <1>2 DEF GetLDI
  <2> QED BY <1>0, <1>1, <2>1, <2>2, ReturnKeepsInv
<1>3. CASE Leaf(r)
  <2>1. Goto(r, "Issue") \/ Goto(r, "ActivePriors") \/ Return(r)
    BY <1>3 DEF Leaf
  <2>2. KnowsLDI(req[r])
    BY <1>3 DEF Leaf
  <2> QED BY <1>0, <1>1, <2>1, <2>2, ReturnKeepsInv
<1>4. CASE IssueX509SVID(r)
  <2>1. Goto(r, "Record") /\ KnowsLDI(req[r])
    BY <1>4 DEF IssueX509SVID
  <2> QED BY <1>1, <2>1
<1>5. ASSUME NEW pc \in {"SetLDIStatus", "Issue", "Revoke"}, NEW P \in SUBSET Serials,
             req' = [req EXCEPT ![r].pc = pc, ![r].priors = P], KnowsLDI(req[r])
      PROVE  IInv'
  <2> DEFINE q == [req[r] EXCEPT !.pc = pc, !.priors = P]
  <2>1. q \in Request /\ q.pc = pc /\ q.ldi = req[r].ldi /\ q.esi = req[r].esi
        /\ q.ticket = req[r].ticket
    BY <1>0 DEF Request, PCs
  <2>2. req' = [req EXCEPT ![r] = q]
    BY <1>5, <1>0 DEF IInv, TypeOK
  <2> HIDE DEF q
  <2>3. ReqOK(q) /\ ~HoldsTicket(q)
    BY <1>0, <1>5, <2>1
  <2> QED BY <1>0, <2>1, <2>2, <2>3, RequestMoves
<1>6. CASE ActivePriors(r)
  <2>1. ActiveSVIDs(req[r].ldi) \in SUBSET Serials
    BY DEF ActiveSVIDs
  <2>2. KnowsLDI(req[r])
    BY <1>6 DEF ActivePriors
  <2>3. PICK pc \in {"SetLDIStatus", "Issue", "Revoke"} :
           req' = [req EXCEPT ![r].pc = pc, ![r].priors = ActiveSVIDs(req[r].ldi)]
    BY <1>6 DEF ActivePriors, AfterPriors
  <2> QED BY <1>5, <2>1, <2>2, <2>3
<1>7. CASE StoreError(r)
  <2>1. KnowsLDI(req[r]) /\ req' = [req EXCEPT ![r].pc = "Issue", ![r].priors = {}]
    BY <1>7 DEF StoreError
  <2>2. PICK pc \in {"SetLDIStatus", "Issue", "Revoke"}, P \in SUBSET Serials :
           req' = [req EXCEPT ![r].pc = pc, ![r].priors = P]
    BY <2>1
  <2> QED BY <1>5, <2>1, <2>2
<1> QED BY <1>2, <1>3, <1>4, <1>6, <1>7

-----------------------------------------------------------------------------
(* The steps that write *)

\* The new LDI has the ESI as its only holder, because the ESI was unbound and
\* no binding named the LDI before.
LEMMA CreateKeepsInv ==
    ASSUME IInv, NEW r \in Reqs, CreateLDIAndBind(r)
    PROVE  IInv'
<1> DEFINE e == req[r].esi
<1>0. /\ req \in [Reqs -> Request] /\ e \in ESIs /\ req[r].pc = "CreateLDIAndBind"
      /\ ldi \in [LDIs -> LDIStatus]
  BY DEF IInv, TypeOK, ReqsOK, ReqOK, CreateLDIAndBind
<1>1. CASE binding[e].status # "unbound"
  BY <1>1, ReturnKeepsInv DEF CreateLDIAndBind, storeUnchanged
<1>2. CASE binding[e].status = "unbound"
  <2>1. PICK l \in LDIs :
          /\ ldi[l] = "absent"
          /\ ldi' = [ldi EXCEPT ![l] = "active"]
          /\ binding' = [binding EXCEPT ![e] = [status |-> "active", ldi |-> l, ticket |-> None]]
          /\ req' = [req EXCEPT ![r].pc = "Issue", ![r].ldi = l]
    BY <1>2 DEF CreateLDIAndBind
  <2> DEFINE q == [req[r] EXCEPT !.pc = "Issue", !.ldi = l]
  <2>2. /\ q \in Request /\ q.pc = "Issue" /\ q.ldi = l
        /\ req' = [req EXCEPT ![r] = q]
    BY <1>0, <2>1 DEF Request, PCs
  <2> HIDE DEF q
  <2>3. UNCHANGED <<ticket, svid, nextSerial, revoked, expired>>
    BY DEF CreateLDIAndBind
  <2>4. TypeOK'
    <3>1. /\ "active" \in LDIStatus
          /\ [status |-> "active", ldi |-> l, ticket |-> None] \in Binding
      BY DEF LDIStatus, Binding
    <3> QED BY <1>0, <2>1, <2>2, <2>3, <3>1 DEF IInv, TypeOK
  <2>5. UnboundIsEmpty'
    BY <1>0, <2>1 DEF IInv, TypeOK, UnboundIsEmpty
  <2>6. OneHolder'
    <3>1. \A f \in ESIs : binding'[f] = IF f = e THEN [status |-> "active", ldi |-> l, ticket |-> None]
                                                 ELSE binding[f]
      BY <1>0, <2>1 DEF IInv, TypeOK
    <3>2. \A f \in ESIs : binding[f].status # "unbound" => binding[f].ldi # l
      BY <2>1 DEF IInv, OneHolder
    <3>3. \A m \in LDIs : ldi'[m] = IF m = l THEN "active" ELSE ldi[m]
      BY <1>0, <2>1
    <3>4. ASSUME NEW f \in ESIs, binding'[f].status # "unbound"
          PROVE  binding'[f].ldi \in LDIs /\ ldi'[binding'[f].ldi] # "absent"
      BY <3>1, <3>3, <3>4, <2>1 DEF IInv, OneHolder
    <3>5. ASSUME NEW m \in LDIs, ldi'[m] # "absent"
          PROVE  \E h \in ESIs :
                   /\ binding'[h].status = "active" /\ binding'[h].ldi = m
                   /\ \A f \in ESIs : binding'[f].status = "active" /\ binding'[f].ldi = m => f = h
      <4>1. CASE m = l
        BY <4>1, <3>1, <3>2, <1>0
      <4>2. CASE m # l
        <5>1. PICK h \in ESIs :
                 /\ binding[h].status = "active" /\ binding[h].ldi = m
                 /\ \A f \in ESIs : binding[f].status = "active" /\ binding[f].ldi = m => f = h
          BY <3>3, <3>5, <4>2 DEF IInv, OneHolder
        <5>2. h # e
          BY <1>2, <5>1
        <5> QED BY <3>1, <4>2, <5>1, <5>2
      <4> QED BY <4>1, <4>2
    <3> QED BY <3>4, <3>5 DEF OneHolder
  <2>7. TicketsOK'
    BY <1>0, <2>1, <2>3 DEF IInv, TicketsOK
  <2>8. TicketBindsOnce'
    BY <1>0, <2>1, <2>3 DEF IInv, TypeOK, TicketBindsOnce
  <2>9. RevokedIsPublished'
    BY <2>3 DEF IInv, RevokedIsPublished
  <2>10. ReqsOK'
    <3>1. ASSUME NEW p \in Reqs PROVE ReqOK(req[p])'
      <4>1. CASE p = r
        BY <4>1, <1>0, <2>1, <2>2 DEF ReqOK, KnowsLDI, HoldsTicket
      <4>2. CASE p # r
        <5>1. req'[p] = req[p] /\ ReqOK(req[p]) /\ req[p] \in Request
          BY <1>0, <2>2, <4>2 DEF IInv, ReqsOK
        <5>2. \A f \in ESIs, t \in Tickets : binding'[f].ticket = t => binding[f].ticket = t
          BY <1>0, <2>1, NoneAssumption DEF IInv, TypeOK
        <5> QED BY <1>0, <2>1, <2>3, <5>1, <5>2 DEF ReqOK, HoldsTicket
      <4> QED BY <4>1, <4>2
    <3> QED BY <3>1 DEF ReqsOK
  <2>11. TicketsExclusive'
    BY <1>0, <2>2 DEF IInv, TicketsExclusive, HoldsTicket
  <2> QED BY <2>4, <2>5, <2>6, <2>7, <2>8, <2>9, <2>10, <2>11 DEF IInv
<1> QED BY <1>1, <1>2

\* A ticket that is consumed now was held by nobody and had bound nothing.
LEMMA ValidateTicketKeepsInv ==
    ASSUME IInv, NEW r \in Reqs, ValidateTicket(r)
    PROVE  IInv'
<1> DEFINE t == req[r].ticket
<1>0. /\ req \in [Reqs -> Request] /\ t \in Tickets /\ req[r].pc = "ValidateTicket"
      /\ ReqOK(req[r])
      /\ ticket \in [Tickets -> Ticket]
  BY DEF IInv, TypeOK, ReqsOK, ReqOK, ValidateTicket
<1>1. CASE ticket[t].status # "active"
  BY <1>1, ReturnKeepsInv DEF ValidateTicket, storeUnchanged
<1>2. CASE ticket[t].status = "active"
  <2>1. /\ ticket' = [ticket EXCEPT ![t].status = "consumed"]
        /\ req' = [req EXCEPT ![r].pc = "GetLDI", ![r].ldi = ticket[t].ldi]
        /\ UNCHANGED <<ldi, binding, svid, nextSerial, revoked, expired>>
    BY <1>2 DEF ValidateTicket
  <2>2. ticket[t].ldi \in LDIs /\ ldi[ticket[t].ldi] # "absent"
    BY <1>0, <1>2 DEF IInv, TicketsOK
  <2> DEFINE q == [req[r] EXCEPT !.pc = "GetLDI", !.ldi = ticket[t].ldi]
  <2>3. /\ q \in Request /\ q.pc = "GetLDI" /\ q.ldi = ticket[t].ldi
        /\ q.ticket = t /\ q.esi = req[r].esi
        /\ req' = [req EXCEPT ![r] = q]
    BY <1>0, <2>1, <2>2 DEF Request, PCs
  <2> HIDE DEF q
  <2>4. \A u \in Tickets : /\ ticket'[u].ldi = ticket[u].ldi
                           /\ u # t => ticket'[u].status = ticket[u].status
    BY <1>0, <2>1
  <2>5. ticket'[t].status = "consumed"
    BY <1>0, <2>1
  <2>6. TypeOK'
    <3>1. [ticket[t] EXCEPT !.status = "consumed"] \in Ticket
      BY <1>0 DEF Ticket
    <3>2. ticket' \in [Tickets -> Ticket]
      BY <1>0, <2>1, <3>1
    <3>3. req' \in [Reqs -> Request]
      BY <1>0, <2>3
    <3> QED BY <2>1, <3>2, <3>3 DEF IInv, TypeOK
  <2>7. UnboundIsEmpty' /\ OneHolder' /\ RevokedIsPublished'
    BY <2>1 DEF IInv, UnboundIsEmpty, OneHolder, RevokedIsPublished
  <2>8. TicketsOK'
    BY <1>0, <1>2, <2>1, <2>2, <2>4 DEF IInv, TicketsOK
  <2>9. \A e \in ESIs : binding[e].ticket # t
    BY <1>0, <1>2, NoneAssumption DEF IInv, TicketBindsOnce
  <2>10. TicketBindsOnce'
    <3>1. \A e \in ESIs : binding[e].ticket \in Tickets \cup {None}
      BY DEF IInv, TypeOK, Binding
    <3> QED BY <2>1, <2>4, <2>9, <3>1 DEF IInv, TicketBindsOnce
  <2>11. \A p \in Reqs : HoldsTicket(req[p]) => req[p].ticket # t
    BY <1>2 DEF IInv, ReqsOK, ReqOK
  <2>12. ReqsOK'
    <3>1. ASSUME NEW p \in Reqs PROVE ReqOK(req[p])'
      <4>1. CASE p = r
        BY <4>1, <1>0, <2>1, <2>2, <2>3, <2>4, <2>5, <2>9 DEF ReqOK, KnowsLDI, HoldsTicket
      <4>2. CASE p # r
        <5>1. req'[p] = req[p] /\ ReqOK(req[p])
          BY <1>0, <2>3, <4>2 DEF IInv, ReqsOK
        <5> QED BY <2>1, <2>4, <2>5, <2>11, <5>1 DEF ReqOK, HoldsTicket
      <4> QED BY <4>1, <4>2
    <3> QED BY <3>1 DEF ReqsOK
  <2>13. TicketsExclusive'
    BY <1>0, <2>3, <2>11 DEF IInv, TicketsExclusive
  <2> QED BY <2>6, <2>7, <2>8, <2>10, <2>12, <2>13 DEF IInv
<1> QED BY <1>1, <1>2

\* The ticket the request holds has bound nothing, so binding the new ESI with
\* it is its only use; the LDI's other bindings are retired in the same step.
LEMMA RebindKeepsInv ==
    ASSUME IInv, NEW r \in Reqs, Rebind(r)
    PROVE  IInv'
<1> DEFINE e == req[r].esi
<1> DEFINE l == req[r].ldi
<1> DEFINE t == req[r].ticket
<1>0. /\ req \in [Reqs -> Request] /\ binding \in [ESIs -> Binding] /\ req[r].pc = "Rebind"
      /\ UNCHANGED <<ldi, ticket, svid, nextSerial, revoked, expired>>
  BY DEF IInv, TypeOK, Rebind
<1>1. /\ HoldsTicket(req[r])
      /\ e \in ESIs /\ l \in LDIs /\ ldi[l] # "absent" /\ t \in Tickets
      /\ ticket[t].status = "consumed" /\ ticket[t].ldi = l
      /\ \A f \in ESIs : binding[f].ticket # t
  BY <1>0 DEF IInv, ReqsOK, ReqOK, KnowsLDI, HoldsTicket
<1>2. CASE binding[e].status # "unbound"
  BY <1>2, ReturnKeepsInv DEF Rebind, storeUnchanged
<1>3. CASE binding[e].status = "unbound"
  <2> DEFINE row == [status |-> "active", ldi |-> l, ticket |-> t]
  <2>1. /\ binding' = [f \in ESIs |-> IF f = e THEN row
                          ELSE IF binding[f].ldi = l
                          THEN [binding[f] EXCEPT !.status = "retired"] ELSE binding[f]]
        /\ req' = [req EXCEPT ![r].pc = "ActivePriors"]
    BY <1>3 DEF Rebind, Rebound, Goto
  <2>2. /\ binding'[e].status = "active" /\ binding'[e].ldi = l /\ binding'[e].ticket = t
        /\ binding'[e] \in Binding
    BY <1>1, <2>1 DEF Binding
  <2>3. ASSUME NEW f \in ESIs, f # e, binding[f].ldi # l PROVE binding'[f] = binding[f]
    BY <2>1, <2>3
  <2>4. ASSUME NEW f \in ESIs, f # e, binding[f].ldi = l
        PROVE  /\ binding'[f].status = "retired" /\ binding'[f].ldi = l
               /\ binding'[f].ticket = binding[f].ticket /\ binding'[f] \in Binding
    <3>1. binding'[f] = [binding[f] EXCEPT !.status = "retired"]
      BY <2>1, <2>4
    <3>2. binding[f] \in Binding
      BY <1>0
    <3> QED BY <3>1, <3>2, <2>4 DEF Binding
  <2> DEFINE q == [req[r] EXCEPT !.pc = "ActivePriors"]
  <2>5. /\ q \in Request /\ q.pc = "ActivePriors" /\ q.ldi = l
        /\ req' = [req EXCEPT ![r] = q]
    BY <1>0, <2>1 DEF Request, PCs
  <2> HIDE DEF q, row
  <2>6. TypeOK'
    <3>1. binding' \in [ESIs -> Binding]
      <4>1. ASSUME NEW f \in ESIs PROVE binding'[f] \in Binding
        BY <1>0, <2>2, <2>3, <2>4
      <4>2. binding' = [f \in ESIs |-> binding'[f]]
        BY <2>1
      <4> QED BY <4>1, <4>2
    <3>2. req' \in [Reqs -> Request]
      BY <1>0, <2>5
    <3> QED BY <1>0, <3>1, <3>2 DEF IInv, TypeOK
  <2>7. UnboundIsEmpty'
    BY <2>2, <2>3, <2>4 DEF IInv, UnboundIsEmpty
  <2>8. OneHolder'
    <3>1. ASSUME NEW f \in ESIs, binding'[f].status # "unbound"
          PROVE  binding'[f].ldi \in LDIs /\ ldi[binding'[f].ldi] # "absent"
      BY <1>1, <2>2, <2>3, <2>4, <3>1 DEF IInv, OneHolder
    <3>2. ASSUME NEW m \in LDIs, ldi[m] # "absent"
          PROVE  \E h \in ESIs :
                   /\ binding'[h].status = "active" /\ binding'[h].ldi = m
                   /\ \A f \in ESIs : binding'[f].status = "active" /\ binding'[f].ldi = m => f = h
      <4>1. CASE m = l
        BY <4>1, <1>1, <2>2, <2>3, <2>4
      <4>2. CASE m # l
        <5>1. PICK h \in ESIs :
                 /\ binding[h].status = "active" /\ binding[h].ldi = m
                 /\ \A f \in ESIs : binding[f].status = "active" /\ binding[f].ldi = m => f = h
          BY <3>2 DEF IInv, OneHolder
        <5>2. h # e
          BY <1>3, <5>1
        <5> QED BY <2>2, <2>3, <2>4, <4>2, <5>1, <5>2
      <4> QED BY <4>1, <4>2
    <3> QED BY <1>0, <3>1, <3>2 DEF OneHolder
  <2>9. TicketsOK' /\ RevokedIsPublished'
    BY <1>0 DEF IInv, TicketsOK, RevokedIsPublished
  <2>10. \A f \in ESIs : f # e =>
            /\ binding'[f].ticket = binding[f].ticket
            /\ binding'[f].ldi = binding[f].ldi
    BY <2>3, <2>4
  <2>11. TicketBindsOnce'
    BY <1>0, <1>1, <2>2, <2>10 DEF IInv, TicketBindsOnce
  <2>12. ReqsOK'
    <3>1. ASSUME NEW p \in Reqs PROVE ReqOK(req[p])'
      <4>1. CASE p = r
        BY <4>1, <1>0, <1>1, <2>5 DEF ReqOK, KnowsLDI, HoldsTicket
      <4>2. CASE p # r
        <5>1. req'[p] = req[p] /\ ReqOK(req[p])
          BY <1>0, <2>5, <4>2 DEF IInv, ReqsOK
        <5>2. HoldsTicket(req[p]) => req[p].ticket # t
          BY <1>1, <4>2 DEF IInv, TicketsExclusive
        <5> QED BY <1>0, <2>2, <2>10, <5>1, <5>2 DEF ReqOK, HoldsTicket
      <4> QED BY <4>1, <4>2
    <3> QED BY <3>1 DEF ReqsOK
  <2>13. TicketsExclusive'
    BY <1>0, <2>5 DEF IInv, TicketsExclusive, HoldsTicket
  <2> QED BY <2>6, <2>7, <2>8, <2>9, <2>11, <2>12, <2>13 DEF IInv
<1> QED BY <1>2, <1>3

-----------------------------------------------------------------------------
(* Revoking and issuing leave bindings and tickets alone. *)

\* What such a step leaves of the invariant: the request r moves on to q and
\* the existing LDIs stay.
LEMMA TablesKept ==
    ASSUME IInv, NEW r \in Reqs, NEW q \in Request, ReqOK(q)', ~HoldsTicket(q),
           req' = [req EXCEPT ![r] = q], UNCHANGED <<binding, ticket>>,
           ldi' \in [LDIs -> LDIStatus],
           \A m \in LDIs : ldi'[m] = "absent" <=> ldi[m] = "absent",
           revoked \cup expired \subseteq revoked' \cup expired'
    PROVE  /\ UnboundIsEmpty' /\ OneHolder' /\ TicketsOK' /\ TicketBindsOnce'
           /\ ReqsOK' /\ TicketsExclusive' /\ req' \in [Reqs -> Request]
<1>0. req \in [Reqs -> Request]
  BY DEF IInv, TypeOK
<1>1. UnboundIsEmpty' /\ OneHolder' /\ TicketBindsOnce'
  BY DEF IInv, UnboundIsEmpty, OneHolder, TicketBindsOnce
<1>2. TicketsOK'
  BY DEF IInv, TicketsOK
<1>3. ASSUME NEW p \in Reqs PROVE ReqOK(req[p])'
  <2>1. CASE p = r
    BY <1>0, <2>1
  <2>2. CASE p # r
    <3>1. req'[p] = req[p] /\ ReqOK(req[p])
      BY <1>0, <2>2 DEF IInv, ReqsOK
    <3> QED BY <3>1 DEF ReqOK
  <2> QED BY <2>1, <2>2
<1>4. TicketsExclusive'
  BY <1>0 DEF IInv, TicketsExclusive
<1> QED BY <1>0, <1>1, <1>2, <1>3, <1>4 DEF ReqsOK

LEMMA RevokeKeepsInv ==
    ASSUME IInv, NEW r \in Reqs, Revoke(r)
    PROVE  IInv'
<1>0. /\ req \in [Reqs -> Request] /\ req[r].pc = "Revoke" /\ ReqOK(req[r])
      /\ UNCHANGED <<ldi, binding, ticket, svid, nextSerial, expired>>
  BY DEF IInv, TypeOK, ReqsOK, Revoke
<1>1. PICK s \in Serials : IsFirst(s, req[r].priors) /\ revoked' = revoked \cup {s}
  BY DEF Revoke
<1>2. PICK q \in Request :
        /\ q.pc = "MarkRevoked" /\ q.ldi = req[r].ldi /\ q.priors = req[r].priors
        /\ req' = [req EXCEPT ![r] = q]
  <2> DEFINE p == [req[r] EXCEPT !.pc = "MarkRevoked"]
  <2>1. /\ p \in Request /\ p.pc = "MarkRevoked" /\ p.ldi = req[r].ldi
        /\ p.priors = req[r].priors /\ req' = [req EXCEPT ![r] = p]
    BY <1>0 DEF Request, PCs, Revoke, Goto
  <2> HIDE DEF p
  <2> QED BY <2>1
<1>3. \A u \in Serials : IsFirst(u, req[r].priors) => u = s
  BY <1>1, MaxSerialAssumption DEF IsFirst, Serials
<1>4. ReqOK(q)' /\ ~HoldsTicket(q)
  BY <1>0, <1>1, <1>2, <1>3 DEF ReqOK, KnowsLDI, HoldsTicket
<1>5. ldi' \in [LDIs -> LDIStatus]
  BY <1>0 DEF IInv, TypeOK
<1>6. /\ UnboundIsEmpty' /\ OneHolder' /\ TicketsOK' /\ TicketBindsOnce'
      /\ ReqsOK' /\ TicketsExclusive' /\ req' \in [Reqs -> Request]
  BY <1>0, <1>1, <1>2, <1>4, <1>5, TablesKept
<1>7. TypeOK' /\ RevokedIsPublished'
  BY <1>0, <1>1, <1>6 DEF IInv, TypeOK, RevokedIsPublished
<1> QED BY <1>6, <1>7 DEF IInv

LEMMA MarkRevokedKeepsInv ==
    ASSUME IInv, NEW r \in Reqs, MarkRevoked(r)
    PROVE  IInv'
<1>0. /\ req \in [Reqs -> Request] /\ svid \in [Serials -> SVID]
      /\ req[r].pc = "MarkRevoked" /\ ReqOK(req[r])
      /\ UNCHANGED <<ldi, binding, ticket, nextSerial, revoked, expired>>
  BY DEF IInv, TypeOK, ReqsOK, MarkRevoked
<1>1. PICK s \in Serials :
        /\ IsFirst(s, req[r].priors)
        /\ svid' = [svid EXCEPT ![s].status = "revoked"] \/ UNCHANGED svid
        /\ NextPrior(r, s)
  BY DEF MarkRevoked
<1>2. s \in revoked \cup expired
  BY <1>0, <1>1 DEF ReqOK
<1>3. PICK pc \in {"SetLDIStatus", "Issue", "Revoke"} :
        req' = [req EXCEPT ![r].pc = pc, ![r].priors = req[r].priors \ {s}]
  BY <1>0, <1>1 DEF NextPrior, AfterPriors
<1>4. PICK q \in Request :
        q.pc = pc /\ q.ldi = req[r].ldi /\ req' = [req EXCEPT ![r] = q]
  <2> DEFINE p == [req[r] EXCEPT !.pc = pc, !.priors = req[r].priors \ {s}]
  <2>1. p \in Request /\ p.pc = pc /\ p.ldi = req[r].ldi
    BY <1>0 DEF Request, PCs
  <2>2. req' = [req EXCEPT ![r] = p]
    BY <1>0, <1>3
  <2> HIDE DEF p
  <2> QED BY <2>1, <2>2
<1>6. ReqOK(q)' /\ ~HoldsTicket(q)
  BY <1>0, <1>4 DEF ReqOK, KnowsLDI, HoldsTicket
<1>7. ldi' \in [LDIs -> LDIStatus]
  BY <1>0 DEF IInv, TypeOK
<1>8. /\ UnboundIsEmpty' /\ OneHolder' /\ TicketsOK' /\ TicketBindsOnce'
      /\ ReqsOK' /\ TicketsExclusive' /\ req' \in [Reqs -> Request]
  BY <1>0, <1>4, <1>6, <1>7, TablesKept
<1>9. /\ svid' \in [Serials -> SVID]
      /\ \A u \in Serials : u # s => svid'[u] = svid[u]
  <2>1. [svid[s] EXCEPT !.status = "revoked"] \in SVID
    BY <1>0 DEF SVID
  <2> QED BY <1>0, <1>1, <2>1
<1>10. TypeOK'
  BY <1>0, <1>8, <1>9 DEF IInv, TypeOK
<1>11. RevokedIsPublished'
  BY <1>0, <1>2, <1>9 DEF IInv, RevokedIsPublished
<1> QED BY <1>8, <1>10, <1>11 DEF IInv

LEMMA RecordIssuanceKeepsInv ==
    ASSUME IInv, NEW r \in Reqs, RecordIssuance(r)
    PROVE  IInv'
<1>0. /\ req[r] \in Request /\ svid \in [Serials -> SVID] /\ nextSerial \in Serials
      /\ UNCHANGED <<ldi, binding, ticket, revoked, expired>>
      /\ req' = [req EXCEPT ![r] = Idle]
  BY DEF IInv, TypeOK, RecordIssuance, Return
<1> DEFINE row == [status |-> "active", ldi |-> req[r].ldi, key |-> req[r].key,
                   esi |-> req[r].esi]
<1>1. svid' = [svid EXCEPT ![nextSerial] = row] /\ nextSerial' = nextSerial + 1
  BY DEF RecordIssuance
<1>2. row \in SVID /\ row.status = "active"
  BY <1>0 DEF SVID, Request
<1> HIDE DEF row
<1>3. ReqOK(Idle)'
  BY DEF ReqOK, Idle, KnowsLDI, HoldsTicket
<1>4. ldi' \in [LDIs -> LDIStatus]
  BY <1>0 DEF IInv, TypeOK
<1>5. /\ UnboundIsEmpty' /\ OneHolder' /\ TicketsOK' /\ TicketBindsOnce'
      /\ ReqsOK' /\ TicketsExclusive' /\ req' \in [Reqs -> Request]
  BY <1>0, <1>3, <1>4, IdleTyped, TablesKept
<1>6. nextSerial' \in 1 .. MaxSerial + 1
  BY <1>0, <1>1, MaxSerialAssumption DEF Serials
<1>7. TypeOK'
  BY <1>0, <1>1, <1>2, <1>5, <1>6 DEF IInv, TypeOK
<1>8. RevokedIsPublished'
  BY <1>0, <1>1, <1>2 DEF IInv, RevokedIsPublished
<1> QED BY <1>5, <1>7, <1>8 DEF IInv

LEMMA SetLDIStatusKeepsInv ==
    ASSUME IInv, NEW r \in Reqs, SetLDIStatus(r)
    PROVE  IInv'
<1>0. /\ ldi \in [LDIs -> LDIStatus]
      /\ UNCHANGED <<binding, ticket, svid, nextSerial, revoked, expired>>
      /\ req' = [req EXCEPT ![r] = Idle]
      /\ ldi' = [ldi EXCEPT ![req[r].ldi] = "revoked"]
  BY DEF IInv, TypeOK, SetLDIStatus, Return
<1>1. req[r].ldi \in LDIs /\ ldi[req[r].ldi] # "absent"
  BY DEF IInv, ReqsOK, ReqOK, KnowsLDI, SetLDIStatus
<1>2. /\ ldi' \in [LDIs -> LDIStatus]
      /\ \A m \in LDIs : ldi'[m] = "absent" <=> ldi[m] = "absent"
  BY <1>0, <1>1 DEF LDIStatus
<1>3. ReqOK(Idle)'
  BY DEF ReqOK, Idle, KnowsLDI, HoldsTicket
<1>4. /\ UnboundIsEmpty' /\ OneHolder' /\ TicketsOK' /\ TicketBindsOnce'
      /\ ReqsOK' /\ TicketsExclusive' /\ req' \in [Reqs -> Request]
  BY <1>0, <1>2, <1>3, IdleTyped, TablesKept
<1>5. TypeOK' /\ RevokedIsPublished'
  BY <1>0, <1>2, <1>4 DEF IInv, TypeOK, RevokedIsPublished
<1> QED BY <1>4, <1>5 DEF IInv

-----------------------------------------------------------------------------
(* Operator and clock *)

\* A ticket that was not consumed is held by no request and has bound nothing.
LEMMA TicketStepKeepsInv ==
    ASSUME IInv, NEW t \in Tickets, CreateTicket(t) \/ ExpireTicket(t)
    PROVE  IInv'
<1>0. /\ ticket \in [Tickets -> Ticket] /\ ticket[t].status # "consumed"
      /\ UNCHANGED <<ldi, binding, svid, nextSerial, revoked, expired, req>>
  BY DEF IInv, TypeOK, CreateTicket, ExpireTicket
<1>1. /\ ticket' \in [Tickets -> Ticket]
      /\ ticket'[t].status # "absent"
      /\ ticket'[t].ldi \in LDIs /\ ldi[ticket'[t].ldi] # "absent"
      /\ \A u \in Tickets : u # t => ticket'[u] = ticket[u]
  <2>1. CASE CreateTicket(t)
    <3>1. PICK l \in LDIs : /\ ldi[l] # "absent"
                            /\ ticket' = [ticket EXCEPT ![t] = [status |-> "active", ldi |-> l]]
      BY <2>1 DEF CreateTicket
    <3> QED BY <1>0, <3>1 DEF Ticket
  <2>2. CASE ExpireTicket(t)
    <3>1. /\ ticket[t].status = "active"
          /\ ticket' = [ticket EXCEPT ![t].status = "expired"]
      BY <2>2 DEF ExpireTicket
    <3>2. ticket[t].ldi \in LDIs /\ ldi[ticket[t].ldi] # "absent"
      BY <3>1 DEF IInv, TicketsOK
    <3> DEFINE row == [ticket[t] EXCEPT !.status = "expired"]
    <3>3. row \in Ticket /\ row.status = "expired" /\ row.ldi = ticket[t].ldi
      BY <1>0 DEF Ticket
    <3>4. ticket' = [ticket EXCEPT ![t] = row]
      BY <3>1
    <3> HIDE DEF row
    <3> QED BY <1>0, <3>2, <3>3, <3>4
  <2> QED BY <2>1, <2>2
<1>2. TypeOK' /\ UnboundIsEmpty' /\ OneHolder' /\ RevokedIsPublished' /\ TicketsExclusive'
  BY <1>0, <1>1 DEF IInv, TypeOK, UnboundIsEmpty, OneHolder, RevokedIsPublished, TicketsExclusive
<1>3. TicketsOK'
  BY <1>0, <1>1 DEF IInv, TicketsOK
<1>4. TicketBindsOnce'
  <2>1. \A e \in ESIs : binding[e].ticket \in Tickets \cup {None} /\ binding[e].ticket # t
    BY <1>0, NoneAssumption DEF IInv, TypeOK, Binding, TicketBindsOnce
  <2> QED BY <1>0, <1>1, <2>1 DEF IInv, TicketBindsOnce
<1>5. ReqsOK'
  BY <1>0, <1>1 DEF IInv, ReqsOK, ReqOK, HoldsTicket
<1> QED BY <1>2, <1>3, <1>4, <1>5 DEF IInv

LEMMA ClockStepKeepsInv ==
    ASSUME IInv, (\E s \in Serials : ExpireSVID(s)) \/ PruneExpired
    PROVE  IInv'
<1>0. /\ UNCHANGED <<ldi, binding, ticket, svid, nextSerial, req>>
      /\ revoked' \subseteq Serials /\ expired' \subseteq Serials
      /\ revoked \cup expired \subseteq revoked' \cup expired'
  BY DEF IInv, TypeOK, ExpireSVID, PruneExpired
<1>1. TypeOK' /\ UnboundIsEmpty' /\ OneHolder' /\ TicketsOK' /\ TicketBindsOnce'
  BY <1>0 DEF IInv, TypeOK, UnboundIsEmpty, OneHolder, TicketsOK, TicketBindsOnce
<1>2. RevokedIsPublished' /\ TicketsExclusive'
  BY <1>0 DEF IInv, RevokedIsPublished, TicketsExclusive
<1>3. ReqsOK'
  BY <1>0 DEF IInv, ReqsOK, ReqOK
<1> QED BY <1>1, <1>2, <1>3 DEF IInv

-----------------------------------------------------------------------------
LEMMA NextKeepsInv == IInv /\ [Next]_vars => IInv'
<1> SUFFICES ASSUME IInv, [Next]_vars PROVE IInv'
  OBVIOUS
<1>1. CASE UNCHANGED vars
  BY <1>1 DEF vars, IInv, TypeOK, UnboundIsEmpty, OneHolder, TicketsOK, TicketBindsOnce,
              RevokedIsPublished, ReqsOK, ReqOK, TicketsExclusive
<1>2. ASSUME NEW r \in Reqs, Start(r) \/ StoreError(r) \/ Abort(r) PROVE IInv'
  BY <1>2, StartKeepsInv, ReadingStepKeepsInv, ReturnKeepsInv DEF Abort
<1>3. ASSUME NEW r \in Reqs, Step(r) PROVE IInv'
  BY <1>3, CreateKeepsInv, ValidateTicketKeepsInv, RebindKeepsInv, ReadingStepKeepsInv,
     RevokeKeepsInv, MarkRevokedKeepsInv, RecordIssuanceKeepsInv, SetLDIStatusKeepsInv DEF Step
<1>4. CASE Environment
  BY <1>4, TicketStepKeepsInv, ClockStepKeepsInv DEF Environment
<1> QED BY <1>1, <1>2, <1>3, <1>4 DEF Next

LEMMA Invariant == Spec => []IInv
BY InitInv, NextKeepsInv, PTL DEF Spec

\* The store's tables and the requests in flight keep their types, for any
\* number of concurrent requests.
THEOREM Typed == Spec => []TypeOK
<1>1. IInv => TypeOK
  BY DEF IInv
<1> QED BY <1>1, Invariant, PTL

\* An existing LDI always has exactly one active ESI (CreateLDIAndBind, Rebind).
THEOREM AlwaysOneHolder == Spec => []OneHolder
<1>1. IInv => OneHolder
  BY DEF IInv
<1> QED BY <1>1, Invariant, PTL

\* A replacement ticket binds at most one ESI, to the LDI it names, however
\* many requests present it at once (Validate, Rebind).
THEOREM TicketsBindOnce == Spec => []TicketBindsOnce
<1>1. IInv => TicketBindsOnce
  BY DEF IInv
<1> QED BY <1>1, Invariant, PTL

\* An SVID marked revoked in the issuance log is on the revocation list until
\* it expires, wherever a revocation is interrupted (Revoke, MarkRevoked).
THEOREM RevokedArePublished == Spec => []RevokedIsPublished
<1>1. IInv => RevokedIsPublished
  BY DEF IInv
<1> QED BY <1>1, Invariant, PTL

LEMMA NextKeepsBindings ==
    ASSUME IInv, [Next]_vars
    PROVE  [BindingsKept /\ RevokedKept]_vars
<1>0. ldi \in [LDIs -> LDIStatus] /\ binding \in [ESIs -> Binding]
  BY DEF IInv, TypeOK
<1>1. CASE UNCHANGED <<ldi, binding>>
  BY <1>1 DEF BindingsKept, RevokedKept
<1>2. ASSUME NEW r \in Reqs, CreateLDIAndBind(r) PROVE BindingsKept /\ RevokedKept
  <2>1. CASE UNCHANGED <<ldi, binding>>
    BY <2>1 DEF BindingsKept, RevokedKept
  <2>2. CASE binding[req[r].esi].status = "unbound"
    <3>1. PICK l \in LDIs :
            /\ ldi[l] = "absent"
            /\ ldi' = [ldi EXCEPT ![l] = "active"]
            /\ binding' = [binding EXCEPT ![req[r].esi] =
                              [status |-> "active", ldi |-> l, ticket |-> None]]
      BY <1>2, <2>2 DEF CreateLDIAndBind
    <3> QED BY <1>0, <2>2, <3>1 DEF BindingsKept, RevokedKept
  <2> QED BY <1>2, <2>1, <2>2 DEF CreateLDIAndBind
<1>3. ASSUME NEW r \in Reqs, Rebind(r) PROVE BindingsKept /\ RevokedKept
  <2>1. UNCHANGED ldi
    BY <1>3 DEF Rebind
  <2>2. CASE UNCHANGED binding
    BY <2>1, <2>2 DEF BindingsKept, RevokedKept
  <2>3. CASE binding[req[r].esi].status = "unbound"
    <3>1. ASSUME NEW e \in ESIs, binding[e].status # "unbound"
          PROVE  binding'[e] = binding[e] \/ binding'[e] = [binding[e] EXCEPT !.status = "retired"]
      BY <1>3, <2>3, <3>1 DEF Rebind, Rebound
    <3>2. ASSUME NEW e \in ESIs
          PROVE  /\ [binding[e] EXCEPT !.status = "retired"].ldi = binding[e].ldi
                 /\ [binding[e] EXCEPT !.status = "retired"].status = "retired"
      BY <1>0 DEF Binding
    <3> QED BY <2>1, <3>1, <3>2 DEF BindingsKept, RevokedKept
  <2> QED BY <1>3, <2>2, <2>3 DEF Rebind
<1>4. ASSUME NEW r \in Reqs, SetLDIStatus(r) PROVE BindingsKept /\ RevokedKept
  BY <1>0, <1>4 DEF SetLDIStatus, BindingsKept, RevokedKept
<1>5. ASSUME NEW r \in Reqs, Start(r) \/ StoreError(r) \/ Abort(r) PROVE UNCHANGED <<ldi, binding>>
  BY <1>5 DEF Start, StartInitial, StartReplacement, StartReEnrollment, StartRenewal,
              StartRevocation, StoreError, Abort, storeUnchanged
<1>6. ASSUME NEW r \in Reqs, Step(r)
      PROVE  \/ CreateLDIAndBind(r) \/ Rebind(r) \/ SetLDIStatus(r)
             \/ UNCHANGED <<ldi, binding>>
  BY <1>6 DEF Step, ValidateTicket, GetLDI, Leaf, ActivePriors, Revoke, MarkRevoked,
              IssueX509SVID, RecordIssuance, storeUnchanged
<1>7. CASE Environment
  BY <1>1, <1>7 DEF Environment, CreateTicket, ExpireTicket, ExpireSVID, PruneExpired
<1>8. CASE UNCHANGED vars
  BY <1>8
<1> QED BY <1>1, <1>2, <1>3, <1>4, <1>5, <1>6, <1>7, <1>8 DEF Next

\* No step moves an ESI to another LDI, re-activates a retired ESI or revives a
\* revoked LDI.
THEOREM BindingsFinal == Spec => BindingsAreFinal
BY Invariant, NextKeepsBindings, PTL DEF Spec, BindingsAreFinal

-----------------------------------------------------------------------------
(* The registry of IdentityRegistry, as the tables represent it. *)

HolderMap == [l \in LDIs |-> Holders(l)]
FormerMap == {e \in ESIs : binding[e].status = "retired"}
NamesMap == [t \in Tickets |-> ticket[t].ldi]
SpentMap == {t \in Tickets : \E e \in ESIs : binding[e].ticket = t}
WithdrawnMap == {l \in LDIs : ldi[l] = "revoked"}
registryMap == <<HolderMap, FormerMap, NamesMap, SpentMap, WithdrawnMap>>

LEMMA RegistryInitRefines == Init => Registry!RegistryInit
BY NoneAssumption DEF Init, Unbound, Holders, Registry!RegistryInit

\* An ESI without a binding row is fresh in the registry.
LEMMA UnboundIsFresh ==
    ASSUME NEW e \in ESIs, binding[e].status = "unbound"
    PROVE  e \notin FormerMap /\ \A l \in LDIs : e \notin HolderMap[l]
BY DEF FormerMap, HolderMap, Holders

\* An LDI that does not exist has no holder, one that exists has.
LEMMA HoldersExist ==
    ASSUME IInv, NEW l \in LDIs
    PROVE  Holders(l) = {} <=> ldi[l] = "absent"
BY DEF IInv, OneHolder, Holders

LEMMA CreateRefines ==
    ASSUME IInv, NEW r \in Reqs, CreateLDIAndBind(r)
    PROVE  [Registry!RegistryNext]_registryMap
<1>0. ldi \in [LDIs -> LDIStatus] /\ binding \in [ESIs -> Binding]
  BY DEF IInv, TypeOK
<1>1. CASE UNCHANGED <<ldi, binding>>
  BY <1>1 DEF CreateLDIAndBind, registryMap, HolderMap, FormerMap, NamesMap, SpentMap,
              WithdrawnMap, Holders
<1>2. CASE ~UNCHANGED <<ldi, binding>>
  <2> DEFINE e == req[r].esi
  <2>1. e \in ESIs /\ binding[e].status = "unbound" /\ UNCHANGED ticket
    BY <1>2 DEF CreateLDIAndBind, IInv, ReqsOK, ReqOK
  <2>2. PICK l \in LDIs :
          /\ ldi[l] = "absent"
          /\ ldi' = [ldi EXCEPT ![l] = "active"]
          /\ binding' = [binding EXCEPT ![e] =
                            [status |-> "active", ldi |-> l, ticket |-> None]]
    BY <1>2 DEF CreateLDIAndBind
  <2>3. binding[e].ticket = None
    BY <2>1 DEF IInv, UnboundIsEmpty, Unbound
  <2>4. Holders(l) = {}
    BY <2>2, HoldersExist
  <2>5. HolderMap' = [HolderMap EXCEPT ![l] = {e}]
    <3>1. ASSUME NEW m \in LDIs PROVE Holders(m)' = IF m = l THEN {e} ELSE Holders(m)
      BY <1>0, <2>1, <2>2, <2>4 DEF Holders
    <3> QED BY <3>1 DEF HolderMap
  <2>6. FormerMap' = FormerMap /\ WithdrawnMap' = WithdrawnMap /\ NamesMap' = NamesMap
    BY <1>0, <2>1, <2>2 DEF FormerMap, WithdrawnMap, NamesMap
  <2>7. SpentMap' = SpentMap
    <3>1. \A f \in ESIs : binding'[f].ticket = binding[f].ticket
      BY <1>0, <2>1, <2>2, <2>3
    <3> QED BY <3>1 DEF SpentMap
  <2>8. Registry!Create(l, e)
    BY <2>1, <2>4, <2>5, <2>6, <2>7, UnboundIsFresh
       DEF Registry!Create, Registry!Fresh, HolderMap, FormerMap, NamesMap, SpentMap, WithdrawnMap
  <2> QED BY <2>1, <2>2, <2>8 DEF Registry!RegistryNext
<1> QED BY <1>1, <1>2

LEMMA RebindRefines ==
    ASSUME IInv, NEW r \in Reqs, Rebind(r)
    PROVE  [Registry!RegistryNext]_registryMap
<1>0. binding \in [ESIs -> Binding]
  BY DEF IInv, TypeOK
<1>1. CASE UNCHANGED binding
  BY <1>1 DEF Rebind, registryMap, HolderMap, FormerMap, NamesMap, SpentMap,
              WithdrawnMap, Holders
<1>2. CASE ~UNCHANGED binding
  <2>1. PICK e \in ESIs, l \in LDIs, t \in Tickets :
        /\ e = req[r].esi /\ l = req[r].ldi /\ t = req[r].ticket
        /\ binding[e].status = "unbound"
        /\ binding' = Rebound(e, l, t)
        /\ UNCHANGED <<ldi, ticket>>
    BY <1>2 DEF Rebind, IInv, ReqsOK, ReqOK, KnowsLDI
  <2>2. ticket[t].ldi = l /\ \A f \in ESIs : binding[f].ticket # t
    BY <2>1 DEF Rebind, IInv, ReqsOK, ReqOK, HoldsTicket
  <2>3. binding[e].ticket = None /\ binding[e].ldi = None /\ None \notin LDIs /\ None # t
    BY <2>1, NoneAssumption DEF IInv, UnboundIsEmpty, Unbound
  <2>4. /\ binding'[e] = [status |-> "active", ldi |-> l, ticket |-> t]
        /\ \A f \in ESIs \ {e} :
              /\ binding'[f].ldi = binding[f].ldi
              /\ binding'[f].ticket = binding[f].ticket
              /\ binding'[f].status = IF binding[f].ldi = l THEN "retired" ELSE binding[f].status
    BY <1>0, <2>1 DEF Rebound, Binding
  <2>5. HolderMap' = [HolderMap EXCEPT ![l] = {e}]
    <3>1. ASSUME NEW m \in LDIs PROVE Holders(m)' = IF m = l THEN {e} ELSE Holders(m)
      BY <2>1, <2>3, <2>4 DEF Holders
    <3> QED BY <3>1 DEF HolderMap
  <2>6. ASSUME NEW f \in ESIs, binding[f].ldi = l
        PROVE  binding[f].status \in {"active", "retired"}
    BY <1>0, <2>1, <2>3, <2>6 DEF Binding, IInv, UnboundIsEmpty, Unbound
  <2>7. FormerMap' = FormerMap \cup HolderMap[l]
    BY <2>1, <2>3, <2>4, <2>6 DEF FormerMap, HolderMap, Holders
  <2>8. SpentMap' = SpentMap \cup {t}
    <3>1. ASSUME NEW x \in Tickets
          PROVE  (\E f \in ESIs : binding'[f].ticket = x)
                    <=> x = t \/ \E f \in ESIs : binding[f].ticket = x
      <4>1. x # None
        BY NoneAssumption
      <4> QED BY <2>1, <2>3, <2>4, <4>1
    <3> QED BY <2>1, <3>1 DEF SpentMap
  <2>9. NamesMap' = NamesMap /\ WithdrawnMap' = WithdrawnMap
    BY <2>1 DEF NamesMap, WithdrawnMap
  <2>10. NamesMap[t] = l /\ t \notin SpentMap
    BY <2>1, <2>2 DEF NamesMap, SpentMap
  <2>11. Registry!Replace(t, l, e)
    BY <2>1, <2>5, <2>7, <2>8, <2>9, <2>10, UnboundIsFresh
       DEF Registry!Replace, Registry!Fresh, HolderMap, FormerMap, NamesMap, SpentMap, WithdrawnMap
  <2> QED BY <2>11 DEF Registry!RegistryNext
<1> QED BY <1>1, <1>2

LEMMA WithdrawRefines ==
    ASSUME IInv, NEW r \in Reqs, SetLDIStatus(r)
    PROVE  [Registry!RegistryNext]_registryMap
<1>1. PICK l \in LDIs :
      /\ l = req[r].ldi /\ ldi[l] # "absent" /\ ldi \in [LDIs -> LDIStatus]
      /\ ldi' = [ldi EXCEPT ![l] = "revoked"]
      /\ UNCHANGED <<binding, ticket>>
  BY DEF SetLDIStatus, IInv, TypeOK, ReqsOK, ReqOK, KnowsLDI
<1>2. HolderMap' = HolderMap /\ FormerMap' = FormerMap /\ NamesMap' = NamesMap /\ SpentMap' = SpentMap
  BY <1>1 DEF HolderMap, FormerMap, NamesMap, SpentMap, Holders
<1>3. WithdrawnMap' = WithdrawnMap \cup {l}
  BY <1>1 DEF WithdrawnMap
<1>4. HolderMap[l] # {}
  BY <1>1, HoldersExist DEF HolderMap
<1>5. Registry!Withdraw(l)
  BY <1>2, <1>3, <1>4 DEF Registry!Withdraw, HolderMap, FormerMap, NamesMap, SpentMap, WithdrawnMap
<1> QED BY <1>5 DEF Registry!RegistryNext

LEMMA EntitleRefines ==
    ASSUME IInv, NEW t \in Tickets, CreateTicket(t)
    PROVE  [Registry!RegistryNext]_registryMap
<1>1. /\ ticket \in [Tickets -> Ticket] /\ ticket[t].ldi = None
      /\ UNCHANGED <<ldi, binding>>
  BY DEF CreateTicket, IInv, TypeOK, TicketsOK
<1>2. PICK l \in LDIs :
        /\ ldi[l] # "absent"
        /\ ticket' = [ticket EXCEPT ![t] = [status |-> "active", ldi |-> l]]
  BY DEF CreateTicket
<1>3. NamesMap[t] = None /\ NamesMap' = [NamesMap EXCEPT ![t] = l]
  BY <1>1, <1>2 DEF NamesMap
<1>4. /\ HolderMap' = HolderMap /\ FormerMap' = FormerMap
      /\ SpentMap' = SpentMap /\ WithdrawnMap' = WithdrawnMap
  BY <1>1 DEF HolderMap, FormerMap, WithdrawnMap, SpentMap, Holders
<1>5. HolderMap[l] # {}
  BY <1>2, HoldersExist DEF HolderMap
<1>6. Registry!Entitle(t, l)
  BY <1>3, <1>4, <1>5 DEF Registry!Entitle, HolderMap, FormerMap, NamesMap, SpentMap, WithdrawnMap
<1> QED BY <1>6 DEF Registry!RegistryNext

\* A ticket that is consumed or expires still names its LDI.
LEMMA TicketKeepsLDI ==
    ASSUME IInv,
           \/ \E r \in Reqs : ValidateTicket(r)
           \/ \E t \in Tickets : ExpireTicket(t)
    PROVE  UNCHANGED registryMap
<1>1. ticket \in [Tickets -> Ticket]
  BY DEF IInv, TypeOK
<1>2. UNCHANGED <<ldi, binding>> /\ \A t \in Tickets : ticket'[t].ldi = ticket[t].ldi
  <2>1. ASSUME NEW r \in Reqs, ValidateTicket(r)
        PROVE  UNCHANGED <<ldi, binding>> /\ \A t \in Tickets : ticket'[t].ldi = ticket[t].ldi
    BY <1>1, <2>1 DEF ValidateTicket, Ticket
  <2>2. ASSUME NEW x \in Tickets, ExpireTicket(x)
        PROVE  UNCHANGED <<ldi, binding>> /\ \A t \in Tickets : ticket'[t].ldi = ticket[t].ldi
    BY <1>1, <2>2 DEF ExpireTicket, Ticket
  <2> QED BY <2>1, <2>2
<1> QED BY <1>2 DEF registryMap, HolderMap, FormerMap, NamesMap, SpentMap, WithdrawnMap, Holders

LEMMA NextRefines ==
    ASSUME IInv, [Next]_vars
    PROVE  [Registry!RegistryNext]_registryMap
<1>1. CASE UNCHANGED <<ldi, binding, ticket>>
  BY <1>1 DEF registryMap, HolderMap, FormerMap, NamesMap, SpentMap, WithdrawnMap, Holders
<1>2. ASSUME NEW r \in Reqs, Start(r) \/ StoreError(r) \/ Abort(r)
      PROVE  UNCHANGED <<ldi, binding, ticket>>
  BY <1>2 DEF Start, StartInitial, StartReplacement, StartReEnrollment, StartRenewal,
              StartRevocation, StoreError, Abort, storeUnchanged
<1>3. ASSUME NEW r \in Reqs, Step(r)
      PROVE  \/ CreateLDIAndBind(r) \/ ValidateTicket(r) \/ Rebind(r) \/ SetLDIStatus(r)
             \/ UNCHANGED <<ldi, binding, ticket>>
  BY <1>3 DEF Step, GetLDI, Leaf, ActivePriors, Revoke, MarkRevoked,
              IssueX509SVID, RecordIssuance, storeUnchanged
<1>4. ASSUME Environment
      PROVE  \/ \E t \in Tickets : CreateTicket(t) \/ ExpireTicket(t)
             \/ UNCHANGED <<ldi, binding, ticket>>
  BY <1>4 DEF Environment, ExpireSVID, PruneExpired
<1>5. CASE UNCHANGED vars
  BY <1>1, <1>5 DEF vars
<1> QED
  BY <1>1, <1>2, <1>3, <1>4, <1>5, CreateRefines, RebindRefines, WithdrawRefines,
     EntitleRefines, TicketKeepsLDI DEF Next

\* However requests interleave and are cut short, the tables implement the
\* registry: one holder, replaced only once per ticket, nobody coming back.
THEOREM RegistryRefinement == Spec => ImplementsRegistry
<1>1. IInv /\ [Next]_vars => [Registry!RegistryNext]_registryMap
  BY NextRefines
<1> QED BY <1>1, RegistryInitRefines, Invariant, PTL
        DEF Spec, ImplementsRegistry, Registry!RegistrySpec, registryMap, Registry!registryVars,
            HolderMap, FormerMap, NamesMap, SpentMap, WithdrawnMap
-----------------------------------------------------------------------------
(* Overlapping requests.  RaceInv is about revocation: a revocation that has  *)
(* read the active rows knows every SVID that is not raced, and a request     *)
(* that passed its status check before the LDI was revoked ran beside the     *)
(* revocation.  KeyInv is about the keys of an LDI that is not disturbed: the *)
(* request that works on it is the only one, so what Leaf or ActivePriors     *)
(* told it still holds when it issues.                                        *)

\* Past the check of the LDI's status.
Late(q) == q.pc \in {"Rebind", "Leaf", "ActivePriors", "Revoke", "MarkRevoked", "Issue", "Record"}

RaceOK(r) ==
    /\ req[r].flow = "revocation" =>
          req[r].pc \in {"ActivePriors", "Revoke", "MarkRevoked", "SetLDIStatus"}
    /\ req[r].pc = "SetLDIStatus" =>
          req[r].flow = "revocation" /\ LiveOf(req[r].ldi) \subseteq raced
    /\ req[r].flow = "revocation" /\ req[r].pc \in {"Revoke", "MarkRevoked"} =>
          LiveOf(req[r].ldi) \subseteq req[r].priors \cup raced
    /\ Late(req[r]) /\ req[r].flow # "revocation" /\ ldi[req[r].ldi] = "revoked" =>
          r \in beside
    /\ \A s \in req[r].priors : s \in Serials /\ svid[s].status # "absent"

\* Rows that are written name LDIs that exist; those to come are blank.
LogInOrder ==
    \A s \in Serials :
        /\ svid[s].status # "absent" => svid[s].ldi \in LDIs /\ ldi[svid[s].ldi] # "absent"
        /\ s >= nextSerial => svid[s].status = "absent"

BesideKnown == \A r \in Reqs : req[r].pc # "idle" /\ MetRevocation(r) => r \in beside

RaceInv == LogInOrder /\ LiveOnlyIfRaced /\ BesideKnown /\ \A r \in Reqs : RaceOK(r)

Calm == LDIs \ disturbed

\* The request revokes all that is live, or has the key of all that is live.
KeyOK(r) ==
    req[r].ldi \in Calm =>
        /\ req[r].pc \in {"Revoke", "MarkRevoked"} => LiveOf(req[r].ldi) \subseteq req[r].priors
        /\ req[r].pc \in {"Issue", "Record"} =>
              \A s \in LiveOf(req[r].ldi) : svid[s].key = req[r].key

Alone == \A r, p \in Reqs : req[r].ldi \in Calm /\ req[p].ldi = req[r].ldi => r = p

\* An SVID that is live now was live when the later ones were issued, which
\* therefore have its key, whether or not they have been listed since.
OlderAgree ==
    \A l \in Calm : \A s \in LiveOf(l), t \in ActiveSVIDs(l) :
        s <= t => svid[s].key = svid[t].key

KeyInv == Alone /\ OlderAgree /\ \A r \in Reqs : KeyOK(r)

-----------------------------------------------------------------------------
LEMMA Watches == [HNext]_hvars => [Next]_vars
BY DEF HNext, hvars

LEMMA HSpecImplements == HSpec => Spec
BY Watches, PTL DEF HSpec, HInit, Spec

\* What is on neither list nor expired still counts as active.
LEMMA LiveIsActive ==
    ASSUME IInv, NEW l PROVE LiveOf(l) \subseteq ActiveSVIDs(l)
BY DEF LiveOf, Live, ActiveSVIDs, IInv, TypeOK, RevokedIsPublished, SVID

\* The active SVIDs of an LDI have a latest one, unless there are none.
LEMMA LatestExists ==
    ASSUME NEW S, S \subseteq Serials, S # {}
    PROVE  \E s \in S : IsLatest(s, S)
<1> DEFINE T == {n \in Nat : MaxSerial - n \in S}
<1> DEFINE R == OpToRel(<, Nat)
<1>1. \A t \in S : t \in Nat /\ MaxSerial - t \in Nat /\ MaxSerial - (MaxSerial - t) = t
  BY MaxSerialAssumption DEF Serials
<1>2. T \subseteq Nat /\ T # {} /\ \A t \in S : MaxSerial - t \in T
  BY <1>1
<1>3. IsWellFoundedOn(R, Nat)
  BY NatLessThanWellFounded
<1> HIDE DEF R, T
<1>4. PICK x \in T : \A y \in T : ~ (<<y, x>> \in R)
  BY <1>2, <1>3, WFMin
<1>5. ASSUME NEW y \in T PROVE x <= y
  <2>1. y < x => <<y, x>> \in R
    BY <1>2 DEF R, OpToRel
  <2> QED BY <1>2, <1>4, <2>1
<1>6. MaxSerial - x \in S /\ x \in Nat
  BY DEF T
<1>7. ASSUME NEW t \in S PROVE t <= MaxSerial - x
  BY <1>1, <1>2, <1>5, <1>6, MaxSerialAssumption
<1> QED BY <1>6, <1>7 DEF IsLatest

LEMMA OverlapInit == HInit => RaceInv /\ KeyInv
<1> SUFFICES ASSUME HInit PROVE RaceInv /\ KeyInv
  OBVIOUS
<1>1. \A r \in Reqs : req[r] = Idle /\ req[r].ldi = None /\ None \notin LDIs
  BY NoneAssumption DEF HInit, Init, Idle
<1>2. \A r \in Reqs : RaceOK(r) /\ KeyOK(r)
  BY <1>1 DEF Idle, RaceOK, KeyOK, Late, Calm
<1>3. LogInOrder /\ LiveOnlyIfRaced /\ BesideKnown /\ OlderAgree /\ Alone
  BY <1>1 DEF HInit, Init, Idle, LogInOrder, LiveOnlyIfRaced, BesideKnown, OlderAgree, Alone,
              Live, LiveOf, ActiveSVIDs, Calm
<1> QED BY <1>2, <1>3 DEF RaceInv, KeyInv

\* The history remembers by itself who met a revocation and who shared an LDI,
\* and forgets nothing that is still of interest.
LEMMA Tracked ==
    ASSUME Track
    PROVE  /\ BesideKnown' /\ Alone'
           /\ Calm' \subseteq Calm
           /\ \A r \in Reqs : r \in beside /\ req'[r].pc # "idle" => r \in beside'
           /\ \A s \in raced \cap Serials : Live(s)' => s \in raced'
<1>1. BesideKnown'
  BY DEF Track, BesideKnown
<1>2. Alone'
  BY DEF Track, Alone, Calm, Shared
<1>3. Calm' \subseteq Calm
  BY DEF Track, Calm
<1>4. \A r \in Reqs : r \in beside /\ req'[r].pc # "idle" => r \in beside'
  BY DEF Track
<1>5. \A s \in raced \cap Serials : Live(s)' => s \in raced'
  BY DEF Track
<1> QED BY <1>1, <1>2, <1>3, <1>4, <1>5

-----------------------------------------------------------------------------
\* A step that adds nothing to what is live and revokes no LDI keeps what is
\* said of the tables and of the requests it leaves alone.
Quiet ==
    /\ nextSerial' = nextSerial
    /\ \A l : LiveOf(l)' \subseteq LiveOf(l) /\ ActiveSVIDs(l)' \subseteq ActiveSVIDs(l)
    /\ \A s \in Serials : /\ svid'[s].key = svid[s].key /\ svid'[s].ldi = svid[s].ldi
                          /\ svid'[s].status = "absent" <=> svid[s].status = "absent"
    /\ \A l \in LDIs : /\ ldi'[l] = "revoked" => ldi[l] = "revoked"
                       /\ ldi'[l] = "absent" => ldi[l] = "absent"

LEMMA QuietTables ==
    ASSUME IInv, RaceInv, KeyInv, Track, Quiet
    PROVE  LogInOrder' /\ LiveOnlyIfRaced' /\ BesideKnown' /\ Alone' /\ OlderAgree'
<1>1. LogInOrder'
  BY DEF RaceInv, LogInOrder, Quiet
<1>2. LiveOnlyIfRaced'
  <2> SUFFICES ASSUME NEW s \in Serials, Live(s)', ldi'[svid'[s].ldi] = "revoked"
               PROVE  s \in raced'
    BY DEF LiveOnlyIfRaced
  <2>0. PICK l : l = svid'[s].ldi
    OBVIOUS
  <2>1. s \in LiveOf(l)'
    BY <2>0 DEF LiveOf
  <2>2. Live(s) /\ svid[s].ldi = svid'[s].ldi
    BY <2>0, <2>1 DEF Quiet, LiveOf
  <2>3. svid[s].ldi \in LDIs
    BY <2>2 DEF RaceInv, LogInOrder, Live
  <2>4. s \in raced
    BY <2>2, <2>3 DEF Quiet, RaceInv, LiveOnlyIfRaced
  <2> QED BY <2>4, Tracked
<1>3. OlderAgree'
  <2> SUFFICES ASSUME NEW l \in Calm', NEW s \in LiveOf(l)', NEW t \in ActiveSVIDs(l)', s <= t
               PROVE  svid'[s].key = svid'[t].key
    BY DEF OlderAgree
  <2>1. l \in Calm /\ s \in LiveOf(l) /\ t \in ActiveSVIDs(l)
    BY Tracked DEF Quiet
  <2>2. svid[s].key = svid[t].key
    BY <2>1 DEF KeyInv, OlderAgree
  <2>3. s \in Serials /\ t \in Serials
    BY <2>1 DEF LiveOf, ActiveSVIDs
  <2> QED BY <2>2, <2>3 DEF Quiet
<1> QED BY <1>1, <1>2, <1>3, Tracked

LEMMA QuietRequest ==
    ASSUME IInv, RaceInv, KeyInv, Track, Quiet, NEW p \in Reqs, req'[p] = req[p]
    PROVE  RaceOK(p)' /\ KeyOK(p)'
<1>0. req[p].ldi = req'[p].ldi /\ RaceOK(p) /\ KeyOK(p)
  BY DEF RaceInv, KeyInv
<1>1. LiveOf(req[p].ldi)' \subseteq LiveOf(req[p].ldi)
  BY <1>0 DEF Quiet
<1>2. \A X : LiveOf(req[p].ldi) \subseteq X \cup raced =>
             LiveOf(req[p].ldi)' \subseteq X \cup raced'
  BY <1>0, <1>1, Tracked DEF LiveOf
<1>3. LiveOf(req[p].ldi) \subseteq raced => LiveOf(req[p].ldi)' \subseteq raced'
  BY <1>0, <1>1, Tracked DEF LiveOf
<1>4. Late(req[p]) => req[p].ldi \in LDIs /\ req[p].pc # "idle"
  BY DEF Late, IInv, ReqsOK, ReqOK, KnowsLDI
<1>5. RaceOK(p)'
  BY <1>0, <1>2, <1>3, <1>4, Tracked DEF RaceOK, Late, Quiet
<1>6. KeyOK(p)'
  <2>1. req'[p].ldi \in Calm' => req[p].ldi \in Calm
    BY <1>0, Tracked
  <2>2. \A s \in LiveOf(req[p].ldi)' : s \in LiveOf(req[p].ldi) /\ svid'[s].key = svid[s].key
    BY <1>1 DEF Quiet, LiveOf
  <2> QED BY <1>0, <1>1, <2>1, <2>2 DEF KeyOK
<1> QED BY <1>5, <1>6

\* So what is left to show of a quiet step is what it does to its own request.
LEMMA QuietStep ==
    ASSUME IInv, RaceInv, KeyInv, Track, Quiet, NEW r \in Reqs,
           \A p \in Reqs \ {r} : req'[p] = req[p],
           RaceOK(r)' /\ KeyOK(r)'
    PROVE  RaceInv' /\ KeyInv'
BY QuietTables, QuietRequest DEF RaceInv, KeyInv

LEMMA StoreUnchangedIsQuiet == storeUnchanged => Quiet
BY DEF storeUnchanged, Quiet, LiveOf, Live, ActiveSVIDs

LEMMA ReturnOK ==
    ASSUME IInv, NEW r \in Reqs, Return(r)
    PROVE  RaceOK(r)' /\ KeyOK(r)' /\ \A p \in Reqs \ {r} : req'[p] = req[p]
<1>1. req'[r] = Idle /\ \A p \in Reqs \ {r} : req'[p] = req[p]
  BY DEF Return, IInv, TypeOK
<1> QED BY <1>1 DEF Idle, RaceOK, KeyOK, Late

LEMMA GotoFields ==
    ASSUME IInv, NEW r \in Reqs, NEW pc, Goto(r, pc)
    PROVE  /\ req'[r].pc = pc /\ req'[r].flow = req[r].flow
           /\ req'[r].ldi = req[r].ldi /\ req'[r].key = req[r].key
           /\ req'[r].priors = req[r].priors
           /\ \A p \in Reqs \ {r} : req'[p] = req[p]
BY DEF IInv, TypeOK, Request, Goto

LEMMA StartKeepsOverlap ==
    ASSUME IInv, RaceInv, KeyInv, Track, NEW r \in Reqs, Start(r)
    PROVE  RaceInv' /\ KeyInv'
<1>0. storeUnchanged /\ req \in [Reqs -> Request]
  BY DEF Start, StartInitial, StartReplacement, StartReEnrollment, StartRenewal,
         StartRevocation, IInv, TypeOK
<1>1. RaceOK(r)' /\ KeyOK(r)' /\ \A p \in Reqs \ {r} : req'[p] = req[p]
  <2> USE DEF Begin, RaceOK, KeyOK, Late, storeUnchanged
  <2>1. CASE StartInitial(r)
    BY <1>0, <2>1 DEF StartInitial
  <2>2. CASE StartReplacement(r)
    BY <1>0, <2>2 DEF StartReplacement
  <2>3. CASE StartReEnrollment(r)
    BY <1>0, <2>3 DEF StartReEnrollment
  <2>4. CASE StartRenewal(r)
    BY <1>0, <2>4 DEF StartRenewal
  <2>5. CASE StartRevocation(r)
    BY <1>0, <2>5 DEF StartRevocation
  <2> QED BY <2>1, <2>2, <2>3, <2>4, <2>5 DEF Start
<1> QED BY <1>0, <1>1, StoreUnchangedIsQuiet, QuietStep

LEMMA AbortKeepsOverlap ==
    ASSUME IInv, RaceInv, KeyInv, Track, NEW r \in Reqs, Return(r), storeUnchanged
    PROVE  RaceInv' /\ KeyInv'
BY ReturnOK, StoreUnchangedIsQuiet, QuietStep

\* The calls that read the store (or the CA) and decide where to go next.  Leaf
\* looks at the latest active row only; every live SVID has its key.
LEMMA ReadKeepsOverlap ==
    ASSUME IInv, RaceInv, KeyInv, Track, NEW r \in Reqs,
           GetLDI(r) \/ Leaf(r) \/ ActivePriors(r) \/ IssueX509SVID(r) \/ StoreError(r)
    PROVE  RaceInv' /\ KeyInv'
<1>0. storeUnchanged /\ RaceOK(r) /\ KeyOK(r)
  BY DEF GetLDI, Leaf, ActivePriors, IssueX509SVID, StoreError, RaceInv, KeyInv
<1>1. Quiet /\ UNCHANGED <<ldi, svid>>
  BY <1>0, StoreUnchangedIsQuiet DEF storeUnchanged
<1>2. \A l : LiveOf(l)' = LiveOf(l) /\ ActiveSVIDs(l)' = ActiveSVIDs(l)
  BY <1>0 DEF storeUnchanged, LiveOf, Live, ActiveSVIDs
<1>3. LiveOf(req[r].ldi) \subseteq ActiveSVIDs(req[r].ldi)
  BY LiveIsActive
<1>4. CASE Return(r)
  BY <1>0, <1>4, AbortKeepsOverlap
<1>5. CASE GetLDI(r) /\ ~Return(r)
  <2>1. req[r].pc = "GetLDI" /\ ldi[req[r].ldi] = "active" /\ Goto(r, "Rebind")
    BY <1>5 DEF GetLDI
  <2>2. RaceOK(r)' /\ KeyOK(r)'
    BY <1>0, <1>1, <2>1, GotoFields DEF RaceOK, KeyOK, Late
  <2> QED BY <1>1, <2>1, <2>2, GotoFields, QuietStep
<1>6. CASE Leaf(r) /\ ~Return(r)
  <2> DEFINE active == ActiveSVIDs(req[r].ldi)
  <2>1. req[r].pc = "Leaf" /\ (Goto(r, "Issue") \/ Goto(r, "ActivePriors"))
    BY <1>6 DEF Leaf
  <2>2. PICK pc \in {"Issue", "ActivePriors"} : Goto(r, pc)
    BY <2>1
  <2>3. RaceOK(r)'
    BY <1>0, <1>1, <2>1, <2>2, GotoFields, Tracked DEF RaceOK, Late
  <2>4. CASE Goto(r, "ActivePriors")
    <3>1. KeyOK(r)'
      BY <2>4, GotoFields DEF KeyOK
    <3> QED BY <1>1, <2>2, <2>3, <3>1, GotoFields, QuietStep
  <2>5. CASE ~Goto(r, "ActivePriors")
    <3>1. Goto(r, "Issue")
      BY <2>1, <2>5
    <3>2. \A s \in active : IsLatest(s, active) => svid[s].key = req[r].key
      BY <1>6, <2>5 DEF Leaf
    <3>3. ASSUME req[r].ldi \in Calm, NEW s \in LiveOf(req[r].ldi) PROVE svid[s].key = req[r].key
      <4>1. active \subseteq Serials /\ s \in active
        BY <1>3, <3>3 DEF ActiveSVIDs
      <4>2. PICK t \in active : IsLatest(t, active)
        BY <4>1, LatestExists
      <4>3. s <= t
        BY <4>1, <4>2 DEF IsLatest
      <4> QED BY <3>2, <3>3, <4>2, <4>3 DEF KeyInv, OlderAgree
    <3>4. KeyOK(r)'
      BY <1>1, <1>2, <3>1, <3>3, GotoFields, Tracked DEF KeyOK
    <3> QED BY <1>1, <2>2, <2>3, <3>4, GotoFields, QuietStep
  <2> QED BY <2>4, <2>5
<1>7. CASE ActivePriors(r)
  <2> DEFINE active == ActiveSVIDs(req[r].ldi)
  <2>1. req[r].pc = "ActivePriors"
    BY <1>7 DEF ActivePriors
  <2>2. PICK pc : /\ pc = IF active = {} THEN AfterPriors(r) ELSE "Revoke"
                  /\ req' = [req EXCEPT ![r].pc = pc, ![r].priors = active]
    BY <1>7 DEF ActivePriors
  <2>3. /\ pc \in {"Revoke", "Issue", "SetLDIStatus"}
        /\ pc = "Issue" => req[r].flow # "revocation"
        /\ pc = "SetLDIStatus" => req[r].flow = "revocation"
    BY <2>2 DEF AfterPriors
  <2>4. /\ req'[r].pc = pc /\ req'[r].flow = req[r].flow
        /\ req'[r].ldi = req[r].ldi /\ req'[r].key = req[r].key
        /\ req'[r].priors = active
        /\ \A p \in Reqs \ {r} : req'[p] = req[p]
    BY <2>2 DEF IInv, TypeOK, Request
  <2>5. pc # "Revoke" => active = {}
    BY <2>2
  <2>6. LiveOf(req[r].ldi)' \subseteq active
    BY <1>2, <1>3, <2>4
  <2>p. \A s \in active : s \in Serials /\ svid[s].status # "absent"
    BY DEF ActiveSVIDs
  <2> HIDE DEF active
  <2>7. RaceOK(r)'
    BY <1>0, <1>1, <2>1, <2>3, <2>4, <2>5, <2>6, <2>p, Tracked DEF RaceOK, Late
  <2>8. KeyOK(r)'
    BY <2>3, <2>4, <2>5, <2>6 DEF KeyOK
  <2> QED BY <1>1, <2>4, <2>7, <2>8, QuietStep
<1>8. CASE IssueX509SVID(r)
  <2>1. req[r].pc = "Issue" /\ Goto(r, "Record")
    BY <1>8 DEF IssueX509SVID
  <2>2. RaceOK(r)'
    BY <1>0, <1>1, <2>1, GotoFields, Tracked DEF RaceOK, Late
  <2>3. KeyOK(r)'
    BY <1>0, <1>1, <1>2, <2>1, GotoFields, Tracked DEF KeyOK
  <2> QED BY <1>1, <2>1, <2>2, <2>3, GotoFields, QuietStep
<1>9. CASE StoreError(r)
  <2>1. /\ req[r].pc \in {"ActivePriors", "Revoke"} /\ req[r].flow # "revocation"
        /\ req' = [req EXCEPT ![r].pc = "Issue", ![r].priors = {}]
    BY <1>9 DEF StoreError
  <2>2. /\ req'[r].pc = "Issue" /\ req'[r].flow = req[r].flow
        /\ req'[r].ldi = req[r].ldi /\ req'[r].priors = {}
        /\ \A p \in Reqs \ {r} : req'[p] = req[p]
    BY <2>1 DEF IInv, TypeOK, Request
  <2>3. RaceOK(r)'
    BY <1>0, <1>1, <2>1, <2>2, Tracked DEF RaceOK, Late
  <2>4. req[r].ldi \in Calm' => LiveOf(req[r].ldi) = {}
    BY <2>1, <2>2 DEF Track, LeftPriors, Calm
  <2>5. KeyOK(r)'
    BY <1>2, <2>2, <2>4 DEF KeyOK
  <2> QED BY <1>1, <2>2, <2>3, <2>5, QuietStep
<1> QED BY <1>4, <1>5, <1>6, <1>7, <1>8, <1>9

\* The new LDI is in no row of the log.
LEMMA CreateKeepsOverlap ==
    ASSUME IInv, RaceInv, KeyInv, Track, NEW r \in Reqs, CreateLDIAndBind(r)
    PROVE  RaceInv' /\ KeyInv'
<1>0. /\ req \in [Reqs -> Request] /\ ldi \in [LDIs -> LDIStatus]
      /\ req[r].pc = "CreateLDIAndBind"
      /\ UNCHANGED <<svid, nextSerial, revoked, expired>>
  BY DEF IInv, TypeOK, CreateLDIAndBind
<1>1. \A l : LiveOf(l)' = LiveOf(l) /\ ActiveSVIDs(l)' = ActiveSVIDs(l)
  BY <1>0 DEF LiveOf, Live, ActiveSVIDs
<1>2. CASE Return(r) /\ UNCHANGED ldi
  <2>1. Quiet
    BY <1>0, <1>1, <1>2 DEF Quiet
  <2> QED BY <1>2, <2>1, ReturnOK, QuietStep
<1>3. CASE ~(Return(r) /\ UNCHANGED ldi)
  <2>1. PICK l \in LDIs :
          /\ ldi[l] = "absent"
          /\ ldi' = [ldi EXCEPT ![l] = "active"]
          /\ req' = [req EXCEPT ![r].pc = "Issue", ![r].ldi = l]
    BY <1>3 DEF CreateLDIAndBind
  <2>2. Quiet
    BY <1>0, <1>1, <2>1 DEF Quiet
  <2>3. LiveOf(l) = {}
    BY <2>1 DEF RaceInv, LogInOrder, LiveOf, Live
  <2>4. /\ req'[r].pc = "Issue" /\ req'[r].flow = req[r].flow /\ req'[r].ldi = l
        /\ req'[r].priors = req[r].priors
        /\ \A p \in Reqs \ {r} : req'[p] = req[p]
    BY <1>0, <2>1 DEF Request
  <2>5. req[r].flow # "revocation" /\ ldi'[l] = "active"
    BY <1>0, <2>1 DEF RaceInv, RaceOK
  <2>6. RaceOK(r)'
    BY <1>0, <2>4, <2>5 DEF RaceInv, RaceOK, Late
  <2>7. KeyOK(r)'
    BY <1>1, <2>3, <2>4 DEF KeyOK
  <2> QED BY <2>2, <2>4, <2>6, <2>7, QuietStep
<1> QED BY <1>2, <1>3

\* Tickets and bindings are not what the overlap is about.
LEMMA TicketAndRebindKeepOverlap ==
    ASSUME IInv, RaceInv, KeyInv, Track, NEW r \in Reqs, ValidateTicket(r) \/ Rebind(r)
    PROVE  RaceInv' /\ KeyInv'
<1>0. /\ req \in [Reqs -> Request] /\ req[r].pc \in {"ValidateTicket", "Rebind"}
      /\ UNCHANGED <<ldi, svid, nextSerial, revoked, expired>> /\ RaceOK(r)
  BY DEF IInv, TypeOK, ValidateTicket, Rebind, RaceInv
<1>1. Quiet
  BY <1>0 DEF Quiet, LiveOf, Live, ActiveSVIDs
<1>2. CASE Return(r)
  BY <1>1, <1>2, ReturnOK, QuietStep
<1>3. CASE ValidateTicket(r) /\ ~Return(r)
  <2>1. /\ req'[r].pc = "GetLDI" /\ req'[r].flow = req[r].flow
        /\ req'[r].priors = req[r].priors
        /\ \A p \in Reqs \ {r} : req'[p] = req[p]
    BY <1>0, <1>3 DEF ValidateTicket, Request
  <2>2. RaceOK(r)' /\ KeyOK(r)'
    BY <1>0, <2>1 DEF RaceOK, KeyOK, Late
  <2> QED BY <1>1, <2>1, <2>2, QuietStep
<1>4. CASE Rebind(r) /\ ~Return(r)
  <2>1. Goto(r, "ActivePriors") /\ req[r].pc = "Rebind"
    BY <1>4 DEF Rebind
  <2>2. RaceOK(r)' /\ KeyOK(r)'
    BY <1>0, <2>1, GotoFields, Tracked DEF RaceOK, KeyOK, Late
  <2> QED BY <1>1, <2>1, <2>2, GotoFields, QuietStep
<1> QED BY <1>2, <1>3, <1>4

LEMMA RevokeKeepsOverlap ==
    ASSUME IInv, RaceInv, KeyInv, Track, NEW r \in Reqs, Revoke(r)
    PROVE  RaceInv' /\ KeyInv'
<1>0. /\ req[r].pc = "Revoke" /\ Goto(r, "MarkRevoked")
      /\ revoked \subseteq revoked' /\ RaceOK(r) /\ KeyOK(r)
      /\ UNCHANGED <<ldi, svid, nextSerial, expired>>
  BY DEF Revoke, RaceInv, KeyInv
<1>1. Quiet
  BY <1>0 DEF Quiet, LiveOf, Live, ActiveSVIDs
<1>2. LiveOf(req[r].ldi)' \subseteq LiveOf(req[r].ldi)
  BY <1>0, <1>1, GotoFields DEF Quiet
<1>3. \A s \in LiveOf(req[r].ldi)' : s \in raced => s \in raced'
  BY <1>2, Tracked DEF LiveOf
<1>4. RaceOK(r)'
  BY <1>0, <1>2, <1>3, GotoFields, Tracked DEF RaceOK, Late
<1>5. KeyOK(r)'
  BY <1>0, <1>2, GotoFields, Tracked DEF KeyOK
<1> QED BY <1>0, <1>1, <1>4, <1>5, GotoFields, QuietStep

\* The prior that leaves the set is on the list by now, marked or not.
LEMMA MarkRevokedKeepsOverlap ==
    ASSUME IInv, RaceInv, KeyInv, Track, NEW r \in Reqs, MarkRevoked(r)
    PROVE  RaceInv' /\ KeyInv'
<1>0. /\ req \in [Reqs -> Request] /\ svid \in [Serials -> SVID]
      /\ req[r].pc = "MarkRevoked" /\ ReqOK(req[r]) /\ RaceOK(r) /\ KeyOK(r)
      /\ UNCHANGED <<ldi, nextSerial, revoked, expired>>
  BY DEF IInv, TypeOK, ReqsOK, MarkRevoked, RaceInv, KeyInv
<1>1. PICK s \in Serials :
        /\ IsFirst(s, req[r].priors)
        /\ svid' = [svid EXCEPT ![s].status = "revoked"] \/ UNCHANGED svid
        /\ NextPrior(r, s)
  BY DEF MarkRevoked
<1>2. s \in revoked \cup expired
  BY <1>0, <1>1 DEF ReqOK
<1>3. \A u \in Serials : /\ svid'[u].ldi = svid[u].ldi /\ svid'[u].key = svid[u].key
                         /\ svid'[u] = svid[u] \/ (u = s /\ svid'[u].status = "revoked")
  BY <1>0, <1>1 DEF SVID
<1>4. PICK pc : /\ pc = IF req[r].priors = {s} THEN AfterPriors(r) ELSE "Revoke"
                /\ req' = [req EXCEPT ![r].pc = pc, ![r].priors = req[r].priors \ {s}]
  BY <1>0, <1>1 DEF NextPrior
<1>5. /\ req'[r].pc = pc /\ req'[r].flow = req[r].flow
      /\ req'[r].ldi = req[r].ldi /\ req'[r].key = req[r].key
      /\ req'[r].priors = req[r].priors \ {s}
      /\ \A p \in Reqs \ {r} : req'[p] = req[p]
  BY <1>0, <1>4 DEF Request
<1>6. /\ pc \in {"Revoke", "Issue", "SetLDIStatus"}
      /\ pc = "Issue" => req[r].flow # "revocation"
      /\ pc = "SetLDIStatus" => req[r].flow = "revocation"
      /\ pc # "Revoke" => req[r].priors = {s}
  BY <1>4 DEF AfterPriors
<1>7. svid[s].status # "absent"
  BY <1>0, <1>1 DEF RaceOK, IsFirst
<1>8. \A l : LiveOf(l)' \subseteq LiveOf(l) \ {s}
  BY <1>0, <1>2, <1>3, <1>7 DEF LiveOf, Live
<1>9. Quiet
  BY <1>0, <1>3, <1>7, <1>8 DEF Quiet, ActiveSVIDs
<1>10. LiveOf(req[r].ldi)' \subseteq LiveOf(req[r].ldi) \ {s}
  BY <1>5, <1>8
<1>11. \A u \in LiveOf(req[r].ldi)' : u \in raced => u \in raced'
  BY <1>10, Tracked DEF LiveOf
<1>12. RaceOK(r)'
  <2>1. \A u \in req'[r].priors : u \in Serials /\ svid'[u].status # "absent"
    BY <1>0, <1>5, <1>9 DEF RaceOK, Quiet
  <2> QED BY <1>0, <1>5, <1>6, <1>10, <1>11, <2>1, Tracked DEF RaceOK, Late
<1>13. KeyOK(r)'
  BY <1>0, <1>5, <1>6, <1>10, Tracked DEF KeyOK
<1> QED BY <1>5, <1>9, <1>12, <1>13, QuietStep

\* The row that is added has the key of all that is live, if nobody disturbed
\* the request; if its LDI is being or has been revoked, the request met that.
LEMMA RecordKeepsOverlap ==
    ASSUME IInv, RaceInv, KeyInv, Track, NEW r \in Reqs, RecordIssuance(r)
    PROVE  RaceInv' /\ KeyInv'
<1>n. PICK n : n = nextSerial
  OBVIOUS
<1>m. PICK m : m = req[r].ldi
  OBVIOUS
<1>0. /\ svid \in [Serials -> SVID] /\ n \in Serials /\ n \in Nat /\ nextSerial' = n + 1
      /\ req[r].pc = "Record" /\ m \in LDIs /\ ldi[m] # "absent" /\ Return(r)
      /\ RaceOK(r) /\ KeyOK(r) /\ svid[n].status = "absent"
      /\ UNCHANGED <<ldi, revoked, expired>>
  BY <1>n, <1>m, MaxSerialAssumption
     DEF IInv, TypeOK, ReqsOK, ReqOK, KnowsLDI, RecordIssuance, RaceInv, KeyInv, LogInOrder, Serials
<1>1. /\ svid'[n].status = "active"
      /\ svid'[n].ldi = m /\ svid'[n].key = req[r].key
      /\ \A s \in Serials : s # n => svid'[s] = svid[s]
  BY <1>n, <1>m, <1>0 DEF RecordIssuance
<1>2. req'[r] = Idle /\ \A p \in Reqs \ {r} : req'[p] = req[p]
  BY <1>0 DEF Return, IInv, TypeOK
<1>3. r \in beside /\ Live(n)' => n \in raced'
  <2>1. req'[r] # req[r]
    BY <1>0, <1>2 DEF Idle
  <2> QED BY <1>0, <2>1 DEF Track
<1>4. \A l : /\ LiveOf(l)' \subseteq LiveOf(l) \cup {n} /\ (l # m => n \notin LiveOf(l)')
             /\ ActiveSVIDs(l)' \subseteq ActiveSVIDs(l) \cup {n} /\ (l # m => n \notin ActiveSVIDs(l)')
  BY <1>0, <1>1 DEF LiveOf, Live, ActiveSVIDs
<1>5. \A l : n \notin LiveOf(l) /\ n \notin ActiveSVIDs(l)
  BY <1>0 DEF LiveOf, Live, ActiveSVIDs
<1>6. \A s \in Serials : svid[s].status # "absent" => s < n
  BY <1>n, <1>0, MaxSerialAssumption DEF RaceInv, LogInOrder, Serials
<1>7. LogInOrder'
  BY <1>n, <1>0, <1>1, <1>6, MaxSerialAssumption DEF RaceInv, LogInOrder, Serials
<1>8. req[r].flow # "revocation"
  BY <1>0 DEF RaceOK
<1>9. LiveOnlyIfRaced'
  <2> SUFFICES ASSUME NEW s \in Serials, Live(s)', ldi'[svid'[s].ldi] = "revoked"
               PROVE  s \in raced'
    BY DEF LiveOnlyIfRaced
  <2>1. CASE s = n
    <3>1. r \in beside
      BY <1>m, <1>0, <1>1, <1>8, <2>1 DEF RaceOK, Late
    <3> QED BY <1>3, <2>1, <3>1
  <2>2. CASE s # n
    BY <1>0, <1>1, <2>2, Tracked DEF RaceInv, LiveOnlyIfRaced, Live
  <2> QED BY <2>1, <2>2
<1>10. OlderAgree'
  <2> SUFFICES ASSUME NEW l \in Calm', NEW s \in LiveOf(l)', NEW t \in ActiveSVIDs(l)', s <= t
               PROVE  svid'[s].key = svid'[t].key
    BY DEF OlderAgree
  <2>0. l \in Calm /\ s \in Serials /\ t \in Serials
    BY Tracked DEF LiveOf, ActiveSVIDs
  <2>1. CASE s # n /\ t # n
    BY <1>1, <1>4, <2>0, <2>1 DEF KeyInv, OlderAgree
  <2>2. CASE s # n /\ t = n
    <3>1. s \in LiveOf(l) /\ l = m
      BY <1>4, <2>2
    <3>2. svid[s].key = req[r].key
      BY <1>m, <1>0, <2>0, <3>1 DEF KeyOK
    <3> QED BY <1>1, <2>0, <2>2, <3>2
  <2>3. CASE s = n /\ t # n
    <3>1. t \in ActiveSVIDs(l)
      BY <1>4, <2>3
    <3>2. t < n
      BY <1>6, <3>1 DEF ActiveSVIDs
    <3> QED BY <1>0, <2>0, <2>3, <3>2, MaxSerialAssumption DEF Serials
  <2>4. CASE s = n /\ t = n
    BY <2>4
  <2> QED BY <2>1, <2>2, <2>3, <2>4
<1>11. ASSUME NEW p \in Reqs \ {r} PROVE RaceOK(p)' /\ KeyOK(p)'
  <2>0. req'[p] = req[p] /\ RaceOK(p) /\ KeyOK(p) /\ p \in Reqs
    BY <1>2 DEF RaceInv, KeyInv
  <2>p. \A s \in req[p].priors : s \in Serials /\ svid'[s].status # "absent"
    BY <1>1, <2>0 DEF RaceOK
  <2>1. CASE req[p].ldi # m
    <3>1. LiveOf(req[p].ldi)' \subseteq LiveOf(req[p].ldi)
      BY <1>4, <2>0, <2>1
    <3>2. \A s \in LiveOf(req[p].ldi)' : (s \in raced => s \in raced') /\ s # n /\ s \in Serials
      BY <1>5, <2>0, <3>1, Tracked DEF LiveOf
    <3>3. Late(req[p]) => req[p].pc # "idle"
      BY DEF Late
    <3>4. RaceOK(p)'
      BY <1>0, <2>0, <2>p, <3>1, <3>2, <3>3, Tracked DEF RaceOK, Late
    <3>5. KeyOK(p)'
      BY <1>1, <2>0, <3>1, <3>2, Tracked DEF KeyOK
    <3> QED BY <3>4, <3>5
  <2>2. CASE req[p].ldi = m
    <3>1. LiveOf(req[p].ldi)' \subseteq LiveOf(req[p].ldi) \cup {n}
      BY <1>4, <2>0
    <3>2. req[p].flow = "revocation" => r \in beside
      BY <1>m, <1>0, <1>8, <2>2 DEF RaceInv, BesideKnown, MetRevocation, Revoking
    <3>3. ASSUME r \in beside, NEW s \in LiveOf(req[p].ldi)'
          PROVE  s = n \/ s \in raced => s \in raced'
      BY <1>3, <3>3, Tracked DEF LiveOf
    <3>4. Late(req[p]) => req[p].pc # "idle"
      BY DEF Late
    <3>5. RaceOK(p)'
      BY <1>0, <2>0, <2>p, <3>1, <3>2, <3>3, <3>4, Tracked DEF RaceOK, Late
    <3>6. req[p].ldi \notin Calm
      BY <1>m, <2>0, <2>2 DEF KeyInv, Alone
    <3>7. KeyOK(p)'
      BY <2>0, <3>6, Tracked DEF KeyOK
    <3> QED BY <3>5, <3>7
  <2> QED BY <2>1, <2>2
<1> QED BY <1>0, <1>7, <1>9, <1>10, <1>11, ReturnOK, Tracked DEF RaceInv, KeyInv

\* What is still live was recorded by requests that met this revocation, and so
\* has everybody who may yet issue.
LEMMA SetLDIStatusKeepsOverlap ==
    ASSUME IInv, RaceInv, KeyInv, Track, NEW r \in Reqs, SetLDIStatus(r)
    PROVE  RaceInv' /\ KeyInv'
<1> DEFINE m == req[r].ldi
<1>0. /\ ldi \in [LDIs -> LDIStatus] /\ req[r].pc = "SetLDIStatus" /\ Return(r)
      /\ m \in LDIs /\ ldi' = [ldi EXCEPT ![m] = "revoked"] /\ RaceOK(r)
      /\ UNCHANGED <<svid, nextSerial, revoked, expired>>
  BY DEF IInv, TypeOK, ReqsOK, ReqOK, KnowsLDI, SetLDIStatus, RaceInv
<1>1. \A l : LiveOf(l)' = LiveOf(l) /\ ActiveSVIDs(l)' = ActiveSVIDs(l)
  BY <1>0 DEF LiveOf, Live, ActiveSVIDs
<1>2. req[r].flow = "revocation" /\ LiveOf(m) \subseteq raced
  BY <1>0 DEF RaceOK
<1>3. \A p \in Reqs \ {r} : req'[p] = req[p]
  BY <1>0, ReturnOK
<1>4. LogInOrder'
  BY <1>0 DEF RaceInv, LogInOrder
<1>5. LiveOnlyIfRaced'
  <2> SUFFICES ASSUME NEW s \in Serials, Live(s)', ldi'[svid'[s].ldi] = "revoked"
               PROVE  s \in raced'
    BY DEF LiveOnlyIfRaced
  <2>1. Live(s)
    BY <1>0 DEF Live
  <2>2. s \in raced
    BY <1>0, <1>2, <2>1 DEF RaceInv, LiveOnlyIfRaced, LogInOrder, LiveOf, Live
  <2> QED BY <2>2, Tracked
<1>6. OlderAgree'
  BY <1>0, <1>1, Tracked DEF KeyInv, OlderAgree
<1>7. ASSUME NEW p \in Reqs \ {r} PROVE RaceOK(p)' /\ KeyOK(p)'
  <2>0. req'[p] = req[p] /\ RaceOK(p) /\ KeyOK(p) /\ p \in Reqs
    BY <1>3 DEF RaceInv, KeyInv
  <2>1. \A s \in LiveOf(req[p].ldi)' : s \in LiveOf(req[p].ldi) /\ (s \in raced => s \in raced')
    BY <1>1, <2>0, Tracked DEF LiveOf
  <2>2. Late(req[p]) => req[p].pc # "idle" /\ req[p].ldi \in LDIs
    BY <2>0 DEF Late, IInv, ReqsOK, ReqOK, KnowsLDI
  <2>3. Late(req[p]) /\ req[p].flow # "revocation" /\ req[p].ldi = m => p \in beside
    BY <1>2, <2>0, <2>2 DEF RaceInv, BesideKnown, MetRevocation, Revoking
  <2>4. RaceOK(p)'
    BY <1>0, <2>0, <2>1, <2>2, <2>3, Tracked DEF RaceOK, Late
  <2>5. KeyOK(p)'
    BY <1>0, <2>0, <2>1, Tracked DEF KeyOK
  <2> QED BY <2>4, <2>5
<1> QED BY <1>0, <1>4, <1>5, <1>6, <1>7, ReturnOK, Tracked DEF RaceInv, KeyInv

\* Time only takes SVIDs away; pruning drops what has expired.
LEMMA EnvironmentKeepsOverlap ==
    ASSUME IInv, RaceInv, KeyInv, Track, Environment
    PROVE  RaceInv' /\ KeyInv'
<1>0. /\ UNCHANGED <<ldi, svid, nextSerial, req>> /\ expired \subseteq expired'
      /\ revoked \subseteq revoked' \cup expired'
  BY DEF Environment, CreateTicket, ExpireTicket, ExpireSVID, PruneExpired
<1>1. Quiet
  BY <1>0 DEF Quiet, LiveOf, Live, ActiveSVIDs
<1> QED BY <1>0, <1>1, QuietTables, QuietRequest DEF RaceInv, KeyInv

LEMMA NextKeepsOverlap == IInv /\ RaceInv /\ KeyInv /\ [HNext]_hvars => RaceInv' /\ KeyInv'
<1> SUFFICES ASSUME IInv, RaceInv, KeyInv, [HNext]_hvars PROVE RaceInv' /\ KeyInv'
  OBVIOUS
<1>1. CASE UNCHANGED hvars
  BY <1>1 DEF hvars, vars, history, RaceInv, KeyInv, LogInOrder, LiveOnlyIfRaced, BesideKnown,
              MetRevocation, Revoking, RaceOK, KeyOK, Late, Alone, OlderAgree, Calm, LiveOf, Live,
              ActiveSVIDs
<1>2. CASE HNext
  <2>0. Track /\ Next
    BY <1>2 DEF HNext
  <2>1. CASE Environment
    BY <2>0, <2>1, EnvironmentKeepsOverlap
  <2>2. ASSUME NEW r \in Reqs, Start(r) \/ StoreError(r) PROVE RaceInv' /\ KeyInv'
    BY <2>0, <2>2, StartKeepsOverlap, ReadKeepsOverlap
  <2>3. ASSUME NEW r \in Reqs, Abort(r) PROVE RaceInv' /\ KeyInv'
    BY <2>0, <2>3, AbortKeepsOverlap DEF Abort
  <2>4. ASSUME NEW r \in Reqs, Step(r) PROVE RaceInv' /\ KeyInv'
    BY <2>0, <2>4, CreateKeepsOverlap, TicketAndRebindKeepOverlap, ReadKeepsOverlap,
       RevokeKeepsOverlap, MarkRevokedKeepsOverlap, RecordKeepsOverlap,
       SetLDIStatusKeepsOverlap DEF Step
  <2> QED BY <2>0, <2>1, <2>2, <2>3, <2>4 DEF Next
<1> QED BY <1>1, <1>2

LEMMA OverlapInvariant == HSpec => [](IInv /\ RaceInv /\ KeyInv)
<1>1. HSpec => []IInv
  BY HSpecImplements, Invariant, PTL
<1> QED BY <1>1, OverlapInit, NextKeepsOverlap, PTL DEF HSpec

\* However requests interleave, are aborted or drop store errors, an SVID that
\* relying parties accept although its LDI is revoked was recorded by a request
\* that was in flight beside a revocation of that LDI (RevokeSPIFFEID).
THEOREM RevokedLiveOnlyIfRaced == HSpec => []LiveOnlyIfRaced
<1>1. RaceInv => LiveOnlyIfRaced
  BY DEF RaceInv
<1> QED BY <1>1, OverlapInvariant, PTL

\* All SVIDs of an LDI that relying parties accept certify one key as long as
\* its requests did not overlap and none dropped an error of
\* revokeActivePriors, whatever requests for other LDIs do: comparing with the
\* latest active row, as Renew does, is enough even if that row is listed.
THEOREM KeysStaySingle == HSpec => []OneLiveKey
<1>1. IInv /\ RaceInv /\ KeyInv => OneLiveKey
  <2> SUFFICES ASSUME IInv, RaceInv, KeyInv, NEW s \in Serials, NEW t \in Serials,
                      Live(s), Live(t), svid[s].ldi = svid[t].ldi, svid[s].ldi \notin disturbed
               PROVE  svid[s].key = svid[t].key
    BY DEF OneLiveKey
  <2>1. PICK l : l = svid[s].ldi
    OBVIOUS
  <2>2. s \in LiveOf(l) /\ t \in LiveOf(l) /\ l \in Calm
    BY <2>1 DEF LiveOf, Calm, RaceInv, LogInOrder, Live
  <2>3. s \in ActiveSVIDs(l) /\ t \in ActiveSVIDs(l)
    BY <2>2, LiveIsActive
  <2>4. s <= t \/ t <= s
    BY MaxSerialAssumption DEF Serials
  <2> QED BY <2>2, <2>3, <2>4 DEF KeyInv, OlderAgree
<1> QED BY <1>1, OverlapInvariant, PTL
=============================================================================
