------------------------ MODULE EnrollmentTokenProofs ------------------------
(***************************************************************************)
(* For any number of tokens, keys and concurrent requests, and wherever a    *)
(* request is cut short, the enrollment handler, the validator and the token *)
(* store implement TokenGrant.                                               *)
(*                                                                          *)
(* What makes it inductive: at most one request is between Consume and       *)
(* Enroll with a given token (Exclusive), such a token has bought nothing    *)
(* yet (ReqOK), and what a request or the outcome table holds is what was    *)
(* issued for the token (ReqOK, OutcomeOK).  A retry is answered because the *)
(* window of an outcome opens after the first answer (Windows).              *)
(***************************************************************************)
EXTENDS EnrollmentToken, TLAPS

ReqOK(q) ==
    /\ q.pc # "idle" => q.token \in Tokens /\ q.key \in Keys
    /\ q.pc = "Enroll" => /\ token[q.token].status = "consumed"
                          /\ \A i \in issued : i[1] # q.token
    /\ q.pc \in {"Respond", "RecordOutcome"} => <<q.token, q.key, q.svid>> \in issued

ReqsOK == \A r \in Reqs : ReqOK(req[r])

Exclusive ==
    \A r1, r2 \in Reqs :
        req[r1].pc = "Enroll" /\ req[r2].pc = "Enroll" /\ req[r1].token = req[r2].token
            => r1 = r2

IssuedConsumed == \A i \in issued : token[i[1]].status = "consumed"

OutcomeOK ==
    \A t \in Tokens : outcome[t] # NoOutcome => <<t, outcome[t].key, outcome[t].svid>> \in issued

IInv ==
    /\ TypeOK
    /\ ReqsOK
    /\ Exclusive
    /\ IssuedConsumed
    /\ OutcomeOK
    /\ OneSVIDPerToken

Token == [status : {"absent", "active", "consumed"}, expires : Nat]

-----------------------------------------------------------------------------
LEMMA IdleOK == Idle \in Request /\ Idle.pc = "idle"
BY DEF Idle, Request, PCs

LEMMA InitInv == Init => IInv
<1> SUFFICES ASSUME Init PROVE IInv
  OBVIOUS
<1>1. TypeOK
  BY IdleOK, TimeAssumption DEF Init, TypeOK
<1>2. ReqsOK /\ Exclusive
  BY IdleOK DEF Init, ReqsOK, ReqOK, Exclusive
<1>3. IssuedConsumed /\ OutcomeOK /\ OneSVIDPerToken
  BY DEF Init, IssuedConsumed, OutcomeOK, OneSVIDPerToken
<1> QED BY <1>1, <1>2, <1>3 DEF IInv

\* A request moves on to the state q and may send what was issued.
LEMMA RequestMoves ==
    ASSUME IInv, NEW r \in Reqs, NEW q \in Request, ReqOK(q),
           q.pc = "Enroll" => req[r].pc = "Enroll" /\ req[r].token = q.token,
           req' = [req EXCEPT ![r] = q], UNCHANGED <<now, storeVars>>,
           replies' \subseteq Reply,
           \A p \in replies' : <<p.token, p.key, p.svid>> \in issued
    PROVE  IInv'
<1>0. req \in [Reqs -> Request] /\ UNCHANGED <<now, token, outcome, nextSVID, issued>>
  BY DEF IInv, TypeOK, storeVars
<1>1. TypeOK'
  BY <1>0 DEF IInv, TypeOK
<1>2. ReqsOK'
  <2>1. ASSUME NEW p \in Reqs PROVE ReqOK(req[p])'
    <3>1. CASE p = r
      BY <1>0, <3>1 DEF ReqOK
    <3>2. CASE p # r
      <4>1. req'[p] = req[p] /\ ReqOK(req[p])
        BY <1>0, <3>2 DEF IInv, ReqsOK
      <4> QED BY <1>0, <4>1 DEF ReqOK
    <3> QED BY <3>1, <3>2
  <2> QED BY <2>1 DEF ReqsOK
<1>3. Exclusive'
  BY <1>0 DEF IInv, Exclusive
<1>4. IssuedConsumed' /\ OutcomeOK' /\ OneSVIDPerToken'
  BY <1>0 DEF IInv, IssuedConsumed, OutcomeOK, OneSVIDPerToken
<1> QED BY <1>1, <1>2, <1>3, <1>4 DEF IInv

LEMMA ReturnKeepsInv ==
    ASSUME IInv, NEW r \in Reqs, Return(r), UNCHANGED <<now, storeVars, replies>>
    PROVE  IInv'
<1>1. ReqOK(Idle)
  BY IdleOK DEF ReqOK
<1>2. replies' \subseteq Reply /\ \A p \in replies' : <<p.token, p.key, p.svid>> \in issued
  BY DEF IInv, TypeOK, OneSVIDPerToken
<1> QED BY <1>1, <1>2, IdleOK, RequestMoves DEF Return

LEMMA StartKeepsInv ==
    ASSUME IInv, NEW r \in Reqs, StartEnrollment(r)
    PROVE  IInv'
<1>1. PICK t \in Tokens, k \in Keys :
        req' = [req EXCEPT ![r] = [pc |-> "FindConsumed", token |-> t, key |-> k, svid |-> 0]]
  BY DEF StartEnrollment
<1> DEFINE q == [pc |-> "FindConsumed", token |-> t, key |-> k, svid |-> 0]
<1>2. q \in Request /\ ReqOK(q) /\ q.pc # "Enroll"
  BY DEF Request, PCs, ReqOK
<1> HIDE DEF q
<1>3. /\ UNCHANGED <<now, storeVars>> /\ replies' \subseteq Reply
      /\ \A p \in replies' : <<p.token, p.key, p.svid>> \in issued
  BY DEF StartEnrollment, IInv, TypeOK, OneSVIDPerToken
<1>4. req' = [req EXCEPT ![r] = q]
  BY <1>1 DEF q
<1> QED BY <1>2, <1>3, <1>4, RequestMoves

\* A request of which only the program counter changes.
LEMMA GotoIs ==
    ASSUME IInv, NEW r \in Reqs, NEW pc \in PCs, Goto(r, pc)
    PROVE  \E q \in Request :
              /\ q.pc = pc /\ q.token = req[r].token /\ q.key = req[r].key
              /\ q.svid = req[r].svid /\ req' = [req EXCEPT ![r] = q]
<1> DEFINE q == [req[r] EXCEPT !.pc = pc]
<1>1. req[r] \in Request
  BY DEF IInv, TypeOK
<1>2. q \in Request /\ q.pc = pc /\ q.token = req[r].token /\ q.key = req[r].key
      /\ q.svid = req[r].svid
  BY <1>1 DEF Request
<1>3. req' = [req EXCEPT ![r] = q]
  BY DEF Goto
<1> HIDE DEF q
<1> QED BY <1>2, <1>3

LEMMA FindConsumedKeepsInv ==
    ASSUME IInv, NEW r \in Reqs, FindConsumed(r)
    PROVE  IInv'
<1> DEFINE t == req[r].token
<1> DEFINE o == outcome[t]
<1>0. /\ req[r].pc = "FindConsumed" /\ ReqOK(req[r]) /\ t \in Tokens /\ req[r].key \in Keys
      /\ UNCHANGED <<now, storeVars>> /\ now \in Nat
  BY DEF FindConsumed, IInv, TypeOK, ReqsOK, ReqOK
<1>1. CASE Goto(r, "Consume") /\ UNCHANGED replies
  <2>1. PICK q \in Request :
           /\ q.pc = "Consume" /\ q.token = t /\ q.key = req[r].key
           /\ req' = [req EXCEPT ![r] = q]
    BY <1>1, GotoIs DEF PCs
  <2>2. ReqOK(q)
    BY <1>0, <2>1 DEF ReqOK
  <2>3. replies' \subseteq Reply /\ \A p \in replies' : <<p.token, p.key, p.svid>> \in issued
    BY <1>1 DEF IInv, TypeOK, OneSVIDPerToken
  <2> QED BY <1>0, <2>1, <2>2, <2>3, RequestMoves
<1>2. CASE o # NoOutcome /\ Send(t, o.key, o.svid) /\ Return(r)
  <2>1. <<t, o.key, o.svid>> \in issued
    BY <1>0, <1>2 DEF IInv, OutcomeOK
  <2>2. o.key \in Keys /\ o.svid \in SVIDs
    BY <1>0, <1>2 DEF IInv, TypeOK, Outcome
  <2> DEFINE p == [token |-> t, key |-> o.key, svid |-> o.svid, at |-> now]
  <2>3. p \in Reply /\ p.token = t /\ p.key = o.key /\ p.svid = o.svid
    BY <1>0, <2>2 DEF Reply
  <2>4. replies' = replies \cup {p}
    BY <1>2 DEF Send
  <2> HIDE DEF p
  <2>5. ReqOK(Idle)
    BY IdleOK DEF ReqOK
  <2>6. replies' \subseteq Reply /\ \A x \in replies' : <<x.token, x.key, x.svid>> \in issued
    BY <2>1, <2>3, <2>4 DEF IInv, TypeOK, OneSVIDPerToken
  <2> QED BY <1>0, <1>2, <2>5, <2>6, IdleOK, RequestMoves DEF Return
<1>3. CASE Return(r) /\ UNCHANGED replies
  BY <1>0, <1>3, ReturnKeepsInv
<1> QED BY <1>1, <1>2, <1>3 DEF FindConsumed

\* Consume succeeds only on an active token, which nobody else holds and which
\* has bought nothing.
LEMMA ConsumeKeepsInv ==
    ASSUME IInv, NEW r \in Reqs, Consume(r)
    PROVE  IInv'
<1> DEFINE t == req[r].token
<1>0. /\ req \in [Reqs -> Request] /\ req[r].pc = "Consume" /\ t \in Tokens /\ req[r].key \in Keys
      /\ token \in [Tokens -> Token]
      /\ UNCHANGED <<now, outcome, nextSVID, issued, replies>>
  BY DEF Consume, IInv, TypeOK, ReqsOK, ReqOK, Token
<1>1. CASE Return(r) /\ UNCHANGED token
  BY <1>0, <1>1, ReturnKeepsInv DEF storeVars
<1>2. CASE /\ token[t].status = "active"
           /\ token' = [token EXCEPT ![t].status = "consumed"]
           /\ Goto(r, "Enroll")
  <2>1. PICK q \in Request :
           /\ q.pc = "Enroll" /\ q.token = t /\ q.key = req[r].key
           /\ req' = [req EXCEPT ![r] = q]
    BY <1>2, GotoIs DEF PCs
  <2>2. /\ token' \in [Tokens -> Token] /\ token'[t].status = "consumed"
        /\ \A u \in Tokens : u # t => token'[u] = token[u]
    <3>1. [token[t] EXCEPT !.status = "consumed"] \in Token
      BY <1>0 DEF Token
    <3>2. [token[t] EXCEPT !.status = "consumed"].status = "consumed"
      BY <1>0 DEF Token
    <3> QED BY <1>0, <1>2, <3>1, <3>2
  <2>3. TypeOK'
    BY <1>0, <2>1, <2>2 DEF IInv, TypeOK, Token
  <2>4. \A i \in issued : i[1] # t
    BY <1>2 DEF IInv, IssuedConsumed
  <2>5. \A p \in Reqs : req[p].pc = "Enroll" => req[p].token # t
    BY <1>2 DEF IInv, ReqsOK, ReqOK
  <2>6. ReqsOK'
    <3>1. ASSUME NEW p \in Reqs PROVE ReqOK(req[p])'
      <4>1. CASE p = r
        BY <1>0, <2>1, <2>2, <2>4, <4>1 DEF ReqOK
      <4>2. CASE p # r
        <5>1. req'[p] = req[p] /\ ReqOK(req[p])
          BY <1>0, <2>1, <4>2 DEF IInv, ReqsOK
        <5> QED BY <1>0, <2>2, <2>5, <5>1 DEF ReqOK
      <4> QED BY <4>1, <4>2
    <3> QED BY <3>1 DEF ReqsOK
  <2>7. Exclusive'
    BY <1>0, <2>1, <2>5 DEF IInv, Exclusive
  <2>8. IssuedConsumed'
    <3>1. \A i \in issued : i[1] \in Tokens
      BY DEF IInv, TypeOK
    <3> QED BY <1>0, <2>2, <3>1 DEF IInv, IssuedConsumed
  <2>9. OutcomeOK' /\ OneSVIDPerToken'
    BY <1>0 DEF IInv, OutcomeOK, OneSVIDPerToken
  <2> QED BY <2>3, <2>6, <2>7, <2>8, <2>9 DEF IInv
<1> QED BY <1>1, <1>2 DEF Consume

LEMMA EnrollKeepsInv ==
    ASSUME IInv, NEW r \in Reqs, Enroll(r)
    PROVE  IInv'
<1> DEFINE t == req[r].token
<1> DEFINE k == req[r].key
<1>0. /\ req \in [Reqs -> Request] /\ req[r].pc = "Enroll" /\ t \in Tokens /\ k \in Keys
      /\ token[t].status = "consumed" /\ (\A i \in issued : i[1] # t)
      /\ nextSVID \in SVIDs /\ issued \subseteq Tokens \X Keys \X SVIDs
      /\ UNCHANGED <<now, token, outcome, replies>>
  BY DEF Enroll, IInv, TypeOK, ReqsOK, ReqOK
<1> DEFINE new == <<t, k, nextSVID>>
<1>1. /\ nextSVID' = nextSVID + 1
      /\ issued' = issued \cup {new}
      /\ req' = [req EXCEPT ![r].pc = "Respond", ![r].svid = nextSVID]
  BY DEF Enroll
<1>2. new \in Tokens \X Keys \X SVIDs /\ new[1] = t /\ new[2] = k /\ new[3] = nextSVID
  BY <1>0
<1> DEFINE q == [req[r] EXCEPT !.pc = "Respond", !.svid = nextSVID]
<1>3. /\ q \in Request /\ q.pc = "Respond" /\ q.token = t /\ q.key = k /\ q.svid = nextSVID
      /\ req' = [req EXCEPT ![r] = q]
  BY <1>0, <1>1 DEF Request, PCs
<1>4. <<q.token, q.key, q.svid>> = new
  BY <1>3
<1> HIDE DEF q, new
<1>5. TypeOK'
  <2>1. nextSVID' \in 1 .. MaxSVID + 1
    BY <1>0, <1>1, TimeAssumption DEF SVIDs
  <2> QED BY <1>0, <1>1, <1>2, <1>3, <2>1 DEF IInv, TypeOK
<1>6. ReqsOK'
  <2>1. ASSUME NEW p \in Reqs PROVE ReqOK(req[p])'
    <3>1. CASE p = r
      <4>1. req'[p] = q
        BY <1>0, <1>3, <3>1
      <4> QED BY <1>0, <1>1, <1>3, <1>4, <4>1 DEF ReqOK
    <3>2. CASE p # r
      <4>1. req'[p] = req[p] /\ ReqOK(req[p])
        BY <1>0, <1>3, <3>2 DEF IInv, ReqsOK
      <4>2. req[p].pc = "Enroll" => req[p].token # t
        BY <1>0, <3>2 DEF IInv, Exclusive
      <4> QED BY <1>0, <1>1, <1>2, <4>1, <4>2 DEF ReqOK
    <3> QED BY <3>1, <3>2
  <2> QED BY <2>1 DEF ReqsOK
<1>7. Exclusive'
  BY <1>0, <1>3 DEF IInv, Exclusive
<1>8. IssuedConsumed'
  BY <1>0, <1>1, <1>2 DEF IInv, IssuedConsumed
<1>9. OutcomeOK'
  BY <1>0, <1>1 DEF IInv, OutcomeOK
<1>10. OneSVIDPerToken'
  BY <1>0, <1>1, <1>2 DEF IInv, OneSVIDPerToken
<1> QED BY <1>5, <1>6, <1>7, <1>8, <1>9, <1>10 DEF IInv

LEMMA WriteResponseKeepsInv ==
    ASSUME IInv, NEW r \in Reqs, WriteResponse(r)
    PROVE  IInv'
<1> DEFINE p == [token |-> req[r].token, key |-> req[r].key, svid |-> req[r].svid, at |-> now]
<1>0. /\ req[r].pc = "Respond" /\ ReqOK(req[r]) /\ now \in Nat
      /\ UNCHANGED <<now, storeVars>> /\ Goto(r, "RecordOutcome")
      /\ replies' = replies \cup {p}
  BY DEF WriteResponse, IInv, TypeOK, ReqsOK, Send
<1>1. <<req[r].token, req[r].key, req[r].svid>> \in issued
  BY <1>0 DEF ReqOK
<1>2. req[r].token \in Tokens /\ req[r].key \in Keys /\ req[r].svid \in SVIDs
  BY <1>1 DEF IInv, TypeOK
<1>3. p \in Reply /\ p.token = req[r].token /\ p.key = req[r].key /\ p.svid = req[r].svid
  BY <1>0, <1>2 DEF Reply
<1> HIDE DEF p
<1>4. PICK q \in Request :
        /\ q.pc = "RecordOutcome" /\ q.token = req[r].token /\ q.key = req[r].key
        /\ q.svid = req[r].svid /\ req' = [req EXCEPT ![r] = q]
  BY <1>0, GotoIs DEF PCs
<1>5. ReqOK(q)
  BY <1>1, <1>2, <1>4 DEF ReqOK
<1>6. replies' \subseteq Reply /\ \A x \in replies' : <<x.token, x.key, x.svid>> \in issued
  BY <1>0, <1>1, <1>3 DEF IInv, TypeOK, OneSVIDPerToken
<1> QED BY <1>0, <1>4, <1>5, <1>6, RequestMoves

LEMMA RecordOutcomeKeepsInv ==
    ASSUME IInv, NEW r \in Reqs, RecordOutcome(r)
    PROVE  IInv'
<1> DEFINE t == req[r].token
<1>0. /\ req \in [Reqs -> Request] /\ req[r].pc = "RecordOutcome" /\ ReqOK(req[r]) /\ now \in Nat
      /\ UNCHANGED <<now, token, nextSVID, issued, replies>>
      /\ req' = [req EXCEPT ![r] = Idle]
      /\ outcome \in [Tokens -> Outcome \cup {NoOutcome}]
  BY DEF RecordOutcome, IInv, TypeOK, ReqsOK, Return
<1>1. <<t, req[r].key, req[r].svid>> \in issued
  BY <1>0 DEF ReqOK
<1>2. t \in Tokens /\ req[r].key \in Keys /\ req[r].svid \in SVIDs
  BY <1>1 DEF IInv, TypeOK
<1> DEFINE o == [key |-> req[r].key, svid |-> req[r].svid, ends |-> now + EffectiveWindow]
<1>3. o \in Outcome /\ o.key = req[r].key /\ o.svid = req[r].svid
  BY <1>0, <1>2, TimeAssumption DEF Outcome, EffectiveWindow
<1>4. outcome' = outcome \/ outcome' = [outcome EXCEPT ![t] = o]
  BY DEF RecordOutcome
<1> HIDE DEF o
<1>5. TypeOK'
  BY <1>0, <1>2, <1>3, <1>4, IdleOK DEF IInv, TypeOK
<1>6. ReqsOK' /\ Exclusive'
  BY <1>0, IdleOK DEF IInv, ReqsOK, ReqOK, Exclusive
<1>7. IssuedConsumed' /\ OneSVIDPerToken'
  BY <1>0 DEF IInv, IssuedConsumed, OneSVIDPerToken
<1>8. OutcomeOK'
  BY <1>0, <1>1, <1>2, <1>3, <1>4 DEF IInv, OutcomeOK
<1> QED BY <1>5, <1>6, <1>7, <1>8 DEF IInv

LEMMA EnvironmentKeepsInv ==
    ASSUME IInv, (\E t \in Tokens : CreateEnrollmentToken(t)) \/ Tick \/ UNCHANGED vars
    PROVE  IInv'
<1>1. CASE Tick \/ UNCHANGED vars
  <2>1. now' \in Nat /\ UNCHANGED <<token, outcome, req, nextSVID, issued, replies>>
    BY <1>1 DEF Tick, vars, storeVars, IInv, TypeOK
  <2> QED BY <2>1 DEF IInv, TypeOK, ReqsOK, ReqOK, Exclusive, IssuedConsumed, OutcomeOK,
                      OneSVIDPerToken
<1>2. ASSUME NEW t \in Tokens, CreateEnrollmentToken(t) PROVE IInv'
  <2>0. /\ token \in [Tokens -> Token] /\ token[t].status = "absent" /\ now \in Nat
        /\ token' = [token EXCEPT ![t] = [status |-> "active", expires |-> now + TTL]]
        /\ UNCHANGED <<now, outcome, req, nextSVID, issued, replies>>
    BY <1>2 DEF CreateEnrollmentToken, IInv, TypeOK, Token
  <2>1. TypeOK'
    BY <2>0, TimeAssumption DEF IInv, TypeOK, Token
  <2>2. ReqsOK'
    BY <2>0 DEF IInv, ReqsOK, ReqOK
  <2>3. Exclusive' /\ OutcomeOK' /\ OneSVIDPerToken'
    BY <2>0 DEF IInv, Exclusive, OutcomeOK, OneSVIDPerToken
  <2>4. IssuedConsumed'
    BY <2>0 DEF IInv, IssuedConsumed
  <2> QED BY <2>1, <2>2, <2>3, <2>4 DEF IInv
<1> QED BY <1>1, <1>2

LEMMA NextKeepsInv == IInv /\ [Next]_vars => IInv'
<1> SUFFICES ASSUME IInv, [Next]_vars PROVE IInv'
  OBVIOUS
<1>1. ASSUME NEW r \in Reqs, Step(r) PROVE IInv'
  BY <1>1, FindConsumedKeepsInv, ConsumeKeepsInv, EnrollKeepsInv, WriteResponseKeepsInv,
     RecordOutcomeKeepsInv DEF Step
<1>2. ASSUME NEW r \in Reqs, StartEnrollment(r) \/ Abort(r) PROVE IInv'
  BY <1>2, StartKeepsInv, ReturnKeepsInv DEF Abort
<1> QED BY <1>1, <1>2, EnvironmentKeepsInv DEF Next

LEMMA Invariant == Spec => []IInv
BY InitInv, NextKeepsInv, PTL DEF Spec

\* Every variable of the enrollment handler and the token store keeps its type.
THEOREM Typed == Spec => []TypeOK
<1>1. IInv => TypeOK
  BY DEF IInv
<1> QED BY <1>1, Invariant, PTL

\* A token buys one SVID for one key, and only that is ever sent (Consume,
\* FindConsumed, handleEnrollment).
THEOREM TokensSingleUse == Spec => []OneSVIDPerToken
<1>1. IInv => OneSVIDPerToken
  BY DEF IInv
<1> QED BY <1>1, Invariant, PTL

-----------------------------------------------------------------------------
(* The refinement *)

GrantMap == [t \in Tokens |-> GrantOf(issued, t)]
AnsweredMap == {<<p.token, <<p.key, p.svid>>>> : p \in replies}

\* With at most one issuance per token, the grant of a token is that issuance.
LEMMA GrantOfIssued ==
    ASSUME NEW I, NEW t \in Tokens, NEW k \in Keys, NEW s \in SVIDs, <<t, k, s>> \in I,
           \A i, j \in I : i[1] = j[1] => i = j
    PROVE  GrantOf(I, t) = <<k, s>> /\ <<k, s>> # None
<1> DEFINE c == CHOOSE i \in I : i[1] = t
<1>1. <<t, k, s>>[1] = t
  OBVIOUS
<1>2. c \in I /\ c[1] = t
  BY <1>1
<1>3. GrantOf(I, t) = <<c[2], c[3]>>
  BY <1>1 DEF GrantOf
<1> HIDE DEF c
<1>4. c = <<t, k, s>>
  BY <1>1, <1>2
<1>5. <<k, s>> # None
  BY NoneAssumption DEF SVIDs
<1> QED BY <1>3, <1>4, <1>5

\* A new issuance for a token changes no other token's grant.
LEMMA GrantOfOther ==
    ASSUME NEW I, NEW x, NEW t \in Tokens, x[1] # t
    PROVE  GrantOf(I \cup {x}, t) = GrantOf(I, t)
<1>1. {i \in I \cup {x} : i[1] = t} = {i \in I : i[1] = t}
  OBVIOUS
<1>2. (CHOOSE i \in I \cup {x} : i[1] = t) = (CHOOSE i \in I : i[1] = t)
  <2>1. \A i : (i \in I \cup {x} /\ i[1] = t) <=> (i \in I /\ i[1] = t)
    OBVIOUS
  <2>2. (CHOOSE i : i \in I \cup {x} /\ i[1] = t) = (CHOOSE i : i \in I /\ i[1] = t)
    BY <2>1
  <2> QED BY <2>2
<1> QED BY <1>2 DEF GrantOf

\* Sending what was issued for a token is an Answer.
LEMMA SendIsAnswer ==
    ASSUME IInv, NEW t \in Tokens, NEW k \in Keys, NEW s \in SVIDs, <<t, k, s>> \in issued,
           Send(t, k, s), UNCHANGED issued
    PROVE  Granted!Answer(t)
<1>1. GrantMap[t] # None /\ GrantMap[t] = <<k, s>>
  BY GrantOfIssued DEF GrantMap, IInv, OneSVIDPerToken
<1>2. UNCHANGED GrantMap
  BY DEF GrantMap
<1>3. PICK p : p.token = t /\ p.key = k /\ p.svid = s /\ replies' = replies \cup {p}
  BY DEF Send
<1>4. AnsweredMap' = AnsweredMap \cup {<<t, <<k, s>>>>}
  BY <1>3 DEF AnsweredMap
<1> QED BY <1>1, <1>2, <1>4 DEF Granted!Answer, GrantMap, AnsweredMap

\* The successful Enroll is the Exchange.
LEMMA EnrollIsExchange ==
    ASSUME IInv, IInv', NEW t \in Tokens, NEW k \in Keys, NEW s \in SVIDs,
           \A i \in issued : i[1] # t,
           issued' = issued \cup {<<t, k, s>>}, UNCHANGED replies
    PROVE  Granted!Exchange(t, <<k, s>>)
<1>1. GrantMap[t] = None
  BY DEF GrantMap, GrantOf
<1>2. GrantOf(issued', t) = <<k, s>>
  <2>1. \A i, j \in issued' : i[1] = j[1] => i = j
    BY DEF IInv, OneSVIDPerToken
  <2>2. PICK I : I = issued'
    OBVIOUS
  <2>3. <<t, k, s>> \in I /\ \A i, j \in I : i[1] = j[1] => i = j
    BY <2>1, <2>2
  <2>4. GrantOf(I, t) = <<k, s>>
    BY <2>3, GrantOfIssued
  <2> QED BY <2>2, <2>4
<1>3. \A u \in Tokens : u # t => GrantOf(issued', u) = GrantOf(issued, u)
  <2>1. <<t, k, s>>[1] = t
    OBVIOUS
  <2> QED BY <2>1, GrantOfOther
<1>4. GrantMap' = [GrantMap EXCEPT ![t] = <<k, s>>]
  BY <1>2, <1>3 DEF GrantMap
<1>5. UNCHANGED AnsweredMap
  BY DEF AnsweredMap
<1> QED BY <1>1, <1>4, <1>5 DEF Granted!Exchange, GrantMap, AnsweredMap

LEMMA InitRefines == Init => Granted!GrantInit
BY DEF Init, Granted!GrantInit, GrantOf

LEMMA NextRefines ==
    ASSUME IInv, IInv', [Next]_vars
    PROVE  [Granted!GrantNext]_<<GrantMap, AnsweredMap>>
<1>1. CASE UNCHANGED <<issued, replies>>
  BY <1>1 DEF GrantMap, AnsweredMap
<1>2. ASSUME NEW r \in Reqs, Step(r) PROVE Granted!GrantNext \/ UNCHANGED <<issued, replies>>
  <2>0. ReqOK(req[r])
    BY DEF IInv, ReqsOK
  <2>1. CASE FindConsumed(r)
    <3> DEFINE t == req[r].token
    <3> DEFINE o == outcome[t]
    <3>1. CASE o # NoOutcome /\ Send(t, o.key, o.svid)
      <4>1. t \in Tokens /\ <<t, o.key, o.svid>> \in issued
        BY <2>0, <2>1, <3>1 DEF FindConsumed, ReqOK, IInv, OutcomeOK
      <4>2. o.key \in Keys /\ o.svid \in SVIDs
        BY <3>1, <4>1 DEF IInv, TypeOK, Outcome
      <4>3. UNCHANGED issued
        BY <2>1 DEF FindConsumed, storeVars
      <4>4. PICK u \in Tokens, k \in Keys, s \in SVIDs : u = t /\ k = o.key /\ s = o.svid
        BY <4>1, <4>2
      <4>5. Send(u, k, s) /\ <<u, k, s>> \in issued
        BY <3>1, <4>1, <4>4 DEF Send
      <4>6. Granted!Answer(u)
        BY <4>3, <4>5, SendIsAnswer
      <4> QED BY <4>6 DEF Granted!GrantNext
    <3>2. CASE UNCHANGED replies
      BY <2>1, <3>2 DEF FindConsumed, storeVars
    <3> QED BY <2>1, <3>1, <3>2 DEF FindConsumed
  <2>2. CASE WriteResponse(r)
    <3>1. <<req[r].token, req[r].key, req[r].svid>> \in issued
      BY <2>0, <2>2 DEF ReqOK, WriteResponse
    <3>2. req[r].token \in Tokens /\ req[r].key \in Keys /\ req[r].svid \in SVIDs
      BY <3>1 DEF IInv, TypeOK
    <3>3. UNCHANGED issued /\ Send(req[r].token, req[r].key, req[r].svid)
      BY <2>2 DEF WriteResponse, storeVars
    <3>4. PICK u \in Tokens, k \in Keys, s \in SVIDs :
             u = req[r].token /\ k = req[r].key /\ s = req[r].svid
      BY <3>2
    <3>5. Send(u, k, s) /\ <<u, k, s>> \in issued
      BY <3>1, <3>3, <3>4 DEF Send
    <3>6. Granted!Answer(u)
      BY <3>3, <3>5, SendIsAnswer
    <3> QED BY <3>6 DEF Granted!GrantNext
  <2>3. CASE Enroll(r)
    <3>1. /\ req[r].token \in Tokens /\ req[r].key \in Keys /\ nextSVID \in SVIDs
          /\ \A i \in issued : i[1] # req[r].token
          /\ issued' = issued \cup {<<req[r].token, req[r].key, nextSVID>>}
          /\ UNCHANGED replies
      BY <2>0, <2>3 DEF ReqOK, Enroll
    <3>2. PICK u \in Tokens, k \in Keys, s \in SVIDs :
             u = req[r].token /\ k = req[r].key /\ s = nextSVID
      BY <3>1
    <3>3. Granted!Exchange(u, <<k, s>>)
      BY <3>1, <3>2, EnrollIsExchange
    <3>4. <<k, s>> \in Keys \X SVIDs
      OBVIOUS
    <3> QED BY <3>3, <3>4 DEF Granted!GrantNext
  <2>4. CASE Consume(r) \/ RecordOutcome(r)
    BY <2>4 DEF Consume, RecordOutcome
  <2> QED BY <1>2, <2>1, <2>2, <2>3, <2>4 DEF Step
<1>3. ASSUME NEW r \in Reqs, StartEnrollment(r) \/ Abort(r) PROVE UNCHANGED <<issued, replies>>
  BY <1>3 DEF StartEnrollment, Abort, storeVars
<1>4. CASE (\E t \in Tokens : CreateEnrollmentToken(t)) \/ Tick \/ UNCHANGED vars
  BY <1>1, <1>4 DEF CreateEnrollmentToken, Tick, vars, storeVars
<1> QED BY <1>1, <1>2, <1>3, <1>4 DEF Next

\* The handler, the validator and the token store implement the abstract
\* single-use grant of TokenGrant.
THEOREM Refinement == Spec => ImplementsTokenGrant
<1>1. Init => Granted!GrantInit
  BY InitRefines
<1>2. IInv /\ IInv' /\ [Next]_vars => [Granted!GrantNext]_<<GrantMap, AnsweredMap>>
  BY NextRefines
<1> QED BY <1>1, <1>2, Invariant, PTL
        DEF Spec, ImplementsTokenGrant, Granted!GrantSpec, GrantMap, AnsweredMap

-----------------------------------------------------------------------------
(* Retries *)

\* Answers lie in the past, the outcome of a token is recorded after the first
\* of them, and the window it opens is at least one window after that answer.
Windows ==
    /\ \A p \in replies : p.at <= now
    /\ \A r \in Reqs : req[r].pc = "RecordOutcome" => \E p \in replies : p.token = req[r].token
    /\ \A t \in Tokens : outcome[t] # NoOutcome =>
          \E p \in replies : p.token = t /\ p.at + EffectiveWindow <= outcome[t].ends

LEMMA WindowTyped == EffectiveWindow \in Nat
BY TimeAssumption DEF EffectiveWindow

LEMMA InitWindows == Init => Windows
BY DEF Init, Windows, Idle

\* A step that records no outcome, and has no request come to RecordOutcome
\* that has not been answered.
LEMMA AnswersKept ==
    ASSUME IInv, Windows, UNCHANGED outcome, now' \in Nat, now <= now',
           \A p \in replies' \ replies : p.at = now,
           replies \subseteq replies',
           \A r \in Reqs : req'[r].pc = "RecordOutcome" =>
              \/ req[r].pc = "RecordOutcome" /\ req'[r].token = req[r].token
              \/ \E p \in replies' : p.token = req'[r].token
    PROVE  Windows'
<1>1. now \in Nat /\ \A p \in replies : p.at \in Nat
  BY DEF IInv, TypeOK, Reply
<1>2. \A p \in replies' : p.at <= now'
  BY <1>1 DEF Windows
<1>3. \A r \in Reqs : req'[r].pc = "RecordOutcome" => \E p \in replies' : p.token = req'[r].token
  BY DEF Windows
<1>4. \A t \in Tokens : outcome'[t] # NoOutcome =>
          \E p \in replies' : p.token = t /\ p.at + EffectiveWindow <= outcome'[t].ends
  BY DEF Windows
<1> QED BY <1>2, <1>3, <1>4 DEF Windows, EffectiveWindow

LEMMA RecordOutcomeKeepsWindows ==
    ASSUME IInv, Windows, NEW r \in Reqs, RecordOutcome(r)
    PROVE  Windows'
<1> DEFINE t == req[r].token
<1>0. /\ req[r].pc = "RecordOutcome" /\ t \in Tokens /\ UNCHANGED <<now, replies>>
      /\ now \in Nat /\ outcome \in [Tokens -> Outcome \cup {NoOutcome}]
      /\ \A p \in replies : p.at \in Nat
  BY DEF RecordOutcome, IInv, TypeOK, ReqsOK, ReqOK, Reply
<1>1. PICK p \in replies : p.token = t
  BY <1>0 DEF Windows
<1>2. \A u \in Reqs : req'[u].pc = "RecordOutcome" => req'[u] = req[u]
  BY IdleOK DEF RecordOutcome, Return, IInv, TypeOK
<1>3. \A u \in Tokens : outcome'[u] = outcome[u] \/ (u = t /\ outcome'[u].ends = now + EffectiveWindow)
  BY <1>0 DEF RecordOutcome
<1>4. p.at + EffectiveWindow <= now + EffectiveWindow
  BY <1>0, WindowTyped DEF Windows
<1>5. \A u \in Tokens : outcome'[u] # NoOutcome =>
          \E q \in replies : q.token = u /\ q.at + EffectiveWindow <= outcome'[u].ends
  BY <1>1, <1>3, <1>4 DEF Windows
<1>6. \A u \in Reqs : req'[u].pc = "RecordOutcome" => \E q \in replies : q.token = req'[u].token
  BY <1>2 DEF Windows
<1> QED BY <1>0, <1>5, <1>6 DEF Windows, EffectiveWindow

\* Where one request moves, the others stay.
LEMMA OthersStay ==
    ASSUME IInv, NEW r \in Reqs
    PROVE  /\ Return(r) => /\ req'[r].pc = "idle"
                           /\ \A u \in Reqs : u # r => req'[u] = req[u]
           /\ \A pc : Goto(r, pc) => /\ req'[r].pc = pc /\ req'[r].token = req[r].token
                                     /\ \A u \in Reqs : u # r => req'[u] = req[u]
BY IdleOK DEF IInv, TypeOK, Request, Return, Goto

LEMMA NextWindows ==
    ASSUME IInv, IInv', Windows, [Next]_vars
    PROVE  Windows'
<1>0. /\ now \in Nat /\ now' \in Nat /\ req \in [Reqs -> Request]
      /\ \A r \in Reqs : ReqOK(req[r])
  BY DEF IInv, TypeOK, ReqsOK
<1>1. ASSUME NEW r \in Reqs, FindConsumed(r) \/ WriteResponse(r)
      PROVE  Windows'
  <2>1. UNCHANGED <<now, outcome>>
    BY <1>1 DEF FindConsumed, WriteResponse, storeVars
  <2>2. replies \subseteq replies' /\ \A p \in replies' \ replies : p.at = now
    BY <1>1 DEF FindConsumed, WriteResponse, Send
  <2>3. ASSUME NEW u \in Reqs, req'[u].pc = "RecordOutcome"
        PROVE  \/ req[u].pc = "RecordOutcome" /\ req'[u].token = req[u].token
               \/ \E p \in replies' : p.token = req'[u].token
    <3>1. CASE FindConsumed(r)
      <4>1. Goto(r, "Consume") \/ Return(r)
        BY <3>1 DEF FindConsumed
      <4>2. req'[u] = req[u]
        BY <2>3, <4>1, OthersStay
      <4> QED BY <2>3, <4>2
    <3>2. CASE WriteResponse(r)
      <4>1. req'[u] = req[u] \/ (u = r /\ req'[u].token = req[r].token)
        BY <3>2, OthersStay DEF WriteResponse
      <4>2. \E p \in replies' : p.token = req[r].token
        <5>1. [token |-> req[r].token, key |-> req[r].key, svid |-> req[r].svid, at |-> now]
                \in replies'
          BY <3>2 DEF WriteResponse, Send
        <5> QED BY <5>1
      <4> QED BY <2>3, <4>1, <4>2
    <3> QED BY <1>1, <3>1, <3>2
  <2> QED BY <1>0, <2>1, <2>2, <2>3, AnswersKept
<1>2. ASSUME NEW r \in Reqs, StartEnrollment(r) \/ Abort(r) \/ Consume(r) \/ Enroll(r)
      PROVE  Windows'
  <2>1. UNCHANGED <<now, outcome, replies>>
    BY <1>2 DEF StartEnrollment, Abort, Consume, Enroll, storeVars
  <2>2. \A u \in Reqs : req'[u].pc = "RecordOutcome" => req'[u] = req[u]
    <3>1. CASE StartEnrollment(r) \/ Enroll(r)
      BY <1>0, <3>1 DEF StartEnrollment, Enroll, Request
    <3>2. CASE Abort(r) \/ Consume(r)
      <4>1. Return(r) \/ Goto(r, "Enroll")
        BY <3>2 DEF Abort, Consume
      <4> QED BY <4>1, OthersStay
    <3> QED BY <1>2, <3>1, <3>2
  <2> QED BY <1>0, <2>1, <2>2, AnswersKept
<1>3. CASE (\E t \in Tokens : CreateEnrollmentToken(t)) \/ Tick \/ UNCHANGED vars
  <2>1. UNCHANGED <<outcome, replies, req>> /\ now <= now'
    BY <1>0, <1>3 DEF CreateEnrollmentToken, Tick, vars, storeVars
  <2> QED BY <1>0, <2>1, AnswersKept
<1> QED BY <1>1, <1>2, <1>3, RecordOutcomeKeepsWindows DEF Next, Step

\* A request with the token and the key of a committed enrollment, at most a
\* window after its first answer, is given the SVID of that answer: the window
\* that RecordOutcome opens is never shorter, and there is only one SVID.
THEOREM RetriesAnswered == Spec => RetryGetsSameSVID
<1> DEFINE Answered ==
      \A r \in Reqs, p \in replies :
          /\ FindConsumed(r) /\ outcome[p.token] # NoOutcome
          /\ req[r].token = p.token /\ req[r].key = p.key
          /\ now <= p.at + EffectiveWindow
          /\ \A q \in replies : q.token = p.token => q.at >= p.at
          => [token |-> p.token, key |-> p.key, svid |-> p.svid, at |-> now] \in replies'
<1>1. IInv /\ IInv' /\ Windows /\ [Next]_vars => Windows'
  BY NextWindows
<1>2. IInv /\ Windows /\ [Next]_vars => [Answered]_vars
  <2> SUFFICES ASSUME IInv, Windows, NEW r \in Reqs, NEW p \in replies,
                      FindConsumed(r), outcome[p.token] # NoOutcome,
                      req[r].token = p.token, req[r].key = p.key,
                      now <= p.at + EffectiveWindow,
                      \A q \in replies : q.token = p.token => q.at >= p.at
               PROVE  [token |-> p.token, key |-> p.key, svid |-> p.svid, at |-> now] \in replies'
    OBVIOUS
  <2> DEFINE o == outcome[p.token]
  <2>1. /\ now \in Nat /\ p.token \in Tokens /\ \A q \in replies : q.at \in Nat
        /\ o \in Outcome
    BY DEF IInv, TypeOK, Reply
  <2>2. <<p.token, p.key, p.svid>> \in issued /\ <<p.token, o.key, o.svid>> \in issued
    BY <2>1 DEF IInv, OneSVIDPerToken, OutcomeOK
  <2>3. o.key = p.key /\ o.svid = p.svid
    BY <2>2 DEF IInv, OneSVIDPerToken
  <2>4. PICK q \in replies : q.token = p.token /\ q.at + EffectiveWindow <= o.ends
    BY <2>1 DEF Windows
  <2>5. o.ends \in Nat
    BY <2>1 DEF Outcome
  <2>6. now <= o.ends
    BY <2>1, <2>4, <2>5, WindowTyped
  <2>7. Send(p.token, o.key, o.svid)
    BY <2>1, <2>3, <2>5, <2>6 DEF FindConsumed
  <2> QED BY <2>3, <2>7 DEF Send
<1> QED BY <1>1, <1>2, InitWindows, Invariant, PTL DEF Spec, RetryGetsSameSVID
=============================================================================
