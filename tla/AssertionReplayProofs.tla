----------------------- MODULE AssertionReplayProofs -----------------------
(***************************************************************************)
(* An assertion is accepted once while it is valid, for any number of      *)
(* assertions and concurrent requests, any skew and any lifetimes.         *)
(***************************************************************************)
EXTENDS AssertionReplay, FiniteSetTheorems, TLAPS

(* A request past the claim checks presents an assertion that was signed,  *)
(* with an accepted lifetime.                                              *)
Validated ==
    \A r \in Reqs : req[r] # None =>
        /\ claims[req[r]] # Unsigned
        /\ claims[req[r]].exp <= claims[req[r]].iat + MaxLifetime

(* An acceptance lies in the past, and the store has the assertion's entry *)
(* for as long as the assertion is valid: this makes                       *)
(* AcceptedOnceWhileValid inductive.                                       *)
Remembered ==
    \A a \in accepted :
        /\ claims[a.jti] # Unsigned
        /\ a.at <= now
        /\ now < ValidUntil(a.jti) => seen[a.jti] = ValidUntil(a.jti)

IInv ==
    /\ TypeOK
    /\ IsFiniteSet(accepted)
    /\ Validated
    /\ Remembered
    /\ AcceptedOnceWhileValid

(* Nothing is signed, seen, presented or accepted at first. *)
LEMMA InitIInv == Init => IInv
<1> SUFFICES ASSUME Init PROVE IInv
  OBVIOUS
<1>1. TypeOK
  BY ReplayAssumption DEF Init, TypeOK, Unsigned
<1>2. IsFiniteSet(accepted)
  BY FS_EmptySet DEF Init
<1> QED
  BY <1>1, <1>2 DEF Init, IInv, Validated, Remembered, AcceptedOnceWhileValid

(* What the types say of one assertion. *)
LEMMA ClaimsTyped ==
  ASSUME TypeOK, NEW j \in Jtis
  PROVE  /\ claims[j].iat \in 0..MaxTime /\ claims[j].exp \in Nat
         /\ ValidUntil(j) \in Nat /\ seen[j] \in Nat
  BY ReplayAssumption DEF TypeOK, ValidUntil

(* A client signs: only an assertion nobody has presented changes. *)
LEMMA SignIInv ==
  ASSUME IInv, NEW j \in Jtis, Sign(j)
  PROVE  IInv'
<1> USE ReplayAssumption
<1>1. PICK t \in 0..MaxTime, l \in Lifetimes \ {0}, nbf \in NotBefores :
        claims' = [claims EXCEPT ![j] = [iat |-> t, exp |-> t + l, nbf |-> nbf]]
  BY DEF Sign
<1>2. [iat |-> t, exp |-> t + l, nbf |-> nbf]
        \in [iat : 0..MaxTime, exp : Nat, nbf : 0..MaxTime]
  OBVIOUS
<1>3. TypeOK'
  BY <1>1, <1>2 DEF IInv, TypeOK, Sign
<1>4. \A i \in Jtis : claims[i] # Unsigned => claims'[i] = claims[i]
  BY <1>1 DEF IInv, TypeOK, Sign
<1>5. Validated'
  BY <1>4 DEF IInv, TypeOK, Validated, Sign
<1>6. \A a \in accepted : a.jti \in Jtis /\ claims'[a.jti] = claims[a.jti]
  BY <1>4 DEF IInv, TypeOK, Remembered
<1>7. Remembered'
  BY <1>6 DEF IInv, Remembered, ValidUntil, Sign
<1>8. AcceptedOnceWhileValid'
  BY <1>6 DEF IInv, AcceptedOnceWhileValid, ValidUntil, Sign
<1> QED
  BY <1>3, <1>5, <1>7, <1>8 DEF IInv, Sign

(* A request passes the claim checks. *)
LEMMA ValidateIInv ==
  ASSUME IInv, NEW r \in Reqs, NEW j \in Jtis, Validate(r, j)
  PROVE  IInv'
<1> USE ReplayAssumption
<1>1. claims[j].exp <= claims[j].iat + MaxLifetime
  BY ClaimsTyped DEF IInv, Validate
<1>2. TypeOK'
  BY DEF IInv, TypeOK, Validate
<1>3. Validated'
  BY <1>1 DEF IInv, TypeOK, Validated, Validate
<1> QED
  BY <1>2, <1>3 DEF IInv, Remembered, AcceptedOnceWhileValid, ValidUntil, Validate

(* Witness: when it accepts, the store had no valid entry, so no earlier   *)
(* acceptance of a still valid assertion exists.                           *)
LEMMA WitnessIInv ==
  ASSUME IInv, NEW r \in Reqs, Witness(r)
  PROVE  IInv'
<1> USE ReplayAssumption
<1> DEFINE j == req[r]
           b == [jti |-> j, n |-> Cardinality(Of(j)) + 1, at |-> now]
<1>1. /\ j \in Jtis /\ claims[j] # Unsigned
      /\ claims[j].exp <= claims[j].iat + MaxLifetime
      /\ now \in 0..MaxTime
  BY DEF IInv, TypeOK, Validated, Witness
<1>2. /\ claims[j].iat \in 0..MaxTime /\ claims[j].exp \in Nat
      /\ ValidUntil(j) \in Nat /\ seen[j] \in Nat
  BY <1>1, ClaimsTyped DEF IInv
<1>3. /\ req' = [req EXCEPT ![r] = None]
      /\ now' = now /\ claims' = claims
  BY DEF Witness
<1>4. Validated'
  BY <1>3 DEF IInv, TypeOK, Validated
<1>5. CASE seen[j] > now /\ UNCHANGED <<seen, accepted>>
  <2>1. TypeOK'
    BY <1>3, <1>5 DEF IInv, TypeOK
  <2> QED
    BY <1>3, <1>4, <1>5, <2>1 DEF IInv, Remembered, AcceptedOnceWhileValid, ValidUntil
<1>6. CASE /\ seen[j] <= now
           /\ Cardinality(Of(j)) < MaxAccepts
           /\ seen' = [seen EXCEPT ![j] = Recorded(j)]
           /\ accepted' = accepted \cup {b}
  <2>1. Cardinality(Of(j)) \in Nat
    BY FS_Subset, FS_CardinalityType DEF IInv, Of
  <2>2. b \in [jti : Jtis, n : 1..MaxAccepts, at : 0..MaxTime]
    BY <1>1, <1>6, <2>1
  <2>3. Recorded(j) \in 0 .. MaxTime + MaxLifetime + ClockSkew
    BY <1>1, <1>2 DEF Recorded, ValidUntil
  <2>4. TypeOK'
    BY <1>1, <1>3, <1>6, <2>2, <2>3 DEF IInv, TypeOK
  <2>5. IsFiniteSet(accepted')
    BY <1>6, FS_AddElement DEF IInv
  <2>6. \A a \in accepted : a.jti = j => ~(now < ValidUntil(j))
    BY <1>1, <1>2, <1>6 DEF IInv, Remembered
  <2>7. Remembered'
    <3> SUFFICES ASSUME NEW a \in accepted'
                 PROVE  /\ claims[a.jti] # Unsigned
                        /\ a.at <= now
                        /\ now < ValidUntil(a.jti) => seen'[a.jti] = ValidUntil(a.jti)
      BY <1>3 DEF Remembered, ValidUntil
    <3>1. CASE a.jti = j
      <4>1. seen'[j] = ValidUntil(j)
        BY <1>1, <1>6 DEF IInv, TypeOK, Recorded
      <4> QED
        BY <1>1, <1>6, <3>1, <4>1 DEF IInv, Remembered
    <3>2. CASE a.jti # j
      <4>1. a \in accepted /\ a.jti \in Jtis
        BY <1>6, <3>2 DEF IInv, TypeOK
      <4>2. seen'[a.jti] = seen[a.jti]
        BY <1>6, <3>2, <4>1 DEF IInv, TypeOK
      <4> QED
        BY <4>1, <4>2 DEF IInv, Remembered
    <3> QED
      BY <3>1, <3>2
  <2>8. AcceptedOnceWhileValid'
    <3> SUFFICES ASSUME NEW x \in accepted', NEW y \in accepted', x.jti = y.jti,
                        x.at < ValidUntil(x.jti), y.at < ValidUntil(y.jti)
                 PROVE  x = y
      BY <1>3 DEF AcceptedOnceWhileValid, ValidUntil
    <3>1. CASE x \in accepted /\ y \in accepted
      BY <3>1 DEF IInv, AcceptedOnceWhileValid
    <3>2. CASE x = b \/ y = b
      <4>1. x.jti = j /\ now < ValidUntil(j)
        BY <3>2
      <4>2. x \notin accepted /\ y \notin accepted
        BY <2>6, <4>1
      <4> QED
        BY <1>6, <4>2
    <3> QED
      BY <1>6, <3>1, <3>2
  <2> QED
    BY <1>4, <2>4, <2>5, <2>7, <2>8 DEF IInv
<1> QED
  BY <1>5, <1>6 DEF Witness

(* The sweep drops only entries whose assertion is no longer valid. *)
LEMMA SweepIInv ==
  ASSUME IInv, Sweep
  PROVE  IInv'
<1> USE ReplayAssumption
<1>1. TypeOK'
  BY DEF IInv, TypeOK, Sweep
<1>2. Remembered'
  <2> SUFFICES ASSUME NEW a \in accepted, now < ValidUntil(a.jti)
               PROVE  seen'[a.jti] = ValidUntil(a.jti)
    BY DEF IInv, Remembered, ValidUntil, Sweep
  <2>1. a.jti \in Jtis /\ seen[a.jti] = ValidUntil(a.jti)
    BY DEF IInv, TypeOK, Remembered
  <2>2. now \in Nat /\ ValidUntil(a.jti) \in Nat
    BY <2>1, ClaimsTyped DEF IInv, TypeOK
  <2> QED
    BY <2>1, <2>2 DEF Sweep
<1> QED
  BY <1>1, <1>2 DEF IInv, Validated, AcceptedOnceWhileValid, ValidUntil, Sweep

(* A request that gives up, and the passing of time. *)
LEMMA AbortIInv ==
  ASSUME IInv, NEW r \in Reqs, Abort(r)
  PROVE  IInv'
<1>1. TypeOK' /\ Validated'
  BY DEF IInv, TypeOK, Validated, Abort
<1> QED
  BY <1>1 DEF IInv, Remembered, AcceptedOnceWhileValid, ValidUntil, Abort

LEMMA TickIInv ==
  ASSUME IInv, Tick
  PROVE  IInv'
<1> USE ReplayAssumption
<1>1. TypeOK' /\ now \in Nat /\ now' = now + 1
  BY DEF IInv, TypeOK, Tick
<1>2. \A a \in accepted : a.jti \in Jtis /\ a.at \in Nat /\ ValidUntil(a.jti) \in Nat
  BY ClaimsTyped DEF IInv, TypeOK
<1>3. Remembered'
  BY <1>1, <1>2 DEF IInv, Remembered, ValidUntil, Tick
<1> QED
  BY <1>1, <1>3 DEF IInv, Validated, AcceptedOnceWhileValid, ValidUntil, Tick

LEMMA NextIInv == IInv /\ [Next]_vars => IInv'
<1> SUFFICES ASSUME IInv, [Next]_vars PROVE IInv'
  OBVIOUS
<1>1. CASE UNCHANGED vars
  BY <1>1 DEF vars, IInv, TypeOK, Validated, Remembered, AcceptedOnceWhileValid, ValidUntil
<1> QED
  BY <1>1, SignIInv, ValidateIInv, WitnessIInv, SweepIInv, AbortIInv, TickIInv DEF Next

(* The invariant holds throughout. *)
LEMMA AlwaysIInv == Spec => []IInv
  BY InitIInv, NextIInv, PTL DEF Spec

(* Claims, store, requests and acceptances keep their types: in particular *)
(* no entry of the replay store outlives the longest accepted lifetime.    *)
THEOREM Typed == Spec => []TypeOK
<1>1. IInv => TypeOK
  BY DEF IInv
<1> QED
  BY <1>1, AlwaysIInv, PTL

(* Witness and the lifetime check together accept an assertion once while  *)
(* it is valid, however many requests present it, whatever the memory      *)
(* store sweeps, for every skew, lifetime and nbf.                         *)
THEOREM AcceptedOnce == Spec => []AcceptedOnceWhileValid
<1>1. IInv => AcceptedOnceWhileValid
  BY DEF IInv
<1> QED
  BY <1>1, AlwaysIInv, PTL
=============================================================================
