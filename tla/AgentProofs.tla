---------------------------- MODULE AgentProofs ----------------------------
(***************************************************************************)
(* For every bound and every combination of faults: the agent's state is   *)
(* well typed, it takes itself for revoked only over the certificate it    *)
(* holds, its files agree unless a renewal was cut off, and a persisted    *)
(* revocation ends renewal.  With the operator's commands on the same data *)
(* directory: a settled directory says "revoked" only of its own           *)
(* certificate, an installation that is cut off never leaves the state     *)
(* file ahead of the other two, and a revocation by the operator reaches   *)
(* every certificate of the identity unless a request raced with it.  For  *)
(* any number of control connections and any capacity of the daemon's      *)
(* command channel: a command is in one place from its submission until    *)
(* its reply has been read.                                                *)
(***************************************************************************)
EXTENDS AgentCommands, AgentDaemon, FiniteSetTheorems, TLAPS

(* A revocation on disk is known in memory, and a renewal only runs while  *)
(* there is none: what the three file writes need to leave a revoked       *)
(* agent's certificate alone.                                              *)
RevocationKnown ==
    /\ disk.revoked => mem.revoked
    /\ op # "idle" => ~mem.revoked

(* How far the renewal has got with the files, and that memory and disk    *)
(* name the same certificate as long as no renewal was cut off.            *)
FilesProgress ==
    /\ op = "key" => cert = pending
    /\ op = "state" => cert = pending /\ key = keyOf[pending]
    /\ ~cutOff => mem.serial = disk.serial

(* TypeOK, by what its parts are about. *)
ServiceTyped ==
    /\ last \in Serials /\ keyOf \in [Serials -> 0..last]
    /\ active \subseteq 1..last /\ list \subseteq 1..last

LDIsTyped ==
    /\ ldis \in Nat /\ ldiOf \in [Serials -> 0..ldis]
    /\ revoking \subseteq 1..ldis /\ withdrawn \subseteq 1..ldis

FilesTyped == cert \in 0..last /\ key \in 0..last /\ pending \in 1..last

StateTyped == disk \in State /\ mem \in State

ControlTyped ==
    /\ up \in BOOLEAN /\ missed \in BOOLEAN /\ cutOff \in BOOLEAN
    /\ sched \in {"running", "halted"}
    /\ op \in {"idle", "priors", "issue", "cert", "key", "state"}

LEMMA TypeParts ==
    TypeOK <=> ServiceTyped /\ LDIsTyped /\ FilesTyped /\ StateTyped /\ ControlTyped
  BY Zenon DEF TypeOK, ServiceTyped, LDIsTyped, FilesTyped, StateTyped, ControlTyped

IInv ==
    /\ TypeOK
    /\ RevokedOnlyIfListed
    /\ RevocationKnown
    /\ FilesAgree
    /\ FilesProgress

(* The initial state of an enrolled agent satisfies the invariant. *)
LEMMA InitIInv == Init => IInv
<1> SUFFICES ASSUME Init PROVE IInv
  OBVIOUS
<1>1. {0} \in SUBSET (0..MaxSerial) /\ 1 \in Serials
  BY AgentAssumption DEF Serials
<1>2. TypeOK
  <2>1. ServiceTyped /\ LDIsTyped /\ FilesTyped
    BY <1>1 DEF Init, ServiceTyped, LDIsTyped, FilesTyped, Serials
  <2>2. StateTyped
    BY <1>1 DEF Init, StateTyped, State, NoETag
  <2>3. ControlTyped
    BY Zenon DEF Init, ControlTyped
  <2> QED
    BY <2>1, <2>2, <2>3, TypeParts
<1> QED
  BY <1>1, <1>2 DEF Init, IInv, RevokedOnlyIfListed, RevocationKnown, FilesAgree, FilesProgress,
     KeyPair, AtFiles, Torn

(* What the service issues is typed, and no earlier certificate changes    *)
(* its key or its LDI: for renewals by the daemon, and for the commands.   *)
LEMMA IssueTyped ==
  ASSUME TypeOK, NEW l \in 0..ldis, NEW k \in 0..(last + 1), Issue(l, k)
  PROVE  /\ ServiceTyped' /\ LDIsTyped'
         /\ last' = last + 1 /\ last \in Nat
         /\ keyOf'[last + 1] = k /\ ldiOf'[last + 1] = l
         /\ \A c \in 1..last : keyOf'[c] = keyOf[c] /\ ldiOf'[c] = ldiOf[c]
<1>t. ServiceTyped /\ LDIsTyped
  BY TypeParts
<1>a. /\ MaxSerial \in Nat /\ last \in Nat /\ last < MaxSerial
      /\ ServiceTyped /\ LDIsTyped
  BY <1>t, AgentAssumption DEF ServiceTyped, Serials, Issue
<1>1. last' = last + 1 /\ last' \in Serials
  BY <1>a DEF Issue, Serials
<1>2. /\ keyOf' \in [Serials -> 0..last'] /\ keyOf'[last + 1] = k
      /\ \A c \in 1..last : keyOf'[c] = keyOf[c]
  BY <1>a, <1>1 DEF Issue, ServiceTyped, Serials
<1>3. active' \subseteq 1..last' /\ list' \subseteq 1..last'
  BY <1>a, <1>1 DEF Issue, ServiceTyped
<1>4. /\ LDIsTyped' /\ ldiOf'[last + 1] = l
      /\ \A c \in 1..last : ldiOf'[c] = ldiOf[c]
  BY <1>a, <1>1 DEF Issue, LDIsTyped, Serials
<1> QED
  BY <1>1, <1>2, <1>3, <1>4, <1>a DEF ServiceTyped

(* Revoking the priors is typed. *)
LEMMA PriorsTyped ==
  ASSUME TypeOK, NEW l, RevokePriors(l), UNCHANGED <<ldis, withdrawn>>, revoking' \subseteq 1..ldis
  PROVE  ServiceTyped' /\ LDIsTyped' /\ last' = last /\ keyOf' = keyOf /\ ldiOf' = ldiOf
<1>1. ServiceTyped /\ LDIsTyped
  BY TypeParts
<1>2. ServiceTyped'
  BY <1>1 DEF RevokePriors, ActiveOf, ServiceTyped
<1>3. LDIsTyped'
  BY <1>1 DEF RevokePriors, LDIsTyped
<1> QED
  BY <1>2, <1>3 DEF RevokePriors

(* The types stay, whatever step the agent, the service or the operator    *)
(* takes.                                                                  *)
LEMMA NextTypeOK == TypeOK /\ [Next]_vars => TypeOK'
<1> SUFFICES ASSUME TypeOK, [Next]_vars PROVE TypeOK'
  OBVIOUS
<1>a. /\ TypeOK /\ MaxSerial \in Nat
      /\ last \in Nat /\ last <= MaxSerial
      /\ last + 1 \in 0..(last + 1)
  BY AgentAssumption DEF TypeOK, Serials
<1>t. ServiceTyped /\ LDIsTyped /\ FilesTyped /\ StateTyped /\ ControlTyped
  BY <1>a, TypeParts
<1>p. ServiceTyped' /\ LDIsTyped' /\ FilesTyped' /\ StateTyped' /\ ControlTyped' => TypeOK'
  BY Zenon DEF TypeOK, ServiceTyped, LDIsTyped, FilesTyped, StateTyped, ControlTyped
<1>m. UNCHANGED misVars => ServiceTyped' /\ LDIsTyped'
  BY <1>t DEF misVars, ServiceTyped, LDIsTyped
<1>o. OwnLDI \in 0..ldis
  BY <1>t DEF OwnLDI, StateTyped, State, LDIsTyped
<1> USE DEF misVars, Idle
<1>1. CASE Renew \/ RenewFails
  <2>1. ServiceTyped' /\ LDIsTyped'
    BY <1>m, <1>1 DEF Renew, RenewFails
  <2>2. FilesTyped' /\ StateTyped'
    BY <1>t, <1>1 DEF Renew, RenewFails, FilesTyped, StateTyped
  <2>4. ControlTyped'
    BY <1>t, <1>1, Zenon DEF Renew, RenewFails, ControlTyped
  <2> QED
    BY <2>1, <2>2, <2>4, <1>p
<1>1a. CASE RenewPriors
  <2>1. ServiceTyped' /\ LDIsTyped' /\ last' = last
    BY <1>a, <1>t, <1>1a, PriorsTyped DEF RenewPriors, LDIsTyped
  <2>2. FilesTyped' /\ StateTyped'
    BY <2>1, <1>t, <1>1a DEF RenewPriors, FilesTyped, StateTyped
  <2>4. ControlTyped'
    BY <1>t, <1>1a, Zenon DEF RenewPriors, ControlTyped
  <2> QED
    BY <2>1, <2>2, <2>4, <1>p
<1>1b. CASE RenewIssue
  <2>1. ServiceTyped' /\ LDIsTyped' /\ last' = last + 1
    BY <1>a, <1>o, <1>1b, IssueTyped DEF RenewIssue
  <2>2. FilesTyped'
    BY <2>1, <1>a, <1>t, <1>1b DEF RenewIssue, FilesTyped
  <2>3. StateTyped'
    BY <1>t, <1>1b DEF RenewIssue, StateTyped
  <2>4. ControlTyped'
    BY <1>t, <1>1b, Zenon DEF RenewIssue, ControlTyped
  <2> QED
    BY <2>1, <2>2, <2>3, <2>4, <1>p
<1>2. CASE WriteCert
  <2>1. ServiceTyped' /\ LDIsTyped'
    BY <1>m, <1>2 DEF WriteCert
  <2>2. FilesTyped'
    BY <1>a, <1>t, <1>2 DEF WriteCert, FilesTyped, Torn
  <2>3. StateTyped'
    BY <1>a, <1>t, <1>2 DEF WriteCert, StateTyped, ServiceTyped, FilesTyped, State, Serials
  <2>4. ControlTyped'
    BY <1>t, <1>2, Zenon DEF WriteCert, ControlTyped
  <2> QED
    BY <2>1, <2>2, <2>3, <2>4, <1>p
<1>3. CASE WriteKey
  <2>1. ServiceTyped' /\ LDIsTyped'
    BY <1>m, <1>3 DEF WriteKey
  <2>2. FilesTyped'
    <3>1. keyOf[pending] \in 0..last
      BY <1>a, <1>t DEF ServiceTyped, FilesTyped, Serials
    <3> QED
      BY <3>1, <1>a, <1>t, <1>3 DEF WriteKey, FilesTyped, Torn
  <2>3. StateTyped'
    BY <1>a, <1>t, <1>3 DEF WriteKey, StateTyped, ServiceTyped, FilesTyped, State, Serials
  <2>4. ControlTyped'
    BY <1>t, <1>3, Zenon DEF WriteKey, ControlTyped
  <2> QED
    BY <2>1, <2>2, <2>3, <2>4, <1>p
<1>4. CASE SaveState
  <2>1. ServiceTyped' /\ LDIsTyped'
    BY <1>m, <1>4 DEF SaveState
  <2>2. FilesTyped'
    BY <1>a, <1>t, <1>4 DEF SaveState, FilesTyped, Torn
  <2>3. StateTyped'
    <3>1. pending \in Serials
      BY <1>a, <1>t DEF FilesTyped, Serials
    <3>2. mem' \in State
      BY <3>1, <1>t, <1>4 DEF SaveState, StateTyped, State
    <3> QED
      BY <3>2, <1>t, <1>4 DEF SaveState, StateTyped
  <2>4. ControlTyped'
    BY <1>t, <1>4, Zenon DEF SaveState, ControlTyped
  <2> QED
    BY <2>1, <2>2, <2>3, <2>4, <1>p
<1>5. CASE CheckUnchanged
  BY <1>a, <1>5 DEF CheckUnchanged, Persist, TypeOK, State, Serials, Torn
<1>6. CASE CheckCertUnreadable
  <2>1. ServiceTyped' /\ LDIsTyped'
    BY <1>m, <1>6 DEF CheckCertUnreadable
  <2>2. FilesTyped'
    BY <1>t, <1>6 DEF CheckCertUnreadable, FilesTyped
  <2>3. StateTyped'
    BY <1>a, <1>t, <1>6 DEF CheckCertUnreadable, Remembered, ServiceTyped, StateTyped, State
  <2>4. ControlTyped'
    BY <1>t, <1>6, Zenon DEF CheckCertUnreadable, ControlTyped
  <2> QED
    BY <2>1, <2>2, <2>3, <2>4, <1>p
<1>7. ASSUME NEW b \in BOOLEAN, CheckChanged(b) PROVE TypeOK'
  <2>1. ServiceTyped' /\ LDIsTyped'
    BY <1>m, <1>7 DEF CheckChanged
  <2>2. FilesTyped'
    BY <1>a, <1>t, <1>7 DEF CheckChanged, FilesTyped, Torn
  <2>3. StateTyped'
    <3>1. list \in SUBSET (0..MaxSerial)
      BY <1>a, <1>t DEF ServiceTyped
    <3>2. \A r \in BOOLEAN : [Remembered EXCEPT !.revoked = r] \in State
      BY <3>1, <1>t DEF StateTyped, State, Remembered
    <3>3. (Remembered.revoked \/ OwnSVIDListed) \in BOOLEAN
      BY Zenon
    <3>4. mem' = [Remembered EXCEPT !.revoked = Remembered.revoked \/ OwnSVIDListed]
      BY <1>7, Zenon DEF CheckChanged
    <3>5. mem' \in State
      BY <3>2, <3>3, <3>4, Zenon
    <3>6. disk' = mem' \/ disk' = disk
      BY <1>7, Zenon DEF CheckChanged
    <3> QED
      BY <3>5, <3>6, <1>t, Zenon DEF StateTyped
  <2>4. ControlTyped'
    BY <1>t, <1>7, Zenon DEF CheckChanged, ControlTyped
  <2> QED
    BY <2>1, <2>2, <2>3, <2>4, <1>p
<1>8. CASE RefreshBundle
  BY <1>a, <1>8 DEF RefreshBundle, Persist, TypeOK, State, Serials, Torn
<1>9. ASSUME NEW l \in 1..ldis, RevokeSPIFFEID(l) \/ SetLDIStatus(l) PROVE TypeOK'
  <2>1. ServiceTyped' /\ LDIsTyped' /\ last' = last
    <3>1. CASE RevokeSPIFFEID(l)
      BY <1>a, <1>t, <3>1, PriorsTyped DEF RevokeSPIFFEID, LDIsTyped
    <3>2. CASE SetLDIStatus(l)
      BY <1>t, <3>2 DEF SetLDIStatus, ServiceTyped, LDIsTyped
    <3> QED
      BY <1>9, <3>1, <3>2
  <2>2. FilesTyped' /\ StateTyped'
    BY <2>1, <1>t, <1>9 DEF RevokeSPIFFEID, SetLDIStatus, FilesTyped, StateTyped
  <2>4. ControlTyped'
    BY <1>t, <1>9, Zenon DEF RevokeSPIFFEID, SetLDIStatus, ControlTyped
  <2> QED
    BY <2>1, <2>2, <2>4, <1>p
<1>10. CASE Crash
  <2>1. ServiceTyped' /\ LDIsTyped'
    BY <1>m, <1>10 DEF Crash
  <2>2. FilesTyped'
    BY <1>a, <1>t, <1>10 DEF Crash, FilesTyped, Torn
  <2>3. StateTyped'
    BY <1>a, <1>t, <1>10 DEF Crash, StateTyped, ServiceTyped, FilesTyped, State, Serials
  <2>4. ControlTyped'
    BY <1>t, <1>10, Zenon DEF Crash, ControlTyped
  <2> QED
    BY <2>1, <2>2, <2>3, <2>4, <1>p
<1>11. CASE Restart
  BY <1>a, <1>11 DEF Restart, TypeOK, State, Serials, Torn
<1>12. CASE UNCHANGED vars
  BY <1>12 DEF vars, TypeOK
<1> QED
  BY <1>1, <1>1a, <1>1b, <1>2, <1>3, <1>4, <1>5, <1>6, <1>7, <1>8, <1>9, <1>10, <1>11, <1>12 DEF Next

(* Every step of the agent, the service and the operator preserves it.     *)
LEMMA NextIInv == IInv /\ [Next]_vars => IInv'
<1> DEFINE Rest == RevokedOnlyIfListed /\ RevocationKnown /\ FilesAgree /\ FilesProgress
<1> SUFFICES ASSUME IInv, [Next]_vars PROVE Rest'
  BY NextTypeOK DEF IInv
<1>a. /\ TypeOK
      /\ last \in Nat /\ last + 1 \in 0..(last + 1)
  BY AgentAssumption DEF IInv, TypeOK, Serials
<1>b. Rest
  BY DEF IInv
<1>o. OwnLDI \in 0..ldis
  BY <1>a DEF OwnLDI, TypeOK, State
<1> USE DEF misVars, Idle, AtFiles
<1>1. CASE Renew \/ RenewFails
  BY <1>b, <1>1 DEF Renew, RenewFails, RevokedOnlyIfListed, RevocationKnown,
     FilesAgree, FilesProgress, KeyPair
<1>1a. CASE RenewPriors
  BY <1>b, <1>1a DEF RenewPriors, RevokePriors, RevokedOnlyIfListed, RevocationKnown,
     FilesAgree, FilesProgress, KeyPair
<1>1b. CASE RenewIssue
  <2>1. RevokedOnlyIfListed' /\ RevocationKnown'
    BY <1>b, <1>1b DEF RenewIssue, Issue, RevokedOnlyIfListed, RevocationKnown
  <2>2. \A c \in 1..last : keyOf'[c] = keyOf[c]
    BY <1>a, <1>o, <1>1b, IssueTyped DEF RenewIssue
  <2>3. FilesAgree'
    BY <2>2, <1>a, <1>b, <1>1b DEF RenewIssue, FilesAgree, KeyPair, TypeOK, Torn
  <2>4. FilesProgress'
    BY <1>b, <1>1b DEF RenewIssue, FilesProgress
  <2> QED
    BY <2>1, <2>3, <2>4
<1>2. CASE WriteCert
  BY <1>a, <1>b, <1>2 DEF WriteCert, RevokedOnlyIfListed, RevocationKnown,
     FilesAgree, FilesProgress, KeyPair, Torn, TypeOK, State
<1>3. CASE WriteKey
  BY <1>a, <1>b, <1>3 DEF WriteKey, RevokedOnlyIfListed, RevocationKnown,
     FilesAgree, FilesProgress, KeyPair, Torn, TypeOK, State
<1>4. CASE SaveState
  BY <1>a, <1>b, <1>4 DEF SaveState, RevokedOnlyIfListed, RevocationKnown,
     FilesAgree, FilesProgress, KeyPair, Torn, TypeOK, State
<1>5. CASE CheckUnchanged
  BY <1>a, <1>b, <1>5 DEF CheckUnchanged, Persist, RevokedOnlyIfListed, RevocationKnown,
     FilesAgree, FilesProgress, KeyPair, Torn, TypeOK, State
<1>6. CASE CheckCertUnreadable
  BY <1>a, <1>b, <1>6 DEF CheckCertUnreadable, Remembered, RevokedOnlyIfListed, RevocationKnown,
     FilesAgree, FilesProgress, KeyPair, Torn, TypeOK, State
<1>7. ASSUME NEW b \in BOOLEAN, CheckChanged(b) PROVE Rest'
  BY <1>a, <1>b, <1>7 DEF CheckChanged, Remembered, OwnSVIDListed, RevokedOnlyIfListed, RevocationKnown,
     FilesAgree, FilesProgress, KeyPair, Torn, TypeOK, State
<1>8. CASE RefreshBundle
  BY <1>a, <1>b, <1>8 DEF RefreshBundle, Persist, RevokedOnlyIfListed, RevocationKnown,
     FilesAgree, FilesProgress, KeyPair, Torn, TypeOK, State
<1>9. ASSUME NEW l \in 1..ldis, RevokeSPIFFEID(l) \/ SetLDIStatus(l) PROVE Rest'
  BY <1>b, <1>9 DEF RevokeSPIFFEID, SetLDIStatus, RevokePriors, RevokedOnlyIfListed,
     RevocationKnown, FilesAgree, FilesProgress, KeyPair
<1>10. CASE Crash
  BY <1>a, <1>b, <1>10 DEF Crash, RevokedOnlyIfListed, RevocationKnown,
     FilesAgree, FilesProgress, KeyPair, Torn, TypeOK, State
<1>11. CASE Restart
  BY <1>a, <1>b, <1>11 DEF Restart, RevokedOnlyIfListed, RevocationKnown,
     FilesAgree, FilesProgress, KeyPair, Torn, TypeOK, State
<1>12. CASE UNCHANGED vars
  BY <1>b, <1>12 DEF vars, RevokedOnlyIfListed, RevocationKnown, FilesAgree, FilesProgress, KeyPair
<1> QED
  BY <1>1, <1>1a, <1>1b, <1>2, <1>3, <1>4, <1>5, <1>6, <1>7, <1>8, <1>9, <1>10, <1>11, <1>12 DEF Next

(* The invariant holds throughout. *)
THEOREM Invariance == Spec => []IInv
  BY InitIInv, NextIInv, PTL DEF Spec

(* The state keeps its type: in particular the published list only names   *)
(* certificates that were issued.                                          *)
THEOREM Typed == Spec => []TypeOK
<1>1. IInv => TypeOK
  BY DEF IInv
<1> QED
  BY <1>1, Invariance, PTL

(* The agent halts over a certificate that it holds and that is listed     *)
(* (handleCheckRevocations), whatever renewals, crashes and failed writes  *)
(* came before.                                                            *)
THEOREM HaltsForCause == Spec => []RevokedOnlyIfListed
<1>1. IInv => RevokedOnlyIfListed
  BY DEF IInv
<1> QED
  BY <1>1, Invariance, PTL

(* Certificate, key and recorded serial belong together between commands,  *)
(* unless a renewal was cut off in handleRenew's three writes.             *)
THEOREM FilesStayTogether == Spec => []FilesAgree
<1>1. IInv => FilesAgree
  BY DEF IInv
<1> QED
  BY <1>1, Invariance, PTL

(* A revocation that reached the disk ends renewal, across restarts.       *)
THEOREM RevocationEndsRenewal == Spec => NoRenewalOnceRevoked
<1>1. IInv /\ [Next]_vars => [disk.revoked => last' = last]_vars
  <2> SUFFICES ASSUME IInv, Next, disk.revoked PROVE last' = last
    BY DEF vars, misVars
  <2>1. mem.revoked
    BY DEF IInv, RevocationKnown
  <2>2. ~RenewIssue
    BY <2>1 DEF RenewIssue, IInv, RevocationKnown
  <2> QED
    BY <2>2 DEF Next, Renew, RenewPriors, RenewFails, WriteCert, WriteKey, SaveState,
       CheckUnchanged, CheckCertUnreadable, CheckChanged, RefreshBundle, RevokeSPIFFEID,
       SetLDIStatus, RevokePriors, Crash, Restart, misVars
<1> QED
  BY <1>1, Invariance, PTL DEF Spec, NoRenewalOnceRevoked

-----------------------------------------------------------------------------
(* The commands. *)

(* Every certificate that was issued is listed or active. *)
Accounted == 1..last \subseteq list \cup active

(* What the state names, in memory and on disk, and what a command         *)
(* installs, was issued.                                                   *)
NamesIssued ==
    /\ disk.serial \in 1..last /\ mem.serial \in 1..last
    /\ CliAtFiles => cliCert # 0

(* A revoked identity, or one whose revocation is under way, that no       *)
(* request raced with is not being served, and has no certificate left to  *)
(* list.                                                                   *)
Reached ==
    \A l \in (revoking \cup withdrawn) \ raced :
        /\ l \notin Served
        /\ \A s \in 1..last : ldiOf[s] = l => s \in list

(* What the two histories say about who is at the files. *)
SideBySide ==
    /\ alone => ~up
    /\ ~up => op = "idle"
    /\ CliAtFiles /\ ~overlap => alone

(* A running daemon knows of a revocation on disk, and does not renew.     *)
RevocationHeld ==
    /\ up /\ disk.revoked => mem.revoked
    /\ op # "idle" => ~mem.revoked

(* How far the daemon, undisturbed, or a command, alone, has got with the  *)
(* files.                                                                  *)
InstallProgress ==
    /\ ~overlap /\ op \in {"key", "state"} => cert = pending
    /\ ~overlap /\ op = "state" => key = keyOf[pending]
    /\ alone /\ cli \in {"key", "state"} => cert = cliCert
    /\ alone /\ cli = "state" => key = keyOf[cliCert]

(* A certificate or a pair of files that is not older than certificate s. *)
NotOlder(c, s) == c >= s /\ keyOf[c] >= keyOf[s]
FilesNotOlder(s) == (cert # Torn => cert >= s) /\ (key # Torn => key >= keyOf[s])

(* Whatever is installed next, or remembered by a daemon that will persist *)
(* it, keeps the state file behind the other two.                          *)
Ordered ==
    ~overlap =>
        /\ up => FilesNotOlder(mem.serial)
        /\ AtFiles => NotOlder(pending, disk.serial) /\ NotOlder(pending, mem.serial)
        /\ CliAtFiles => NotOlder(cliCert, disk.serial)
        /\ alone => cliKey = 0 \/ cliKey >= keyOf[disk.serial]

CInv ==
    /\ CommandsTypeOK /\ Accounted /\ NamesIssued /\ Reached
    /\ SideBySide /\ RevocationHeld /\ InstallProgress /\ RevokedOnlyIfInstalled
    /\ Ordered /\ StateComesLast

(* The data directory of an enrolled agent on which no command has run.    *)
LEMMA InitCInv == CommandsInit => CInv
<1> SUFFICES ASSUME CommandsInit PROVE CInv
  OBVIOUS
<1>1. IInv /\ Init
  BY InitIInv DEF CommandsInit
<1>2. CommandsTypeOK
  <2>1. /\ TypeOK /\ cliLDI \in 0..ldis /\ cliKey \in 0..last /\ cliCert \in 0..last
        /\ raced \subseteq 1..ldis
    BY <1>1 DEF IInv, CommandsInit, Init
  <2> QED
    BY <2>1, Zenon DEF CommandsTypeOK, CommandsInit
<1>3. Accounted /\ NamesIssued /\ Reached
  BY <1>1 DEF Init, CommandsInit, CliAtFiles, Accounted, NamesIssued, Reached
<1>4. SideBySide /\ RevocationHeld /\ InstallProgress /\ RevokedOnlyIfInstalled
  BY <1>1 DEF Init, CommandsInit, SideBySide, RevocationHeld, InstallProgress,
     RevokedOnlyIfInstalled, CliAtFiles
<1>5. Ordered /\ StateComesLast
  BY <1>1, AgentAssumption DEF Init, CommandsInit, Ordered, StateComesLast, FilesNotOlder,
     CliAtFiles, AtFiles, Torn, Serials
<1> QED
  BY <1>2, <1>3, <1>4, <1>5 DEF CInv

(* The parts of the commands' types that are about the commands. *)
CliTyped ==
    /\ cli \in {"off", "priors", "issue", "cert", "key", "state"}
    /\ alone \in BOOLEAN /\ overlap \in BOOLEAN

RequestTyped ==
    /\ cliLDI \in 0..ldis /\ cliKey \in 0..last /\ cliCert \in 0..last
    /\ raced \subseteq 1..ldis

(* The daemon asks for an LDI the device was given. *)
LEMMA OwnTyped == TypeOK => OwnLDI \in 0..ldis
  BY DEF OwnLDI, TypeOK, State

(* The records of the certificates only grow or are struck.  *)
Recorded ==
    \/ UNCHANGED <<last, keyOf, ldiOf, active, list>>
    \/ \E l \in 0..ldis : RevokePriors(l)
    \/ \E l \in 0..ldis, k \in 0..(last + 1) : Issue(l, k)

(* No step changes the records in another way, whoever takes it. *)
LEMMA StepsRecord ==
  ASSUME CommandsTypeOK, [CommandsNext]_commandVars
  PROVE  Recorded
<1>a. /\ TypeOK /\ last \in Nat /\ last + 1 \in 0..(last + 1) /\ ldis \in Nat
      /\ cliLDI \in 0..ldis /\ cliKey \in 0..(last + 1)
  BY DEF CommandsTypeOK, TypeOK, Serials
<1>o. OwnLDI \in 0..ldis
  BY <1>a, OwnTyped
<1> USE DEF misVars
<1>1. CASE CliPriors
  BY <1>a, <1>1 DEF CliPriors, Recorded
<1>2. CASE CliIssue
  <2> DEFINE k == IF cliKey = 0 THEN last + 1 ELSE cliKey
  <2>1. k \in 0..(last + 1) /\ Issue(cliLDI, k)
    BY <1>a, <1>2 DEF CliIssue
  <2> HIDE DEF k
  <2> QED
    BY <2>1, <1>a DEF Recorded
<1>3. CASE RenewPriors
  BY <1>o, <1>3 DEF RenewPriors, Recorded
<1>4. CASE RenewIssue
  BY <1>a, <1>o, <1>4 DEF RenewIssue, Recorded
<1>5. ASSUME NEW l \in 1..ldis, RevokeSPIFFEID(l) PROVE Recorded
  <2>1. l \in 0..ldis
    BY <1>a
  <2> QED
    BY <2>1, <1>5 DEF RevokeSPIFFEID, Recorded
<1>6. CASE UNCHANGED <<last, keyOf, ldiOf, active, list>>
  BY <1>6 DEF Recorded
<1>7. ASSUME Next PROVE \/ RenewPriors \/ RenewIssue \/ (\E l \in 1..ldis : RevokeSPIFFEID(l))
                        \/ UNCHANGED <<last, keyOf, ldiOf, active, list>>
  BY <1>7 DEF Next, Renew, RenewFails, WriteCert, WriteKey, SaveState, CheckUnchanged,
     CheckCertUnreadable, CheckChanged, RefreshBundle, SetLDIStatus, Crash, Restart
<1>8. \/ Next \/ CliPriors \/ CliIssue \/ UNCHANGED <<last, keyOf, ldiOf, active, list>>
  BY DEF CommandsNext, commandVars, vars, CliEnroll, CliEnrollNew, CliRenew,
     CliWriteCert, CliWriteKey, CliSaveState, CliKilled, AgentStep
<1> QED
  BY <1>1, <1>2, <1>3, <1>4, <1>5, <1>6, <1>7, <1>8

(* Every certificate stays accounted for, and keeps its key and its LDI. *)
LEMMA StaysAccounted ==
  ASSUME CommandsTypeOK, Accounted, [CommandsNext]_commandVars
  PROVE  /\ Accounted' /\ last \in Nat /\ last' \in Nat /\ last <= last'
         /\ \A c \in 1..last : keyOf'[c] = keyOf[c] /\ ldiOf'[c] = ldiOf[c]
<1>a. TypeOK /\ last \in Nat
  BY DEF CommandsTypeOK, TypeOK, Serials
<1>1. CASE UNCHANGED <<last, keyOf, ldiOf, active, list>>
  BY <1>1, <1>a DEF Accounted
<1>2. ASSUME NEW l, RevokePriors(l)
      PROVE  /\ Accounted' /\ last' = last
             /\ \A c \in 1..last : keyOf'[c] = keyOf[c] /\ ldiOf'[c] = ldiOf[c]
  BY <1>2 DEF RevokePriors, Accounted
<1>3. ASSUME NEW l \in 0..ldis, NEW k \in 0..(last + 1), Issue(l, k)
      PROVE  /\ Accounted' /\ last' = last + 1
             /\ \A c \in 1..last : keyOf'[c] = keyOf[c] /\ ldiOf'[c] = ldiOf[c]
  <2>1. /\ last' = last + 1
        /\ \A c \in 1..last : keyOf'[c] = keyOf[c] /\ ldiOf'[c] = ldiOf[c]
    BY <1>a, <1>3, IssueTyped
  <2>2. 1..(last + 1) = (1..last) \cup {last + 1}
    BY <1>a
  <2>3. active' = active \cup {last + 1} /\ list' = list
    BY <1>3 DEF Issue
  <2> QED
    BY <2>1, <2>2, <2>3 DEF Accounted
<1> QED
  BY <1>1, <1>2, <1>3, <1>a, StepsRecord DEF Recorded

(* The commands' steps, and the steps beside them, keep the types. *)
LEMMA CommandsNextTypeOK ==
  ASSUME CommandsTypeOK, Accounted, NamesIssued, [CommandsNext]_commandVars
  PROVE  CommandsTypeOK'
<1>a. /\ TypeOK /\ last \in Nat /\ ldis \in Nat /\ CliTyped /\ RequestTyped
  <2>1. TypeOK /\ RequestTyped
    BY DEF CommandsTypeOK, RequestTyped
  <2>2. CliTyped
    BY Zenon DEF CommandsTypeOK, CliTyped
  <2> QED
    BY <2>1, <2>2 DEF TypeOK, Serials
<1>t. ServiceTyped /\ LDIsTyped /\ FilesTyped /\ StateTyped /\ ControlTyped
  BY <1>a, TypeParts
<1>p. ASSUME ServiceTyped', LDIsTyped', FilesTyped', StateTyped', ControlTyped', CliTyped',
             RequestTyped'
      PROVE  CommandsTypeOK'
  BY <1>p, Zenon DEF CommandsTypeOK, TypeOK, ServiceTyped, LDIsTyped, FilesTyped, StateTyped,
     ControlTyped, CliTyped, RequestTyped
<1>m. ASSUME UNCHANGED misVars PROVE ServiceTyped' /\ LDIsTyped'
  BY <1>m, <1>t DEF misVars, ServiceTyped, LDIsTyped
<1>c. CliAtFiles => cliCert \in Serials /\ keyOf[cliCert] \in 0..last
  BY <1>a, <1>t, AgentAssumption DEF NamesIssued, ServiceTyped, RequestTyped, Serials
<1>l. last' \in Nat /\ last <= last'
  BY StaysAccounted
<1> USE DEF misVars, requestVars
<1>1. ASSUME NEW l \in 0..ldis', NEW k \in 0..last, NEW step \in {"priors", "issue"},
             CliAsks(l, k, step), ldis' \in Nat, ldis <= ldis',
             UNCHANGED <<last, keyOf, ldiOf, active, list, revoking, withdrawn>>
      PROVE  CommandsTypeOK'
  <2>1. ServiceTyped' /\ LDIsTyped'
    BY <1>a, <1>t, <1>1 DEF ServiceTyped, LDIsTyped
  <2>2. FilesTyped' /\ StateTyped'
    BY <1>t, <1>1 DEF CliAsks, FilesTyped, StateTyped
  <2>3. ControlTyped' /\ CliTyped'
    BY <1>a, <1>t, <1>1, Zenon DEF CliAsks, ControlTyped, CliTyped
  <2>4. RequestTyped'
    BY <1>a, <1>t, <1>1 DEF CliAsks, RequestTyped, LDIsTyped
  <2> QED
    BY <2>1, <2>2, <2>3, <2>4, <1>p
<1>2. CASE CliEnroll
  <2>1. PICK l \in (1..ldis) \ withdrawn : CliAsks(l, 0, "priors")
    BY <1>2 DEF CliEnroll
  <2>2. ldis' = ldis /\ UNCHANGED <<last, keyOf, ldiOf, active, list, revoking, withdrawn>>
    BY <1>2 DEF CliEnroll
  <2> QED
    BY <2>1, <2>2, <1>a, <1>1
<1>3. CASE CliEnrollNew
  BY <1>3, <1>a, <1>1 DEF CliEnrollNew
<1>4. ASSUME NEW b \in BOOLEAN, CliRenew(b) PROVE CommandsTypeOK'
  <2>1. PICK k \in 0..last, step \in {"priors", "issue"} : CliAsks(ldiOf[disk.serial], k, step)
    <3>1. key \in 0..last /\ 0 \in 0..last
      BY <1>a, <1>t DEF FilesTyped
    <3> QED
      BY <3>1, <1>4 DEF CliRenew
  <2>2. ldis' = ldis /\ UNCHANGED <<last, keyOf, ldiOf, active, list, revoking, withdrawn>>
    BY <1>4 DEF CliRenew
  <2>3. ldiOf[disk.serial] \in 0..ldis'
    BY <2>2, <1>t DEF StateTyped, State, LDIsTyped
  <2> QED
    BY <2>1, <2>2, <2>3, <1>a, <1>1
<1>5. CASE CliPriors
  <2>1. ServiceTyped' /\ LDIsTyped' /\ last' = last
    BY <1>a, <1>t, <1>5, PriorsTyped DEF CliPriors, LDIsTyped
  <2>2. FilesTyped' /\ StateTyped' /\ RequestTyped'
    BY <2>1, <1>a, <1>t, <1>5 DEF CliPriors, CliGoesOn, FilesTyped, StateTyped, RequestTyped
  <2>3. ControlTyped' /\ CliTyped'
    BY <1>a, <1>t, <1>5, Zenon DEF CliPriors, CliGoesOn, ControlTyped, CliTyped
  <2> QED
    BY <2>1, <2>2, <2>3, <1>p
<1>6. CASE CliIssue
  <2> DEFINE k == IF cliKey = 0 THEN last + 1 ELSE cliKey
  <2>1. k \in 0..(last + 1) /\ cliLDI \in 0..ldis /\ Issue(cliLDI, k)
    BY <1>a, <1>6 DEF CliIssue, RequestTyped
  <2> HIDE DEF k
  <2>2. ServiceTyped' /\ LDIsTyped' /\ last' = last + 1
    BY <2>1, <1>a, IssueTyped
  <2>3. FilesTyped' /\ StateTyped'
    BY <2>2, <1>a, <1>t, <1>6 DEF CliIssue, FilesTyped, StateTyped
  <2>4. ControlTyped' /\ CliTyped'
    BY <1>a, <1>t, <1>6, Zenon DEF CliIssue, CliEnds, ControlTyped, CliTyped
  <2>5. RequestTyped'
    BY <2>1, <2>2, <1>a, <1>6 DEF CliIssue, CliEnds, Issue, RequestTyped
  <2> QED
    BY <2>2, <2>3, <2>4, <2>5, <1>p
<1>7. CASE CliWriteCert
  <2>1. UNCHANGED misVars
    BY <1>7 DEF CliWriteCert
  <2>2. FilesTyped' /\ StateTyped'
    BY <1>a, <1>t, <1>7 DEF CliWriteCert, FilesTyped, StateTyped, RequestTyped, Torn
  <2>3. RequestTyped'
    BY <1>a, <1>7 DEF CliWriteCert, CliGoesOn, CliEnds, RequestTyped
  <2>4. ControlTyped' /\ CliTyped'
    BY <1>a, <1>t, <1>7, Zenon DEF CliWriteCert, CliGoesOn, CliEnds, ControlTyped, CliTyped
  <2> QED
    BY <2>1, <2>2, <2>3, <2>4, <1>m, <1>p
<1>8. CASE CliWriteKey
  <2>1. UNCHANGED misVars
    BY <1>8 DEF CliWriteKey
  <2>2. FilesTyped' /\ StateTyped'
    <3>1. keyOf[cliCert] \in 0..last
      BY <1>c, <1>8 DEF CliWriteKey, CliAtFiles
    <3> QED
      BY <3>1, <1>a, <1>t, <1>8 DEF CliWriteKey, FilesTyped, StateTyped, Torn
  <2>3. RequestTyped'
    BY <1>a, <1>8 DEF CliWriteKey, CliGoesOn, CliEnds, RequestTyped
  <2>4. ControlTyped' /\ CliTyped'
    BY <1>a, <1>t, <1>8, Zenon DEF CliWriteKey, CliGoesOn, CliEnds, ControlTyped, CliTyped
  <2> QED
    BY <2>1, <2>2, <2>3, <2>4, <1>m, <1>p
<1>9. CASE CliSaveState
  <2>1. UNCHANGED misVars
    BY <1>9 DEF CliSaveState
  <2>2. FilesTyped' /\ RequestTyped'
    BY <1>a, <1>t, <1>9 DEF CliSaveState, CliEnds, FilesTyped, RequestTyped
  <2>3. StateTyped'
    <3>1. cliCert \in Serials /\ NoETag \in SUBSET (0..MaxSerial)
      BY <1>c, <1>9, AgentAssumption DEF CliSaveState, CliAtFiles, NoETag
    <3>2. Enrolled(cliCert) \in State
      BY <3>1 DEF Enrolled, State
    <3> QED
      BY <3>2, <1>t, <1>9 DEF CliSaveState, StateTyped
  <2>4. ControlTyped' /\ CliTyped'
    BY <1>a, <1>t, <1>9, Zenon DEF CliSaveState, CliEnds, ControlTyped, CliTyped
  <2> QED
    BY <2>1, <2>2, <2>3, <2>4, <1>m, <1>p
<1>10. CASE CliKilled
  <2>1. UNCHANGED misVars
    BY <1>10 DEF CliKilled
  <2>2. FilesTyped' /\ StateTyped'
    BY <1>a, <1>t, <1>10 DEF CliKilled, FilesTyped, StateTyped, Torn
  <2>3. RequestTyped'
    BY <1>a, <1>10 DEF CliKilled, CliEnds, RequestTyped
  <2>4. ControlTyped' /\ CliTyped'
    BY <1>a, <1>t, <1>10, Zenon DEF CliKilled, CliEnds, ControlTyped, CliTyped
  <2> QED
    BY <2>1, <2>2, <2>3, <2>4, <1>m, <1>p
<1>11. CASE AgentStep
  <2>1. TypeOK'
    BY <1>a, <1>11, NextTypeOK DEF AgentStep
  <2>2. ldis' = ldis
    BY <1>11 DEF AgentStep, Next, Renew, RenewPriors, RenewIssue, RenewFails, Issue, WriteCert,
       WriteKey, SaveState, CheckUnchanged, CheckCertUnreadable, CheckChanged, RefreshBundle,
       RevokeSPIFFEID, SetLDIStatus, Crash, Restart
  <2>3. revoking' \subseteq 1..ldis'
    BY <2>1 DEF TypeOK
  <2>4. RequestTyped'
    <3>1. raced' \subseteq raced \cup revoking'
      BY <1>11 DEF AgentStep
    <3>2. cliLDI' = cliLDI /\ cliKey' = cliKey /\ cliCert' = cliCert
      BY <1>11 DEF AgentStep
    <3> QED
      BY <2>2, <2>3, <3>1, <3>2, <1>a, <1>l DEF RequestTyped
  <2>5. CliTyped'
    BY <1>a, <1>11, Zenon DEF AgentStep, CliTyped
  <2> QED
    BY <2>1, <2>4, <2>5, Zenon DEF CommandsTypeOK, CliTyped, RequestTyped
<1>12. CASE UNCHANGED commandVars
  BY <1>12 DEF commandVars, vars, CommandsTypeOK, TypeOK
<1> QED
  BY <1>2, <1>3, <1>4, <1>5, <1>6, <1>7, <1>8, <1>9, <1>10, <1>11, <1>12 DEF CommandsNext

(* What a command that turns to the service leaves alone, and what it asks *)
(* for: an identity that is not revoked, with a new key or the key of the  *)
(* pair it has.                                                            *)
LEMMA Asked ==
  ASSUME CommandsTypeOK, CliEnroll \/ CliEnrollNew \/ \E b \in BOOLEAN : CliRenew(b)
  PROVE  /\ cli = "off" /\ cli' \in {"priors", "issue"}
         /\ cliLDI' \notin withdrawn
         /\ cliKey' = 0 \/ (cliKey' = key /\ KeyPair)
         /\ alone' = ~up /\ raced' = raced \cup ({cliLDI'} \cap revoking)
         /\ UNCHANGED <<last, keyOf, ldiOf, active, list, revoking, withdrawn, cliCert,
                        overlap, up, cert, key, disk, mem, op, pending, sched, missed, cutOff>>
<1>1. CASE CliEnroll
  BY <1>1 DEF CliEnroll, CliAsks, misVars
<1>2. CASE CliEnrollNew
  <2>1. withdrawn \subseteq 1..ldis /\ ldis \in Nat
    BY DEF CommandsTypeOK, TypeOK
  <2>2. ldis + 1 \notin withdrawn
    BY <2>1
  <2> QED
    BY <1>2, <2>2 DEF CliEnrollNew, CliAsks
<1>3. ASSUME NEW b \in BOOLEAN, CliRenew(b)
      PROVE  /\ cliKey' = 0 \/ (cliKey' = key /\ KeyPair)
             /\ cliLDI' \notin withdrawn /\ cli = "off" /\ cli' \in {"priors", "issue"}
             /\ alone' = ~up /\ raced' = raced \cup ({cliLDI'} \cap revoking)
             /\ UNCHANGED <<last, keyOf, ldiOf, active, list, revoking, withdrawn, cliCert,
                            overlap, up, cert, key, disk, mem, op, pending, sched, missed, cutOff>>
  BY <1>3 DEF CliRenew, CliAsks, Renewable, misVars
<1> QED
  BY <1>1, <1>2, <1>3

(* What the state names, and what is installed, stays issued. *)
LEMMA NextNamesIssued ==
  ASSUME CommandsTypeOK, Accounted, NamesIssued, [CommandsNext]_commandVars
  PROVE  NamesIssued'
<1>a. /\ last \in Nat /\ last' \in Nat /\ last <= last'
      /\ pending \in 1..last /\ cliCert \in 0..last /\ disk \in State /\ mem \in State
  BY StaysAccounted DEF CommandsTypeOK, TypeOK
<1>p. ASSUME disk'.serial \in 1..last', mem'.serial \in 1..last', CliAtFiles' => cliCert' # 0
      PROVE  NamesIssued'
  BY <1>p DEF NamesIssued
<1>k. ASSUME UNCHANGED <<disk, mem>>, CliAtFiles' => cliCert' # 0 PROVE NamesIssued'
  BY <1>k, <1>a DEF NamesIssued
<1> USE DEF CliAtFiles
<1>1. CASE CliEnroll \/ CliEnrollNew \/ \E b \in BOOLEAN : CliRenew(b)
  BY <1>1, <1>k, Asked
<1>4. CASE CliPriors
  BY <1>4, <1>k DEF CliPriors, CliGoesOn
<1>5. CASE CliIssue
  BY <1>a, <1>5, <1>k DEF CliIssue, CliEnds, Issue
<1>6. CASE CliWriteCert \/ CliWriteKey \/ CliKilled
  BY <1>6, <1>k DEF CliWriteCert, CliWriteKey, CliKilled, CliGoesOn, CliEnds, NamesIssued
<1>7. CASE CliSaveState
  <2>1. disk'.serial \in {cliCert, disk.serial} /\ mem' = mem /\ cli' = "off"
    BY <1>7 DEF CliSaveState, CliEnds, Enrolled
  <2>2. cliCert \in 1..last
    BY <1>a, <1>7 DEF CliSaveState, NamesIssued
  <2> QED
    BY <2>1, <2>2, <1>a, <1>p DEF NamesIssued
<1>8. CASE AgentStep
  <2>1. CliAtFiles' => cliCert' # 0
    BY <1>8 DEF AgentStep, NamesIssued
  <2>2. /\ disk'.serial \in {disk.serial, mem.serial, pending}
        /\ mem'.serial \in {disk.serial, mem.serial, pending}
    <3>1. CASE SaveState
      BY <3>1, <1>a DEF SaveState, State
    <3>2. ASSUME NEW b \in BOOLEAN, CheckChanged(b) PROVE <2>2!1 /\ <2>2!2
      BY <3>2, <1>a DEF CheckChanged, Remembered, State
    <3>3. CASE CheckCertUnreadable
      BY <3>3, <1>a DEF CheckCertUnreadable, Remembered, State
    <3>4. CASE disk' \in {disk, mem} /\ mem' \in {disk, mem}
      BY <3>4
    <3> QED
      BY <1>8, <3>1, <3>2, <3>3, <3>4 DEF AgentStep, Next, Renew, RenewPriors, RenewIssue,
         RenewFails, WriteCert, WriteKey, CheckUnchanged, RefreshBundle, Persist,
         RevokeSPIFFEID, SetLDIStatus, Crash, Restart
  <2> QED
    BY <2>1, <2>2, <1>a, <1>p DEF NamesIssued
<1>9. CASE UNCHANGED commandVars
  BY <1>9 DEF commandVars, vars, misVars, NamesIssued
<1> QED
  BY <1>1, <1>4, <1>5, <1>6, <1>7, <1>8, <1>9 DEF CommandsNext

(* Who is at the files, how far they have got, and what "revoked" is about *)
(* is preserved by every step of a command, and every step beside one.     *)
LEMMA NextSettled ==
  ASSUME CInv, [CommandsNext]_commandVars
  PROVE  (SideBySide /\ RevocationHeld /\ InstallProgress /\ RevokedOnlyIfInstalled)'
<1> DEFINE Rest == SideBySide /\ RevocationHeld /\ InstallProgress /\ RevokedOnlyIfInstalled
<1> SUFFICES Rest'
  OBVIOUS
<1>a. /\ last \in Nat /\ pending \in 1..last /\ cliCert \in 0..last /\ mem \in State /\ disk \in State
      /\ CommandsTypeOK /\ NamesIssued /\ up \in BOOLEAN /\ cutOff \in BOOLEAN /\ alone \in BOOLEAN
      /\ overlap \in BOOLEAN /\ disk.revoked \in BOOLEAN /\ mem.revoked \in BOOLEAN
      /\ \A c \in 1..last : keyOf'[c] = keyOf[c]
  BY StaysAccounted DEF CInv, CommandsTypeOK, TypeOK, State
<1>b. Rest
  BY DEF CInv
<1> USE DEF misVars, Idle, SideBySide, RevocationHeld, InstallProgress,
        RevokedOnlyIfInstalled, Settled, AtFiles, CliAtFiles
<1>1. CASE CliEnroll \/ CliEnrollNew \/ \E b \in BOOLEAN : CliRenew(b)
  BY <1>1, <1>a, <1>b, Asked
<1>2. CASE CliPriors
  BY <1>a, <1>b, <1>2 DEF CliPriors, CliGoesOn, RevokePriors
<1>3. CASE CliIssue
  <2>1. list' = list
    BY <1>3 DEF CliIssue, Issue
  <2>2. /\ cli' \in {"cert", "off"} /\ (overlap' = overlap \/ overlap' = (overlap \/ ~alone))
        /\ cli' = "cert" /\ ~overlap' => alone'
        /\ alone' => alone
        /\ UNCHANGED <<up, cert, key, disk, mem, op, pending, cutOff>>
    <3>1. UNCHANGED <<up, cert, key, disk, mem, op, pending, cutOff>>
      BY <1>3 DEF CliIssue
    <3>2. CASE cli' = "cert" /\ overlap' = (overlap \/ ~alone) /\ alone' = alone
      BY <3>1, <3>2, <1>a
    <3>3. CASE cli' = "off" /\ overlap' = overlap /\ alone' = FALSE
      BY <3>1, <3>3, <1>a
    <3> QED
      BY <3>2, <3>3, <1>3, Zenon DEF CliIssue, CliEnds
  <2>3. ~overlap' => ~overlap
    BY <2>2, <1>a
  <2>4. keyOf'[pending] = keyOf[pending]
    BY <1>a
  <2>5. SideBySide' /\ RevocationHeld'
    BY <2>2, <1>b
  <2>6. InstallProgress'
    BY <2>2, <2>3, <2>4, <1>b
  <2>7. RevokedOnlyIfInstalled'
    BY <2>1, <2>2, <2>3, <1>3, <1>b DEF CliIssue
  <2> QED
    BY <2>5, <2>6, <2>7
<1>4. CASE CliWriteCert
  BY <1>a, <1>b, <1>4 DEF CliWriteCert, CliGoesOn, CliEnds
<1>5. CASE CliWriteKey
  BY <1>a, <1>b, <1>5 DEF CliWriteKey, CliGoesOn, CliEnds
<1>6. CASE CliSaveState
  <2>1. CASE disk' = Enrolled(cliCert) /\ cutOff' = FALSE /\ overlap' = ~alone
    <3>1. disk'.revoked = FALSE
      BY <2>1 DEF Enrolled
    <3> QED
      BY <2>1, <3>1, <1>b, <1>6 DEF CliSaveState, CliEnds
  <2>2. CASE cutOff' = TRUE /\ UNCHANGED <<disk, overlap>>
    BY <2>2, <1>b, <1>6 DEF CliSaveState, CliEnds
  <2> QED
    BY <2>1, <2>2, <1>6 DEF CliSaveState
<1>7. CASE CliKilled
  BY <1>a, <1>b, <1>7 DEF CliKilled, CliEnds
<1>8. CASE AgentStep
  <2>a. /\ alone' = (alone /\ ~up') /\ overlap' = (overlap \/ (CliAtFiles /\ up'))
        /\ cli' = cli /\ cliCert' = cliCert
    BY <1>8 DEF AgentStep
  <2>1. CASE Renew \/ RenewFails
    BY <1>a, <1>b, <2>a, <2>1 DEF Renew, RenewFails
  <2>2. CASE RenewPriors
    BY <1>a, <1>b, <2>a, <2>2 DEF RenewPriors, RevokePriors
  <2>3. CASE RenewIssue
    BY <1>a, <1>b, <2>a, <2>3 DEF RenewIssue, Issue, NamesIssued
  <2>4. CASE WriteCert
    BY <1>a, <1>b, <2>a, <2>4 DEF WriteCert
  <2>5. CASE WriteKey
    BY <1>a, <1>b, <2>a, <2>5 DEF WriteKey
  <2>6. CASE SaveState
    BY <1>a, <1>b, <2>a, <2>6 DEF SaveState, State
  <2>7. CASE CheckUnchanged \/ RefreshBundle
    BY <1>a, <1>b, <2>a, <2>7 DEF CheckUnchanged, RefreshBundle, Persist
  <2>8. CASE CheckCertUnreadable
    BY <1>a, <1>b, <2>a, <2>8 DEF CheckCertUnreadable, Remembered, State
  <2>9. ASSUME NEW b \in BOOLEAN, CheckChanged(b) PROVE Rest'
    BY <1>a, <1>b, <2>a, <2>9 DEF CheckChanged, Remembered, OwnSVIDListed, State
  <2>10. ASSUME NEW l \in 1..ldis, RevokeSPIFFEID(l) \/ SetLDIStatus(l) PROVE Rest'
    BY <1>a, <1>b, <2>a, <2>10 DEF RevokeSPIFFEID, SetLDIStatus, RevokePriors
  <2>11. CASE Crash
    BY <1>a, <1>b, <2>a, <2>11 DEF Crash
  <2>12. CASE Restart
    BY <1>a, <1>b, <2>a, <2>12 DEF Restart
  <2> QED
    BY <1>8, <2>1, <2>2, <2>3, <2>4, <2>5, <2>6, <2>7, <2>8, <2>9, <2>10, <2>11, <2>12
       DEF AgentStep, Next
<1>9. CASE UNCHANGED commandVars
  BY <1>a, <1>b, <1>9 DEF commandVars, vars
<1> HIDE DEF SideBySide, RevocationHeld, InstallProgress, RevokedOnlyIfInstalled
<1> QED
  BY <1>1, <1>2, <1>3, <1>4, <1>5, <1>6, <1>7, <1>8, <1>9 DEF CommandsNext

(* The state file stays behind the other two, and behind what is installed *)
(* next: renewals with a new key get the newest key, and a command that    *)
(* renews with the old key had a pair that was not older than the state.   *)
LEMMA NextOrdered ==
  ASSUME CInv, [CommandsNext]_commandVars
  PROVE  (Ordered /\ StateComesLast)'
<1> DEFINE Rest == Ordered /\ StateComesLast
<1> SUFFICES ASSUME ~overlap' PROVE Rest'
  BY DEF Ordered, StateComesLast
<1>a. /\ CommandsTypeOK /\ NamesIssued /\ SideBySide /\ InstallProgress
      /\ last \in Nat /\ cert \in 0..last /\ key \in 0..last /\ pending \in 1..last
      /\ cliCert \in 0..last /\ cliKey \in 0..last /\ mem \in State /\ disk \in State
      /\ up \in BOOLEAN /\ alone \in BOOLEAN /\ overlap \in BOOLEAN
      /\ \A c \in 1..last : keyOf'[c] = keyOf[c]
  BY StaysAccounted DEF CInv, CommandsTypeOK, TypeOK
<1>k. \A c \in 1..last : keyOf[c] \in 0..last
  BY AgentAssumption DEF CInv, CommandsTypeOK, TypeOK, Serials
<1>d. /\ disk.serial \in 1..last /\ mem.serial \in 1..last
      /\ CliAtFiles => cliCert \in 1..last
  BY <1>a DEF NamesIssued
<1>b. Rest
  BY DEF CInv
<1> USE DEF misVars, requestVars, Idle, Ordered, StateComesLast, FilesNotOlder, NotOlder, AtFiles, CliAtFiles, Torn
<1>1. CASE CliEnroll \/ CliEnrollNew \/ \E b \in BOOLEAN : CliRenew(b)
  <2>1. /\ cli = "off" /\ cli' \in {"priors", "issue"}
        /\ cliKey' = 0 \/ (cliKey' = key /\ key # 0)
        /\ UNCHANGED <<keyOf, overlap, up, cert, key, disk, mem, op, pending>>
    <3>1. CASE cliKey' = 0
      BY <1>1, <1>a, <3>1, Asked
    <3>2. CASE cliKey' = key
      BY <1>1, <1>a, <3>2, Asked
    <3> QED
      BY <1>1, <1>a, <3>1, <3>2, Asked
  <2> QED
    BY <2>1, <1>a, <1>b, <1>d, <1>k
<1>2. CASE CliPriors
  BY <1>a, <1>b, <1>d, <1>2 DEF CliPriors, CliGoesOn, RevokePriors
<1>3. CASE CliIssue
  <2> DEFINE k == IF cliKey = 0 THEN last + 1 ELSE cliKey
  <2>1. k \in 0..(last + 1) /\ cliLDI \in 0..ldis /\ Issue(cliLDI, k)
    BY <1>a, <1>3 DEF CliIssue, CommandsTypeOK
  <2>k. k = last + 1 \/ (cliKey # 0 /\ k = cliKey)
    OBVIOUS
  <2> HIDE DEF k
  <2>2. last' = last + 1 /\ keyOf'[last + 1] = k
    BY <2>1, <1>a, IssueTyped DEF CommandsTypeOK
  <2>3. /\ UNCHANGED <<up, cert, key, disk, mem, op, pending>>
        /\ ~overlap
    BY <1>3, <1>a DEF CliIssue
  <2>4. \/ cli' = "cert" /\ cliCert' = last + 1 /\ alone
        \/ cli' = "off"
    BY <2>2, <1>3 DEF CliIssue, CliEnds
  <2>5. cliKey' = 0
    BY <1>3 DEF CliIssue, CliEnds
  <2>6. alone => k >= keyOf[disk.serial]
    BY <2>k, <2>3, <1>a, <1>b, <1>d, <1>k
  <2>7. CliAtFiles' => NotOlder(cliCert, disk.serial)'
    BY <2>2, <2>3, <2>4, <2>6, <1>a, <1>d
  <2> QED
    BY <2>3, <2>5, <2>7, <1>a, <1>b, <1>d
<1>4. CASE CliWriteCert
  BY <1>a, <1>b, <1>d, <1>k, <1>4 DEF CliWriteCert, CliGoesOn, CliEnds, SideBySide
<1>5. CASE CliWriteKey
  BY <1>a, <1>b, <1>d, <1>k, <1>5 DEF CliWriteKey, CliGoesOn, CliEnds, SideBySide
<1>6. CASE CliSaveState
  <2>1. UNCHANGED <<keyOf, up, cert, key, mem, op, pending>> /\ cli' = "off" /\ cliKey' = 0
    BY <1>6 DEF CliSaveState, CliEnds
  <2>2. CASE disk' = Enrolled(cliCert) /\ overlap' = ~alone
    <3>1. alone /\ disk'.serial = cliCert /\ ~up /\ op = "idle"
      BY <2>2, <1>a DEF Enrolled, SideBySide
    <3>2. cert = cliCert /\ key = keyOf[cliCert]
      BY <3>1, <1>a, <1>6 DEF CliSaveState, InstallProgress
    <3> QED
      BY <2>1, <3>1, <3>2, <1>a, <1>d, <1>k, <1>6 DEF CliSaveState
  <2>3. CASE UNCHANGED <<disk, overlap>>
    BY <2>1, <2>3, <1>b
  <2> QED
    BY <2>2, <2>3, <1>6 DEF CliSaveState
<1>7. CASE CliKilled
  BY <1>a, <1>b, <1>d, <1>7 DEF CliKilled, CliEnds
<1>8. CASE AgentStep
  <2>a. ~overlap /\ ~(CliAtFiles /\ up') /\ alone' = (alone /\ ~up') /\ cli' = cli
        /\ cliCert' = cliCert /\ cliKey' = cliKey
    BY <1>8 DEF AgentStep, requestVars
  <2>1. CASE Renew \/ RenewFails
    BY <1>a, <1>b, <1>d, <2>a, <2>1 DEF Renew, RenewFails
  <2>2. CASE RenewPriors
    BY <1>a, <1>b, <1>d, <2>a, <2>2 DEF RenewPriors, RevokePriors
  <2>3. CASE RenewIssue
    <3>1. OwnLDI \in 0..ldis /\ last + 1 \in 0..(last + 1) /\ TypeOK
      <4>1. TypeOK
        BY <1>a DEF CommandsTypeOK
      <4> QED
        BY <4>1, <1>a, OwnTyped
    <3>2. last' = last + 1 /\ keyOf'[last + 1] = last + 1
      BY <3>1, <2>3, IssueTyped DEF RenewIssue
    <3>3. /\ UNCHANGED <<up, cert, key, disk, mem>> /\ up /\ op = "issue"
          /\ (op' = "cert" /\ pending' = last') \/ op' = "idle"
      BY <2>3 DEF RenewIssue
    <3> QED
      BY <3>2, <3>3, <1>a, <1>b, <1>d, <1>k, <2>a DEF SideBySide
  <2>4. CASE WriteCert
    BY <1>a, <1>b, <1>d, <1>k, <2>a, <2>4 DEF WriteCert
  <2>5. CASE WriteKey
    BY <1>a, <1>b, <1>d, <1>k, <2>a, <2>5 DEF WriteKey
  <2>6. CASE SaveState
    <3>1. mem'.serial = pending /\ disk'.serial \in {pending, disk.serial}
      BY <1>a, <2>6 DEF SaveState, State
    <3>2. UNCHANGED <<keyOf, up, cert, key>> /\ up /\ op = "state" /\ op' = "idle"
      BY <2>6 DEF SaveState
    <3>3. cert = pending /\ key = keyOf[pending]
      BY <3>2, <2>a, <1>a DEF InstallProgress
    <3> QED
      BY <3>1, <3>2, <3>3, <1>a, <1>b, <1>d, <1>k, <2>a DEF SideBySide
  <2>7. CASE CheckUnchanged \/ RefreshBundle
    BY <1>a, <1>b, <1>d, <2>a, <2>7 DEF CheckUnchanged, RefreshBundle, Persist, SideBySide
  <2>8. CASE CheckCertUnreadable
    BY <1>a, <1>b, <1>d, <2>a, <2>8 DEF CheckCertUnreadable, Remembered, State
  <2>9. ASSUME NEW b \in BOOLEAN, CheckChanged(b) PROVE Rest'
    <3>1. mem'.serial = mem.serial /\ disk'.serial \in {mem.serial, disk.serial}
      BY <2>9, <1>a DEF CheckChanged, Remembered, State
    <3>2. UNCHANGED <<keyOf, up, cert, key, op, pending>> /\ up /\ op = "idle"
      BY <2>9 DEF CheckChanged
    <3> QED
      BY <3>1, <3>2, <1>a, <1>b, <1>d, <2>a DEF SideBySide
  <2>10. ASSUME NEW l \in 1..ldis, RevokeSPIFFEID(l) \/ SetLDIStatus(l) PROVE Rest'
    BY <1>a, <1>b, <1>d, <2>a, <2>10 DEF RevokeSPIFFEID, SetLDIStatus, RevokePriors
  <2>11. CASE Crash
    BY <1>a, <1>b, <1>d, <2>a, <2>11 DEF Crash, SideBySide
  <2>12. CASE Restart
    BY <1>a, <1>b, <1>d, <2>a, <2>12 DEF Restart, SideBySide
  <2> QED
    BY <1>8, <2>1, <2>2, <2>3, <2>4, <2>5, <2>6, <2>7, <2>8, <2>9, <2>10, <2>11, <2>12
       DEF AgentStep, Next
<1>9. CASE UNCHANGED commandVars
  BY <1>b, <1>9 DEF commandVars, vars, requestVars
<1> HIDE DEF Rest
<1> QED
  BY <1>1, <1>2, <1>3, <1>4, <1>5, <1>6, <1>7, <1>8, <1>9 DEF CommandsNext

(* A revocation reaches every certificate, unless a request for the        *)
(* identity is served while it runs: no request begins for a revoked       *)
(* identity, and one that begins while the revocation runs is remembered.  *)
LEMMA NextReached ==
  ASSUME CInv, [CommandsNext]_commandVars
  PROVE  Reached'
<1>a. /\ CommandsTypeOK /\ TypeOK /\ NamesIssued /\ Accounted /\ Reached
      /\ last \in Nat /\ ldis \in Nat
      /\ revoking \subseteq 1..ldis /\ withdrawn \subseteq 1..ldis
      /\ mem.serial \in 1..last
      /\ \A c \in 1..last : ldiOf'[c] = ldiOf[c]
  BY StaysAccounted DEF CInv, CommandsTypeOK, TypeOK, NamesIssued
<1>p. ASSUME \A l \in (revoking' \cup withdrawn') \ raced' :
                l \notin Served' /\ \A s \in 1..last' : ldiOf'[s] = l => s \in list'
      PROVE  Reached'
  BY <1>p DEF Reached
(* A step that begins no request and leaves the revocations alone. *)
<1>q. ASSUME UNCHANGED <<revoking, withdrawn, raced>>, Served' \cap (1..ldis) \subseteq Served,
             \A s \in 1..last : s \in list => s \in list',
             last' # last => last' = last + 1 /\ ldiOf'[last + 1] \in {0} \cup Served
      PROVE  Reached'
  <2> SUFFICES ASSUME NEW l \in (revoking \cup withdrawn) \ raced
               PROVE  l \notin Served' /\ \A s \in 1..last' : ldiOf'[s] = l => s \in list'
    BY <1>p, <1>q
  <2>1. l \notin Served /\ \A s \in 1..last : ldiOf[s] = l => s \in list
    BY <1>a DEF Reached
  <2>2. l \in 1..ldis
    BY <1>a
  <2>3. l \notin Served'
    BY <2>1, <2>2, <1>q
  <2>4. ASSUME NEW s \in 1..last', ldiOf'[s] = l PROVE s \in list'
    <3>1. s \in 1..last
      BY <2>1, <2>2, <2>4, <1>a, <1>q
    <3> QED
      BY <3>1, <2>1, <2>4, <1>a, <1>q
  <2> QED
    BY <2>3, <2>4
<1> USE DEF misVars, requestVars
<1>1. CASE CliEnroll \/ CliEnrollNew \/ \E b \in BOOLEAN : CliRenew(b)
  <2>1. /\ cliLDI' \notin withdrawn /\ raced' = raced \cup ({cliLDI'} \cap revoking)
        /\ UNCHANGED <<last, ldiOf, list, revoking, withdrawn, op, mem>>
    BY <1>1, <1>a, Asked
  <2> SUFFICES ASSUME NEW l \in (revoking \cup withdrawn) \ raced'
               PROVE  l \notin Served' /\ \A s \in 1..last : ldiOf[s] = l => s \in list
    BY <2>1, <1>p
  <2>2. l \in (revoking \cup withdrawn) \ raced /\ l # cliLDI' /\ l \in 1..ldis
    BY <2>1, <1>a
  <2>3. l \notin Served /\ \A s \in 1..last : ldiOf[s] = l => s \in list
    BY <2>2, <1>a DEF Reached
  <2>4. l \notin Served'
    BY <2>1, <2>2, <2>3 DEF Served, OwnLDI
  <2> QED
    BY <2>3, <2>4
<1>2. CASE CliPriors
  <2>1. /\ UNCHANGED <<revoking, withdrawn, raced, last, ldis, ldiOf, op, mem, cliLDI>>
        /\ cli = "priors" /\ list \subseteq list'
    BY <1>2 DEF CliPriors, CliGoesOn, RevokePriors
  <2>2. Served' \subseteq Served
    BY <2>1 DEF Served, OwnLDI
  <2> QED
    BY <2>1, <2>2, <1>q
<1>3. CASE CliIssue
  <2> DEFINE k == IF cliKey = 0 THEN last + 1 ELSE cliKey
  <2>1. k \in 0..(last + 1) /\ cliLDI \in 0..ldis /\ Issue(cliLDI, k)
    BY <1>a, <1>3 DEF CliIssue, CommandsTypeOK
  <2> HIDE DEF k
  <2>2. last' = last + 1 /\ ldiOf'[last + 1] = cliLDI
    BY <2>1, <1>a, IssueTyped
  <2>3. /\ UNCHANGED <<revoking, withdrawn, raced, list, ldis, op, mem>>
        /\ cli = "issue" /\ cli' \notin {"priors", "issue"}
    BY <1>3 DEF CliIssue, CliEnds, Issue
  <2>4. Served' \subseteq Served
    BY <2>3, <1>a DEF Served, OwnLDI
  <2>5. cliLDI \in {0} \cup Served
    BY <2>1, <2>3, <1>a DEF Served
  <2> QED
    BY <2>2, <2>3, <2>4, <2>5, <1>q
<1>4. CASE CliWriteCert \/ CliWriteKey \/ CliSaveState \/ CliKilled
  <2>1. /\ UNCHANGED <<revoking, withdrawn, raced, last, list, ldis, ldiOf, op, mem>>
        /\ cli' \notin {"priors", "issue"}
    BY <1>4 DEF CliWriteCert, CliWriteKey, CliSaveState, CliKilled, CliGoesOn, CliEnds
  <2>2. Served' \subseteq Served
    BY <2>1 DEF Served, OwnLDI
  <2> QED
    BY <2>1, <2>2, <1>q
<1>5. CASE AgentStep
  <2>a. /\ raced' = (raced \ (revoking' \ revoking)) \cup (revoking' \cap Served')
        /\ UNCHANGED <<cli, cliLDI>>
    BY <1>5 DEF AgentStep
  <2>b. ldis' = ldis
    BY <1>5 DEF AgentStep, Next, Renew, RenewPriors, RenewIssue, RenewFails, Issue, WriteCert,
       WriteKey, SaveState, CheckUnchanged, CheckCertUnreadable, CheckChanged, RefreshBundle,
       RevokeSPIFFEID, SetLDIStatus, Crash, Restart
  (* A step that leaves the revocations alone, and begins no request for a revoked LDI. *)
  <2>q. ASSUME UNCHANGED <<revoking, withdrawn>>, Served' \cap withdrawn \subseteq Served,
               \A s \in 1..last : s \in list => s \in list',
               last' # last => last' = last + 1 /\ ldiOf'[last + 1] \in {0} \cup Served
        PROVE  Reached'
    <3> SUFFICES ASSUME NEW l \in (revoking \cup withdrawn) \ raced'
                 PROVE  l \notin Served' /\ \A s \in 1..last' : ldiOf'[s] = l => s \in list'
      BY <1>p, <2>q
    <3>1. l \notin raced /\ l \in 1..ldis /\ (l \in revoking => l \notin Served')
      BY <2>a, <2>q, <1>a
    <3>2. l \notin Served /\ \A s \in 1..last : ldiOf[s] = l => s \in list
      BY <3>1, <1>a DEF Reached
    <3>3. l \notin Served'
      BY <3>1, <3>2, <2>q
    <3>4. ASSUME NEW s \in 1..last', ldiOf'[s] = l PROVE s \in list'
      <4>1. s \in 1..last
        BY <3>1, <3>2, <3>4, <1>a, <2>q
      <4> QED
        BY <4>1, <3>2, <3>4, <1>a, <2>q
    <3> QED
      BY <3>3, <3>4
  <2>1. CASE Renew
    <3>1. UNCHANGED <<revoking, withdrawn, last, list, ldiOf, mem>> /\ OwnLDI \notin withdrawn
      BY <2>1 DEF Renew, Renewable
    <3>2. Served' \cap withdrawn \subseteq Served
      BY <3>1, <2>a, <2>b DEF Served, OwnLDI
    <3> QED
      BY <3>1, <3>2, <2>q
  <2>2. CASE RenewPriors
    <3>1. /\ UNCHANGED <<revoking, withdrawn, last, ldiOf, mem>> /\ op = "priors"
          /\ list \subseteq list'
      BY <2>2 DEF RenewPriors, RevokePriors
    <3>2. Served' \subseteq Served
      BY <3>1, <2>a, <2>b DEF Served, OwnLDI
    <3> QED
      BY <3>1, <3>2, <2>q
  <2>3. CASE RenewIssue
    <3>1. last + 1 \in 0..(last + 1) /\ OwnLDI \in 0..ldis
      BY <1>a, OwnTyped
    <3>2. last' = last + 1 /\ ldiOf'[last + 1] = OwnLDI
      BY <3>1, <2>3, <1>a, IssueTyped DEF RenewIssue
    <3>3. /\ UNCHANGED <<revoking, withdrawn, list, mem>> /\ op = "issue"
          /\ op' \notin {"priors", "issue"}
      BY <2>3 DEF RenewIssue, Issue
    <3>4. Served' \subseteq Served
      BY <3>3, <2>a, <2>b DEF Served
    <3>5. OwnLDI \in {0} \cup Served
      BY <3>1, <3>3, <1>a DEF Served
    <3> QED
      BY <3>2, <3>3, <3>4, <3>5, <2>q
  <2>4. ASSUME UNCHANGED <<revoking, withdrawn, last, list, ldiOf>>,
               op' \in {"priors", "issue"} => op' = op /\ mem' = mem
        PROVE  Reached'
    <3>1. Served' \subseteq Served
      BY <2>4, <2>a, <2>b DEF Served, OwnLDI
    <3> QED
      BY <3>1, <2>4, <2>q
  <2>5. CASE RenewFails \/ WriteCert \/ WriteKey \/ SaveState \/ CheckUnchanged
             \/ CheckCertUnreadable \/ RefreshBundle \/ Crash
             \/ \E b \in BOOLEAN : CheckChanged(b)
    BY <2>4, <2>5 DEF RenewFails, WriteCert, WriteKey, SaveState, CheckUnchanged, Idle,
       CheckCertUnreadable, RefreshBundle, Crash, CheckChanged
  <2>6. CASE Restart
    <3>1. op = "idle"
      BY <2>6 DEF Restart, CInv, SideBySide
    <3> QED
      BY <3>1, <2>4, <2>6 DEF Restart
  <2>7. ASSUME NEW r \in 1..ldis, RevokeSPIFFEID(r) PROVE Reached'
    <3>1. /\ UNCHANGED <<withdrawn, last, ldiOf, mem, op>> /\ revoking' = revoking \cup {r}
          /\ list' = list \cup ActiveOf(r)
      BY <2>7 DEF RevokeSPIFFEID, RevokePriors
    <3>2. Served' = Served
      BY <3>1, <2>a, <2>b DEF Served, OwnLDI
    <3> SUFFICES ASSUME NEW l \in (revoking \cup {r} \cup withdrawn) \ raced'
                 PROVE  l \notin Served /\ \A s \in 1..last : ldiOf[s] = l => s \in list'
      BY <3>1, <3>2, <1>p
    <3>3. CASE l = r
      <4>1. l \notin Served
        BY <3>1, <3>2, <3>3, <2>a
      <4>2. ASSUME NEW s \in 1..last, ldiOf[s] = l PROVE s \in list'
        BY <4>2, <3>1, <3>3, <1>a DEF Accounted, ActiveOf
      <4> QED
        BY <4>1, <4>2
    <3>4. CASE l # r
      <4>1. l \in (revoking \cup withdrawn) \ raced
        BY <3>1, <3>4, <2>a
      <4> QED
        BY <4>1, <3>1, <1>a DEF Reached
    <3> QED
      BY <3>3, <3>4
  <2>8. ASSUME NEW r \in 1..ldis, SetLDIStatus(r) PROVE Reached'
    <3>1. /\ UNCHANGED <<last, list, ldiOf, mem, op>> /\ revoking' \subseteq revoking
          /\ withdrawn' \subseteq withdrawn \cup revoking
      BY <2>8 DEF SetLDIStatus
    <3>2. Served' = Served
      BY <3>1, <2>a, <2>b DEF Served, OwnLDI
    <3>3. \A l \in (revoking' \cup withdrawn') \ raced' : l \in (revoking \cup withdrawn) \ raced
      BY <3>1, <2>a
    <3> QED
      BY <3>1, <3>2, <3>3, <1>a, <1>p DEF Reached
  <2> QED
    BY <1>5, <2>1, <2>2, <2>3, <2>5, <2>6, <2>7, <2>8 DEF AgentStep, Next
<1>6. CASE UNCHANGED commandVars
  BY <1>6, <1>a DEF commandVars, vars, Reached, Served, OwnLDI
<1> QED
  BY <1>1, <1>2, <1>3, <1>4, <1>5, <1>6 DEF CommandsNext

(* Every step of a command, and every step beside one, preserves the       *)
(* invariant.                                                              *)
LEMMA NextCInv == CInv /\ [CommandsNext]_commandVars => CInv'
<1> SUFFICES ASSUME CInv, [CommandsNext]_commandVars PROVE CInv'
  OBVIOUS
<1>1. CommandsTypeOK' /\ Accounted' /\ NamesIssued'
  BY CommandsNextTypeOK, StaysAccounted, NextNamesIssued DEF CInv
<1>2. Reached' /\ (Ordered /\ StateComesLast)'
  BY NextReached, NextOrdered
<1>3. (SideBySide /\ RevocationHeld /\ InstallProgress /\ RevokedOnlyIfInstalled)'
  BY NextSettled
<1> QED
  BY <1>1, <1>2, <1>3 DEF CInv

(* The commands' invariant holds throughout. *)
THEOREM CommandsInvariance == CommandsSpec => []CInv
  BY InitCInv, NextCInv, PTL DEF CommandsSpec

(* The agent's and the commands' state keep their types: what a command    *)
(* installs was issued (persistEnrollmentResult).                          *)
THEOREM CommandsTyped == CommandsSpec => []CommandsTypeOK
<1>1. CInv => CommandsTypeOK
  BY DEF CInv
<1> QED
  BY <1>1, CommandsInvariance, PTL

(* However the commands of cmd_identity.go and the runs of the daemon      *)
(* alternate, a settled data directory says "revoked" only of the          *)
(* certificate in it.                                                      *)
THEOREM SettledRevocation == CommandsSpec => []RevokedOnlyIfInstalled
<1>1. CInv => RevokedOnlyIfInstalled
  BY DEF CInv
<1> QED
  BY <1>1, CommandsInvariance, PTL

(* Wherever an installation by handleRenew or persistEnrollmentResult is   *)
(* cut off, the state file is not ahead of the certificate and the key.    *)
THEOREM StateNeverAhead == CommandsSpec => []StateComesLast
<1>1. CInv => StateComesLast
  BY DEF CInv
<1> QED
  BY <1>1, CommandsInvariance, PTL

(* Once the operator has revoked an identity (Service.RevokeSPIFFEID),     *)
(* every certificate issued for it is on the list, unless a request was    *)
(* being served for it while the revocation ran.                           *)
THEOREM RevocationReaches == CommandsSpec => []ListedUnlessRaced
<1>1. CInv => ListedUnlessRaced
  BY DEF CInv, Reached, ListedUnlessRaced
<1> QED
  BY <1>1, CommandsInvariance, PTL
-----------------------------------------------------------------------------
(* The daemon's goroutines *)

Goroutines == Clients \cup {Main}

(* DaemonTypeOK, by what its parts are about. *)
DaemonControlTyped ==
    /\ ctxDone \in BOOLEAN /\ stopped \in BOOLEAN
    /\ main \in {"running", "waitStop", "returned"}
    /\ mgr \in {"load", "loop", "busy", "exited"}
    /\ replied \subseteq Clients /\ job \in Jobs

ChannelTyped ==
    /\ cur \in Goroutines
    /\ queue \in Seq(Goroutines) /\ Len(queue) <= QueueCap

ClientsTyped == pc \in [Clients -> {"idle", "send", "wait", "gone"}]

LEMMA DaemonTypeParts == DaemonTypeOK <=> DaemonControlTyped /\ ChannelTyped /\ ClientsTyped
  BY Zenon DEF DaemonTypeOK, DaemonControlTyped, ChannelTyped, ClientsTyped, Goroutines

(* The manager is told to stop, and stops on command, only once the        *)
(* context is cancelled: what a client that Submit refuses goes by.        *)
StopForCause ==
    /\ stopped => ctxDone
    /\ \A i \in DOMAIN queue : queue[i] = Main => ctxDone
    /\ mgr = "busy" /\ cur = Main => ctxDone

DInv == DaemonTypeOK /\ CommandHeldOnce /\ StopForCause

-----------------------------------------------------------------------------
(* How often a goroutine's commands are in a channel. *)
Positions(q, g) == {i \in DOMAIN q : q[i] = g}

LEMMA CountTyped ==
  ASSUME NEW q \in Seq(Goroutines), NEW g
  PROVE  IsFiniteSet(Positions(q, g)) /\ Cardinality(Positions(q, g)) \in Nat
<1>1. Len(q) \in Nat /\ DOMAIN q = 1..Len(q)
  OBVIOUS
<1>2. IsFiniteSet(1..Len(q))
  BY <1>1, FS_Interval
<1>3. Positions(q, g) \in SUBSET (1..Len(q))
  BY <1>1 DEF Positions
<1>4. IsFiniteSet(Positions(q, g))
  BY <1>2, <1>3, FS_Subset
<1> QED
  BY <1>4, FS_CardinalityType

(* A send adds one command of its sender at the end. *)
LEMMA CountAppend ==
  ASSUME NEW q \in Seq(Goroutines), NEW h \in Goroutines, NEW g
  PROVE  Cardinality(Positions(Append(q, h), g))
            = Cardinality(Positions(q, g)) + (IF h = g THEN 1 ELSE 0)
<1>1. /\ Len(q) \in Nat /\ DOMAIN q = 1..Len(q) /\ DOMAIN Append(q, h) = 1..(Len(q) + 1)
      /\ Append(q, h)[Len(q) + 1] = h /\ \A i \in 1..Len(q) : Append(q, h)[i] = q[i]
  OBVIOUS
<1>2. CASE h = g
  <2>1. Positions(Append(q, h), g) = Positions(q, g) \cup {Len(q) + 1}
    BY <1>1, <1>2 DEF Positions
  <2>2. Len(q) + 1 \notin Positions(q, g)
    BY <1>1 DEF Positions
  <2> QED
    BY <1>2, <2>1, <2>2, CountTyped, FS_AddElement
<1>3. CASE h # g
  <2>1. Positions(Append(q, h), g) = Positions(q, g)
    BY <1>1, <1>3 DEF Positions
  <2> QED
    BY <1>3, <2>1, CountTyped
<1> QED
  BY <1>2, <1>3

(* A receive takes away one command of the sender at the head. *)
LEMMA CountTail ==
  ASSUME NEW q \in Seq(Goroutines), q # <<>>, NEW g
  PROVE  Cardinality(Positions(q, g))
            = Cardinality(Positions(Tail(q), g)) + (IF Head(q) = g THEN 1 ELSE 0)
<1> DEFINE P == Positions(q, g) \ {1}
           T == Positions(Tail(q), g)
           f == [i \in P |-> i - 1]
<1>1. /\ Len(q) \in Nat \ {0} /\ DOMAIN q = 1..Len(q) /\ DOMAIN Tail(q) = 1..(Len(q) - 1)
      /\ Head(q) = q[1] /\ \A i \in 1..(Len(q) - 1) : Tail(q)[i] = q[i + 1]
      /\ Tail(q) \in Seq(Goroutines)
  OBVIOUS
<1>2. \A i \in P : i \in 2..Len(q) /\ q[i] = g
  BY <1>1 DEF Positions
<1>3. \A i \in T : i \in 1..(Len(q) - 1) /\ i + 1 \in P
  BY <1>1 DEF Positions
<1>4. \A i \in P : i - 1 \in T
  BY <1>1, <1>2 DEF Positions
<1>5. P \subseteq Nat
  BY <1>2
<1> HIDE DEF P, T
<1>6. f \in Bijection(P, T)
  <2>1. f \in [P -> T]
    BY <1>4
  <2>2. \A i, j \in P : f[i] = f[j] => i = j
    BY <1>5
  <2>3. \A t \in T : \E i \in P : f[i] = t
    <3> TAKE t \in T
    <3>1. t + 1 \in P /\ f[t + 1] = t
      BY <1>3
    <3> QED
      BY <3>1
  <2> QED
    BY <2>1, <2>2, <2>3 DEF Bijection, Injection, Surjection, IsInjective
<1>7. IsFiniteSet(P) /\ Cardinality(P) = IF 1 \in Positions(q, g)
                                         THEN Cardinality(Positions(q, g)) - 1
                                         ELSE Cardinality(Positions(q, g))
  BY CountTyped, FS_RemoveElement DEF P
<1>8. Cardinality(T) = Cardinality(P)
  BY <1>6, <1>7, FS_Bijection DEF ExistsBijection
<1>9. 1 \in Positions(q, g) <=> Head(q) = g
  BY <1>1 DEF Positions
<1>10. Cardinality(Positions(q, g)) \in Nat /\ Cardinality(T) \in Nat
  BY <1>1, CountTyped DEF T
<1> QED
  BY <1>7, <1>8, <1>9, <1>10 DEF T

-----------------------------------------------------------------------------
LEMMA InitDInv == DaemonInit => DInv
<1> SUFFICES ASSUME DaemonInit PROVE DInv
  OBVIOUS
<1>1. DaemonControlTyped
  BY Zenon DEF DaemonInit, DaemonControlTyped, Jobs
<1>2. ChannelTyped /\ ClientsTyped
  BY DaemonAssumption DEF DaemonInit, ChannelTyped, ClientsTyped, Goroutines
<1>3. CommandHeldOnce
  <2>1. ASSUME NEW g \in Clients PROVE Occurrences(g) = 0
    <3>1. {i \in DOMAIN queue : queue[i] = g} = {}
      BY DEF DaemonInit
    <3> QED
      BY <3>1, FS_EmptySet DEF Occurrences
  <2> QED
    BY <2>1 DEF DaemonInit, CommandHeldOnce
<1>4. StopForCause
  BY DEF DaemonInit, StopForCause
<1> QED
  BY <1>1, <1>2, <1>3, <1>4, DaemonTypeParts DEF DInv

(* The types stay; a send waits for room in the channel. *)
LEMMA DaemonNextTypeOK == DaemonTypeOK /\ [DaemonNext]_daemonVars => DaemonTypeOK'
<1> SUFFICES ASSUME DaemonTypeOK, [DaemonNext]_daemonVars PROVE DaemonTypeOK'
  OBVIOUS
<1>a. DaemonControlTyped /\ ChannelTyped /\ ClientsTyped
  BY DaemonTypeParts
<1>b. /\ QueueCap \in Nat /\ Len(queue) \in Nat
      /\ Sched \in Clients /\ Main \in Goroutines
      /\ Conns \subseteq Clients /\ Clients \subseteq Goroutines
  BY <1>a, DaemonAssumption DEF ChannelTyped, Clients, Goroutines
<1>p. ASSUME DaemonControlTyped', ChannelTyped', ClientsTyped' PROVE DaemonTypeOK'
  BY <1>p, Zenon DEF DaemonTypeOK, DaemonControlTyped, ChannelTyped, ClientsTyped, Goroutines
<1>r. \A g, j : Refused(g, j) \in {"wait", "gone"}
  BY DEF Refused
<1>1. ASSUME NEW g \in Clients, Send(g) \/ SendCancelled(g) PROVE DaemonTypeOK'
  <2>1. DaemonControlTyped'
    BY <1>1, <1>a, Zenon DEF Send, SendCancelled, DaemonControlTyped
  <2>2. ChannelTyped'
    BY <1>1, <1>a, <1>b DEF Send, SendCancelled, ChannelTyped
  <2>3. ClientsTyped'
    BY <1>1, <1>a, <1>r DEF Send, SendCancelled, ClientsTyped
  <2> QED
    BY <2>1, <2>2, <2>3, <1>p
<1>2. ASSUME NEW c \in Conns, Handle(c) \/ Answer(c) PROVE DaemonTypeOK'
  <2>1. DaemonControlTyped'
    BY <1>2, <1>a DEF Handle, Answer, DaemonControlTyped
  <2>2. ChannelTyped'
    BY <1>2, <1>a DEF Handle, Answer, ChannelTyped
  <2>3. ClientsTyped'
    BY <1>2, <1>a, <1>r DEF Handle, Answer, EnterSubmit, ClientsTyped
  <2> QED
    BY <2>1, <2>2, <2>3, <1>p
<1>3. ASSUME NEW j \in Jobs, TimerFires(j) PROVE DaemonTypeOK'
  <2>1. DaemonControlTyped'
    BY <1>3, <1>a, Zenon DEF TimerFires, DaemonControlTyped
  <2>2. ChannelTyped'
    BY <1>3, <1>a DEF TimerFires, ChannelTyped
  <2>3. ClientsTyped'
    BY <1>3, <1>a, <1>r DEF TimerFires, EnterSubmit, ClientsTyped
  <2> QED
    BY <2>1, <2>2, <2>3, <1>p
<1>4. CASE SchedulerResumes \/ SchedulerCancelled
  <2>1. DaemonControlTyped'
    BY <1>4, <1>a DEF SchedulerResumes, SchedulerCancelled, DaemonControlTyped
  <2>2. ChannelTyped'
    BY <1>4, <1>a DEF SchedulerResumes, SchedulerCancelled, ChannelTyped
  <2>3. ClientsTyped'
    BY <1>4, <1>a DEF SchedulerResumes, SchedulerCancelled, ClientsTyped
  <2> QED
    BY <2>1, <2>2, <2>3, <1>p
<1>5. CASE ManagerLoads \/ ManagerCancelled \/ ManagerReplies \/ ManagerStops
  <2>1. DaemonControlTyped'
    BY <1>5, <1>a DEF ManagerLoads, ManagerCancelled, ManagerReplies, ManagerStops, DaemonControlTyped
  <2>2. ChannelTyped' /\ ClientsTyped'
    BY <1>5, <1>a DEF ManagerLoads, ManagerCancelled, ManagerReplies, ManagerStops, ChannelTyped,
       ClientsTyped
  <2> QED
    BY <2>1, <2>2, <1>p
<1>6. CASE ManagerTakes
  <2>1. DaemonControlTyped'
    BY <1>6, <1>a, Zenon DEF ManagerTakes, DaemonControlTyped
  <2>2. ChannelTyped' /\ ClientsTyped'
    BY <1>6, <1>a, <1>b DEF ManagerTakes, ChannelTyped, ClientsTyped
  <2> QED
    BY <2>1, <2>2, <1>p
<1>7. CASE Signal \/ SubmitStop \/ MainReturns
  <2>1. DaemonControlTyped'
    BY <1>7, <1>a, Zenon DEF Signal, SubmitStop, MainReturns, DaemonControlTyped
  <2>2. ChannelTyped' /\ ClientsTyped'
    BY <1>7, <1>a, <1>b DEF Signal, SubmitStop, MainReturns, ChannelTyped, ClientsTyped
  <2> QED
    BY <2>1, <2>2, <1>p
<1>8. CASE UNCHANGED daemonVars
  BY <1>8, Zenon DEF daemonVars, DaemonTypeOK
<1> QED
  BY <1>1, <1>2, <1>3, <1>4, <1>5, <1>6, <1>7, <1>8 DEF DaemonNext, Step, Exited

(* Stop is submitted after the signal. *)
LEMMA NextStopForCause ==
  ASSUME DaemonTypeOK, StopForCause, [DaemonNext]_daemonVars
  PROVE  StopForCause'
<1>a. queue \in Seq(Goroutines) /\ Main \notin Clients
  BY DaemonAssumption DEF DaemonTypeOK, Goroutines, Clients
<1>1. ASSUME NEW g \in Clients, Send(g) PROVE StopForCause'
  BY <1>1, <1>a DEF Send, StopForCause, Goroutines
<1>2. CASE SubmitStop
  BY <1>2, <1>a DEF SubmitStop, StopForCause
<1>3. CASE ManagerTakes
  <2>1. /\ Head(queue) = queue[1] /\ 1 \in DOMAIN queue
        /\ \A i \in DOMAIN Tail(queue) : i + 1 \in DOMAIN queue /\ Tail(queue)[i] = queue[i + 1]
    BY <1>3, <1>a DEF ManagerTakes
  <2> QED
    BY <2>1, <1>3 DEF ManagerTakes, StopForCause
<1>4. CASE ManagerStops
  BY <1>4 DEF ManagerStops, StopForCause
<1>5. CASE Signal
  BY <1>5 DEF Signal, StopForCause
<1>6. CASE UNCHANGED <<ctxDone, queue, stopped, cur>> /\ (mgr' # "busy" \/ UNCHANGED mgr)
  BY <1>6 DEF StopForCause
<1> QED
  BY <1>1, <1>2, <1>3, <1>4, <1>5, <1>6 DEF DaemonNext, Step, Exited, daemonVars, SendCancelled, Handle, Answer,
     TimerFires, SchedulerResumes, SchedulerCancelled, ManagerLoads, ManagerCancelled,
     ManagerReplies, MainReturns

-----------------------------------------------------------------------------
(* CommandHeldOnce for one goroutine, by the three places. *)
Queued(g) == Cardinality(Positions(queue, g))
InHand(g) == IF mgr = "busy" /\ cur = g THEN 1 ELSE 0
Unread(g) == IF g \in replied THEN 1 ELSE 0

HeldOnce(g) ==
    LET places == Queued(g) + InHand(g) + Unread(g)
    IN  /\ pc[g] # "wait" => places = 0
        /\ pc[g] = "wait" => places = 1 \/ (places = 0 /\ ctxDone)

(* A goroutine whose command stays where it is. *)
LEMMA HeldOnceSame ==
  ASSUME NEW g \in Clients, HeldOnce(g),
         Queued(g)' + InHand(g)' + Unread(g)' = Queued(g) + InHand(g) + Unread(g),
         pc'[g] = pc[g], ctxDone => ctxDone'
  PROVE  HeldOnce(g)'
  BY DEF HeldOnce

LEMMA NextHeldOnce ==
  ASSUME DaemonTypeOK, StopForCause, [DaemonNext]_daemonVars, NEW g \in Clients, HeldOnce(g)
  PROVE  HeldOnce(g)'
<1>a. /\ queue \in Seq(Goroutines) /\ pc \in [Clients -> {"idle", "send", "wait", "gone"}]
      /\ Main \notin Clients /\ Sched \in Clients /\ Conns \subseteq Clients
      /\ Clients \subseteq Goroutines /\ Main \in Goroutines /\ cur \in Goroutines
  BY DaemonAssumption DEF DaemonTypeOK, Goroutines, Clients
<1>q. Queued(g) \in Nat /\ InHand(g) \in {0, 1} /\ Unread(g) \in {0, 1}
  BY <1>a, CountTyped DEF Queued, InHand, Unread
<1>r. \A h, j : Refused(h, j) \in {"wait", "gone"}
  BY DEF Refused
<1>u. /\ UNCHANGED queue => Queued(g)' = Queued(g)
      /\ UNCHANGED <<mgr, cur>> => InHand(g)' = InHand(g)
      /\ UNCHANGED replied => Unread(g)' = Unread(g)
  BY DEF Queued, InHand, Unread
<1>n. pc[g] # "wait" => Queued(g) = 0 /\ InHand(g) = 0 /\ Unread(g) = 0
  BY <1>q DEF HeldOnce
<1>1. ASSUME NEW h \in Clients, Send(h) PROVE HeldOnce(g)'
  <2>1. Queued(g)' = Queued(g) + (IF h = g THEN 1 ELSE 0)
    BY <1>1, <1>a, CountAppend DEF Send, Queued
  <2>2. InHand(g)' = InHand(g) /\ Unread(g)' = Unread(g) /\ UNCHANGED ctxDone
    BY <1>1, <1>u DEF Send
  <2>3. CASE h = g
    <3>1. pc[g] # "wait" /\ pc'[g] = "wait"
      BY <2>3, <1>1, <1>a DEF Send
    <3> QED
      BY <2>1, <2>2, <2>3, <3>1, <1>n DEF HeldOnce
  <2>4. CASE h # g
    BY <2>1, <2>2, <2>4, <1>1, <1>a, <1>q, HeldOnceSame DEF Send
  <2> QED
    BY <2>3, <2>4
<1>2. ASSUME NEW h \in Clients, UNCHANGED <<mgr, cur, queue, replied, ctxDone>>, pc[h] # "wait",
             \E v \in {"idle", "send", "wait", "gone"} :
                pc' = [pc EXCEPT ![h] = v] /\ (v = "wait" => ctxDone)
      PROVE  HeldOnce(g)'
  <2>1. Queued(g)' = Queued(g) /\ InHand(g)' = InHand(g) /\ Unread(g)' = Unread(g)
    BY <1>2, <1>u
  <2>2. CASE h = g
    BY <2>1, <2>2, <1>2, <1>n, <1>a DEF HeldOnce
  <2>3. CASE h # g
    BY <2>1, <2>3, <1>2, <1>a, HeldOnceSame
  <2> QED
    BY <2>2, <2>3
<1>3. ASSUME NEW h \in Clients, SendCancelled(h) PROVE HeldOnce(g)'
  BY <1>3, <1>2, <1>r DEF SendCancelled
<1>4. ASSUME NEW c \in Conns, Handle(c) PROVE HeldOnce(g)'
  BY <1>4, <1>2, <1>r, <1>a DEF Handle, EnterSubmit, StopForCause
<1>5. ASSUME NEW j \in Jobs, TimerFires(j) PROVE HeldOnce(g)'
  BY <1>5, <1>2, <1>r, <1>a DEF TimerFires, EnterSubmit, StopForCause
<1>6. CASE SchedulerCancelled
  BY <1>6, <1>2, <1>a DEF SchedulerCancelled
<1>7. ASSUME NEW h \in Clients, UNCHANGED <<mgr, cur, queue, ctxDone>>, pc[h] = "wait",
             h \in replied, replied' = replied \ {h},
             \E v \in {"idle", "gone"} : pc' = [pc EXCEPT ![h] = v]
      PROVE  HeldOnce(g)'
  <2>1. Queued(g)' = Queued(g) /\ InHand(g)' = InHand(g)
    BY <1>7, <1>u
  <2>2. CASE h = g
    <3>1. Unread(g) = 1 /\ Unread(g)' = 0
      BY <2>2, <1>7 DEF Unread
    <3>2. Queued(g) = 0 /\ InHand(g) = 0
      BY <3>1, <2>2, <1>7, <1>q DEF HeldOnce
    <3> QED
      BY <2>1, <2>2, <3>1, <3>2, <1>7, <1>a DEF HeldOnce
  <2>3. CASE h # g
    <3>1. Unread(g)' = Unread(g)
      BY <2>3, <1>7 DEF Unread
    <3> QED
      BY <2>1, <2>3, <3>1, <1>7, <1>a, HeldOnceSame
  <2> QED
    BY <2>2, <2>3
<1>8. ASSUME NEW c \in Conns, Answer(c) PROVE HeldOnce(g)'
  BY <1>8, <1>7, <1>a DEF Answer
<1>9. CASE SchedulerResumes
  BY <1>9, <1>7, <1>a DEF SchedulerResumes
<1>10. CASE ManagerTakes
  <2>1. Queued(g) = Queued(g)' + (IF Head(queue) = g THEN 1 ELSE 0)
    BY <1>10, <1>a, CountTail DEF ManagerTakes, Queued
  <2>2. InHand(g) = 0 /\ InHand(g)' = IF Head(queue) = g THEN 1 ELSE 0
    BY <1>10 DEF ManagerTakes, InHand
  <2>3. Unread(g)' = Unread(g) /\ UNCHANGED <<pc, ctxDone>>
    BY <1>10, <1>u DEF ManagerTakes
  <2>4. Queued(g)' \in Nat
    <3>1. Tail(queue) \in Seq(Goroutines)
      BY <1>10, <1>a DEF ManagerTakes
    <3>2. Cardinality(Positions(Tail(queue), g)) \in Nat
      BY <3>1, CountTyped
    <3> QED
      BY <3>2, <1>10 DEF ManagerTakes, Queued
  <2> QED
    BY <2>1, <2>2, <2>3, <2>4, <1>q, HeldOnceSame
<1>11. CASE ManagerReplies
  <2>1. /\ mgr = "busy" /\ mgr' = "loop" /\ replied' = replied \cup {cur}
        /\ UNCHANGED <<queue, cur, pc, ctxDone>>
    BY <1>11 DEF ManagerReplies
  <2>2. Queued(g)' = Queued(g) /\ InHand(g)' = 0
    BY <2>1, <1>u DEF InHand
  <2>3. CASE cur = g
    <3>1. InHand(g) = 1 /\ Unread(g)' = 1
      BY <2>1, <2>3 DEF InHand, Unread
    <3>2. Unread(g) = 0
      BY <3>1, <1>q DEF HeldOnce
    <3> QED
      BY <2>1, <2>2, <3>1, <3>2, <1>q, HeldOnceSame
  <2>4. CASE cur # g
    BY <2>1, <2>2, <2>4, <1>q, HeldOnceSame DEF InHand, Unread
  <2> QED
    BY <2>3, <2>4
<1>12. CASE ManagerStops
  <2>1. InHand(g) = 0 /\ InHand(g)' = 0
    BY <1>12, <1>a DEF ManagerStops, InHand
  <2> QED
    BY <2>1, <1>12, <1>u, HeldOnceSame DEF ManagerStops
<1>13. CASE ManagerLoads \/ ManagerCancelled
  <2>1. InHand(g) = 0 /\ InHand(g)' = 0
    BY <1>13 DEF ManagerLoads, ManagerCancelled, InHand
  <2> QED
    BY <2>1, <1>13, <1>u, HeldOnceSame DEF ManagerLoads, ManagerCancelled
<1>14. CASE SubmitStop
  <2>1. Queued(g)' = Queued(g)
    BY <1>14, <1>a, <1>q, CountAppend DEF SubmitStop, Queued
  <2> QED
    BY <2>1, <1>14, <1>u, HeldOnceSame DEF SubmitStop
<1>15. CASE Signal \/ MainReturns
  BY <1>15, <1>u, HeldOnceSame DEF Signal, MainReturns
<1>16. CASE UNCHANGED daemonVars
  BY <1>16, <1>u, HeldOnceSame DEF daemonVars
<1> QED
  BY <1>1, <1>3, <1>4, <1>5, <1>6, <1>8, <1>9, <1>10, <1>11, <1>12, <1>13, <1>14, <1>15, <1>16
     DEF DaemonNext, Step, Exited

-----------------------------------------------------------------------------
(* The invariant holds throughout. *)
THEOREM DaemonInvariance == DaemonSpec => []DInv
<1>1. CommandHeldOnce <=> \A g \in Clients : HeldOnce(g)
  BY DEF CommandHeldOnce, HeldOnce, Occurrences, Queued, InHand, Unread, Positions
<1>2. CommandHeldOnce' <=> \A g \in Clients : HeldOnce(g)'
  BY DEF CommandHeldOnce, HeldOnce, Occurrences, Queued, InHand, Unread, Positions
<1>3. DInv /\ [DaemonNext]_daemonVars => DInv'
  BY <1>1, <1>2, DaemonNextTypeOK, NextStopForCause, NextHeldOnce DEF DInv
<1> QED
  BY <1>3, InitDInv, PTL DEF DaemonSpec

(* The state keeps its type: in particular the command channel of          *)
(* NewManager never holds more than its capacity.                          *)
THEOREM DaemonTyped == DaemonSpec => []DaemonTypeOK
<1>1. DInv => DaemonTypeOK
  BY DEF DInv
<1> QED
  BY <1>1, DaemonInvariance, PTL

(* A command is in one place until its reply has been read, for any number *)
(* of connections of the control socket: neither a full channel, a         *)
(* cancelled Submit nor the race on Manager.stopped duplicates or loses    *)
(* one before the context is cancelled.                                    *)
THEOREM CommandsHeldOnce == DaemonSpec => []CommandHeldOnce
<1>1. DInv => CommandHeldOnce
  BY DEF DInv
<1> QED
  BY <1>1, DaemonInvariance, PTL
=============================================================================
