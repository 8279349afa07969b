--------------------------- MODULE AgentCommands ---------------------------
(***************************************************************************)
(* The commands "device-agent enroll" and "device-agent renew", run by an  *)
(* operator on the data directory that the daemon of module AgentIdentity  *)
(* works in.  A command is a process of its own: it talks to the service,  *)
(* then writes certificate, key and a fresh state file, with the steps of  *)
(* the operator in between, and the daemon's when the daemon runs.         *)
(*                                                                         *)
(* "renew --auth bearer" never reaches the service: the exchange for the   *)
(* bearer token refuses a request without the SVID chain, which the        *)
(* command does not pass.  "check-revocations" only reads.                 *)
(***************************************************************************)
EXTENDS AgentIdentity

CONSTANT MaxLDIs    \* bound on the LDIs the device is given

ASSUME LDIAssumption == MaxLDIs \in Nat

VARIABLES
    cli,        \* what the command does next: "off", a step of the service
                \* that it waits for, or a file to write
    cliLDI,     \* the LDI it asks for, or 0
    cliKey,     \* the key file's key, to be certified again, or 0: a new one
    cliCert,    \* the serial the command installs, or 0
    alone,      \* history: the daemon has not run since the command began
    overlap,    \* history: a command and the daemon worked side by side,
                \* and no command has completed alone since
    raced       \* history: the LDIs that a request was being served for
                \* while their last revocation ran

requestVars == <<cliLDI, cliKey>>
commandVars ==
    <<vars, cli, requestVars, cliCert, alone, overlap, raced>>

CliAtFiles == cli \in {"cert", "key", "state"}

(* Every variable has its type: in particular what a command installs was  *)
(* issued.                                                                 *)
CommandsTypeOK ==
    /\ TypeOK
    /\ cli \in {"off", "priors", "issue", "cert", "key", "state"}
    /\ cliLDI \in 0..ldis /\ cliKey \in 0..last /\ cliCert \in 0..last
    /\ alone \in BOOLEAN /\ overlap \in BOOLEAN
    /\ raced \subseteq 1..ldis

CommandsInit ==
    /\ Init
    /\ cli = "off" /\ cliLDI = 0 /\ cliKey = 0 /\ cliCert = 0
    /\ alone = FALSE /\ overlap = FALSE /\ raced = {}

-----------------------------------------------------------------------------
(* Faulty forms of the definitions below, for mutation runs. *)

\* The command starts from the state it has loaded.
EnrolledFromLoaded(s) == [disk EXCEPT !.serial = s]

\* Re-enrollment strikes the prior certificates and does not list them.
CliPriorsUnlisted ==
    /\ cli = "priors"
    /\ active' = active \ ActiveOf(cliLDI)
    /\ cli' = "issue"
    /\ UNCHANGED <<last, keyOf, ldiOf, list, ldis, revoking, withdrawn, up, cert,
                   key, disk, mem, op, pending, sched, missed, cutOff,
                   requestVars, cliCert, alone, overlap, raced>>

\* The state file is written with the certificate, before the key.
CliWriteCertAndState ==
    /\ cli = "cert"
    /\ disk' = [serial |-> cliCert, etag |-> NoETag, revoked |-> FALSE]
    /\ \/ cert' = cliCert /\ cli' = "key" /\ UNCHANGED cutOff
       \/ DiskFails /\ cert' \in {cert, Torn} /\ cli' = "off" /\ cutOff' = TRUE
    /\ UNCHANGED <<misVars, up, key, mem, op, pending, sched, missed,
                   requestVars, cliCert, alone, overlap, raced>>

-----------------------------------------------------------------------------
(* The LDIs that a request is being served for. *)
Served ==
    {l \in 1..ldis : \/ op \in {"priors", "issue"} /\ l = OwnLDI
                     \/ cli \in {"priors", "issue"} /\ l = cliLDI}

(* A request for LDI l, at the service's next step. *)
CliAsks(l, k, step) ==
    /\ cli' = step /\ cliLDI' = l /\ cliKey' = k
    /\ alone' = ~up
    /\ raced' = raced \cup ({l} \cap revoking)
    /\ UNCHANGED <<cliCert, overlap, up, cert, key, disk, mem, op, pending,
                   sched, missed, cutOff>>

(* Service.Enroll for a device that is enrolled already.  Its own          *)
(* re-enrollment and a replacement by ticket reach an LDI it has been      *)
(* given, and go on if that is active...                                   *)
CliEnroll ==
    /\ cli = "off"
    /\ \E l \in (1..ldis) \ withdrawn : CliAsks(l, 0, "priors")
    /\ UNCHANGED misVars

(* ...a fresh enrollment token makes it another device, with an LDI of its *)
(* own; the former one keeps its certificates.                             *)
CliEnrollNew ==
    /\ cli = "off"
    /\ ldis < MaxLDIs
    /\ ldis' = ldis + 1
    /\ CliAsks(ldis', 0, "issue")
    /\ UNCHANGED <<last, keyOf, ldiOf, active, list, revoking, withdrawn>>

(* The command loads the state file for the SPIFFE ID only: a revocation   *)
(* recorded there does not keep it from renewing.  The service revokes the *)
(* prior certificates unless the key is that of the latest.                *)
CliRenew(sameKey) ==
    LET l == ldiOf[disk.serial]
        rotated == ~sameKey \/ key # keyOf[Latest(l)]
    IN  /\ cli = "off"
        /\ KeyPair /\ ldiOf[cert] = l
        /\ Renewable(l)
        /\ CliAsks(l, IF sameKey THEN key ELSE 0, IF rotated THEN "priors" ELSE "issue")
        /\ UNCHANGED misVars

(* A command that goes on to another step, or ends. *)
CliGoesOn(step) == cli' = step /\ UNCHANGED <<requestVars, cliCert, alone>>
CliEnds ==
    cli' = "off" /\ cliLDI' = 0 /\ cliKey' = 0 /\ cliCert' = 0 /\ alone' = FALSE

CliPriors ==
    /\ cli = "priors"
    /\ RevokePriors(cliLDI)
    /\ CliGoesOn("issue")
    /\ UNCHANGED <<ldis, revoking, withdrawn, up, cert, key, disk, mem, op, pending,
                   sched, missed, cutOff, overlap, raced>>

(* The answer arrives, and the command goes on to the files; or it is      *)
(* lost, and the command ends.                                             *)
CliIssue ==
    /\ cli = "issue"
    /\ Issue(cliLDI, IF cliKey = 0 THEN last + 1 ELSE cliKey)
    /\ \/ /\ cli' = "cert" /\ cliLDI' = 0 /\ cliKey' = 0 /\ cliCert' = last'
          /\ overlap' = (overlap \/ ~alone)
          /\ UNCHANGED alone
       \/ CliEnds /\ UNCHANGED overlap
    /\ UNCHANGED <<up, cert, key, disk, mem, op, pending, sched, missed, cutOff,
                   raced>>

(* persistEnrollmentResult: the three writes, each of which may fail. *)
CliWriteCert ==
    /\ cli = "cert"
    /\ \/ cert' = cliCert /\ CliGoesOn("key") /\ UNCHANGED cutOff
       \/ DiskFails /\ cert' \in {cert, Torn} /\ CliEnds /\ cutOff' = TRUE
    /\ UNCHANGED <<misVars, up, key, disk, mem, op, pending, sched, missed,
                   overlap, raced>>

CliWriteKey ==
    /\ cli = "key"
    /\ \/ key' = keyOf[cliCert] /\ CliGoesOn("state") /\ UNCHANGED cutOff
       \/ DiskFails /\ key' \in {key, Torn} /\ CliEnds /\ cutOff' = TRUE
    /\ UNCHANGED <<misVars, up, cert, disk, mem, op, pending, sched, missed,
                   overlap, raced>>

(* The state is a new one: no revocation, no ETag. *)
Enrolled(s) == [serial |-> s, etag |-> NoETag, revoked |-> FALSE]

CliSaveState ==
    /\ cli = "state"
    /\ CliEnds
    /\ \/ /\ disk' = Enrolled(cliCert)
          /\ cutOff' = FALSE
          /\ overlap' = ~alone
       \/ DiskFails /\ cutOff' = TRUE /\ UNCHANGED <<disk, overlap>>
    /\ UNCHANGED <<misVars, up, cert, key, mem, op, pending, sched, missed, raced>>

(* The request fails or times out, or the command's process dies, in the   *)
(* middle of a file write perhaps.                                         *)
CliKilled ==
    /\ cli # "off" /\ (Crashes \/ ~CliAtFiles)
    /\ CliEnds
    /\ cert' \in IF cli = "cert" THEN {cert, Torn} ELSE {cert}
    /\ key' \in IF cli = "key" THEN {key, Torn} ELSE {key}
    /\ cutOff' = (cutOff \/ CliAtFiles)
    /\ UNCHANGED <<misVars, up, disk, mem, op, pending, sched, missed,
                   overlap, raced>>

-----------------------------------------------------------------------------
(* A step of the daemon, the service or the operator; a daemon that starts *)
(* while a command is at the files works beside it.  A revocation that     *)
(* begins starts its LDI's history anew, and while it runs any request     *)
(* that is served for the LDI counts.                                      *)
AgentStep ==
    /\ Next
    /\ UNCHANGED <<cli, requestVars, cliCert>>
    /\ alone' = (alone /\ ~up')
    /\ overlap' = (overlap \/ (CliAtFiles /\ up'))
    /\ raced' = (raced \ (revoking' \ revoking)) \cup (revoking' \cap Served')

CommandsNext ==
    \/ CliEnroll \/ CliEnrollNew
    \/ \E sameKey \in BOOLEAN : CliRenew(sameKey)
    \/ CliPriors \/ CliIssue
    \/ CliWriteCert \/ CliWriteKey \/ CliSaveState
    \/ CliKilled
    \/ AgentStep

CommandsSpec == CommandsInit /\ [][CommandsNext]_commandVars

-----------------------------------------------------------------------------
(* Nobody is at the files, the last installation was completed, and no     *)
(* command had the daemon working beside it.                               *)
Settled == ~CliAtFiles /\ ~AtFiles /\ ~cutOff /\ ~overlap

(* However often the device is enrolled and renewed by hand between runs   *)
(* of the daemon, a settled data directory says "revoked" only of the      *)
(* certificate in it.  A running daemon has to be left out: its next       *)
(* persist writes its older state, revocation included, over the           *)
(* command's.                                                              *)
RevokedOnlyIfInstalled ==
    Settled /\ (disk.revoked \/ (up /\ mem.revoked)) => cert \in list

(* What is left of "either all three artefacts (chain, key, state) to land *)
(* or none of them" (cmd_identity.go:239) when a write fails or the        *)
(* process dies anywhere in an installation: the state file comes last.    *)
(* However many installations were cut off, by daemon or command, the      *)
(* files are torn or at least as new as the certificate the state names:   *)
(* the state never vouches for an installation whose files are missing.    *)
(* Only the daemon and a command working side by side break that.          *)
StateComesLast ==
    ~overlap =>
        /\ cert # Torn => cert >= disk.serial
        /\ key # Torn => key >= keyOf[disk.serial]

(* Once the operator has revoked an identity, every certificate that was   *)
(* issued for it is on the published list: those of same-key renewals,     *)
(* which leave their predecessors active, those whose answers were lost    *)
(* and those of an LDI the device has left for another.  Only a request    *)
(* that was past the service's status check while the revocation ran can   *)
(* leave one out, and revoking the identity again with no request under    *)
(* way reaches it.                                                         *)
ListedUnlessRaced ==
    \A s \in 1..last : ldiOf[s] \in withdrawn \ raced => s \in list
=============================================================================
