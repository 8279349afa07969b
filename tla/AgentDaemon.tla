---------------------------- MODULE AgentDaemon ----------------------------
(***************************************************************************)
(* The goroutines of the device-agent daemon: the identity manager, the    *)
(* only one that touches the identity, behind a bounded command channel;   *)
(* the scheduler and the control-socket handlers, which submit a command   *)
(* and block on its reply channel; and the main goroutine, which on a      *)
(* signal submits Stop and waits for the manager.                          *)
(*                                                                         *)
(* A goroutine has at most one command outstanding, so a command in the    *)
(* channel is represented by its submitter; Main's command is Stop.  What  *)
(* the commands do to the identity is the subject of module AgentIdentity. *)
(***************************************************************************)
EXTENDS Naturals, Sequences, FiniteSets

CONSTANTS
    Conns,      \* control-socket connections that can be open at once
    Sched,      \* the scheduler goroutine
    Main,       \* the goroutine of daemon.Run
    QueueCap,   \* capacity of the manager's command channel (16 in the code)
    LoadFails   \* TRUE iff the manager may fail to load the state file

ASSUME DaemonAssumption ==
    /\ Sched \notin Conns /\ Main \notin Conns \cup {Sched}
    /\ QueueCap \in Nat \ {0}
    /\ LoadFails \in BOOLEAN

VARIABLES
    ctxDone,    \* signalCtx is cancelled
    main,       \* daemon.Run: "running", "waitStop" or "returned"
    mgr,        \* the manager loop: "load", "loop", "busy" or "exited"
    cur,        \* the submitter of the command being dispatched
    queue,      \* the command channel
    stopped,    \* Manager.stopped, written and read without a lock
    replied,    \* submitters whose reply channel holds an unread reply
    pc,         \* where each client goroutine is
    job         \* the command the scheduler last submitted

daemonVars == <<ctxDone, main, mgr, cur, queue, stopped, replied, pc, job>>

Clients == Conns \cup {Sched}
Jobs == {"renew", "refresh", "check"}

(* One type invariant: in particular the channel never exceeds its         *)
(* capacity.                                                               *)
DaemonTypeOK ==
    /\ ctxDone \in BOOLEAN /\ stopped \in BOOLEAN
    /\ main \in {"running", "waitStop", "returned"}
    /\ mgr \in {"load", "loop", "busy", "exited"}
    /\ cur \in Clients \cup {Main}
    /\ queue \in Seq(Clients \cup {Main}) /\ Len(queue) <= QueueCap
    /\ replied \subseteq Clients
    /\ pc \in [Clients -> {"idle", "send", "wait", "gone"}]
    /\ job \in Jobs

(* The daemon after a successful start: state and leaf were read, the      *)
(* manager and scheduler goroutines launched and the socket opened.        *)
DaemonInit ==
    /\ ctxDone = FALSE /\ stopped = FALSE
    /\ main = "running" /\ mgr = "load" /\ cur = Main
    /\ queue = <<>> /\ replied = {}
    /\ pc = [g \in Clients |-> "idle"]
    /\ job = "check"

-----------------------------------------------------------------------------
(* Faulty forms of the definitions above, for mutation runs. *)

\* A full channel drops the command (a select with a default branch).
SendDropsWhenFull(g) ==
    /\ pc[g] = "send"
    /\ queue' = IF Len(queue) < QueueCap THEN Append(queue, g) ELSE queue
    /\ pc' = [pc EXCEPT ![g] = "wait"]
    /\ UNCHANGED <<ctxDone, main, mgr, cur, stopped, replied, job>>

\* The commands are kept on a stack.
ManagerTakesNewest ==
    /\ mgr = "loop" /\ queue # <<>>
    /\ mgr' = "busy" /\ cur' = queue[Len(queue)]
    /\ queue' = SubSeq(queue, 1, Len(queue) - 1)
    /\ UNCHANGED <<ctxDone, main, stopped, replied, pc, job>>

\* The loop goes on after Stop and leaves it to the context to end it.
ManagerStopsKeepsServing ==
    /\ mgr = "busy" /\ cur = Main
    /\ stopped' = TRUE
    /\ mgr' = "loop"
    /\ UNCHANGED <<ctxDone, main, cur, queue, replied, pc, job>>

-----------------------------------------------------------------------------
(* Submit.  The result is looked at only by the scheduler's renewal, which *)
(* ends the scheduler; every other submitter goes on to wait for a reply.  *)
Refused(g, j) == IF g = Sched /\ j = "renew" THEN "gone" ELSE "wait"

(* The read of Manager.stopped races with its write, so a reader may still *)
(* see FALSE after the manager has stopped.                                *)
EnterSubmit(g, j) ==
    \/ pc' = [pc EXCEPT ![g] = "send"]
    \/ stopped /\ pc' = [pc EXCEPT ![g] = Refused(g, j)]

(* The two branches of Submit's select. *)
Send(g) ==
    /\ pc[g] = "send"
    /\ Len(queue) < QueueCap
    /\ queue' = Append(queue, g)
    /\ pc' = [pc EXCEPT ![g] = "wait"]
    /\ UNCHANGED <<ctxDone, main, mgr, cur, stopped, replied, job>>

SendCancelled(g) ==
    /\ pc[g] = "send"
    /\ ctxDone
    /\ pc' = [pc EXCEPT ![g] = Refused(g, job)]
    /\ UNCHANGED <<ctxDone, main, mgr, cur, queue, stopped, replied, job>>

(* socketServer.accept and the first half of handle: a connection with a   *)
(* known command.  The listener stays open until daemon.Run returns.       *)
Handle(c) ==
    /\ pc[c] = "idle"
    /\ EnterSubmit(c, job)
    /\ UNCHANGED <<ctxDone, main, mgr, cur, queue, stopped, replied, job>>

(* The handler writes the answer and closes the connection. *)
Answer(c) ==
    /\ pc[c] = "wait" /\ c \in replied
    /\ replied' = replied \ {c}
    /\ pc' = [pc EXCEPT ![c] = "idle"]
    /\ UNCHANGED <<ctxDone, main, mgr, cur, queue, stopped, job>>

(* Scheduler.Run: one of its timers is due; the JWT eviction timer submits *)
(* nothing and is left out.                                                *)
TimerFires(j) ==
    /\ pc[Sched] = "idle"
    /\ job' = j
    /\ EnterSubmit(Sched, j)
    /\ UNCHANGED <<ctxDone, main, mgr, cur, queue, stopped, replied>>

(* Reply to the scheduler: it re-arms the timer, or returns for good when  *)
(* a revocation check found its own SVID listed.                           *)
SchedulerResumes ==
    /\ pc[Sched] = "wait" /\ Sched \in replied
    /\ replied' = replied \ {Sched}
    /\ \/ pc' = [pc EXCEPT ![Sched] = "idle"]
       \/ job = "check" /\ pc' = [pc EXCEPT ![Sched] = "gone"]
    /\ UNCHANGED <<ctxDone, main, mgr, cur, queue, stopped, job>>

SchedulerCancelled ==
    /\ pc[Sched] = "idle" /\ ctxDone
    /\ pc' = [pc EXCEPT ![Sched] = "gone"]
    /\ UNCHANGED <<ctxDone, main, mgr, cur, queue, stopped, replied, job>>

-----------------------------------------------------------------------------
(* Manager.loop. *)
ManagerLoads ==
    /\ mgr = "load"
    /\ mgr' \in {"loop"} \cup (IF LoadFails THEN {"exited"} ELSE {})
    /\ UNCHANGED <<ctxDone, main, cur, queue, stopped, replied, pc, job>>

ManagerTakes ==
    /\ mgr = "loop" /\ queue # <<>>
    /\ mgr' = "busy" /\ cur' = Head(queue) /\ queue' = Tail(queue)
    /\ UNCHANGED <<ctxDone, main, stopped, replied, pc, job>>

(* select may take this branch even when commands are queued. *)
ManagerCancelled ==
    /\ mgr = "loop" /\ ctxDone
    /\ mgr' = "exited"
    /\ UNCHANGED <<ctxDone, main, cur, queue, stopped, replied, pc, job>>

(* dispatch of a client's command: every path of every handler puts one    *)
(* value in the reply channel and closes it.                               *)
ManagerReplies ==
    /\ mgr = "busy" /\ cur \in Clients
    /\ replied' = replied \cup {cur}
    /\ mgr' = "loop"
    /\ UNCHANGED <<ctxDone, main, cur, queue, stopped, pc, job>>

ManagerStops ==
    /\ mgr = "busy" /\ cur = Main
    /\ stopped' = TRUE
    /\ mgr' = "exited"
    /\ UNCHANGED <<ctxDone, main, cur, queue, replied, pc, job>>

-----------------------------------------------------------------------------
(* daemon.Run. *)
Signal ==
    /\ ~ctxDone
    /\ ctxDone' = TRUE
    /\ UNCHANGED <<main, mgr, cur, queue, stopped, replied, pc, job>>

(* Submit of Stop with context.Background(): only the send can end it. *)
SubmitStop ==
    /\ main = "running" /\ ctxDone
    /\ Len(queue) < QueueCap
    /\ queue' = Append(queue, Main)
    /\ main' = "waitStop"
    /\ UNCHANGED <<ctxDone, mgr, cur, stopped, replied, pc, job>>

(* The select on stopReply or mgrDone, then mgrDone itself: the second     *)
(* wait makes the first one immaterial.                                    *)
MainReturns ==
    /\ main = "waitStop" /\ mgr = "exited"
    /\ main' = "returned"
    /\ UNCHANGED <<ctxDone, mgr, cur, queue, stopped, replied, pc, job>>

(* The process ends with daemon.Run, whatever its other goroutines do. *)
Exited == main = "returned" /\ UNCHANGED daemonVars

Step ==
    \/ \E g \in Clients : Send(g) \/ SendCancelled(g)
    \/ \E c \in Conns : Handle(c) \/ Answer(c)
    \/ \E j \in Jobs : TimerFires(j)
    \/ SchedulerResumes \/ SchedulerCancelled
    \/ ManagerLoads \/ ManagerTakes \/ ManagerCancelled
    \/ ManagerReplies \/ ManagerStops
    \/ Signal \/ SubmitStop \/ MainReturns

DaemonNext == (main # "returned" /\ Step) \/ Exited

DaemonSpec == DaemonInit /\ [][DaemonNext]_daemonVars

(* A goroutine that can run eventually runs; a channel serves its blocked  *)
(* senders in order, which makes the sends strongly fair.  Neither a       *)
(* signal, a request nor a timer is assumed to come.                       *)
DaemonFairness ==
    /\ WF_daemonVars(ManagerLoads) /\ WF_daemonVars(ManagerTakes)
    /\ WF_daemonVars(ManagerReplies) /\ WF_daemonVars(ManagerStops)
    /\ WF_daemonVars(ManagerCancelled)
    /\ \A g \in Clients : SF_daemonVars(Send(g)) /\ WF_daemonVars(SendCancelled(g))
    /\ \A c \in Conns : WF_daemonVars(Answer(c))
    /\ WF_daemonVars(SchedulerResumes)
    /\ SF_daemonVars(SubmitStop) /\ WF_daemonVars(MainReturns)

DaemonFairSpec == DaemonSpec /\ DaemonFairness

-----------------------------------------------------------------------------
Occurrences(g) == Cardinality({i \in DOMAIN queue : queue[i] = g})

(* A submitted command is in exactly one place (the channel, the manager's *)
(* hands, the reply channel) until its submitter has read the reply, and   *)
(* a goroutine waits for a command that is nowhere only after the context  *)
(* was cancelled (Submit's ignored result in socket.go and scheduler.go).  *)
CommandHeldOnce ==
    \A g \in Clients :
        LET places == Occurrences(g)
                      + (IF mgr = "busy" /\ cur = g THEN 1 ELSE 0)
                      + (IF g \in replied THEN 1 ELSE 0)
        IN  /\ pc[g] # "wait" => places = 0
            /\ pc[g] = "wait" => places = 1 \/ (places = 0 /\ ctxDone)

(* A request or a scheduled job that is submitted is answered, unless the  *)
(* daemon is told to stop or its manager is gone (a failed state load, at  *)
(* manager.go:79, ends the manager without ending the daemon).             *)
RequestsAnswered ==
    \A g \in Clients :
        pc[g] = "send" ~> (pc[g] \in {"idle", "gone"}
                           \/ ctxDone \/ mgr = "exited")

(* "whichever fires first prevents a deadlock" (daemon.go:129), up to the  *)
(* one case it does not prevent: once the signal came, daemon.Run returns, *)
(* or it is stuck before a full channel that the manager no longer reads.  *)
ShutsDownUnlessFull ==
    ctxDone ~> \/ main = "returned"
               \/ main = "running" /\ mgr = "exited" /\ Len(queue) = QueueCap

=============================================================================
