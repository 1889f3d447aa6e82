----------------------------- MODULE ExecClient -----------------------------
(***************************************************************************)
(* One `agent-secret exec`: the CLI (internal/cli/app_exec.go,             *)
(* app_requests.go), its connection to the daemon                          *)
(* (internal/daemon/control/client.go) and the command it runs             *)
(* (internal/execwrap).                                                    *)
(*                                                                         *)
(* The main goroutine is pc; two more goroutines live beside it while the  *)
(* command runs, one that forwards signals and one that terminates the     *)
(* command when the context ends.  The command (child) belongs to the      *)
(* user, so it can be signalled; it may ignore everything but SIGKILL, and *)
(* it may be stopped, by the terminal or by anybody else.  The daemon      *)
(* serves the connection in order, answers late or never, or drops it.     *)
(***************************************************************************)
EXTENDS Naturals, Sequences

CONSTANTS ChannelSize,    \* buffer of the channel given to signal.Notify
          MaxInterrupts   \* bound: signals sent to the CLI

ASSUME ChannelAssumption == ChannelSize \in Nat \ {0}
ASSUME InterruptsAssumption == MaxInterrupts \in Nat

VARIABLES
    pc,         \* the main goroutine
    attempt,    \* requests sent
    link,       \* the connection: "none", "open", "dropped" by the daemon, "closed"
    asked,      \* messages the daemon has not served yet
    answers,    \* answers the CLI has not read yet
    delivered,  \* history: payloads the daemon delivered
    recorded,   \* history: lifecycle reports the daemon recorded
    refused,    \* the daemon refused the started report
    child,      \* the command
    tty,        \* whose process group the terminal is in the foreground for
    restores,   \* foregroundChild gave a function that restores the terminal
    restored,   \* restoreTerminal: "pending", "done", "failed"
    queue,      \* signals in the channel
    sent,       \* history: signals sent to the CLI
    forwarder,  \* forwardInterrupts
    killer,     \* terminateOnContext
    done,       \* the channel closed when Wait returned
    cancelled   \* the context of the command is over

daemonVars == <<link, asked, answers, delivered, recorded>>
childVars  == <<child, tty, restores, restored>>
sideVars   == <<queue, sent, forwarder, killer, done, cancelled>>
vars == <<pc, attempt, link, asked, answers, delivered, recorded, refused,
          child, tty, restores, restored, queue, sent, forwarder, killer, done, cancelled>>

Reports == {"started", "completed"}

\* Where the main goroutine is.  Asking: until the payload is there; signals are
\* not caught yet.  Aborting: the command must not run on.
Asking   == {"repair", "connect", "ask", "asking", "ensure"}
Running  == {"start", "foreground", "report", "started?", "watch", "wait", "closing",
             "restore", "complete", "completed?"}
Aborting == {"terminate", "grace", "reap", "giveback"}
Over     == {"failed", "returned", "killed"}

Says == {"payload", "daemon_stopped", "refused", "ok", "fatal", "other"}

TypeOK ==
    /\ pc \in Asking \cup Running \cup Aborting \cup Over
    /\ attempt \in 0..2
    /\ link \in {"none", "open", "dropped", "closed"}
    /\ asked \in Seq({"request"} \cup Reports)
    /\ answers \in Seq(Says)
    /\ delivered \in Nat
    /\ recorded \in SUBSET Reports
    /\ refused \in BOOLEAN
    /\ child \in {"none", "running", "stopped", "exited", "reaped"}
    /\ tty \in {"parent", "child"}
    /\ restores \in BOOLEAN
    /\ restored \in {"pending", "done", "failed"}
    /\ queue \in 0..ChannelSize
    /\ sent \in 0..MaxInterrupts
    /\ forwarder \in {"off", "select", "holding", "gone"}
    /\ killer \in {"off", "waiting", "grace", "gone"}
    /\ done \in BOOLEAN
    /\ cancelled \in BOOLEAN

Init ==
    /\ pc = "repair"
    /\ attempt = 0
    /\ link = "none" /\ asked = <<>> /\ answers = <<>>
    /\ delivered = 0 /\ recorded = {} /\ refused = FALSE
    /\ child = "none" /\ tty = "parent" /\ restores = FALSE /\ restored = "pending"
    /\ queue = 0 /\ sent = 0
    /\ forwarder = "off" /\ killer = "off" /\ done = FALSE /\ cancelled = FALSE

Alive == child \in {"running", "stopped"}

At(p)      == pc = p
Goto(p)    == pc' = p
Leaves(p)  == Goto(p) /\ link' = "closed"

-----------------------------------------------------------------------------
(***************************************************************************)
(* Asking for the payload.                                                 *)
(***************************************************************************)

\* Repair of the daemon at the start, EnsureRunning before the second attempt.
EnsureHelper ==
    /\ pc \in {"repair", "ensure"}
    /\ pc' \in {"connect", "failed"}
    /\ UNCHANGED <<attempt, refused, daemonVars, childVars, sideVars>>

Connect ==
    /\ At("connect")
    /\ \/ /\ Goto("ask")
          /\ link' = "open" /\ asked' = <<>> /\ answers' = <<>>
       \/ /\ Goto("failed")
          /\ UNCHANGED <<link, asked, answers>>
    /\ UNCHANGED <<attempt, delivered, recorded, refused, childVars, sideVars>>

\* roundTripResponse up to the write: nothing is sent under a context that is
\* over, or to a daemon that is gone.
RequestExec ==
    /\ At("ask")
    /\ IF link = "open" /\ ~cancelled
       THEN /\ Goto("asking")
            /\ attempt' = attempt + 1
            /\ asked' = Append(asked, "request")
            /\ UNCHANGED link
       ELSE Leaves("failed") /\ UNCHANGED <<attempt, asked>>
    /\ UNCHANGED <<answers, delivered, recorded, refused, childVars, sideVars>>

\* The response is read and checked against the request (it may be too long or
\* name other aliases).  A stopped daemon's refusal is worth a second attempt.
RequestAnswered ==
    /\ At("asking")
    /\ answers # <<>>
    /\ answers' = Tail(answers)
    /\ \/ Head(answers) = "payload" /\ Goto("start") /\ UNCHANGED link
       \/ Head(answers) = "daemon_stopped" /\ attempt = 1 /\ Leaves("ensure")
       \/ Head(answers) = "daemon_stopped" /\ attempt = 2 /\ Leaves("failed")
       \/ Head(answers) # "daemon_stopped" /\ Leaves("failed")
    /\ UNCHANGED <<attempt, asked, delivered, recorded, refused, childVars, sideVars>>

\* Faulty: an answer that does not come is worth a second attempt too.
RequestRetried ==
    /\ At("asking")
    /\ IF attempt = 1 THEN Leaves("ensure") ELSE Leaves("failed")
    /\ UNCHANGED <<attempt, asked, answers, delivered, recorded, refused, childVars, sideVars>>

\* The deadline passes, the context ends, or the connection is dropped.
RequestLost ==
    /\ At("asking")
    /\ Leaves("failed")
    /\ UNCHANGED <<attempt, asked, answers, delivered, recorded, refused, childVars, sideVars>>

-----------------------------------------------------------------------------
(***************************************************************************)
(* The command.                                                            *)
(***************************************************************************)

\* signal.Notify and the start of Run: the executable changed, an alias is in the
\* environment already, or the start fails; or the command is there.
StartChild ==
    /\ At("start")
    /\ \/ Goto("foreground") /\ child' = "running" /\ UNCHANGED link
       \/ Leaves("failed") /\ UNCHANGED child
    /\ UNCHANGED <<attempt, asked, answers, delivered, recorded, refused,
                   tty, restores, restored, sideVars>>

\* No terminal; the terminal is given to the command; or that fails.
ForegroundChild ==
    /\ At("foreground")
    /\ \/ Goto("report") /\ UNCHANGED <<tty, restores>>
       \/ Goto("report") /\ tty' = "child" /\ restores' = TRUE
       \/ Goto("terminate") /\ UNCHANGED <<tty, restores>>
    /\ UNCHANGED <<attempt, refused, daemonVars, child, restored, sideVars>>

\* The goroutines beside Wait.
Watch ==
    /\ At("watch")
    /\ Goto("wait")
    /\ forwarder' = "select"
    /\ killer' = "waiting"
    /\ UNCHANGED <<attempt, refused, daemonVars, childVars, queue, sent, done, cancelled>>

\* Wait does not return for a stopped command.
WaitChild ==
    /\ At("wait")
    /\ child = "exited"
    /\ child' = "reaped"
    /\ Goto("closing")
    /\ UNCHANGED <<attempt, refused, daemonVars, tty, restores, restored, sideVars>>

CloseDone ==
    /\ At("closing")
    /\ done' = TRUE
    /\ Goto("restore")
    /\ UNCHANGED <<attempt, refused, daemonVars, childVars, queue, sent, forwarder, killer,
                   cancelled>>

\* restoreTerminal, after Wait or after a refused start: it may fail, which Run
\* reports in the first case only.
RestoreTerminal ==
    /\ pc \in {"restore", "giveback"}
    /\ pc' = IF At("restore") THEN "complete" ELSE "failed"
    /\ link' = IF At("restore") THEN link ELSE "closed"
    /\ IF restores
       THEN \/ tty' = "parent" /\ restored' = "done"
            \/ restored' = "failed" /\ UNCHANGED tty
       ELSE UNCHANGED <<tty, restored>>
    /\ UNCHANGED <<attempt, refused, asked, answers, delivered, recorded, child, restores,
                   sideVars>>

\* terminateChild sends SIGTERM, sleeps and sends SIGKILL.
TerminateChild ==
    /\ At("terminate")
    /\ Goto("grace")
    /\ child' \in IF child = "running" THEN {"running", "exited"} ELSE {child}
    /\ UNCHANGED <<attempt, refused, daemonVars, tty, restores, restored, sideVars>>

KillChild ==
    /\ At("grace")
    /\ Goto("reap")
    /\ child' = "exited"
    /\ UNCHANGED <<attempt, refused, daemonVars, tty, restores, restored, sideVars>>

\* Faulty: nobody waits for the command that was killed.
ReapForgets ==
    /\ At("reap")
    /\ Goto("giveback")
    /\ UNCHANGED <<attempt, refused, daemonVars, childVars, sideVars>>

\* The command is waited for; the terminal goes back if it was given away.
ReapChild ==
    /\ At("reap")
    /\ child = "exited"
    /\ child' = "reaped"
    /\ Goto("giveback")
    /\ UNCHANGED <<attempt, refused, daemonVars, tty, restores, restored, sideVars>>

-----------------------------------------------------------------------------
(***************************************************************************)
(* The lifecycle reports.                                                  *)
(***************************************************************************)

\* After a report that was recorded, or could not be made: Run goes on.
Onward(p) == CASE p \in {"report", "started?"} -> "watch"
               [] OTHER -> "returned"

\* A report is sent unless the context is over or the daemon is gone.
SendReport ==
    /\ pc \in {"report", "complete"}
    /\ IF link = "open" /\ ~cancelled
       THEN /\ asked' = Append(asked, IF At("report") THEN "started" ELSE "completed")
            /\ pc' = IF At("report") THEN "started?" ELSE "completed?"
            /\ UNCHANGED link
       ELSE /\ Goto(Onward(pc))
            /\ link' = IF At("report") THEN link ELSE "closed"
            /\ UNCHANGED asked
    /\ UNCHANGED <<attempt, answers, delivered, recorded, refused, childVars, sideVars>>

\* Faulty: every failure of the started report is only worth a warning.
GoesOn(says) == "watch"

\* isFatalCommandStartedAuditFailure: the daemon is there and does not allow it.
AfterStarted(says) == IF says = "fatal" THEN "terminate" ELSE "watch"

\* An answer is read.  Whatever is said of the completed report, the command is
\* over and Run returns.
ReportAnswered ==
    /\ pc \in {"started?", "completed?"}
    /\ answers # <<>>
    /\ answers' = Tail(answers)
    /\ IF At("started?")
       THEN /\ Goto(AfterStarted(Head(answers)))
            /\ refused' = (Head(answers) = "fatal")
            /\ UNCHANGED link
       ELSE Leaves("returned") /\ UNCHANGED refused
    /\ UNCHANGED <<attempt, asked, delivered, recorded, childVars, sideVars>>

\* No answer in time, the context ends, or the daemon drops the connection.  The
\* read deadline and the watch that closes the connection end at once: either of
\* them may be first, and the connection may stay open.
ReportLost ==
    /\ pc \in {"started?", "completed?"}
    /\ Goto(Onward(pc))
    /\ \/ link' = "closed"
       \/ link' = link /\ At("started?") /\ ~cancelled
    /\ UNCHANGED <<attempt, asked, answers, delivered, recorded, refused, childVars, sideVars>>

-----------------------------------------------------------------------------
(***************************************************************************)
(* Signals and the context.                                                *)
(***************************************************************************)

\* SIGINT or SIGTERM to the CLI.  Before signal.Notify it ends the CLI; then it is
\* kept in the channel, or dropped when the channel is full.
Interrupt ==
    /\ pc \notin Over
    /\ sent < MaxInterrupts
    /\ sent' = sent + 1
    /\ IF pc \in Asking
       THEN Goto("killed") /\ link' = "closed" /\ UNCHANGED queue
       ELSE /\ queue' = IF queue < ChannelSize THEN queue + 1 ELSE queue
            /\ UNCHANGED <<pc, link>>
    /\ UNCHANGED <<attempt, asked, answers, delivered, recorded, refused, childVars, forwarder,
                   killer, done, cancelled>>

CancelContext ==
    /\ pc \notin Over
    /\ ~cancelled
    /\ cancelled' = TRUE
    /\ UNCHANGED <<pc, attempt, refused, daemonVars, childVars, queue, sent, forwarder, killer,
                   done>>

\* The forwarder takes a signal, or ends; with both ready it may do either.
TakeInterrupt ==
    /\ pc \notin Over
    /\ forwarder = "select"
    /\ queue > 0
    /\ queue' = queue - 1
    /\ forwarder' = "holding"
    /\ UNCHANGED <<pc, attempt, refused, daemonVars, childVars, sent, killer, done, cancelled>>

\* Faulty: one signal is all that is forwarded.
ForwardOnce ==
    /\ pc \notin Over
    /\ forwarder = "holding"
    /\ forwarder' = "gone"
    /\ child' \in IF child = "running" THEN {"running", "exited"} ELSE {child}
    /\ UNCHANGED <<pc, attempt, refused, daemonVars, tty, restores, restored, queue, sent,
                   killer, done, cancelled>>

\* signalChild: the command may end of it or not; a stopped one does not take it.
Forward ==
    /\ pc \notin Over
    /\ forwarder = "holding"
    /\ forwarder' = "select"
    /\ child' \in IF child = "running" THEN {"running", "exited"} ELSE {child}
    /\ UNCHANGED <<pc, attempt, refused, daemonVars, tty, restores, restored, queue, sent,
                   killer, done, cancelled>>

ForwarderEnds ==
    /\ pc \notin Over
    /\ forwarder = "select"
    /\ done
    /\ forwarder' = "gone"
    /\ UNCHANGED <<pc, attempt, refused, daemonVars, childVars, queue, sent, killer, done,
                   cancelled>>

\* terminateOnContext: SIGTERM once the context is over.
KillerTerminates ==
    /\ pc \notin Over
    /\ killer = "waiting"
    /\ cancelled
    /\ killer' = "grace"
    /\ child' \in IF child = "running" THEN {"running", "exited"} ELSE {child}
    /\ UNCHANGED <<pc, attempt, refused, daemonVars, tty, restores, restored, queue, sent,
                   forwarder, done, cancelled>>

\* Faulty: the grace period ends and SIGTERM has to do.
KillerGivesUp ==
    /\ pc \notin Over
    /\ killer = "grace"
    /\ killer' = "gone"
    /\ UNCHANGED <<pc, attempt, refused, daemonVars, childVars, queue, sent, forwarder, done,
                   cancelled>>

\* SIGKILL after the grace period: a command that was not waited for ends.
KillerKills ==
    /\ pc \notin Over
    /\ killer = "grace"
    /\ killer' = "gone"
    /\ child' = IF Alive THEN "exited" ELSE child
    /\ UNCHANGED <<pc, attempt, refused, daemonVars, tty, restores, restored, queue, sent,
                   forwarder, done, cancelled>>

KillerEnds ==
    /\ pc \notin Over
    /\ killer \in {"waiting", "grace"}
    /\ done
    /\ killer' = "gone"
    /\ UNCHANGED <<pc, attempt, refused, daemonVars, childVars, queue, sent, forwarder, done,
                   cancelled>>

-----------------------------------------------------------------------------
(***************************************************************************)
(* The command and the daemon by themselves.                               *)
(***************************************************************************)
ChildActs ==
    /\ pc \notin Over
    /\ \/ child = "running" /\ child' \in {"exited", "stopped"}
       \/ child = "stopped" /\ child' = "running"
    /\ UNCHANGED <<pc, attempt, refused, daemonVars, tty, restores, restored, sideVars>>

\* What the daemon may say to a message.
Verdicts(m) == CASE m = "request"   -> {"payload", "daemon_stopped", "refused"}
                 [] m = "started"   -> {"ok", "fatal", "other"}
                 [] m = "completed" -> {"ok", "other"}

\* The next message of the connection is served; an answer to a connection the
\* CLI has closed is not read, and a payload not delivered.
DaemonServes ==
    /\ pc \notin Over
    /\ link \in {"open", "closed"}
    /\ asked # <<>>
    /\ asked' = Tail(asked)
    /\ \E says \in Verdicts(Head(asked)) :
          /\ answers' = IF link = "open" THEN Append(answers, says) ELSE answers
          /\ delivered' = IF says = "payload" /\ link = "open" THEN delivered + 1 ELSE delivered
          /\ recorded' = IF says = "ok" THEN recorded \cup {Head(asked)} ELSE recorded
    /\ UNCHANGED <<pc, attempt, refused, link, childVars, sideVars>>

DaemonDrops ==
    /\ pc \notin Over
    /\ link = "open"
    /\ link' = "dropped"
    /\ asked' = <<>>
    /\ UNCHANGED <<pc, attempt, refused, answers, delivered, recorded, childVars, sideVars>>

-----------------------------------------------------------------------------
Main ==
    \/ EnsureHelper \/ Connect \/ RequestExec \/ RequestAnswered \/ RequestLost
    \/ StartChild \/ ForegroundChild \/ Watch \/ WaitChild \/ CloseDone \/ RestoreTerminal
    \/ TerminateChild \/ KillChild \/ ReapChild
    \/ SendReport \/ ReportAnswered \/ ReportLost

Forwarder == TakeInterrupt \/ Forward \/ ForwarderEnds
Killer    == KillerTerminates \/ KillerKills \/ KillerEnds

Next ==
    \/ Main \/ Forwarder \/ Killer
    \/ Interrupt \/ CancelContext \/ ChildActs \/ DaemonServes \/ DaemonDrops

Spec == Init /\ [][Next]_vars

\* The goroutines are scheduled, round trips have deadlines, sleeps end.  Nothing
\* is assumed of the daemon, of the command or of who sends signals.
FairSpec == Spec /\ WF_vars(Main) /\ WF_vars(Forwarder) /\ WF_vars(Killer)

-----------------------------------------------------------------------------
(***************************************************************************)
(* Properties.                                                             *)
(***************************************************************************)

\* Run never returns while the command is there unobserved, and then the terminal
\* is the caller's again, unless giving it back failed (execwrap.go:80-118).
ReturnLeavesNothing ==
    pc \in Over => /\ child \in {"none", "reaped"}
                   /\ tty = "child" => restored = "failed"

\* The second attempt of requestDaemonPayload (app_requests.go:46) never costs a
\* second payload, and a command runs only on a payload.
DeliveredAtMostOnce ==
    /\ delivered <= 1
    /\ child # "none" => delivered = 1

\* What the daemon records is true: a command that was started, and a completed
\* one only if it ended by itself and was not refused (app_exec.go:199-222).
ReportsAreTrue ==
    /\ recorded # {} => child # "none"
    /\ "completed" \in recorded => child = "reaped" /\ ~refused

\* A signal the CLI caught is passed on, however many come before it, unless the
\* command is over (execwrap.go:159-177).
InterruptsReachCommand == queue > 0 ~> (queue = 0 \/ ~Alive)

\* A command whose start was refused, or whose context is over, ends, even one that
\* is stopped or ignores SIGTERM (execwrap.go:91-96, 191-205).
DoomedCommandEnds == (Alive /\ (cancelled \/ refused)) ~> ~Alive
=============================================================================
