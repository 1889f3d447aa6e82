---------------------------- MODULE DaemonServer ----------------------------
(***************************************************************************)
(* The daemon's server (internal/daemon/server.go) over the broker's map   *)
(* of active commands: connections and the messages they carry, the life   *)
(* of a command (payload, started, completed or lost), the stop, and the   *)
(* retirement of a daemon whose executable was replaced.                   *)
(*                                                                         *)
(* A connection has one handler, which serves its messages in turn.  A     *)
(* step is one message read, one look at shared state or one change of it; *)
(* replies are part of the step before them.  A connection runs one        *)
(* command at a time, and commands are named after their connections.      *)
(***************************************************************************)
EXTENDS FiniteSets

CONSTANTS Conns,       \* connections, each accepted at most once
          Pipelining   \* may a client ask for more while its command runs?

ASSUME PipeliningAssumption == Pipelining \in BOOLEAN

VARIABLES
    replaced,   \* the daemon's executable has changed on disk
    retire,     \* retireAfterActive
    brokerStop, \* the broker's stop channel is closed
    serverStop, \* the server's stop channel is closed
    active,     \* broker.active: connections whose command it holds
    started,    \* the commands in it that are marked as started
    pc,         \* where each handler is
    msg,        \* the message it serves
    owns,       \* connectionState.activeRequestID is set
    then,       \* where the handler goes after looking at retirement
    trail,      \* history: lifecycle events of the last command delivered
    aborted     \* history: active lost its last entry to an aborted delivery

flags == <<replaced, retire, brokerStop, serverStop>>
table == <<active, started, aborted>>
local == <<msg, owns, then>>
vars == <<replaced, retire, brokerStop, serverStop, active, started, pc, msg, owns, then,
          trail, aborted>>

\* request.exec and session.resolve start a command; daemon.status and the other
\* foreground requests do not; the rest are served without a self-check.
Foreground == {"exec", "status", "foreground"}
Messages   == Foreground \cup {"other", "started", "completed", "stop"}

PCs == {"new", "reading", "selfcheck", "count", "gate", "prepare", "write", "starting",
        "marking", "completing", "leaving", "retiring", "counting", "stopping",
        "clearing", "closing", "closed"}

Terminal == {"completed", "lost_after_payload", "lost_after_start"}

TypeOK ==
    /\ {replaced, retire, brokerStop, serverStop, aborted} \subseteq BOOLEAN
    /\ active \in SUBSET Conns
    /\ started \in SUBSET active
    /\ pc \in [Conns -> PCs]
    /\ msg \in [Conns -> Messages]
    /\ owns \in [Conns -> BOOLEAN]
    /\ then \in [Conns -> {"reading", "closed"}]
    /\ trail \in [Conns -> SUBSET ({"payload", "started"} \cup Terminal)]

Init ==
    /\ replaced = FALSE
    /\ retire = FALSE
    /\ brokerStop = FALSE
    /\ serverStop = FALSE
    /\ active = {}
    /\ started = {}
    /\ pc = [c \in Conns |-> "new"]
    /\ msg = [c \in Conns |-> "other"]
    /\ owns = [c \in Conns |-> FALSE]
    /\ then = [c \in Conns |-> "closed"]
    /\ trail = [c \in Conns |-> {}]
    /\ aborted = FALSE

At(c, p)   == pc[c] = p
Goto(c, p) == pc' = [pc EXCEPT ![c] = p]

\* A step that only the connection sees.
Move(c, p) == Goto(c, p) /\ UNCHANGED <<flags, table, local, trail>>

\* The command's entry leaves the active map.
Drop(c) ==
    /\ active' = active \ {c}
    /\ started' = started \ {c}

Log(c, events) == trail' = [trail EXCEPT ![c] = @ \cup events]

-----------------------------------------------------------------------------
(***************************************************************************)
(* Connections and messages.                                               *)
(***************************************************************************)
Accept(c) == At(c, "new") /\ ~serverStop /\ Move(c, "reading")

\* A message is read.  Without pipelining a client whose command runs only
\* reports on it, or asks the daemon to stop.
Read(c, m) ==
    /\ At(c, "reading")
    /\ owns[c] /\ ~Pipelining => m \in {"started", "completed", "stop"}
    /\ msg' = [msg EXCEPT ![c] = m]
    /\ Goto(c, IF m \in Foreground THEN "selfcheck" ELSE "gate")
    /\ UNCHANGED <<flags, table, owns, then, trail>>

\* Faulty: the broker is not told.
ReadFailsSilently(c) == At(c, "reading") /\ Move(c, "closed")

\* The client is gone, sends no frame in time or a malformed one: a command of
\* its own is over for the daemon.
ReadFails(c) == At(c, "reading") /\ Move(c, IF owns[c] THEN "leaving" ELSE "closed")

\* ClientDisconnected, if the entry is still there: what is recorded depends on
\* whether the command was marked as started.
ClientDisconnected(c) ==
    /\ At(c, "leaving")
    /\ Drop(c)
    /\ IF c \in active
       THEN Log(c, {IF c \in started THEN "lost_after_start" ELSE "lost_after_payload"})
       ELSE UNCHANGED trail
    /\ aborted' = FALSE
    /\ then' = [then EXCEPT ![c] = "closed"]
    /\ Goto(c, "retiring")
    /\ UNCHANGED <<flags, msg, owns>>

\* A stopped server serves daemon.status alone; the dispatch follows.
Stopped(c) == At(c, "gate") /\ serverStop /\ msg[c] # "status" /\ Move(c, "closed")

\* dispatchClientEnvelope: a request may be refused (an untrusted peer, a bad
\* payload), a second command on the connection and a report on a command that
\* is not the connection's always are.
Destination(c) ==
    CASE msg[c] = "exec"      -> IF owns[c] THEN {"reading"} ELSE {"prepare", "reading"}
      [] msg[c] = "started"   -> IF owns[c] THEN {"starting", "reading"} ELSE {"reading"}
      [] msg[c] = "completed" -> IF owns[c] THEN {"completing", "reading"} ELSE {"reading"}
      [] msg[c] = "stop"      -> {"stopping", "reading"}
      [] OTHER                -> {"reading"}

Dispatch(c) ==
    /\ At(c, "gate")
    /\ ~serverStop \/ msg[c] = "status"
    /\ \E p \in Destination(c) : Goto(c, p)
    /\ msg'  = [msg EXCEPT ![c] = "other"]
    /\ then' = [then EXCEPT ![c] = "closed"]
    /\ UNCHANGED <<flags, table, owns, trail>>

-----------------------------------------------------------------------------
(***************************************************************************)
(* A command.                                                              *)
(***************************************************************************)

\* Faulty: the stop channel is not looked at again.
ActivateBlindly(c) ==
    /\ At(c, "prepare")
    /\ active' = active \cup {c}
    /\ Goto(c, "write")
    /\ UNCHANGED <<flags, started, aborted, local, trail>>

\* PrepareExecDelivery and PrepareSessionResolve end with activateExec ...
Activate(c) ==
    /\ At(c, "prepare")
    /\ ~brokerStop
    /\ active' = active \cup {c}
    /\ Goto(c, "write")
    /\ UNCHANGED <<flags, started, aborted, local, trail>>

\* ... or fail, for one of the many reasons modelled elsewhere.
PrepareFails(c) == At(c, "prepare") /\ Move(c, "reading")

\* The payload is written and the delivery committed: the connection owns it.
WritePayload(c) ==
    /\ At(c, "write")
    /\ owns' = [owns EXCEPT ![c] = TRUE]
    /\ trail' = [trail EXCEPT ![c] = {"payload"}]
    /\ Goto(c, "reading")
    /\ UNCHANGED <<flags, table, msg, then>>

\* AbortBeforePayload; nobody looks at the retirement here.
AbortBeforePayload(c) ==
    /\ At(c, "write")
    /\ Drop(c)
    /\ aborted' = (active = {c} \/ (active = {} /\ aborted))
    /\ Goto(c, "reading")
    /\ UNCHANGED <<flags, local, trail>>

\* ReportStarted: the broker knows the command, command_started is on record ...
ReportStarted(c) ==
    /\ At(c, "starting")
    /\ ~brokerStop /\ c \in active
    /\ Log(c, {"started"})
    /\ Goto(c, "marking")
    /\ UNCHANGED <<flags, table, local>>

\* Faulty: the entry is not marked.
MarkForgotten(c) == At(c, "marking") /\ Move(c, "reading")

\* ... and the entry is marked, if it is still there.
MarkStarted(c) ==
    /\ At(c, "marking")
    /\ started' = started \cup ({c} \cap active)
    /\ Goto(c, "reading")
    /\ UNCHANGED <<flags, active, aborted, local, trail>>

\* Faulty: the retirement is not looked at.
CompletedUnwatched(c) ==
    /\ At(c, "completing")
    /\ ~brokerStop /\ c \in active
    /\ Log(c, {"completed"})
    /\ Drop(c)
    /\ aborted' = FALSE
    /\ owns' = [owns EXCEPT ![c] = FALSE]
    /\ Goto(c, "reading")
    /\ UNCHANGED <<flags, msg, then>>

\* ReportCompleted: command_completed is on record and the entry removed.  The
\* handler forgets the command and looks at the retirement.
ReportCompleted(c) ==
    /\ At(c, "completing")
    /\ ~brokerStop /\ c \in active
    /\ Log(c, {"completed"})
    /\ Drop(c)
    /\ aborted' = FALSE
    /\ owns' = [owns EXCEPT ![c] = FALSE]
    /\ then' = [then EXCEPT ![c] = "reading"]
    /\ Goto(c, "retiring")
    /\ UNCHANGED <<flags, msg>>

\* The broker has stopped, does not know the command, or cannot record it: the
\* client gets an error and the command is what it was.
ReportRefused(c) == pc[c] \in {"starting", "completing"} /\ Move(c, "reading")

-----------------------------------------------------------------------------
(***************************************************************************)
(* Retirement and stop.                                                    *)
(***************************************************************************)
ReplaceExecutable ==
    /\ ~replaced
    /\ replaced' = TRUE
    /\ UNCHANGED <<retire, brokerStop, serverStop, table, pc, local, trail>>

SelfCheckPasses(c) ==
    /\ At(c, "selfcheck")
    /\ serverStop \/ ~replaced
    /\ Move(c, "gate")

\* retireIfExecutableChanged marks the daemon first ...
SelfCheckFails(c) ==
    /\ At(c, "selfcheck")
    /\ ~serverStop /\ replaced
    /\ retire' = TRUE
    /\ Goto(c, "count")
    /\ UNCHANGED <<replaced, brokerStop, serverStop, table, local, trail>>

\* ... and counts the active commands then.  Either way the connection is closed,
\* a command of its own or not.
CountActive(c) ==
    /\ At(c, "count")
    /\ then' = [then EXCEPT ![c] = "closed"]
    /\ Goto(c, IF active = {} THEN "stopping" ELSE "closed")
    /\ UNCHANGED <<flags, table, msg, owns, trail>>

\* stopIfRetiredAndIdle reads the mark ...
CheckRetired(c) ==
    /\ At(c, "retiring")
    /\ Move(c, IF retire THEN "counting" ELSE then[c])

\* ... and then counts.
CountIdle(c) ==
    /\ At(c, "counting")
    /\ Move(c, IF serverStop \/ active # {} THEN then[c] ELSE "stopping")

\* stopWithAudit, from daemon.stop or a retirement: StopWithAuditEvent closes the
\* broker's channel and empties the active map; the server's channel is next.
StopBroker(c) ==
    /\ At(c, "stopping")
    /\ brokerStop' = TRUE
    /\ Goto(c, "clearing")
    /\ UNCHANGED <<replaced, retire, serverStop, table, local, trail>>

ClearActive(c) ==
    /\ At(c, "clearing")
    /\ active' = {}
    /\ started' = {}
    /\ Goto(c, "closing")
    /\ UNCHANGED <<flags, aborted, local, trail>>

StopServer(c) ==
    /\ At(c, "closing")
    /\ serverStop' = TRUE
    /\ Goto(c, then[c])
    /\ UNCHANGED <<replaced, retire, brokerStop, table, local, trail>>

\* What a handler does by itself; it waits for messages.
HandlerStep(c) ==
    \/ ClientDisconnected(c) \/ Stopped(c) \/ Dispatch(c)
    \/ Activate(c) \/ PrepareFails(c) \/ WritePayload(c) \/ AbortBeforePayload(c)
    \/ ReportStarted(c) \/ MarkStarted(c) \/ ReportCompleted(c) \/ ReportRefused(c)
    \/ SelfCheckPasses(c) \/ SelfCheckFails(c) \/ CountActive(c)
    \/ CheckRetired(c) \/ CountIdle(c)
    \/ StopBroker(c) \/ ClearActive(c) \/ StopServer(c)

Next ==
    \/ \E c \in Conns : \/ Accept(c) \/ ReadFails(c) \/ HandlerStep(c)
                        \/ \E m \in Messages : Read(c, m)
    \/ ReplaceExecutable

Spec == Init /\ [][Next]_vars

\* Handlers are scheduled, and a preparation or a write ends by its deadline;
\* clients do as they please.
Fairness == \A c \in Conns : WF_vars(HandlerStep(c))

FairSpec == Spec /\ Fairness

-----------------------------------------------------------------------------
(***************************************************************************)
(* Properties.                                                             *)
(***************************************************************************)
\* The handler of c will yet take c's entry out of the active map.
Tends(c) ==
    \/ At(c, "write")
    \/ owns[c] /\ pc[c] # "closed"

\* Every active command is some handler's, which removes it when the command is
\* reported, its client leaves or its payload cannot be written: no entry is
\* left behind to keep a retired daemon alive.
ActiveIsOwned == \A c \in active : Tends(c)

\* A delivered command is accounted for when its connection is closed, unless the
\* daemon stopped: exactly one of completed, lost after payload and lost after
\* start, the last just if its start was recorded (ReportStarted, ReportCompleted
\* and ClientDisconnected each record and change the entry in separate steps).
TrailIsClosed ==
    \A c \in Conns : At(c, "closed") /\ ~brokerStop /\ trail[c] # {} =>
        /\ Cardinality(trail[c] \cap Terminal) = 1
        /\ "lost_after_start" \in trail[c] => "started" \in trail[c]
        /\ "lost_after_payload" \in trail[c] => "started" \notin trail[c]

\* Once the server's channel is closed the broker holds no command, though several
\* handlers may be stopping it and others activating commands.
StoppedHasNoCommand == serverStop => brokerStop /\ active = {}

\* The handler may still stop a retired daemon it finds idle.
Watches(c) == pc[c] \in {"count", "retiring", "counting", "stopping", "clearing", "closing"}

\* A daemon marked for retirement is not left idle by the end of a command: some
\* handler is about to stop it.  Marking before counting, and removing before
\* looking at the mark, leaves no gap; only an aborted delivery does.
RetiredIsWatched ==
    retire /\ active = {} /\ ~serverStop /\ ~aborted => \E c \in Conns : Watches(c)
=============================================================================
