--------------------------- MODULE DaemonLifecycle ---------------------------
(***************************************************************************)
(* How commands find, replace and start the daemon                         *)
(* (internal/daemon/control/manager.go, internal/daemon/socket/socket.go): *)
(* every command repairs, or stops the daemon by hand, and all share one   *)
(* socket path with the daemons they start and stop.                       *)
(*                                                                         *)
(* A step is one look at the socket path, one connection, one answer on a  *)
(* connection, or one change of the path or of a process.  Every daemon is *)
(* one a manager trusts; it is of the current build or an older one, and   *)
(* has no active commands.                                                 *)
(***************************************************************************)
EXTENDS Naturals

CONSTANTS Managers,    \* commands, each of which repairs or stops once
          Daemons,     \* daemon processes
          Former,      \* the daemon that was there before the commands
          NoDaemon, NotAsked

ASSUME LifecycleAssumption ==
    Former \in Daemons /\ NoDaemon \notin Daemons /\ NotAsked \notin Daemons \cup {NoDaemon}

VARIABLES
    sock,     \* the daemon that bound the socket file, NoDaemon if there is no file
    life,     \* where each daemon is
    pc,       \* where each manager is
    conn,     \* the daemon it is connected to; NoDaemon if the dial failed
    path,     \* what it does: "start", "refresh" of another, "retry" of a start, "stop"
    second,   \* managers in their second repairOnce
    left      \* how the commands found the former daemon

vars == <<sock, life, pc, conn, path, second, left>>

Starting == {"lstat", "dial", "unlink", "bind", "listen", "chmod", "abort"}
Dead     == {"gone", "aborted"}
Lives    == Starting \cup Dead \cup {"none", "listening", "stopping", "closed"}

Asking  == {"inspect", "stop", "signal", "drain", "status", "wait", "ready", "confirm",
             "halt", "halting"}
Looking == {"lstat", "dial", "unlink", "remove", "spawn", "settle", "quit"}

\* Types; and a manager closes the connection of a question it has answered (the
\* deferred Close of inspectCurrentHelper and its like).
TypeOK ==
    /\ sock \in Daemons \cup {NoDaemon}
    /\ life \in [Daemons -> Lives]
    /\ pc \in [Managers -> {"idle", "ok", "failed"} \cup Asking \cup Looking]
    /\ conn \in [Managers -> Daemons \cup {NoDaemon, NotAsked}]
    /\ path \in [Managers -> {"start", "retry", "refresh", "stop"}]
    /\ second \in SUBSET Managers
    /\ left \in {"nothing", "starting", "older", "crashed"}
    /\ \A m \in Managers : pc[m] \notin Asking => conn[m] = NotAsked

\* There is no daemon, one that another command has just started, one of an older
\* build, or the socket of one that crashed.
Init ==
    /\ left \in {"nothing", "starting", "older", "crashed"}
    /\ life = [d \in Daemons |->
                 IF d # Former THEN "none"
                 ELSE CASE left = "nothing"  -> "none"
                        [] left = "starting" -> "bind"
                        [] left = "older"    -> "listening"
                        [] left = "crashed"  -> "gone"]
    /\ sock = IF left \in {"older", "crashed"} THEN Former ELSE NoDaemon
    /\ pc = [m \in Managers |-> "idle"]
    /\ conn = [m \in Managers |-> NotAsked]
    /\ path = [m \in Managers |-> "start"]
    /\ second = {}

Older(d) == d = Former /\ left = "older"

\* A dial of the path succeeds.
Reachable == sock # NoDaemon /\ life[sock] \in {"chmod", "abort", "listening", "stopping"}

Become(d, l) == life' = [life EXCEPT ![d] = l]

-----------------------------------------------------------------------------
(***************************************************************************)
(* A daemon: ListenUnix, and the end of ListenAndServe.                    *)
(***************************************************************************)
DaemonLooks(d) ==
    /\ life[d] = "lstat"
    /\ Become(d, IF sock = NoDaemon THEN "bind" ELSE "dial")
    /\ UNCHANGED <<sock, pc, conn, path, second, left>>

\* Faulty: a daemon that may not listen removes the path as it leaves.
DaemonDialsAndRemoves(d) ==
    /\ life[d] = "dial"
    /\ IF Reachable THEN Become(d, "gone") /\ sock' = NoDaemon
                    ELSE Become(d, "unlink") /\ UNCHANGED sock
    /\ UNCHANGED <<pc, conn, path, second, left>>

\* CleanupStale refuses to remove the socket of a live daemon.
DaemonDials(d) ==
    /\ life[d] = "dial"
    /\ Become(d, IF Reachable THEN "gone" ELSE "unlink")
    /\ UNCHANGED <<sock, pc, conn, path, second, left>>

DaemonUnlinks(d) ==
    /\ life[d] = "unlink"
    /\ Become(d, IF sock = NoDaemon THEN "gone" ELSE "bind")
    /\ sock' = NoDaemon
    /\ UNCHANGED <<pc, conn, path, second, left>>

DaemonBinds(d) ==
    /\ life[d] = "bind"
    /\ IF sock = NoDaemon THEN Become(d, "listen") /\ sock' = d
                          ELSE Become(d, "gone") /\ UNCHANGED sock
    /\ UNCHANGED <<pc, conn, path, second, left>>

\* listen(2): dials are accepted from now on, and answered once it serves.
DaemonListens(d) ==
    /\ life[d] = "listen"
    /\ Become(d, "chmod")
    /\ UNCHANGED <<sock, pc, conn, path, second, left>>

\* Whatever is at the path is secured, and it is an error if nothing is.
DaemonSecures(d) ==
    /\ life[d] = "chmod"
    /\ Become(d, IF sock = NoDaemon THEN "abort" ELSE "listening")
    /\ UNCHANGED <<sock, pc, conn, path, second, left>>

\* The listener of one that could not removes the path as it closes, by then maybe that of
\* another.
DaemonAborts(d) ==
    /\ life[d] = "abort"
    /\ Become(d, IF sock = NoDaemon THEN "gone" ELSE "aborted")
    /\ sock' = NoDaemon
    /\ UNCHANGED <<pc, conn, path, second, left>>

\* A stopped daemon's listener removes the path as it closes ...
DaemonCloses(d) ==
    /\ life[d] = "stopping"
    /\ Become(d, "closed")
    /\ sock' = NoDaemon
    /\ UNCHANGED <<pc, conn, path, second, left>>

\* ... and ListenAndServe removes it once more.
DaemonExits(d) ==
    /\ life[d] = "closed"
    /\ Become(d, "gone")
    /\ sock' = NoDaemon
    /\ UNCHANGED <<pc, conn, path, second, left>>

DaemonStep(d) ==
    \/ DaemonLooks(d) \/ DaemonDials(d) \/ DaemonUnlinks(d) \/ DaemonBinds(d)
    \/ DaemonListens(d) \/ DaemonSecures(d) \/ DaemonAborts(d)
    \/ DaemonCloses(d) \/ DaemonExits(d)

-----------------------------------------------------------------------------
(***************************************************************************)
(* A manager's questions.                                                  *)
(***************************************************************************)
Connect(m) ==
    /\ pc[m] \in Asking /\ conn[m] = NotAsked
    /\ conn' = [conn EXCEPT ![m] = IF Reachable THEN sock ELSE NoDaemon]
    /\ UNCHANGED <<sock, life, pc, path, second, left>>

\* What a hello, a status or the inspection of the peer gives on the connection:
\* "hangup" is the end of the stream, "exited" a peer that is no process any more.  One
\* that is not serving yet leaves the connection waiting.
Answers(m) ==
    IF conn[m] = NoDaemon THEN {"absent"}
    ELSE CASE life[conn[m]] \in Starting   -> {}
           [] life[conn[m]] = "listening" -> {IF Older(conn[m]) THEN "mismatch" ELSE "matches"}
           [] life[conn[m]] = "stopping"  -> {"retiring"}
           [] life[conn[m]] = "closed"    -> {"retiring", "hangup"}
           [] OTHER                       -> {"hangup", "exited"}

\* isUnavailableDaemonStatusError; peerProcessGoneError is "exited".
Unavailable == {"absent", "hangup"}

Asked(m, p) == pc[m] = p /\ conn[m] # NotAsked

Goto(m, p) ==
    /\ pc' = [pc EXCEPT ![m] = p]
    /\ conn' = [conn EXCEPT ![m] = NotAsked]

\* Faulty: no second attempt.
MissingFails(m) == Goto(m, "failed")

\* The error is one Repair and startCurrentWithStatusRetry answer with another
\* attempt, once the socket has gone away ...
Missing(m) == Goto(m, IF path[m] = "start" \/ m \notin second THEN "settle" ELSE "failed")

\* ... or one they return.
Fail(m) == Goto(m, "failed")

-----------------------------------------------------------------------------
(***************************************************************************)
(* repairOnce.                                                             *)
(***************************************************************************)
Repair(m) ==
    /\ pc[m] = "idle"
    /\ Goto(m, "inspect")
    /\ UNCHANGED <<sock, life, path, second, left>>

\* Faulty: whatever cannot be used is replaced.
InspectReplaces(m) ==
    /\ Asked(m, "inspect")
    /\ \E a \in Answers(m) :
           /\ Goto(m, CASE a = "matches"  -> "ok"
                        [] a = "retiring" -> "drain"
                        [] OTHER          -> "stop")
           /\ path' = [path EXCEPT ![m] = "refresh"]
    /\ UNCHANGED <<sock, life, second, left>>

Inspect(m) ==
    /\ Asked(m, "inspect")
    /\ \E a \in Answers(m) :
           /\ Goto(m, CASE a = "matches"  -> "ok"
                        [] a = "mismatch" -> "stop"
                        [] a = "retiring" -> "drain"
                        [] OTHER          -> "status")
           /\ path' = [path EXCEPT ![m] = IF a \in {"mismatch", "retiring"} THEN "refresh" ELSE "start"]
    /\ UNCHANGED <<sock, life, second, left>>

\* stopTrustedHelper, on a connection of its own: whoever answers is asked to stop
\* (a daemon of another build may not trust the client: it is signalled).
StopHelper(m) ==
    /\ Asked(m, "stop")
    /\ \E a \in Answers(m) :
           IF a \in {"matches", "mismatch"}
           THEN \/ Become(conn[m], "stopping") /\ Goto(m, "drain")
                \/ a = "mismatch" /\ Goto(m, "signal") /\ UNCHANGED life
           ELSE /\ CASE a = "absent"   -> Goto(m, "status")
                     [] a = "retiring" -> Fail(m)
                     [] OTHER          -> Missing(m)
                /\ UNCHANGED life
    /\ UNCHANGED <<sock, path, second, left>>

\* signalTrustedHelper: SIGTERM ends the process and leaves its socket.
SignalHelper(m) ==
    /\ Asked(m, "signal")
    /\ IF conn[m] # NoDaemon /\ life[conn[m]] \notin Dead
       THEN Become(conn[m], "gone") /\ Goto(m, "drain")
       ELSE Goto(m, "status") /\ UNCHANGED life
    /\ UNCHANGED <<sock, path, second, left>>

\* waitUntilTrustedHelperUnavailable polls.
Drain(m) ==
    /\ Asked(m, "drain")
    /\ \E a \in Answers(m) :
           \/ a \in Unavailable /\ Goto(m, "status")
           \/ a = "exited" /\ Missing(m)
           \/ a \in {"retiring", "matches", "mismatch"} /\ Goto(m, "drain")
    /\ UNCHANGED <<sock, life, path, second, left>>

-----------------------------------------------------------------------------
(***************************************************************************)
(* startCurrent, and the inspection that follows it.                       *)
(***************************************************************************)
StatusBeforeStart(m) ==
    /\ Asked(m, "status")
    /\ \E a \in Answers(m) :
           CASE a = "matches"  -> Goto(m, "confirm")
             [] a = "mismatch" -> Fail(m)
             [] a = "retiring" -> Goto(m, "wait")
             [] a = "exited"   -> Goto(m, "remove")
             [] a \in Unavailable -> Goto(m, "lstat")
    /\ UNCHANGED <<sock, life, path, second, left>>

WaitUnavailable(m) ==
    /\ Asked(m, "wait")
    /\ \E a \in Answers(m) :
           \/ a \in Unavailable /\ Goto(m, "lstat")
           \/ a = "exited" /\ Missing(m)
           \/ a \in {"retiring", "matches", "mismatch"} /\ Goto(m, "wait")
    /\ UNCHANGED <<sock, life, path, second, left>>

\* The path of a peer that has exited is removed without another look.
RemoveSocket(m) ==
    /\ pc[m] = "remove"
    /\ sock' = NoDaemon
    /\ Goto(m, "spawn")
    /\ UNCHANGED <<life, path, second, left>>

\* CleanupStale: lstat, dial, remove.
Lstat(m) ==
    /\ pc[m] = "lstat"
    /\ Goto(m, IF sock = NoDaemon THEN "spawn" ELSE "dial")
    /\ UNCHANGED <<sock, life, path, second, left>>

DialStale(m) ==
    /\ pc[m] = "dial"
    /\ IF Reachable THEN Fail(m) ELSE Goto(m, "unlink")
    /\ UNCHANGED <<sock, life, path, second, left>>

UnlinkStale(m) ==
    /\ pc[m] = "unlink"
    /\ IF sock = NoDaemon THEN Fail(m) ELSE Goto(m, "spawn")
    /\ sock' = NoDaemon
    /\ UNCHANGED <<life, path, second, left>>

\* The number of daemons is a bound: beyond it nothing is started.
Unborn == {d \in Daemons \ {Former} : life[d] = "none"}

Spawn(m) ==
    /\ pc[m] = "spawn"
    /\ \E d \in Unborn : Become(d, "lstat")
    /\ Goto(m, "ready")
    /\ UNCHANGED <<sock, path, second, left>>

\* waitUntilReady polls.
WaitReady(m) ==
    /\ Asked(m, "ready")
    /\ \E a \in Answers(m) :
           \/ a = "matches" /\ Goto(m, "confirm")
           \/ a \in {"mismatch", "retiring"} /\ Fail(m)
           \/ a = "hangup" /\ Missing(m)
           \/ a \in {"absent", "exited"} /\ Goto(m, "ready")
    /\ UNCHANGED <<sock, life, path, second, left>>

Confirm(m) ==
    /\ Asked(m, "confirm")
    /\ \E a \in Answers(m) :
           CASE a = "matches" -> Goto(m, "ok")
             [] a \in {"mismatch", "retiring"} -> Fail(m)
             [] OTHER -> Missing(m)
    /\ UNCHANGED <<sock, life, path, second, left>>

\* Repair and startCurrentWithStatusRetry wait until nobody listens, and try once
\* more.
Settle(m) ==
    /\ pc[m] = "settle" /\ ~Reachable
    /\ IF path[m] = "start"
       THEN Goto(m, "status") /\ path' = [path EXCEPT ![m] = "retry"] /\ UNCHANGED second
       ELSE Goto(m, "inspect") /\ second' = second \cup {m} /\ UNCHANGED path
    /\ UNCHANGED <<sock, life, left>>

-----------------------------------------------------------------------------
(***************************************************************************)
(* agent-secret daemon stop.                                               *)
(***************************************************************************)
StopByHand(m) ==
    /\ pc[m] = "idle"
    /\ Goto(m, "halt")
    /\ path' = [path EXCEPT ![m] = "stop"]
    /\ UNCHANGED <<sock, life, second, left>>

\* A daemon of an older build may not trust the client.
Halt(m) ==
    /\ Asked(m, "halt")
    /\ \E a \in Answers(m) :
           \/ a \in {"matches", "mismatch"} /\ Become(conn[m], "stopping") /\ Goto(m, "halting")
           \/ a # "matches" /\ Fail(m) /\ UNCHANGED life
    /\ UNCHANGED <<sock, path, second, left>>

WaitHalted(m) ==
    /\ Asked(m, "halting")
    /\ \E a \in Answers(m) :
           \/ a \in Unavailable /\ Goto(m, "ok")
           \/ a \in {"retiring", "matches"} /\ Goto(m, "halting")
           \/ a \in {"exited", "mismatch"} /\ Fail(m)
    /\ UNCHANGED <<sock, life, path, second, left>>

-----------------------------------------------------------------------------
\* Faulty: the wait before the second attempt has no timeout.
WaitTimesOutOnce(m) ==
    /\ pc[m] \in {"drain", "wait", "halting"}
    /\ Reachable /\ life[sock] = "listening"
    /\ Fail(m)
    /\ UNCHANGED <<sock, life, path, second, left>>

\* The waits have a timeout.  It is long enough for a daemon to start or to stop: it
\* comes when the one waited for is not on its way.
WaitTimesOut(m) ==
    /\ pc[m] \in {"drain", "wait", "settle", "halting"}
    /\ Reachable /\ life[sock] = "listening"
    /\ Fail(m)
    /\ UNCHANGED <<sock, life, path, second, left>>

ReadyTimesOut(m) ==
    /\ pc[m] = "ready"
    /\ ~Reachable /\ \A d \in Daemons : life[d] \notin Starting
    /\ Missing(m)
    /\ UNCHANGED <<sock, life, path, second, left>>

ManagerStep(m) ==
    \/ Connect(m) \/ Inspect(m) \/ StopHelper(m) \/ SignalHelper(m) \/ Drain(m)
    \/ StatusBeforeStart(m) \/ WaitUnavailable(m) \/ RemoveSocket(m)
    \/ Lstat(m) \/ DialStale(m) \/ UnlinkStale(m) \/ Spawn(m) \/ WaitReady(m)
    \/ Confirm(m) \/ Settle(m) \/ Halt(m) \/ WaitHalted(m) \/ WaitTimesOut(m) \/ ReadyTimesOut(m)

Next ==
    \/ \E m \in Managers : Repair(m) \/ StopByHand(m) \/ ManagerStep(m)
    \/ \E d \in Daemons : DaemonStep(d)

Spec == Init /\ [][Next]_vars

\* Processes are scheduled.
Fairness ==
    /\ \A m \in Managers : WF_vars(ManagerStep(m)) /\ WF_vars(WaitTimesOut(m) \/ ReadyTimesOut(m))
    /\ \A d \in Daemons : WF_vars(DaemonStep(d))

FairSpec == Spec /\ Fairness

-----------------------------------------------------------------------------
(***************************************************************************)
(* Properties.                                                             *)
(***************************************************************************)
Idle(m)     == pc[m] = "idle"
Returned(m) == pc[m] \in {"ok", "failed"}

\* No daemon is on its way, in or out.
Settled == \A d \in Daemons : life[d] \in Dead \cup {"none", "listening"}

NobodyStops == \A m \in Managers : path[m] # "stop"

\* The command is about to start one more than the bound allows.
AtBound(m) == pc[m] = "spawn" /\ Unborn = {}

\* A repair that is alone succeeds, whatever it finds, and two starts are enough: an
\* older daemon's double removal of the path (server.go:204-205) can take the successor's
\* socket away, even before it is secured, and the two retries of Repair make up for it.
\* (One that meets a daemon just coming up may be refused by CleanupStale.)
LoneRepairSucceeds ==
    \A m \in Managers :
        /\ left # "starting" /\ path[m] # "stop"
        /\ \A n \in Managers \ {m} : Idle(n)
        => pc[m] # "failed" /\ ~AtBound(m)

\* Where no daemon of an older build was listening, commands that race to start one
\* never stop each other's (repairOnce starts, it does not refresh).  With an older
\* one they may: the slower of two repairs asks whoever answers by then to stop.
StartKeepsDaemons ==
    left # "older" /\ NobodyStops =>
        \A d \in Daemons : ~Older(d) => life[d] \notin {"stopping", "closed"}

\* Where no older daemon was listening, once the repairs have returned and the daemons
\* they started have come up or given up, a command finds one that serves, although the
\* path of a crashed daemon, or of one that does not listen yet, may be removed under a
\* new one.  The one exception is a daemon whose path was removed before it could secure
\* it: as it gives up it may remove the path of its successor (socket.go:40-43).
ColdStartServes ==
    /\ left # "older" /\ NobodyStops
    /\ \A m \in Managers : Idle(m) \/ Returned(m)
    /\ \E m \in Managers : Returned(m)
    /\ Settled /\ \A d \in Daemons : life[d] # "aborted"
    => Reachable

\* A command ends: its polls find what they wait for or time out, and its retries are
\* counted (Repair and startCurrentWithStatusRetry, one each).
CommandsReturn == \A m \in Managers : pc[m] # "idle" ~> Returned(m) \/ AtBound(m)
=============================================================================
