----------------------- MODULE DaemonLifecycle_proofs -----------------------
(***************************************************************************)
(* What any number of commands and daemons make of one socket path: proofs *)
(* about DaemonLifecycle.                                                  *)
(*                                                                         *)
(* Two invariants, one for each of two situations.  The commands begin in  *)
(* a situation or not, and once they have left it they are never in it     *)
(* again: each invariant is about the steps that stay.                     *)
(*                                                                         *)
(* Cold: there was no older daemon, and nobody was told to stop one.  Then *)
(* every daemon that answers a command is current and stays, so nobody     *)
(* stops anything (GentleInv); and whoever takes the path away is about to *)
(* start a daemon, so it is not away for good, unless it is a daemon that  *)
(* gives up its own and takes another's (PathInv).                         *)
(*                                                                         *)
(* Lone: all other commands have yet to begin.  The command is looking at  *)
(* the former daemon (Before), has started one that nobody can disturb but *)
(* a former one that is about to leave (Coming), or has seen its path go   *)
(* with that one and has an attempt left (Lost).                           *)
(***************************************************************************)
EXTENDS DaemonLifecycle, TLAPS

-----------------------------------------------------------------------------
(***************************************************************************)
(* Types.                                                                  *)
(***************************************************************************)
Places == {"idle", "ok", "failed"} \cup Asking \cup Looking

\* Going on, a manager closes its connection.
LEMMA GotoType ==
    ASSUME TypeOK, NEW m \in Managers, NEW p \in Places, Goto(m, p)
    PROVE  /\ pc' \in [Managers -> Places]
           /\ conn' \in [Managers -> Daemons \cup {NoDaemon, NotAsked}]
           /\ \A n \in Managers : pc'[n] \notin Asking => conn'[n] = NotAsked
           /\ pc'[m] = p /\ conn'[m] = NotAsked
           /\ \A n \in Managers \ {m} : pc'[n] = pc[n] /\ conn'[n] = conn[n]
  BY DEF Goto, TypeOK, Places

LEMMA BecomeType ==
    ASSUME TypeOK, NEW d \in Daemons, NEW l \in Lives, Become(d, l)
    PROVE  /\ life' \in [Daemons -> Lives] /\ life'[d] = l
           /\ \A e \in Daemons \ {d} : life'[e] = life[e]
  BY DEF Become, TypeOK

\* A daemon that gives one of these answers is connected.
LEMMA AnswerFrom ==
    ASSUME TypeOK, NEW m \in Managers, conn[m] # NotAsked,
           NEW a \in Answers(m), a \in {"matches", "mismatch", "retiring", "exited", "hangup"}
    PROVE  conn[m] \in Daemons
  BY DEF Answers, TypeOK

Steps(m) == Repair(m) \/ StopByHand(m) \/ ManagerStep(m)

\* A daemon's step, from its own side.
DaemonMove(d, l) ==
    \/ life[d] = "lstat" /\ l = (IF sock = NoDaemon THEN "bind" ELSE "dial") /\ sock' = sock
    \/ life[d] = "dial" /\ l \in {"gone", "unlink"} /\ sock' = sock
    \/ life[d] = "unlink" /\ l = (IF sock = NoDaemon THEN "gone" ELSE "bind") /\ sock' = NoDaemon
    \/ life[d] = "bind" /\ sock = NoDaemon /\ l = "listen" /\ sock' = d
    \/ life[d] = "bind" /\ sock # NoDaemon /\ l = "gone" /\ sock' = sock
    \/ life[d] = "listen" /\ l = "chmod" /\ sock' = sock
    \/ life[d] = "chmod" /\ l = (IF sock = NoDaemon THEN "abort" ELSE "listening") /\ sock' = sock
    \/ life[d] = "abort" /\ l = (IF sock = NoDaemon THEN "gone" ELSE "aborted") /\ sock' = NoDaemon
    \/ life[d] = "stopping" /\ l = "closed" /\ sock' = NoDaemon
    \/ life[d] = "closed" /\ l = "gone" /\ sock' = NoDaemon

LEMMA DaemonMoves ==
    ASSUME NEW d \in Daemons, DaemonStep(d)
    PROVE  /\ \E l \in Lives : Become(d, l) /\ DaemonMove(d, l)
           /\ UNCHANGED <<pc, conn, path, second, left>>
  BY DEF DaemonStep, DaemonLooks, DaemonDials, DaemonUnlinks, DaemonBinds, DaemonListens, DaemonSecures,
     DaemonAborts, DaemonCloses, DaemonExits, DaemonMove, Lives, Starting, Dead

\* A question that is answered: where the manager goes.
LEMMA Questions ==
    ASSUME NEW m \in Managers,
           \/ Inspect(m) \/ Drain(m) \/ StatusBeforeStart(m) \/ WaitUnavailable(m) \/ WaitReady(m)
           \/ Confirm(m) \/ WaitHalted(m)
    PROVE  /\ conn[m] # NotAsked /\ UNCHANGED <<sock, life, second, left>>
           /\ \E p \in Places \ {"idle", "signal", "halt"} : Goto(m, p)
           /\ \/ path' = path
              \/ \E w \in {"start", "refresh"} : pc[m] = "inspect" /\ path' = [path EXCEPT ![m] = w]
  <1>1. CASE Inspect(m)
    <2>1. PICK a \in Answers(m) :
            /\ Goto(m, CASE a = "matches"  -> "ok"
                         [] a = "mismatch" -> "stop"
                         [] a = "retiring" -> "drain"
                         [] OTHER          -> "status")
            /\ path' = [path EXCEPT ![m] = IF a \in {"mismatch", "retiring"} THEN "refresh" ELSE "start"]
      BY <1>1 DEF Inspect
    <2>2. \E p \in Places \ {"idle", "signal", "halt"} : Goto(m, p)
      BY <2>1 DEF Places, Asking
    <2>3. \E w \in {"start", "refresh"} : path' = [path EXCEPT ![m] = w]
      BY <2>1
    <2>4. QED
      BY <1>1, <2>2, <2>3 DEF Inspect, Asked
  <1>2. CASE Drain(m) \/ WaitUnavailable(m)
    BY <1>2 DEF Drain, WaitUnavailable, Asked, Missing, Places, Asking, Looking
  <1>3. CASE StatusBeforeStart(m)
    <2>1. \E p \in {"confirm", "failed", "wait", "remove", "lstat"} : Goto(m, p)
      <3>1. PICK a \in Answers(m) :
              CASE a = "matches"  -> Goto(m, "confirm")
                [] a = "mismatch" -> Fail(m)
                [] a = "retiring" -> Goto(m, "wait")
                [] a = "exited"   -> Goto(m, "remove")
                [] a \in Unavailable -> Goto(m, "lstat")
        BY <1>3 DEF StatusBeforeStart
      <3>2. a \in {"matches", "mismatch", "retiring", "exited"} \cup Unavailable
        BY DEF Answers, Unavailable
      <3>3. QED
        BY <3>1, <3>2 DEF Fail, Unavailable
    <2>2. QED
      BY <1>3, <2>1 DEF StatusBeforeStart, Asked, Places, Asking, Looking
  <1>4. CASE WaitReady(m)
    BY <1>4 DEF WaitReady, Asked, Missing, Fail, Places, Asking, Looking
  <1>5. CASE Confirm(m)
    <2>1. \E p \in {"ok", "failed", "settle"} : Goto(m, p)
      BY <1>5 DEF Confirm, Missing, Fail
    <2>2. QED
      BY <1>5, <2>1 DEF Confirm, Asked, Places, Looking
  <1>6. CASE WaitHalted(m)
    BY <1>6 DEF WaitHalted, Asked, Fail, Places, Asking
  <1>7. QED
    BY <1>1, <1>2, <1>3, <1>4, <1>5, <1>6

LEMMA TypeKept == TypeOK /\ [Next]_vars => TypeOK'
  <1> SUFFICES ASSUME TypeOK, [Next]_vars PROVE TypeOK'
    OBVIOUS
  <1>0. "ok" \in Places /\ "failed" \in Places /\ "settle" \in Places /\ "drain" \in Places
        /\ "status" \in Places /\ "signal" \in Places /\ "halt" \in Places /\ "halting" \in Places
        /\ "inspect" \in Places /\ "spawn" \in Places /\ "dial" \in Places /\ "unlink" \in Places
        /\ "ready" \in Places
    BY DEF Places, Asking, Looking
  <1>1. ASSUME NEW m \in Managers, NEW p \in Places, Goto(m, p), left' = left,
               sock' \in {sock, NoDaemon},
               life' = life \/ \E d \in Daemons, l \in Lives : Become(d, l),
               second' = second \/ second' = second \cup {m},
               path' = path \/ \E w \in {"start", "refresh", "retry", "stop"} : path' = [path EXCEPT ![m] = w]
        PROVE  TypeOK'
    <2>1. life' \in [Daemons -> Lives]
      BY <1>1, BecomeType DEF TypeOK
    <2>2. path' \in [Managers -> {"start", "retry", "refresh", "stop"}]
      BY <1>1 DEF TypeOK
    <2>3. QED
      BY <1>1, <2>1, <2>2, GotoType DEF TypeOK, Places
  <1>2. ASSUME NEW m \in Managers, Connect(m) PROVE TypeOK'
    BY <1>2 DEF Connect, TypeOK
  <1>3. ASSUME NEW m \in Managers,
               \/ Inspect(m) \/ Drain(m) \/ StatusBeforeStart(m) \/ WaitUnavailable(m) \/ WaitReady(m)
               \/ Confirm(m) \/ WaitHalted(m)
        PROVE  TypeOK'
    BY <1>1, <1>3, Questions
  <1>4. ASSUME NEW m \in Managers, StopHelper(m) PROVE TypeOK'
    <2>1. PICK a \in Answers(m) :
           IF a \in {"matches", "mismatch"}
           THEN \/ Become(conn[m], "stopping") /\ Goto(m, "drain")
                \/ a = "mismatch" /\ Goto(m, "signal") /\ UNCHANGED life
           ELSE /\ CASE a = "absent"   -> Goto(m, "status")
                     [] a = "retiring" -> Fail(m)
                     [] OTHER          -> Missing(m)
                /\ UNCHANGED life
      BY <1>4 DEF StopHelper
    <2>2. conn[m] # NotAsked /\ UNCHANGED <<sock, path, second, left>>
      BY <1>4 DEF StopHelper, Asked
    <2>3. \E p \in Places : Goto(m, p)
      BY <1>0, <2>1 DEF Fail, Missing
    <2>4. life' = life \/ \E d \in Daemons, l \in Lives : Become(d, l)
      BY <2>1, <2>2, AnswerFrom DEF Lives
    <2>5. QED
      BY <1>1, <2>2, <2>3, <2>4
  <1>5. ASSUME NEW m \in Managers, SignalHelper(m) PROVE TypeOK'
    <2>1. life' = life \/ \E d \in Daemons, l \in Lives : Become(d, l)
      BY <1>5 DEF SignalHelper, Asked, TypeOK, Lives, Dead
    <2>2. QED
      BY <1>0, <1>1, <1>5, <2>1 DEF SignalHelper
  <1>6. ASSUME NEW m \in Managers, Halt(m) PROVE TypeOK'
    <2>1. life' = life \/ \E d \in Daemons, l \in Lives : Become(d, l)
      BY <1>6, AnswerFrom DEF Halt, Asked, Lives
    <2>2. QED
      BY <1>0, <1>1, <1>6, <2>1 DEF Halt, Fail
  <1>7. ASSUME NEW m \in Managers, Spawn(m) PROVE TypeOK'
    <2>1. life' = life \/ \E d \in Daemons, l \in Lives : Become(d, l)
      BY <1>7 DEF Spawn, Unborn, Lives, Starting
    <2>2. QED
      BY <1>0, <1>1, <1>7, <2>1 DEF Spawn, Fail
  <1>8. ASSUME NEW m \in Managers,
               \/ Repair(m) \/ RemoveSocket(m) \/ Lstat(m) \/ DialStale(m) \/ UnlinkStale(m)
               \/ WaitTimesOut(m) \/ ReadyTimesOut(m)
        PROVE  TypeOK'
    <2>1. \E p \in Places : Goto(m, p)
      BY <1>0, <1>8 DEF Repair, RemoveSocket, Lstat, DialStale, UnlinkStale, WaitTimesOut, ReadyTimesOut,
         Fail, Missing
    <2>2. UNCHANGED <<life, path, second, left>> /\ sock' \in {sock, NoDaemon}
      BY <1>8 DEF Repair, RemoveSocket, Lstat, DialStale, UnlinkStale, WaitTimesOut, ReadyTimesOut
    <2>3. QED
      BY <1>1, <2>1, <2>2
  <1>9. ASSUME NEW m \in Managers, Settle(m) \/ StopByHand(m) PROVE TypeOK'
    <2>1. \E p \in Places : Goto(m, p)
      BY <1>0, <1>9 DEF Settle, StopByHand
    <2>2. UNCHANGED <<life, sock, left>> /\ (second' = second \/ second' = second \cup {m})
          /\ (path' = path \/ \E w \in {"retry", "stop"} : path' = [path EXCEPT ![m] = w])
      BY <1>9 DEF Settle, StopByHand
    <2>3. QED
      BY <1>1, <2>1, <2>2
  <1>10. ASSUME NEW d \in Daemons, DaemonStep(d) PROVE TypeOK'
    <2>1. /\ \E l \in Lives : Become(d, l)
          /\ sock' \in Daemons \cup {NoDaemon} /\ UNCHANGED <<pc, conn, path, second, left>>
      BY <1>10, DaemonMoves DEF DaemonMove, TypeOK
    <2>2. QED
      BY <2>1, BecomeType DEF TypeOK
  <1>11. CASE UNCHANGED vars
    BY <1>11 DEF vars, TypeOK
  <1>12. QED
    BY <1>2, <1>3, <1>4, <1>5, <1>6, <1>7, <1>8, <1>9, <1>10, <1>11 DEF Next, ManagerStep

\* The variables keep their types, and no question leaves its connection open.
THEOREM LifecycleTypes == Spec => []TypeOK
  <1>1. Init => TypeOK
    BY LifecycleAssumption DEF Init, TypeOK, Lives, Starting, Dead, Asking
  <1>2. QED
    BY <1>1, TypeKept, PTL DEF Spec

-----------------------------------------------------------------------------
(***************************************************************************)
(* Commands that race to start a daemon.                                   *)
(***************************************************************************)
\* No older daemon was there, and no command has been told to stop one.
Cold == left # "older" /\ NobodyStops

HandInv ==
    \A m \in Managers : /\ pc[m] \in {"halt", "halting"} => path[m] = "stop"
                        /\ path[m] = "stop" => pc[m] \in {"halt", "halting", "ok", "failed"}

\* Then whoever answers is current and stays, so nobody has to stop it or waits for its
\* end; one that accepted the connection may have given up.
GentleInv ==
    /\ \A d \in Daemons : life[d] \in Starting \cup Dead \cup {"none", "listening"}
    /\ \A m \in Managers : pc[m] \in {"idle", "inspect", "status", "remove", "lstat", "dial", "unlink",
                                      "spawn", "ready", "confirm", "settle", "ok", "failed"}
    /\ \A m \in Managers : conn[m] \in Daemons => life[conn[m]] \in Dead \cup {"chmod", "abort", "listening"}

\* Nobody has got beyond looking at the path of the daemon that crashed ...
Looks(m) == /\ pc[m] \in {"idle", "inspect", "status", "lstat", "dial", "unlink"}
            /\ conn[m] \notin Daemons

\* ... nor at an empty one.
Waits(m) == Looks(m) /\ pc[m] \notin {"dial", "unlink"}

\* A path that is there is that of a daemon that serves or soon will, or nobody has done
\* anything about it; and if there is none, somebody is about to make it, unless one that
\* gave up took it from another.
PathInv ==
    /\ sock # NoDaemon => \/ life[sock] \in {"listen", "chmod", "listening"}
                          \/ life[sock] = "gone" /\ \A m \in Managers : Looks(m)
    /\ sock = NoDaemon =>
          \/ \E d \in Daemons : life[d] \in {"lstat", "bind", "aborted"}
          \/ \E m \in Managers : pc[m] \in {"remove", "spawn"}
          \/ \A m \in Managers : Waits(m)

ColdInv == HandInv /\ (Cold => GentleInv /\ PathInv)

LEMMA HandKept == TypeOK /\ HandInv /\ [Next]_vars => HandInv' /\ (Cold' => Cold)
  <1> SUFFICES ASSUME TypeOK, HandInv, [Next]_vars PROVE HandInv' /\ (Cold' => Cold)
    OBVIOUS
  <1>1. ASSUME NEW m \in Managers, NEW p \in Places \ {"halt", "halting"}, Goto(m, p), left' = left,
               \/ path' = path /\ pc[m] # "idle" /\ (path[m] = "stop" => p \in {"ok", "failed"})
               \/ pc[m] \notin {"halt", "halting", "ok", "failed"}
                  /\ (path' = path
                      \/ \E w \in {"start", "refresh", "retry"} : path' = [path EXCEPT ![m] = w])
        PROVE  HandInv' /\ (Cold' => Cold)
    BY <1>1, GotoType DEF HandInv, Cold, NobodyStops, TypeOK
  <1>2. ASSUME NEW m \in Managers, Connect(m) PROVE HandInv' /\ (Cold' => Cold)
    BY <1>2 DEF Connect, HandInv, Cold, NobodyStops
  <1>3. ASSUME NEW m \in Managers,
               \/ Inspect(m) \/ Drain(m) \/ StatusBeforeStart(m) \/ WaitUnavailable(m) \/ WaitReady(m)
               \/ Confirm(m)
        PROVE  HandInv' /\ (Cold' => Cold)
    <2>1. PICK p \in Places : Goto(m, p)
      BY <1>3, Questions
    <2>2. pc[m] \in {"inspect", "drain", "status", "wait", "ready", "confirm"}
      BY <1>3 DEF Inspect, Drain, StatusBeforeStart, WaitUnavailable, WaitReady, Confirm, Asked
    <2>3. pc'[m] \notin {"halt", "halting"}
      BY <1>3 DEF Inspect, Drain, StatusBeforeStart, WaitUnavailable, WaitReady, Confirm, Goto, Missing,
         Fail, TypeOK, Answers, Unavailable
    <2>4. QED
      BY <1>1, <1>3, <2>1, <2>2, <2>3, Questions, GotoType
  <1>4. ASSUME NEW m \in Managers, StopHelper(m) \/ SignalHelper(m) \/ Spawn(m)
        PROVE  HandInv' /\ (Cold' => Cold)
    <2>1. \E p \in {"drain", "signal", "status", "failed", "settle", "ready"} : Goto(m, p)
      BY <1>4 DEF StopHelper, SignalHelper, Spawn, Fail, Missing
    <2>2. QED
      BY <1>1, <1>4, <2>1 DEF StopHelper, SignalHelper, Spawn, Asked, Places, Asking, Looking
  <1>5. ASSUME NEW m \in Managers,
               \/ Repair(m) \/ RemoveSocket(m) \/ Lstat(m) \/ DialStale(m) \/ UnlinkStale(m)
               \/ ReadyTimesOut(m) \/ Settle(m)
        PROVE  HandInv' /\ (Cold' => Cold)
    <2>1. \E p \in {"inspect", "spawn", "dial", "unlink", "failed", "settle", "status"} : Goto(m, p)
      BY <1>5 DEF Repair, RemoveSocket, Lstat, DialStale, UnlinkStale, ReadyTimesOut, Settle, Fail, Missing
    <2>2. /\ pc[m] \notin {"halt", "halting", "ok", "failed"} /\ left' = left
          /\ (path' = path \/ path' = [path EXCEPT ![m] = "retry"])
      BY <1>5 DEF Repair, RemoveSocket, Lstat, DialStale, UnlinkStale, ReadyTimesOut, Settle
    <2>3. QED
      BY <1>1, <2>1, <2>2 DEF Places, Asking, Looking
  <1>6. ASSUME NEW m \in Managers, Halt(m) \/ WaitHalted(m) \/ WaitTimesOut(m)
        PROVE  HandInv' /\ (Cold' => Cold)
    <2>1. /\ UNCHANGED <<path, left>> /\ pc[m] \in {"halt", "halting", "drain", "wait", "settle"}
          /\ \E p \in {"ok", "halting", "failed"} : Goto(m, p) /\ (p = "halting" => pc[m] \in {"halt", "halting"})
      BY <1>6 DEF Halt, WaitHalted, WaitTimesOut, Asked, Fail
    <2>2. QED
      BY <2>1 DEF HandInv, Cold, NobodyStops, Goto, TypeOK
  <1>7. ASSUME NEW m \in Managers, StopByHand(m)
        PROVE  HandInv' /\ (Cold' => Cold)
    BY <1>7 DEF StopByHand, HandInv, Cold, NobodyStops, Goto, TypeOK
  <1>8. ASSUME NEW d \in Daemons, DaemonStep(d) PROVE HandInv' /\ (Cold' => Cold)
    <2>1. UNCHANGED <<pc, path, left>>
      BY <1>8, DaemonMoves
    <2>2. QED
      BY <2>1 DEF HandInv, Cold, NobodyStops
  <1>9. CASE UNCHANGED vars
    BY <1>9 DEF vars, HandInv, Cold, NobodyStops
  <1>10. QED
    BY <1>2, <1>3, <1>4, <1>5, <1>6, <1>7, <1>8, <1>9 DEF Next, ManagerStep

\* Where everybody is gentle, an answer says that nobody is there or that the daemon fits.
LEMMA GentleAnswers ==
    ASSUME TypeOK, left # "older", GentleInv, NEW m \in Managers, conn[m] # NotAsked, NEW a \in Answers(m)
    PROVE  a \in (IF conn[m] = NoDaemon THEN {"absent"} ELSE {"matches", "hangup", "exited"})
  BY DEF GentleInv, Answers, Older, TypeOK, Starting, Dead

\* So where a manager goes.
GentleMove(m, p) ==
    \/ pc[m] = "idle"    /\ p = "inspect"
    \/ pc[m] = "inspect" /\ p \in (IF conn[m] = NoDaemon THEN {"status"} ELSE {"status", "ok"})
    \/ pc[m] = "status"  /\ p \in (IF conn[m] = NoDaemon THEN {"lstat"} ELSE {"lstat", "remove", "confirm"})
    \/ pc[m] = "remove"  /\ p = "spawn"
    \/ pc[m] = "lstat"   /\ p = IF sock = NoDaemon THEN "spawn" ELSE "dial"
    \/ pc[m] = "dial"    /\ p = IF Reachable THEN "failed" ELSE "unlink"
    \/ pc[m] = "unlink"  /\ p = IF sock = NoDaemon THEN "failed" ELSE "spawn"
    \/ pc[m] = "spawn"   /\ p = "ready"
    \/ pc[m] \in {"ready", "confirm", "settle"}
       /\ p \in {"ready", "confirm", "ok", "settle", "failed", "status", "inspect"}

LEMMA GentleGoto ==
    ASSUME TypeOK, HandInv, Cold, Cold', GentleInv, NEW m \in Managers, Steps(m), ~Connect(m)
    PROVE  /\ \E p \in Places : Goto(m, p) /\ GentleMove(m, p)
           /\ pc[m] \in {"inspect", "status"} => conn[m] # NotAsked
           /\ IF pc[m] = "spawn" THEN \E d \in Unborn : Become(d, "lstat") ELSE life' = life
           /\ sock' = IF pc[m] \in {"unlink", "remove"} THEN NoDaemon ELSE sock
  <1>0. /\ pc[m] \in {"idle", "inspect", "status", "remove", "lstat", "dial", "unlink", "spawn",
                      "ready", "confirm", "settle", "ok", "failed"}
        /\ ~StopByHand(m)
    BY DEF StopByHand, Cold, NobodyStops, TypeOK, GentleInv
  <1>a. ASSUME conn[m] # NotAsked, NEW a \in Answers(m)
        PROVE  a \in (IF conn[m] = NoDaemon THEN {"absent"} ELSE {"matches", "hangup", "exited"})
    BY <1>a, GentleAnswers DEF Cold
  <1>1. CASE pc[m] = "inspect"
    <2>1. Inspect(m)
      BY <1>0, <1>1 DEF Steps, ManagerStep, Repair, StopHelper, SignalHelper, Drain,
         StatusBeforeStart, WaitUnavailable, RemoveSocket, Lstat, DialStale, UnlinkStale, Spawn, WaitReady,
         Confirm, Settle, Halt, WaitHalted, WaitTimesOut, ReadyTimesOut, Asked
    <2>2. PICK a \in Answers(m) : Goto(m, CASE a = "matches"  -> "ok"
                                           [] a = "mismatch" -> "stop"
                                           [] a = "retiring" -> "drain"
                                           [] OTHER          -> "status")
      BY <2>1 DEF Inspect
    <2>3. conn[m] # NotAsked /\ UNCHANGED <<sock, life>>
      BY <2>1 DEF Inspect, Asked
    <2>4. \E p \in {"status", "ok"} : Goto(m, p) /\ (conn[m] = NoDaemon => p = "status")
      BY <1>a, <2>2, <2>3
    <2>5. QED
      BY <1>1, <2>3, <2>4 DEF Places, Asking, GentleMove
  <1>2. CASE pc[m] = "status"
    <2>1. StatusBeforeStart(m)
      BY <1>0, <1>2 DEF Steps, ManagerStep, Repair, StopHelper, SignalHelper, Drain,
         Inspect, WaitUnavailable, RemoveSocket, Lstat, DialStale, UnlinkStale, Spawn, WaitReady,
         Confirm, Settle, Halt, WaitHalted, WaitTimesOut, ReadyTimesOut, Asked
    <2>2. PICK a \in Answers(m) :
            CASE a = "matches"  -> Goto(m, "confirm")
              [] a = "mismatch" -> Fail(m)
              [] a = "retiring" -> Goto(m, "wait")
              [] a = "exited"   -> Goto(m, "remove")
              [] a \in Unavailable -> Goto(m, "lstat")
      BY <2>1 DEF StatusBeforeStart
    <2>3. conn[m] # NotAsked /\ UNCHANGED <<sock, life>>
      BY <2>1 DEF StatusBeforeStart, Asked
    <2>4. \E p \in {"lstat", "remove", "confirm"} : Goto(m, p) /\ (conn[m] = NoDaemon => p = "lstat")
      BY <1>a, <2>2, <2>3 DEF Unavailable
    <2>5. QED
      BY <1>2, <2>3, <2>4 DEF Places, Asking, Looking, GentleMove
  <1>3. CASE pc[m] \in {"ready", "confirm"}
    <2>1. WaitReady(m) \/ Confirm(m) \/ ReadyTimesOut(m)
      BY <1>0, <1>3 DEF Steps, ManagerStep, Repair, StopHelper, SignalHelper, Drain,
         Inspect, WaitUnavailable, RemoveSocket, Lstat, DialStale, UnlinkStale, Spawn,
         StatusBeforeStart, Settle, Halt, WaitHalted, WaitTimesOut, Asked
    <2>2. \E p \in {"ready", "confirm", "ok", "settle", "failed"} : Goto(m, p)
      BY <2>1 DEF WaitReady, Confirm, ReadyTimesOut, Missing, Fail, Asked
    <2>3. UNCHANGED <<life, sock>>
      BY <2>1 DEF WaitReady, Confirm, ReadyTimesOut
    <2>4. QED
      BY <1>3, <2>2, <2>3 DEF Places, Asking, Looking, GentleMove
  <1>4. CASE pc[m] = "settle"
    <2>1. Settle(m) \/ WaitTimesOut(m)
      BY <1>0, <1>4 DEF Steps, ManagerStep, Repair, StopHelper, SignalHelper, Drain,
         Inspect, WaitUnavailable, RemoveSocket, Lstat, DialStale, UnlinkStale, Spawn,
         StatusBeforeStart, WaitReady, Confirm, Halt, WaitHalted, ReadyTimesOut, Asked
    <2>2. \E p \in {"failed", "status", "inspect"} : Goto(m, p)
      BY <2>1 DEF Settle, WaitTimesOut, Fail
    <2>3. UNCHANGED <<life, sock>>
      BY <2>1 DEF Settle, WaitTimesOut
    <2>4. QED
      BY <1>4, <2>2, <2>3 DEF Places, Asking, Looking, GentleMove
  <1>5. CASE pc[m] \in {"idle", "lstat", "dial", "unlink", "remove", "spawn"}
    <2>1. Repair(m) \/ Lstat(m) \/ DialStale(m) \/ UnlinkStale(m) \/ RemoveSocket(m) \/ Spawn(m)
      BY <1>0, <1>5 DEF Steps, ManagerStep, StopHelper, SignalHelper, Drain,
         Inspect, WaitUnavailable, Settle,
         StatusBeforeStart, WaitReady, Confirm, Halt, WaitHalted, WaitTimesOut, ReadyTimesOut, Asked
    <2>2. \E p \in Places : Goto(m, p) /\ GentleMove(m, p)
      BY <2>1 DEF Repair, Lstat, DialStale, UnlinkStale, RemoveSocket, Spawn, Fail, Places, Asking, Looking,
         GentleMove
    <2>3. QED
      BY <2>1, <2>2 DEF Repair, Lstat, DialStale, UnlinkStale, RemoveSocket, Spawn
  <1>6. pc[m] \notin {"ok", "failed"}
    BY DEF Steps, ManagerStep, Repair, StopByHand, StopHelper, SignalHelper, Drain,
       Inspect, WaitUnavailable, RemoveSocket, Lstat, DialStale, UnlinkStale, Spawn, StatusBeforeStart,
       WaitReady, Confirm, Settle, Halt, WaitHalted, WaitTimesOut, ReadyTimesOut, Asked
  <1>7. QED
    BY <1>0, <1>1, <1>2, <1>3, <1>4, <1>5, <1>6

LEMMA GentleManager ==
    ASSUME TypeOK, TypeOK', HandInv, Cold, Cold', GentleInv, PathInv, NEW m \in Managers, Steps(m), ~Connect(m)
    PROVE  GentleInv' /\ PathInv'
  <1>1. PICK p \in Places : Goto(m, p) /\ GentleMove(m, p)
    BY GentleGoto
  <1>2. /\ pc[m] \in {"inspect", "status"} => conn[m] # NotAsked
        /\ IF pc[m] = "spawn" THEN \E d \in Unborn : Become(d, "lstat") ELSE life' = life
        /\ sock' = IF pc[m] \in {"unlink", "remove"} THEN NoDaemon ELSE sock
    BY GentleGoto
  <1>3. /\ pc'[m] = p /\ conn'[m] = NotAsked
        /\ \A n \in Managers \ {m} : pc'[n] = pc[n] /\ conn'[n] = conn[n]
    BY <1>1, GotoType
  <1>4. \A d \in Daemons : life'[d] = life[d] \/ (life[d] = "none" /\ life'[d] = "lstat")
    BY <1>2, BecomeType DEF Unborn, Lives, Starting
  <1>5. GentleInv'
    <2>1. \A d \in Daemons : life'[d] \in Starting \cup Dead \cup {"none", "listening"}
      BY <1>4 DEF GentleInv, Starting
    <2>2. \A n \in Managers : pc'[n] \in {"idle", "inspect", "status", "remove", "lstat", "dial", "unlink",
                                      "spawn", "ready", "confirm", "settle", "ok", "failed"}
      BY <1>1, <1>3 DEF GentleInv, GentleMove
    <2>3. \A n \in Managers :
             conn'[n] \in Daemons => life'[conn'[n]] \in Dead \cup {"chmod", "abort", "listening"}
      BY <1>3, <1>4, LifecycleAssumption DEF GentleInv, Dead
    <2>4. QED
      BY <2>1, <2>2, <2>3 DEF GentleInv
  <1>6. ASSUME sock' # NoDaemon, life'[sock'] \notin {"listen", "chmod", "listening"}
        PROVE  life'[sock'] = "gone" /\ \A n \in Managers : Looks(n)'
    <2>1. sock' = sock /\ sock \in Daemons /\ pc[m] \notin {"unlink", "remove"}
      BY <1>2, <1>6 DEF TypeOK
    <2>2. life[sock] = "gone" /\ life'[sock] = "gone" /\ \A n \in Managers : Looks(n)
      BY <1>4, <1>6, <2>1 DEF PathInv
    <2>3. ~Reachable
      BY <2>2 DEF Reachable
    <2>4. pc[m] \in {"inspect", "status"} => conn[m] = NoDaemon
      BY <1>2, <2>2 DEF Looks, TypeOK
    <2>5. p \in {"inspect", "status", "lstat", "dial", "unlink"}
      BY <1>1, <1>6, <2>1, <2>2, <2>3, <2>4 DEF Looks, GentleMove
    <2>6. QED
      BY <1>3, <2>1, <2>2, <2>5, LifecycleAssumption DEF Looks
  <1>7. ASSUME sock' = NoDaemon,
               ~(\E d \in Daemons : life'[d] \in {"lstat", "bind", "aborted"}),
               ~(\E n \in Managers : pc'[n] \in {"remove", "spawn"}),
               NEW n \in Managers
        PROVE  Waits(n)'
    <2>1. life' = life /\ pc[m] # "spawn"
      BY <1>2, <1>7, BecomeType DEF Unborn, Lives, Starting
    <2>2. p \notin {"remove", "spawn"}
      BY <1>3, <1>7
    <2>3. pc[m] \notin {"unlink", "remove"} \/ sock = NoDaemon
      BY <1>1, <2>2 DEF GentleMove
    <2>4. sock = NoDaemon
      BY <1>2, <1>7, <2>3
    <2>5. /\ ~(\E d \in Daemons : life[d] \in {"lstat", "bind", "aborted"})
          /\ ~(\E k \in Managers : pc[k] \in {"remove", "spawn"})
      <3>1. pc[m] # "remove"
        BY <1>1, <2>2 DEF GentleMove
      <3>2. QED
        BY <1>3, <1>7, <2>1, <3>1
    <2>6. Waits(m) /\ Waits(n)
      BY <2>4, <2>5 DEF PathInv
    <2>7. pc[m] \in {"inspect", "status"} => conn[m] = NoDaemon
      BY <1>2, <2>6 DEF Waits, Looks, TypeOK
    <2>8. p \in {"inspect", "status", "lstat"}
      BY <1>1, <2>2, <2>4, <2>6, <2>7 DEF Waits, Looks, GentleMove
    <2>9. QED
      BY <1>3, <2>6, <2>8, LifecycleAssumption DEF Waits, Looks
  <1>8. QED
    BY <1>5, <1>6, <1>7 DEF PathInv

LEMMA GentleConnect ==
    ASSUME TypeOK, GentleInv, PathInv, NEW m \in Managers, Connect(m)
    PROVE  GentleInv' /\ PathInv'
  <1>1. /\ conn'[m] = (IF Reachable THEN sock ELSE NoDaemon) /\ UNCHANGED <<sock, life, pc>>
        /\ \A n \in Managers \ {m} : conn'[n] = conn[n]
    BY DEF Connect, TypeOK
  <1>2. Reachable => sock \in Daemons /\ life[sock] \in {"chmod", "abort", "listening"}
    BY DEF Reachable, GentleInv, Starting, Dead, TypeOK
  <1>3. GentleInv'
    <2>1. \A n \in Managers :
             conn'[n] \in Daemons => life[conn'[n]] \in Dead \cup {"chmod", "abort", "listening"}
      BY <1>1, <1>2, LifecycleAssumption DEF GentleInv
    <2>2. QED
      BY <1>1, <2>1 DEF GentleInv
  <1>4. ASSUME life[sock] = "gone", NEW n \in Managers, Looks(n)
        PROVE  Looks(n)'
    BY <1>1, <1>2, <1>4, LifecycleAssumption DEF Looks
  <1>5. ASSUME sock = NoDaemon, NEW n \in Managers, Waits(n)
        PROVE  Waits(n)'
    BY <1>1, <1>5, LifecycleAssumption DEF Waits, Looks, Reachable
  <1>6. QED
    BY <1>1, <1>3, <1>4, <1>5 DEF PathInv

LEMMA GentleDaemon ==
    ASSUME TypeOK, GentleInv, PathInv, NEW d \in Daemons, DaemonStep(d)
    PROVE  GentleInv' /\ PathInv'
  <1>1. PICK l \in Lives : Become(d, l) /\ DaemonMove(d, l)
    BY DaemonMoves
  <1>2. UNCHANGED <<pc, conn>> /\ life[d] \notin {"stopping", "closed"}
    BY DaemonMoves DEF GentleInv, Starting, Dead
  <1>3. life'[d] = l /\ \A e \in Daemons \ {d} : life'[e] = life[e]
    BY <1>1, BecomeType
  <1>4. GentleInv'
    <2>1. l \in Starting \cup Dead \cup {"none", "listening"}
      BY <1>1, <1>2 DEF DaemonMove, Starting, Dead
    <2>2. life[d] \in {"chmod", "abort", "listening"} \cup Dead => l \in {"chmod", "abort", "listening"} \cup Dead
      BY <1>1, <1>2 DEF DaemonMove, Dead
    <2>3. \A n \in Managers :
             conn[n] \in Daemons => life'[conn[n]] \in Dead \cup {"chmod", "abort", "listening"}
      BY <1>3, <2>2 DEF GentleInv
    <2>4. QED
      BY <1>2, <1>3, <2>1, <2>3 DEF GentleInv
  <1>5. sock' # NoDaemon => \/ life'[sock'] \in {"listen", "chmod", "listening"}
                            \/ life'[sock'] = "gone" /\ \A n \in Managers : Looks(n)'
    <2>1. CASE sock' = d /\ l = "listen"
      BY <1>3, <2>1
    <2>2. CASE sock' = sock /\ sock # NoDaemon /\ sock # d
      <3>1. life'[sock] = life[sock]
        BY <1>3, <2>2 DEF TypeOK
      <3>2. QED
        BY <1>2, <2>2, <3>1 DEF PathInv, Looks
    <2>3. CASE sock' = sock /\ sock = d /\ sock # NoDaemon
      <3>1. life[d] \in {"listen", "chmod", "listening", "gone"}
        BY <2>3 DEF PathInv
      <3>2. l \in {"chmod", "listening"}
        BY <1>1, <2>3, <3>1 DEF DaemonMove
      <3>3. QED
        BY <1>3, <2>3, <3>2
    <2>4. QED
      BY <1>1, <2>1, <2>2, <2>3 DEF DaemonMove
  <1>6. ASSUME sock' = NoDaemon
        PROVE  \/ \E e \in Daemons : life'[e] \in {"lstat", "bind", "aborted"}
               \/ \E m \in Managers : pc[m] \in {"remove", "spawn"}
               \/ \A m \in Managers : Waits(m)
    <2>1. CASE sock # NoDaemon
      <3>1. l \in {"bind", "aborted"}
        BY <1>1, <1>2, <1>6, <2>1, LifecycleAssumption DEF DaemonMove
      <3>2. QED
        BY <1>3, <3>1
    <2>2. CASE sock = NoDaemon
      <3>1. life[d] \in {"lstat", "bind", "aborted"} => l = "bind"
        BY <1>1, <1>6, <2>2, LifecycleAssumption DEF DaemonMove
      <3>2. QED
        BY <1>3, <1>6, <2>2, <3>1 DEF PathInv
    <2>3. QED
      BY <2>1, <2>2
  <1>7. QED
    BY <1>2, <1>4, <1>5, <1>6 DEF PathInv, Waits, Looks

LEMMA ColdKept == TypeOK /\ ColdInv /\ [Next]_vars => ColdInv'
  <1> SUFFICES ASSUME TypeOK, ColdInv, [Next]_vars PROVE ColdInv'
    OBVIOUS
  <1>1. TypeOK' /\ HandInv' /\ (Cold' => Cold)
    BY TypeKept, HandKept DEF ColdInv
  <1> SUFFICES ASSUME Cold' PROVE GentleInv' /\ PathInv'
    BY <1>1 DEF ColdInv
  <1>2. Cold /\ HandInv /\ GentleInv /\ PathInv
    BY <1>1 DEF ColdInv
  <1>3. ASSUME NEW m \in Managers, Steps(m) PROVE GentleInv' /\ PathInv'
    BY <1>1, <1>2, <1>3, GentleManager, GentleConnect
  <1>4. ASSUME NEW d \in Daemons, DaemonStep(d) PROVE GentleInv' /\ PathInv'
    BY <1>2, <1>4, GentleDaemon
  <1>5. CASE UNCHANGED vars
    BY <1>2, <1>5 DEF vars, GentleInv, PathInv, Looks, Waits
  <1>6. QED
    BY <1>3, <1>4, <1>5 DEF Next, Steps

\* The invariant of commands that race to start a daemon.
THEOREM LifecycleInvariant == Spec => [](TypeOK /\ ColdInv)
  <1>1. Init => TypeOK /\ ColdInv
    <2> SUFFICES ASSUME Init PROVE TypeOK /\ ColdInv
      OBVIOUS
    <2>1. TypeOK
      BY LifecycleAssumption DEF Init, TypeOK, Lives, Starting, Dead, Asking
    <2>2. HandInv
      BY DEF Init, HandInv
    <2>3. \A m \in Managers : Looks(m) /\ Waits(m)
      BY LifecycleAssumption DEF Init, Looks, Waits
    <2>4. left # "older" => \A d \in Daemons : life[d] \in {"none", "bind", "gone"}
      BY DEF Init
    <2>5. left # "older" => GentleInv /\ PathInv
      BY <2>3, <2>4, LifecycleAssumption DEF Init, GentleInv, PathInv, Starting, Dead
    <2>6. QED
      BY <2>1, <2>2, <2>5 DEF ColdInv, Cold
  <1>2. TypeOK /\ ColdInv /\ [Next]_vars => (TypeOK /\ ColdInv)'
    BY TypeKept, ColdKept
  <1>3. QED
    BY <1>1, <1>2, PTL DEF Spec

\* repairOnce never stops a daemon that another command has started, however many race,
\* unless an older one was there or somebody asked for a stop.
THEOREM StartsAreGentle == Spec => []StartKeepsDaemons
  <1>1. ColdInv => StartKeepsDaemons
    BY DEF ColdInv, Cold, GentleInv, Starting, Dead, StartKeepsDaemons
  <1>2. QED
    BY <1>1, LifecycleInvariant, PTL

\* Whatever the order of CleanupStale, the removals of the path and the binds, once all
\* is quiet a daemon can be reached at the path, unless one whose own path was removed
\* before it could secure it has taken the path of another along.
THEOREM ColdStartsServe == Spec => []ColdStartServes
  <1>1. TypeOK /\ ColdInv => ColdStartServes
    <2> SUFFICES ASSUME TypeOK, ColdInv, left # "older", NobodyStops,
                        \A m \in Managers : Idle(m) \/ Returned(m),
                        NEW m \in Managers, Returned(m), Settled, \A d \in Daemons : life[d] # "aborted"
                 PROVE  Reachable
      BY DEF ColdStartServes
    <2>1. PathInv
      BY DEF ColdInv, Cold
    <2>2. ~Looks(m) /\ ~Waits(m)
      BY DEF Returned, Looks, Waits
    <2>3. /\ ~\E d \in Daemons : life[d] \in {"lstat", "bind", "aborted"}
          /\ ~\E n \in Managers : pc[n] \in {"remove", "spawn"}
      BY DEF Settled, Idle, Returned, Dead
    <2>4. sock \in Daemons => life[sock] \notin {"listen", "chmod"}
      BY DEF Settled, Dead
    <2>5. QED
      BY <2>1, <2>2, <2>3, <2>4 DEF PathInv, Reachable, TypeOK
  <1>2. QED
    BY <1>1, LifecycleInvariant, PTL

-----------------------------------------------------------------------------
(***************************************************************************)
(* A command that is alone.                                                *)
(***************************************************************************)
Others == Daemons \ {Former}

Lone(m) == left # "starting" /\ path[m] # "stop" /\ \A n \in Managers \ {m} : Idle(n)

\* No new daemon yet: the manager looks at the former one, ends it, and makes way.
Before(m) ==
    /\ \A d \in Others : life[d] = "none"
    /\ sock \in {NoDaemon, Former}
    /\ life[Former] \in {"listening", "stopping"} => sock = Former
    /\ life[Former] \in {"none", "closed"} => sock = NoDaemon
    /\ life[Former] = "listening" => left = "older"
    /\ \/ /\ pc[m] \in {"idle", "inspect"}
          /\ life[Former] \in {"none", "listening", "gone"}
          /\ conn[m] \in {NotAsked, IF life[Former] = "listening" THEN Former ELSE NoDaemon}
          /\ m \in second => life[Former] = "gone"
       \/ /\ pc[m] \in {"stop", "signal"}
          /\ life[Former] = "listening"
          /\ conn[m] \in {NotAsked, Former}
          /\ path[m] = "refresh" /\ m \notin second
       \/ /\ pc[m] = "drain"
          /\ life[Former] \in {"stopping", "closed", "gone"}
          /\ conn[m] \in {NotAsked, NoDaemon, Former}
          /\ conn[m] = NoDaemon => life[Former] # "stopping"
          /\ path[m] = "refresh" /\ m \notin second
       \/ /\ pc[m] \in {"status", "lstat", "dial", "unlink", "spawn"}
          /\ life[Former] \in {"none", "closed", "gone"}
          /\ conn[m] \in {NotAsked, NoDaemon}
          /\ pc[m] \in {"dial", "unlink"} => sock = Former
          /\ pc[m] = "spawn" => sock = NoDaemon
          /\ life[Former] = "closed" => path[m] = "refresh" /\ m \notin second
       \/ /\ pc[m] = "settle"
          /\ life[Former] = "gone"
          /\ path[m] = "refresh" /\ m \notin second

\* A new daemon comes up, or serves: nobody can disturb it but a former one that is not
\* gone yet, and then there is an attempt left.
Comes(m, d) ==
    /\ \A e \in Others \ {d} : life[e] \in {"none", "listening", "gone"}
    /\ \/ life[Former] \in {"none", "gone"}
       \/ /\ life[Former] = "closed"
          /\ path[m] = "refresh" /\ m \notin second
          /\ \A e \in Others \ {d} : life[e] = "none"
    /\ \/ life[d] \in {"lstat", "bind"} /\ sock = NoDaemon /\ pc[m] = "ready"
          /\ conn[m] \in {NotAsked, NoDaemon}
       \/ life[d] = "listen" /\ sock = d /\ pc[m] = "ready" /\ conn[m] \in {NotAsked, NoDaemon}
       \/ life[d] = "chmod" /\ sock = d /\ pc[m] = "ready" /\ conn[m] \in {NotAsked, NoDaemon, d}
       \/ life[d] = "listening" /\ sock = d /\ pc[m] \in {"ready", "confirm", "ok"}
          /\ (conn[m] \in {NotAsked, d} \/ (pc[m] = "ready" /\ conn[m] = NoDaemon))

Coming(m) == \E d \in Others : Comes(m, d)

\* The former one has taken its path along: it serves unseen, or gives up if it had yet to
\* secure it.  The second attempt starts another.
Loses(m, d) ==
    /\ \A e \in Others \ {d} : life[e] = "none"
    /\ \/ /\ life[d] \in {"listen", "chmod", "abort", "gone", "listening"}
          /\ pc[m] = "ready" /\ path[m] = "refresh" /\ m \notin second
          /\ conn[m] \in {NotAsked, NoDaemon} \cup (IF life[d] = "listen" THEN {} ELSE {d})
       \/ /\ life[d] \in {"gone", "listening"}
          /\ \/ pc[m] = "settle" /\ path[m] = "refresh" /\ m \notin second
             \/ pc[m] \in {"inspect", "status", "lstat", "spawn"} /\ conn[m] \in {NotAsked, NoDaemon}
       \/ /\ life[d] = "listening"
          /\ \/ pc[m] = "confirm" /\ path[m] = "refresh" /\ m \notin second
                /\ conn[m] \in {NotAsked, NoDaemon, d}
             \/ pc[m] = "ok"

Lost(m) == life[Former] = "gone" /\ sock = NoDaemon /\ \E d \in Others : Loses(m, d)

\* Where a manager is decides what it does.
LEMMA StepAt ==
    ASSUME TypeOK, NEW m \in Managers, Steps(m)
    PROVE  /\ pc[m] = "idle"    => Repair(m) \/ StopByHand(m)
           /\ pc[m] = "inspect" => Connect(m) \/ Inspect(m)
           /\ pc[m] = "stop"    => Connect(m) \/ StopHelper(m)
           /\ pc[m] = "signal"  => Connect(m) \/ SignalHelper(m)
           /\ pc[m] = "drain"   => Connect(m) \/ Drain(m) \/ WaitTimesOut(m)
           /\ pc[m] = "status"  => Connect(m) \/ StatusBeforeStart(m)
           /\ pc[m] = "lstat"   => Lstat(m)
           /\ pc[m] = "dial"    => DialStale(m)
           /\ pc[m] = "unlink"  => UnlinkStale(m)
           /\ pc[m] = "spawn"   => Spawn(m)
           /\ pc[m] = "ready"   => Connect(m) \/ WaitReady(m) \/ ReadyTimesOut(m)
           /\ pc[m] = "confirm" => Connect(m) \/ Confirm(m)
           /\ pc[m] = "settle"  => Settle(m) \/ WaitTimesOut(m)
           /\ pc[m] # "ok"
  BY DEF Steps, ManagerStep, Repair, StopByHand, Connect, StopHelper, SignalHelper, Drain, Inspect,
     WaitUnavailable, RemoveSocket, Lstat, DialStale, UnlinkStale, Spawn, StatusBeforeStart,
     WaitReady, Confirm, Settle, Halt, WaitHalted, WaitTimesOut, ReadyTimesOut, Asked, Asking

LEMMA Connected ==
    ASSUME TypeOK, NEW m \in Managers, Connect(m)
    PROVE  /\ UNCHANGED <<sock, life, pc, path, second, left>> /\ conn[m] = NotAsked
           /\ conn'[m] = IF Reachable THEN sock ELSE NoDaemon
  BY DEF Connect, TypeOK

LEMMA MovedOn ==
    ASSUME TypeOK, NEW m \in Managers, NEW p, Goto(m, p)
    PROVE  pc'[m] = p /\ conn'[m] = NotAsked
  BY DEF Goto, TypeOK

\* What the former daemon answers, and a new one.
LEMMA LoneAnswers ==
    ASSUME TypeOK, NEW m \in Managers
    PROVE  /\ conn[m] = NoDaemon => Answers(m) = {"absent"}
           /\ conn[m] = Former /\ life[Former] = "listening" /\ left = "older" => Answers(m) = {"mismatch"}
           /\ conn[m] = Former /\ life[Former] = "stopping" => Answers(m) = {"retiring"}
           /\ conn[m] = Former /\ life[Former] = "closed" => Answers(m) = {"retiring", "hangup"}
           /\ conn[m] = Former /\ life[Former] = "gone" => Answers(m) = {"hangup", "exited"}
           /\ conn[m] \in Others /\ life[conn[m]] = "listening" => Answers(m) = {"matches"}
           /\ conn[m] \in Others /\ life[conn[m]] = "gone" => Answers(m) = {"hangup", "exited"}
           /\ conn[m] \in Others /\ life[conn[m]] \in Starting => Answers(m) = {}
  <1>1. conn[m] = Former => conn[m] # NoDaemon
    BY LifecycleAssumption
  <1>2. conn[m] \in Others => conn[m] # NoDaemon /\ ~Older(conn[m])
    BY LifecycleAssumption DEF Others, Older
  <1>3. "listening" \notin Starting /\ "stopping" \notin Starting /\ "closed" \notin Starting /\ "gone" \notin Starting
    BY DEF Starting
  <1>4. QED
    BY <1>1, <1>2, <1>3 DEF Answers, Older

LEMMA BeforeConnect ==
    ASSUME TypeOK, NEW m \in Managers, Before(m), Connect(m)
    PROVE  Before(m)'
  <1>1. /\ UNCHANGED <<sock, life, pc, path, second, left>> /\ conn[m] = NotAsked
        /\ conn'[m] = IF Reachable THEN sock ELSE NoDaemon
    BY Connected
  <1>2. Reachable <=> life[Former] \in {"listening", "stopping"}
    BY LifecycleAssumption DEF Before, Reachable
  <1>3. Reachable => sock = Former
    BY <1>2 DEF Before
  <1>4. pc[m] \in Asking
    BY DEF Connect
  <1>5. QED
    BY <1>1, <1>2, <1>3, <1>4, LifecycleAssumption DEF Before, Asking, Others

LEMMA BeforeManager ==
    ASSUME TypeOK, TypeOK', NEW m \in Managers, Lone(m), Lone(m)', Before(m), Steps(m), ~Connect(m)
    PROVE  Before(m)' \/ Coming(m)'
  <1>1. CASE pc[m] = "idle"
    <2>1. Repair(m)
      BY <1>1, StepAt DEF StopByHand, Lone, TypeOK
    <2>2. pc'[m] = "inspect" /\ conn'[m] = NotAsked /\ UNCHANGED <<sock, life, path, second, left>>
      BY <2>1, MovedOn DEF Repair
    <2>3. QED
      BY <1>1, <2>2 DEF Before
  <1>2. CASE pc[m] = "inspect"
    <2>1. Inspect(m)
      BY <1>2, StepAt
    <2>2. UNCHANGED <<sock, life, second, left>> /\ conn[m] # NotAsked
      BY <2>1 DEF Inspect, Asked
    <2>3. PICK a \in Answers(m) :
            /\ Goto(m, CASE a = "matches"  -> "ok"
                         [] a = "mismatch" -> "stop"
                         [] a = "retiring" -> "drain"
                         [] OTHER          -> "status")
            /\ path' = [path EXCEPT ![m] = IF a \in {"mismatch", "retiring"} THEN "refresh" ELSE "start"]
      BY <2>1 DEF Inspect
    <2>4. CASE life[Former] = "listening"
      <3>1. a = "mismatch"
        BY <1>2, <2>2, <2>4, LoneAnswers DEF Before
      <3>2. pc'[m] = "stop" /\ conn'[m] = NotAsked /\ path'[m] = "refresh"
        BY <2>3, <3>1, MovedOn DEF TypeOK
      <3>3. m \notin second
        BY <1>2, <2>4 DEF Before
      <3>4. QED
        BY <2>2, <2>4, <3>2, <3>3 DEF Before
    <2>5. CASE life[Former] # "listening"
      <3>1. a = "absent" /\ life[Former] \in {"none", "gone"}
        BY <1>2, <2>2, <2>5, LoneAnswers DEF Before
      <3>2. pc'[m] = "status" /\ conn'[m] = NotAsked
        BY <2>3, <3>1, MovedOn
      <3>3. QED
        BY <2>2, <3>1, <3>2 DEF Before
    <2>6. QED
      BY <2>4, <2>5
  <1>3. CASE pc[m] = "stop"
    <2>1. StopHelper(m)
      BY <1>3, StepAt
    <2>2. UNCHANGED <<sock, path, second, left>> /\ conn[m] # NotAsked
      BY <2>1 DEF StopHelper, Asked
    <2>3. conn[m] = Former /\ life[Former] = "listening" /\ left = "older" /\ sock = Former
          /\ path[m] = "refresh" /\ m \notin second /\ \A d \in Others : life[d] = "none"
      BY <1>3, <2>2 DEF Before
    <2>4. \/ Become(Former, "stopping") /\ Goto(m, "drain")
          \/ Goto(m, "signal") /\ UNCHANGED life
      <3>1. Answers(m) = {"mismatch"}
        BY <2>3, LoneAnswers
      <3>2. QED
        BY <2>1, <2>3, <3>1 DEF StopHelper
    <2>5. CASE Become(Former, "stopping") /\ Goto(m, "drain")
      <3>1. life'[Former] = "stopping" /\ \A d \in Others : life'[d] = life[d]
        BY <2>5, BecomeType, LifecycleAssumption DEF Others, Lives
      <3>2. QED
        BY <2>2, <2>3, <2>5, <3>1, MovedOn, LifecycleAssumption DEF Before
    <2>6. CASE Goto(m, "signal") /\ UNCHANGED life
      BY <2>2, <2>3, <2>6, MovedOn DEF Before
    <2>7. QED
      BY <2>4, <2>5, <2>6
  <1>4. CASE pc[m] = "signal"
    <2>1. SignalHelper(m)
      BY <1>4, StepAt
    <2>2. conn[m] = Former /\ life[Former] = "listening" /\ left = "older" /\ sock = Former
          /\ path[m] = "refresh" /\ m \notin second /\ \A d \in Others : life[d] = "none"
      BY <1>4, <2>1 DEF Before, SignalHelper, Asked
    <2>3. Become(Former, "gone") /\ Goto(m, "drain") /\ UNCHANGED <<sock, path, second, left>>
      BY <2>1, <2>2, LifecycleAssumption DEF SignalHelper, Dead
    <2>4. life'[Former] = "gone" /\ \A d \in Others : life'[d] = life[d]
      BY <2>3, BecomeType, LifecycleAssumption DEF Others, Lives, Dead
    <2>5. QED
      BY <2>2, <2>3, <2>4, MovedOn DEF Before
  <1>5. CASE pc[m] = "drain"
    <2>1. Drain(m)
      <3>1. ~WaitTimesOut(m)
        BY <1>5, LifecycleAssumption DEF WaitTimesOut, Reachable, Before
      <3>2. QED
        BY <1>5, <3>1, StepAt
    <2>2. UNCHANGED <<sock, life, path, second, left>> /\ conn[m] # NotAsked
      BY <2>1 DEF Drain, Asked
    <2>3. /\ life[Former] \in {"stopping", "closed", "gone"} /\ conn[m] \in {NoDaemon, Former}
          /\ conn[m] = NoDaemon => life[Former] # "stopping"
          /\ path[m] = "refresh" /\ m \notin second
      BY <1>5, <2>2 DEF Before
    <2>4. PICK a \in Answers(m) :
           \/ a \in Unavailable /\ Goto(m, "status")
           \/ a = "exited" /\ Missing(m)
           \/ a \in {"retiring", "matches", "mismatch"} /\ Goto(m, "drain")
      BY <2>1 DEF Drain
    <2>5. /\ a \in Unavailable => life[Former] \in {"closed", "gone"}
          /\ a = "exited" => life[Former] = "gone"
      BY <2>3, LoneAnswers DEF Unavailable
    <2>6. CASE a \in Unavailable /\ Goto(m, "status")
      BY <1>5, <2>2, <2>3, <2>5, <2>6, MovedOn DEF Before
    <2>7. CASE a = "exited" /\ Goto(m, "settle")
      BY <1>5, <2>2, <2>3, <2>5, <2>7, MovedOn DEF Before
    <2>8. CASE Goto(m, "drain")
      BY <1>5, <2>2, <2>3, <2>8, MovedOn, LifecycleAssumption DEF Before
    <2>9. QED
      BY <2>3, <2>4, <2>6, <2>7, <2>8 DEF Missing
  <1>6. CASE pc[m] = "status"
    <2>1. StatusBeforeStart(m)
      BY <1>6, StepAt
    <2>2. UNCHANGED <<sock, life, path, second, left>> /\ conn[m] = NoDaemon
      BY <1>6, <2>1 DEF StatusBeforeStart, Asked, Before
    <2>3. Goto(m, "lstat")
      <3>1. Answers(m) = {"absent"}
        BY <2>2, LoneAnswers
      <3>2. QED
        BY <2>1, <3>1 DEF StatusBeforeStart, Unavailable
    <2>4. QED
      BY <1>6, <2>2, <2>3, MovedOn DEF Before
  <1>7. CASE pc[m] \in {"lstat", "dial", "unlink"}
    <2>1. Lstat(m) \/ DialStale(m) \/ UnlinkStale(m)
      BY <1>7, StepAt
    <2>2. UNCHANGED <<life, path, second, left>> /\ ~Reachable
      BY <1>7, <2>1, LifecycleAssumption DEF Lstat, DialStale, UnlinkStale, Before, Reachable
    <2>3. /\ sock = Former => Former # NoDaemon /\ life[Former] = "gone"
          /\ pc[m] \in {"dial", "unlink"} => sock = Former
      BY <1>7, LifecycleAssumption DEF Before
    <2>4. \/ pc[m] = "lstat" /\ sock = NoDaemon /\ sock' = sock /\ Goto(m, "spawn")
          \/ pc[m] = "lstat" /\ sock = Former /\ sock' = sock /\ Goto(m, "dial")
          \/ pc[m] = "dial" /\ sock' = sock /\ Goto(m, "unlink")
          \/ pc[m] = "unlink" /\ sock' = NoDaemon /\ Goto(m, "spawn")
      BY <2>1, <2>2, <2>3 DEF Lstat, DialStale, UnlinkStale, Before
    <2>5. QED
      BY <1>7, <2>2, <2>3, <2>4, MovedOn DEF Before
  <1>8. CASE pc[m] = "spawn"
    <2>1. Spawn(m)
      BY <1>8, StepAt
    <2>3. PICK d \in Unborn : Become(d, "lstat") /\ Goto(m, "ready")
      BY <2>1 DEF Spawn
    <2>4. /\ d \in Others /\ life'[d] = "lstat" /\ life'[Former] = life[Former]
          /\ \A e \in Others \ {d} : life'[e] = "none"
      BY <2>3, BecomeType, LifecycleAssumption DEF Others, Unborn, Before, Lives, Starting
    <2>5. UNCHANGED <<sock, path, second, left>> /\ pc'[m] = "ready" /\ conn'[m] = NotAsked
      BY <2>1, <2>3, MovedOn DEF Spawn
    <2>6. Coming(m)'
      BY <1>8, <2>4, <2>5 DEF Before, Coming, Comes, Others
    <2>7. QED
      BY <2>6
  <1>9. CASE pc[m] = "settle"
    <2>1. Settle(m)
      <3>1. ~WaitTimesOut(m)
        BY <1>9, LifecycleAssumption DEF WaitTimesOut, Reachable, Before
      <3>2. QED
        BY <1>9, <3>1, StepAt
    <2>2. Goto(m, "inspect") /\ UNCHANGED <<sock, life, path, left>>
      BY <1>9, <2>1 DEF Settle, Before
    <2>3. QED
      BY <1>9, <2>2, MovedOn DEF Before
  <1>10. QED
    BY <1>1, <1>2, <1>3, <1>4, <1>5, <1>6, <1>7, <1>8, <1>9 DEF Before

LEMMA LostManager ==
    ASSUME TypeOK, TypeOK', NEW m \in Managers, Lone(m), Lone(m)', Lost(m), Steps(m)
    PROVE  Lost(m)' \/ Coming(m)'
  <1>0. PICK d \in Others : Loses(m, d)
    BY DEF Lost
  <1>1. sock = NoDaemon /\ life[Former] = "gone" /\ ~Reachable /\ pc[m] # "ok"
    BY StepAt DEF Lost, Reachable
  <1>2. /\ conn[m] = NoDaemon => Answers(m) = {"absent"}
        /\ conn[m] = d /\ life[d] = "listening" => Answers(m) = {"matches"}
        /\ conn[m] = d /\ life[d] = "gone" => Answers(m) = {"hangup", "exited"}
        /\ conn[m] = d /\ life[d] \in Starting => Answers(m) = {}
    BY LoneAnswers
  <1>3. CASE Connect(m)
    BY <1>0, <1>1, <1>3, Connected DEF Lost, Loses
  <1>4. CASE WaitReady(m)
    <2>1. UNCHANGED <<sock, life, path, second, left>> /\ pc[m] = "ready" /\ conn[m] # NotAsked
      BY <1>4 DEF WaitReady, Asked
    <2>2. /\ life[d] \in {"listen", "chmod", "abort", "gone", "listening"}
          /\ path[m] = "refresh" /\ m \notin second /\ conn[m] \in {NoDaemon, d}
      BY <1>0, <2>1 DEF Loses
    <2>3. PICK a \in Answers(m) :
           \/ a = "matches" /\ Goto(m, "confirm")
           \/ a \in {"mismatch", "retiring"} /\ Fail(m)
           \/ a = "hangup" /\ Missing(m)
           \/ a \in {"absent", "exited"} /\ Goto(m, "ready")
      BY <1>4 DEF WaitReady
    <2>4. \/ a = "absent"
          \/ a = "matches" /\ life[d] = "listening"
          \/ a \in {"hangup", "exited"} /\ life[d] = "gone"
      BY <1>2, <2>2 DEF Starting
    <2>5. \/ Goto(m, "ready")
          \/ Goto(m, "confirm") /\ life[d] = "listening"
          \/ Goto(m, "settle") /\ life[d] = "gone"
      BY <2>2, <2>3, <2>4 DEF Missing
    <2>6. QED
      BY <1>0, <1>1, <2>1, <2>2, <2>5, MovedOn DEF Lost, Loses
  <1>5. CASE ReadyTimesOut(m)
    <2>1. /\ UNCHANGED <<sock, life, path, second, left>> /\ pc[m] = "ready" /\ life[d] \notin Starting
          /\ Missing(m)
      BY <1>5 DEF ReadyTimesOut, Others
    <2>2. path[m] = "refresh" /\ m \notin second /\ life[d] \in {"gone", "listening"}
      BY <1>0, <2>1 DEF Loses, Starting
    <2>3. Goto(m, "settle")
      BY <2>1, <2>2 DEF Missing
    <2>4. QED
      BY <1>0, <1>1, <2>1, <2>2, <2>3, MovedOn DEF Lost, Loses
  <1>6. CASE Confirm(m)
    <2>1. UNCHANGED <<sock, life, path, second, left>> /\ pc[m] = "confirm" /\ conn[m] # NotAsked
      BY <1>6 DEF Confirm, Asked
    <2>2. life[d] = "listening" /\ path[m] = "refresh" /\ m \notin second /\ conn[m] \in {NoDaemon, d}
      BY <1>0, <2>1 DEF Loses
    <2>3. Goto(m, "ok") \/ Goto(m, "settle")
      BY <1>2, <1>6, <2>2 DEF Confirm, Missing
    <2>4. QED
      BY <1>0, <1>1, <2>1, <2>2, <2>3, MovedOn DEF Lost, Loses
  <1>7. CASE Settle(m)
    <2>1. UNCHANGED <<sock, life, path, left>> /\ Goto(m, "inspect") /\ life[d] \in {"gone", "listening"}
      BY <1>0, <1>7 DEF Settle, Loses
    <2>2. QED
      BY <1>0, <1>1, <2>1, MovedOn DEF Lost, Loses
  <1>8. CASE Inspect(m) \/ StatusBeforeStart(m) \/ Lstat(m)
    <2>0. pc[m] \in {"inspect", "status", "lstat"}
      BY <1>8 DEF Inspect, StatusBeforeStart, Lstat, Asked
    <2>1. life[d] \in {"gone", "listening"} /\ conn[m] \in {NotAsked, NoDaemon}
      BY <1>0, <2>0 DEF Loses
    <2>2. UNCHANGED <<sock, life, second, left>> /\ \E p \in {"status", "lstat", "spawn"} : Goto(m, p)
      <3>1. CASE Inspect(m)
        BY <1>2, <2>1, <3>1 DEF Inspect, Asked
      <3>2. CASE StatusBeforeStart(m)
        BY <1>2, <2>1, <3>2 DEF StatusBeforeStart, Asked, Unavailable
      <3>3. CASE Lstat(m)
        BY <1>1, <3>3 DEF Lstat
      <3>4. QED
        BY <1>8, <3>1, <3>2, <3>3
    <2>3. QED
      BY <1>0, <1>1, <2>1, <2>2, MovedOn DEF Lost, Loses
  <1>9. CASE Spawn(m)
    <2>1. PICK e \in Unborn : Become(e, "lstat") /\ Goto(m, "ready")
      BY <1>9 DEF Spawn
    <2>2. life[d] \in {"gone", "listening"} /\ \A c \in Others \ {d} : life[c] = "none"
      BY <1>0, <1>9 DEF Loses, Spawn
    <2>3. /\ e \in Others /\ life'[e] = "lstat" /\ life'[Former] = "gone"
          /\ \A c \in Others \ {e} : life'[c] \in {"none", "listening", "gone"}
      BY <1>1, <2>1, <2>2, BecomeType, LifecycleAssumption DEF Others, Unborn, Lives, Starting
    <2>4. UNCHANGED <<sock, path, second, left>> /\ pc'[m] = "ready" /\ conn'[m] = NotAsked
      BY <1>9, <2>1, MovedOn DEF Spawn
    <2>5. QED
      BY <1>1, <2>3, <2>4 DEF Coming, Comes, Others
  <1>10. QED
    <2>1. pc[m] \in {"ready", "confirm", "settle", "inspect", "status", "lstat", "spawn"}
      BY <1>0, <1>1 DEF Loses
    <2>2. ~WaitTimesOut(m)
      BY <1>1 DEF WaitTimesOut
    <2>3. QED
      BY <1>3, <1>4, <1>5, <1>6, <1>7, <1>8, <1>9, <2>1, <2>2, StepAt

\* A step that is no connection goes on somewhere, and seldom changes what is done.
LEMMA StepGoes ==
    ASSUME NEW m \in Managers, Steps(m), ~Connect(m)
    PROVE  /\ \E p \in Places \ {"idle"} : Goto(m, p)
           /\ left' = left
           /\ pc[m] \in {"idle", "inspect", "settle"} \/ path' = path
  <1>1. CASE \/ Inspect(m) \/ Drain(m) \/ StatusBeforeStart(m) \/ WaitUnavailable(m) \/ WaitReady(m)
             \/ Confirm(m) \/ WaitHalted(m)
    BY <1>1, Questions
  <1>2. CASE StopHelper(m) \/ SignalHelper(m) \/ Spawn(m) \/ Halt(m)
    <2>1. \E p \in {"drain", "signal", "status", "failed", "settle", "ready", "halting"} : Goto(m, p)
      BY <1>2 DEF StopHelper, SignalHelper, Spawn, Halt, Fail, Missing
    <2>2. QED
      BY <1>2, <2>1 DEF StopHelper, SignalHelper, Spawn, Halt, Places, Asking, Looking
  <1>3. CASE \/ Repair(m) \/ StopByHand(m) \/ RemoveSocket(m) \/ Lstat(m) \/ DialStale(m) \/ UnlinkStale(m)
             \/ ReadyTimesOut(m) \/ WaitTimesOut(m) \/ Settle(m)
    <2>1. \E p \in {"inspect", "halt", "spawn", "dial", "unlink", "failed", "settle", "status"} : Goto(m, p)
      BY <1>3 DEF Repair, StopByHand, RemoveSocket, Lstat, DialStale, UnlinkStale, ReadyTimesOut,
         WaitTimesOut, Settle, Fail, Missing
    <2>2. QED
      BY <1>3, <2>1 DEF Repair, StopByHand, RemoveSocket, Lstat, DialStale, UnlinkStale, ReadyTimesOut,
         WaitTimesOut, Settle, Places, Asking, Looking
  <1>4. QED
    BY <1>1, <1>2, <1>3 DEF Steps, ManagerStep

LEMMA ComingManager ==
    ASSUME TypeOK, NEW m \in Managers, Coming(m), Steps(m)
    PROVE  Coming(m)'
  <1>1. PICK d \in Others : Comes(m, d)
    BY DEF Coming, Comes
  <1>2. /\ d \in Daemons /\ d # NoDaemon /\ d # Former
        /\ Reachable <=> life[d] \in {"chmod", "listening"}
        /\ Reachable => sock = d
    BY <1>1, LifecycleAssumption DEF Comes, Reachable, Others
  <1>3. /\ conn[m] = NoDaemon => Answers(m) = {"absent"}
        /\ conn[m] = d /\ life[d] = "listening" => Answers(m) = {"matches"}
        /\ conn[m] = d /\ life[d] = "chmod" => Answers(m) = {}
    BY <1>1, <1>2, LoneAnswers DEF Starting
  <1>4. CASE Connect(m)
    BY <1>1, <1>2, <1>4, Connected DEF Coming, Comes
  <1>5. CASE WaitReady(m)
    <2>1. UNCHANGED <<sock, life, path, second, left>> /\ pc[m] = "ready" /\ conn[m] # NotAsked
          /\ Answers(m) # {}
      BY <1>5 DEF WaitReady, Asked
    <2>2. conn[m] = NoDaemon \/ (conn[m] = d /\ life[d] = "listening")
      BY <1>1, <1>3, <2>1 DEF Comes
    <2>3. \/ Goto(m, "ready")
          \/ life[d] = "listening" /\ Goto(m, "confirm")
      BY <1>3, <1>5, <2>2 DEF WaitReady
    <2>4. pc'[m] \in {"ready", "confirm"} /\ (life[d] # "listening" => pc'[m] = "ready") /\ conn'[m] = NotAsked
      BY <2>3, MovedOn
    <2>5. QED
      BY <1>1, <2>1, <2>4 DEF Coming, Comes
  <1>6. CASE Confirm(m)
    <2>1. UNCHANGED <<sock, life, path, second, left>> /\ pc[m] = "confirm" /\ conn[m] # NotAsked
      BY <1>6 DEF Confirm, Asked
    <2>2. conn[m] = d /\ life[d] = "listening"
      BY <1>1, <2>1 DEF Comes
    <2>3. Goto(m, "ok")
      BY <1>3, <1>6, <2>2 DEF Confirm
    <2>4. QED
      BY <1>1, <2>1, <2>2, <2>3, MovedOn DEF Coming, Comes
  <1>7. ~ReadyTimesOut(m)
    <2>1. life[d] \in Starting \/ Reachable
      BY <1>1, <1>2 DEF Comes, Starting
    <2>2. QED
      BY <1>2, <2>1 DEF ReadyTimesOut
  <1>8. QED
    BY <1>1, <1>4, <1>5, <1>6, <1>7, StepAt DEF Comes

LEMMA LoneDaemon ==
    ASSUME TypeOK, NEW m \in Managers, Lone(m), Before(m) \/ Coming(m) \/ Lost(m),
           NEW c \in Daemons, DaemonStep(c)
    PROVE  Before(m)' \/ Coming(m)' \/ Lost(m)'
  <1>1. UNCHANGED <<pc, conn, path, second, left>>
    BY DaemonMoves
  <1>2. PICK l \in Lives : Become(c, l) /\ DaemonMove(c, l)
    BY DaemonMoves
  <1>3. life'[c] = l /\ \A e \in Daemons \ {c} : life'[e] = life[e]
    BY <1>2, BecomeType
  <1>4. CASE Before(m)
    <2>1. c = Former /\ life[c] \in {"stopping", "closed"}
      BY <1>2, <1>4, LifecycleAssumption DEF Before, Others, DaemonMove
    <2>2. /\ l \in {"closed", "gone"} /\ sock' = NoDaemon /\ life[c] = "closed" => l = "gone"
          /\ \A d \in Others : life'[d] = life[d]
      BY <1>2, <1>3, <2>1 DEF Others, DaemonMove
    <2>3. CASE life[c] = "stopping"
      <3>1. pc[m] = "drain" /\ conn[m] # NoDaemon /\ l = "closed"
        BY <1>2, <1>4, <2>1, <2>3 DEF Before, DaemonMove
      <3>2. sock' = NoDaemon
        BY <1>2, <2>3 DEF DaemonMove
      <3>3. QED
        BY <1>1, <1>3, <1>4, <2>1, <2>2, <2>3, <3>1, <3>2 DEF Before
    <2>4. CASE life[c] = "closed"
      <3>1. /\ pc[m] \in {"drain", "status", "lstat", "spawn"}
            /\ l = "gone" /\ sock' = NoDaemon
        BY <1>2, <1>4, <2>1, <2>4, LifecycleAssumption DEF Before, DaemonMove
      <3>2. QED
        BY <1>1, <1>3, <1>4, <2>1, <2>2, <2>4, <3>1 DEF Before
    <2>5. QED
      BY <2>1, <2>3, <2>4
  <1>5. CASE Coming(m)
    <2>1. PICK d \in Others : Comes(m, d)
      BY <1>5 DEF Coming, Comes
    <2>2. d \in Daemons /\ d # NoDaemon /\ d # Former /\ Former \in Daemons
      BY LifecycleAssumption DEF Others
    <2>3. \/ c = d /\ life[d] \in {"lstat", "bind", "listen", "chmod"}
          \/ c = Former /\ life[c] = "closed"
      BY <1>2, <2>1, <2>2 DEF Comes, Others, DaemonMove
    <2>4. CASE c = d /\ life[d] \in {"lstat", "bind", "listen", "chmod"}
      <3>1. \/ life[d] \in {"lstat", "bind"} /\ sock = NoDaemon /\ l = "bind" /\ sock' = NoDaemon
            \/ life[d] = "bind" /\ l = "listen" /\ sock' = d
            \/ life[d] = "listen" /\ l = "chmod" /\ sock' = d
            \/ life[d] = "chmod" /\ l = "listening" /\ sock' = d
        BY <1>2, <2>1, <2>2, <2>4 DEF Comes, DaemonMove
      <3>2. pc[m] = "ready" /\ conn[m] \in {NotAsked, NoDaemon, d} /\ (conn[m] = d => life[d] = "chmod")
        BY <2>1, <2>2, <2>4, LifecycleAssumption DEF Comes
      <3>3. /\ life'[Former] = life[Former] /\ life'[d] = l
            /\ \A e \in Others \ {d} : life'[e] = life[e]
        BY <1>3, <2>2, <2>4 DEF Others
      <3>4. /\ \A e \in Others \ {d} : life[e] \in {"none", "listening", "gone"}
            /\ \/ life[Former] \in {"none", "gone"}
               \/ /\ life[Former] = "closed"
                  /\ path[m] = "refresh" /\ m \notin second
                  /\ \A e \in Others \ {d} : life[e] = "none"
        BY <2>1 DEF Comes
      <3>5. Comes(m, d)'
        BY <1>1, <3>1, <3>2, <3>3, <3>4 DEF Comes, Others
      <3>6. QED
        BY <3>5 DEF Coming, Comes
    <2>5. CASE c = Former /\ life[c] = "closed"
      <3>1. /\ life'[Former] = "gone" /\ sock' = NoDaemon /\ \A e \in Others : life'[e] = life[e]
        BY <1>2, <1>3, <2>5 DEF Others, DaemonMove
      <3>2. /\ path[m] = "refresh" /\ m \notin second
            /\ \A e \in Others \ {d} : life[e] = "none"
        BY <2>1, <2>5 DEF Comes
      <3>3. CASE life[d] \in {"lstat", "bind"}
        <4>1. Comes(m, d)'
          BY <1>1, <2>1, <3>1, <3>2, <3>3 DEF Comes, Others
        <4>2. QED
          BY <4>1 DEF Coming, Comes
      <3>4. CASE life[d] \in {"listen", "chmod", "listening"}
        <4>1. /\ pc[m] \in {"ready", "confirm", "ok"} /\ (life[d] # "listening" => pc[m] = "ready")
              /\ conn[m] \in {NotAsked, NoDaemon, d} /\ (life[d] = "listen" => conn[m] # d)
          BY <2>1, <2>2, <3>4, LifecycleAssumption DEF Comes
        <4>2. Loses(m, d)'
          BY <1>1, <3>1, <3>2, <3>4, <4>1 DEF Loses, Others
        <4>3. QED
          BY <3>1, <4>2 DEF Lost, Others
      <3>5. QED
        BY <2>1, <3>3, <3>4 DEF Comes
    <2>6. QED
      BY <2>3, <2>4, <2>5
  <1>6. CASE Lost(m)
    <2>1. PICK d \in Others : Loses(m, d)
      BY <1>6 DEF Lost
    <2>2. sock = NoDaemon /\ life[Former] = "gone" /\ d \in Daemons /\ d # Former /\ Former \in Daemons
      BY <1>6, LifecycleAssumption DEF Lost, Others
    <2>3. c = d /\ life[d] \in {"listen", "chmod", "abort"}
      BY <1>2, <2>1, <2>2 DEF Loses, Others, DaemonMove
    <2>4. /\ \/ life[d] = "listen" /\ l = "chmod"
             \/ life[d] = "chmod" /\ l = "abort"
             \/ life[d] = "abort" /\ l = "gone"
          /\ sock' = NoDaemon
      BY <1>2, <2>2, <2>3 DEF DaemonMove
    <2>5. /\ life'[Former] = "gone" /\ life'[d] = l
          /\ \A e \in Others \ {d} : life'[e] = life[e]
      BY <1>3, <2>2, <2>3 DEF Others
    <2>6. Loses(m, d)'
      BY <1>1, <2>1, <2>3, <2>4, <2>5 DEF Loses, Others
    <2>7. QED
      BY <2>4, <2>5, <2>6 DEF Lost, Others
  <1>7. QED
    BY <1>4, <1>5, <1>6

\* A command that has been alone so far.
LEMMA StillLone ==
    ASSUME TypeOK, HandInv, [Next]_vars, NEW m \in Managers, Lone(m)'
    PROVE  /\ Lone(m)
           /\ \/ Steps(m)
              \/ \E c \in Daemons : DaemonStep(c)
              \/ UNCHANGED vars
  <1>1. CASE UNCHANGED vars
    BY <1>1 DEF vars, Lone, Idle
  <1>2. ASSUME NEW c \in Daemons, DaemonStep(c) PROVE Lone(m)
    <2>1. UNCHANGED <<pc, path, left>>
      BY <1>2, DaemonMoves
    <2>2. QED
      BY <2>1 DEF Lone, Idle
  <1>3. ASSUME NEW n \in Managers, n # m, Steps(n) PROVE FALSE
    <2>1. pc'[n] = "idle"
      BY <1>3 DEF Lone, Idle
    <2>2. CASE Connect(n)
      BY <2>1, <2>2 DEF Connect, Asking
    <2>3. CASE ~Connect(n)
      <3>1. \E p \in Places \ {"idle"} : Goto(n, p)
        BY <1>3, <2>3, StepGoes
      <3>2. QED
        BY <2>1, <3>1, MovedOn
    <2>4. QED
      BY <2>2, <2>3
  <1>4. ASSUME Steps(m) PROVE Lone(m)
    <2>1. \A n \in Managers \ {m} : pc'[n] = pc[n]
      <3>1. CASE Connect(m)
        BY <3>1 DEF Connect
      <3>2. CASE ~Connect(m)
        BY <1>4, <3>2, StepGoes, GotoType
      <3>3. QED
        BY <3>1, <3>2
    <2>2. left' = left
      BY <1>4, StepGoes DEF Connect
    <2>3. path[m] # "stop"
      <3> SUFFICES ASSUME path[m] = "stop" PROVE FALSE
        OBVIOUS
      <3>1. pc[m] \notin {"idle", "inspect", "settle"}
        BY DEF HandInv
      <3>2. path' = path
        BY <1>4, <3>1, StepGoes DEF Connect
      <3>3. QED
        BY <3>2 DEF Lone
    <2>4. QED
      BY <2>1, <2>2, <2>3 DEF Lone, Idle
  <1>5. QED
    BY <1>1, <1>2, <1>3, <1>4 DEF Next, Steps

\* Wherever a command is that has been alone so far, it has not failed.
LoneInv == \A m \in Managers : Lone(m) => Before(m) \/ Coming(m) \/ Lost(m)

LEMMA LoneKept ==
    ASSUME TypeOK, HandInv, LoneInv, [Next]_vars
    PROVE  LoneInv'
  <1> SUFFICES ASSUME NEW m \in Managers, Lone(m)' PROVE Before(m)' \/ Coming(m)' \/ Lost(m)'
    BY DEF LoneInv
  <1>1. TypeOK' /\ Lone(m) /\ (Before(m) \/ Coming(m) \/ Lost(m))
    BY TypeKept, StillLone DEF LoneInv
  <1>2. CASE Steps(m)
    BY <1>1, <1>2, BeforeConnect, BeforeManager, ComingManager, LostManager
  <1>3. ASSUME NEW c \in Daemons, DaemonStep(c) PROVE Before(m)' \/ Coming(m)' \/ Lost(m)'
    BY <1>1, <1>3, LoneDaemon
  <1>4. CASE UNCHANGED vars
    <2>1. Before(m)' = Before(m) /\ Coming(m)' = Coming(m) /\ Lost(m)' = Lost(m)
      BY <1>4 DEF vars, Before, Coming, Comes, Lost, Loses
    <2>2. QED
      BY <1>1, <2>1
  <1>5. QED
    BY <1>2, <1>3, <1>4, StillLone

\* A repair that meets no other command succeeds, whatever daemon it finds, if there
\* may be two more processes: an older daemon that takes the successor's socket along as
\* it leaves costs the second attempt of Repair, and nothing else does.
THEOREM LoneRepairs ==
    ASSUME \E d1, d2 \in Daemons \ {Former} : d1 # d2
    PROVE  Spec => []LoneRepairSucceeds
  <1>1. PICK d1 \in Others, d2 \in Others : d1 # d2
    BY DEF Others
  <1>2. Init => LoneInv
    BY LifecycleAssumption DEF Init, LoneInv, Lone, Before, Others
  <1>3. TypeOK /\ ColdInv /\ LoneInv /\ [Next]_vars => LoneInv'
    BY LoneKept DEF ColdInv
  <1>4. LoneInv => LoneRepairSucceeds
    <2> SUFFICES ASSUME LoneInv, NEW m \in Managers, Lone(m)
                 PROVE  pc[m] # "failed" /\ ~AtBound(m)
      BY DEF LoneRepairSucceeds, Lone
    <2>1. CASE Before(m)
      <3>1. d1 \in Unborn
        BY <2>1 DEF Before, Unborn, Others
      <3>2. QED
        BY <2>1, <3>1 DEF Before, AtBound
    <2>2. CASE Coming(m)
      BY <2>2 DEF Coming, Comes, AtBound
    <2>3. CASE Lost(m)
      <3>1. PICK d \in Others : Loses(m, d)
        BY <2>3 DEF Lost
      <3>2. Unborn # {}
        BY <1>1, <3>1 DEF Loses, Unborn, Others
      <3>3. QED
        BY <3>1, <3>2 DEF Loses, AtBound
    <2>4. QED
      BY <2>1, <2>2, <2>3 DEF LoneInv
  <1>5. QED
    BY <1>2, <1>3, <1>4, LifecycleInvariant, PTL DEF Spec
=============================================================================
