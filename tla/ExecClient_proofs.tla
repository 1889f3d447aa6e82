-------------------------- MODULE ExecClient_proofs --------------------------
(***************************************************************************)
(* One agent-secret exec, for any number of signals and any size of the    *)
(* channel: it is given one payload at most, what it reports is true, and  *)
(* it leaves neither a command nor a terminal behind.                      *)
(***************************************************************************)
EXTENDS ExecClient, SequenceTheorems, TLAPS

\* Before the first answer, and from the payload on.
Before == {"repair", "connect", "ask", "ensure"}
After  == Running \cup Aborting \cup {"returned"}

\* Where the command and the terminal are, by where the main goroutine is.
Phases ==
    /\ pc \in Asking \cup {"start", "killed"} => child = "none"
    /\ pc \in {"foreground", "report", "started?", "watch", "wait", "terminate", "grace"}
          => child \in {"running", "stopped", "exited"}
    /\ pc = "reap" => child = "exited"
    /\ pc \in {"closing", "restore", "giveback", "complete", "completed?", "returned"}
          => child = "reaped"
    /\ pc = "failed" => child \in {"none", "reaped"}
    /\ pc \in Asking \cup {"start", "foreground", "killed"} => tty = "parent"
    /\ tty = "child" => restores
    /\ pc \in {"complete", "completed?", "returned", "failed"} /\ tty = "child" => restored = "failed"

\* What is under way on the connection: one request and its answer, then reports.
Talk ==
    /\ pc \in {"repair"} => attempt = 0
    /\ pc \in Before => attempt <= 1 /\ asked = <<>> /\ answers = <<>> /\ delivered = 0
    /\ pc = "asking" =>
          /\ Len(asked) + Len(answers) <= 1
          /\ asked # <<>> => Head(asked) = "request"
          /\ delivered = IF answers # <<>> /\ Head(answers) = "payload" THEN 1 ELSE 0
    /\ pc = "start" => asked = <<>>
    /\ pc \in After => delivered = 1 /\ asked \in Seq(Reports)
    /\ delivered <= 1
    /\ child # "none" => delivered = 1

\* What the daemon has been told, or will be.
Told ==
    /\ pc \in Asking \cup {"start", "killed"} => recorded = {}
    /\ recorded # {} => child # "none"
    /\ (\E i \in DOMAIN asked : asked[i] = "completed") => pc \in {"completed?"} \cup Over
    /\ "completed" \in recorded => pc \in {"completed?", "returned"}
    /\ refused => pc \in Aborting \cup {"failed"}

ExecInv == TypeOK /\ Phases /\ Talk /\ Told

-----------------------------------------------------------------------------
\* What reading or serving the first element of a sequence leaves.
LEMMA FirstOut ==
    ASSUME NEW S, NEW q \in Seq(S), q # <<>>
    PROVE  /\ Head(q) \in S
           /\ Tail(q) \in Seq(S)
           /\ Len(Tail(q)) = Len(q) - 1
           /\ Len(q) > 0
           /\ \A i \in DOMAIN Tail(q) : i + 1 \in DOMAIN q /\ Tail(q)[i] = q[i + 1]
           /\ 1 \in DOMAIN q /\ Head(q) = q[1]
  BY HeadTailProperties, EmptySeq

\* What a message sent adds.
LEMMA OneMore ==
    ASSUME NEW S, NEW q \in Seq(S), NEW m \in S
    PROVE  /\ Append(q, m) \in Seq(S)
           /\ Len(Append(q, m)) = Len(q) + 1
           /\ Append(q, m) # <<>>
           /\ q = <<>> => Head(Append(q, m)) = m
           /\ \A i \in DOMAIN Append(q, m) : Append(q, m)[i] = m \/ (i \in DOMAIN q /\ Append(q, m)[i] = q[i])
  BY AppendProperties, EmptySeq

LEMMA NothingSaid == <<>> \in Seq({"request"} \cup Reports) /\ <<>> \in Seq(Says)
  BY EmptySeq

\* Run begins with nothing said, started or caught.
THEOREM InitKeeps == Init => ExecInv
  <1> SUFFICES ASSUME Init PROVE ExecInv
    OBVIOUS
  <1>1. TypeOK
    <2>1. asked \in Seq({"request"} \cup Reports) /\ answers \in Seq(Says)
      BY NothingSaid, Zenon DEF Init
    <2>2. queue \in 0..ChannelSize /\ sent \in 0..MaxInterrupts /\ attempt \in 0..2 /\ delivered \in Nat
      BY ChannelAssumption, InterruptsAssumption DEF Init
    <2>3. QED
      BY <2>1, <2>2, Zenon DEF Init, TypeOK, Asking
  <1>2. Phases
    BY DEF Init, Phases, Asking
  <1>3. Talk
    BY DEF Init, Talk, Before, After, Running, Aborting
  <1>4. Told
    BY DEF Init, Told
  <1>5. QED
    BY <1>1, <1>2, <1>3, <1>4 DEF ExecInv

\* The parts of the invariant, an action at a time.
THEOREM StepKeeps == ExecInv /\ [Next]_vars => ExecInv'
  <1> SUFFICES ASSUME ExecInv, [Next]_vars PROVE ExecInv'
    OBVIOUS
  <1> USE DEF Asking, Running, Aborting, Over, Before, After,
         daemonVars, childVars, sideVars
  <1>1. CASE EnsureHelper
    <2>1. TypeOK' BY <1>1 DEF ExecInv, TypeOK, EnsureHelper
    <2>2. Phases' BY <1>1 DEF ExecInv, TypeOK, Phases, EnsureHelper
    <2>3. Talk' BY <1>1 DEF ExecInv, TypeOK, Phases, Talk, EnsureHelper
    <2>4. Told' BY <1>1 DEF ExecInv, TypeOK, Phases, Told, Talk, EnsureHelper
    <2>5. QED BY <2>1, <2>2, <2>3, <2>4 DEF ExecInv
  <1>2. CASE Connect
    <2>1. TypeOK' 
      <3>1. asked' \in Seq({"request"} \cup Reports) /\ answers' \in Seq(Says)
        BY <1>2, NothingSaid, Zenon DEF ExecInv, TypeOK, Connect
      <3>2. /\ pc' \in {"ask", "failed"} /\ link' \in {link, "open"}
            /\ UNCHANGED <<attempt, delivered, recorded, refused, childVars, sideVars>>
        BY <1>2 DEF Connect, Goto
      <3>3. QED
        BY <3>1, <3>2 DEF ExecInv, TypeOK
    <2>2. Phases' BY <1>2 DEF ExecInv, TypeOK, Phases, Connect, At, Goto, Leaves
    <2>3. Talk' BY <1>2 DEF ExecInv, TypeOK, Phases, Talk, Connect, At, Goto, Leaves
    <2>4. Told' BY <1>2 DEF ExecInv, TypeOK, Phases, Told, Talk, Connect, At, Goto, Leaves
    <2>5. QED BY <2>1, <2>2, <2>3, <2>4 DEF ExecInv
  <1>3. CASE RequestExec
    <2>1. TypeOK' 
      <3>1. asked \in Seq({"request"} \cup Reports)
        BY DEF ExecInv, TypeOK
      <3>2. Append(asked, "request") \in Seq({"request"} \cup Reports)
        BY <3>1, AppendProperties
      <3>3. asked' \in Seq({"request"} \cup Reports)
        BY <1>3, <3>1, <3>2 DEF RequestExec, At, Goto, Leaves
      <3>4. attempt' \in 0..2
        BY <1>3 DEF ExecInv, TypeOK, Talk, RequestExec, At, Goto, Leaves
      <3>5. QED
        BY <1>3, <3>3, <3>4 DEF ExecInv, TypeOK, RequestExec, At, Goto, Leaves
    <2>2. Phases' BY <1>3 DEF ExecInv, TypeOK, Phases, RequestExec, At, Goto, Leaves
    <2>3. Talk' 
      <3>1. asked \in Seq({"request"} \cup Reports) /\ asked = <<>> /\ answers = <<>> /\ delivered = 0
            /\ child = "none" /\ child' = child
        BY <1>3 DEF ExecInv, TypeOK, Phases, Talk, RequestExec, At, Goto, Leaves
      <3>2. Len(Append(asked, "request")) = 1 /\ Head(Append(asked, "request")) = "request" /\ Len(answers) = 0
        BY <3>1
      <3>3. CASE pc' = "asking"
        <4>1. asked' = Append(asked, "request") /\ answers' = <<>> /\ delivered' = 0
          BY <1>3, <3>1, <3>3 DEF RequestExec, At, Goto, Leaves
        <4>2. Len(asked') = 1 /\ Head(asked') = "request" /\ Len(answers') = 0
          BY <3>1, <3>2, <4>1
        <4>3. QED
          BY <3>1, <3>3, <4>1, <4>2 DEF Talk
      <3>4. CASE pc' # "asking"
        BY <1>3, <3>1, <3>4 DEF Talk, RequestExec, At, Goto, Leaves
      <3>5. QED
        BY <3>3, <3>4
    <2>4. Told' BY <1>3 DEF ExecInv, TypeOK, Phases, Told, Talk, RequestExec, At, Goto, Leaves
    <2>5. QED BY <2>1, <2>2, <2>3, <2>4 DEF ExecInv
  <1>4. CASE RequestAnswered
    <2>1. TypeOK' BY <1>4 DEF ExecInv, TypeOK, RequestAnswered, At, Goto, Leaves
    <2>2. Phases' BY <1>4 DEF ExecInv, TypeOK, Phases, RequestAnswered, At, Goto, Leaves
    <2>3. Talk' BY <1>4 DEF ExecInv, TypeOK, Phases, Talk, RequestAnswered, At, Goto, Leaves
    <2>4. Told' BY <1>4 DEF ExecInv, TypeOK, Phases, Told, Talk, RequestAnswered, At, Goto, Leaves
    <2>5. QED BY <2>1, <2>2, <2>3, <2>4 DEF ExecInv
  <1>5. CASE RequestLost
    <2>1. TypeOK' BY <1>5 DEF ExecInv, TypeOK, RequestLost, At, Goto, Leaves
    <2>2. Phases' BY <1>5 DEF ExecInv, TypeOK, Phases, RequestLost, At, Goto, Leaves
    <2>3. Talk' BY <1>5 DEF ExecInv, TypeOK, Phases, Talk, RequestLost, At, Goto, Leaves
    <2>4. Told' BY <1>5 DEF ExecInv, TypeOK, Phases, Told, Talk, RequestLost, At, Goto, Leaves
    <2>5. QED BY <2>1, <2>2, <2>3, <2>4 DEF ExecInv
  <1>6. CASE StartChild
    <2>1. TypeOK' BY <1>6 DEF ExecInv, TypeOK, StartChild, At, Goto, Leaves
    <2>2. Phases' BY <1>6 DEF ExecInv, TypeOK, Phases, StartChild, At, Goto, Leaves
    <2>3. Talk' BY <1>6 DEF ExecInv, TypeOK, Phases, Talk, StartChild, At, Goto, Leaves
    <2>4. Told' BY <1>6 DEF ExecInv, TypeOK, Phases, Told, Talk, StartChild, At, Goto, Leaves
    <2>5. QED BY <2>1, <2>2, <2>3, <2>4 DEF ExecInv
  <1>7. CASE ForegroundChild
    <2>1. TypeOK' 
      <3>1. restores' \in BOOLEAN
        BY <1>7 DEF ExecInv, TypeOK, ForegroundChild, At, Goto, Leaves
      <3>2. QED
        BY <1>7, <3>1 DEF ExecInv, TypeOK, ForegroundChild, At, Goto, Leaves
    <2>2. Phases' BY <1>7 DEF ExecInv, TypeOK, Phases, ForegroundChild, At, Goto, Leaves
    <2>3. Talk' BY <1>7 DEF ExecInv, TypeOK, Phases, Talk, ForegroundChild, At, Goto, Leaves
    <2>4. Told' BY <1>7 DEF ExecInv, TypeOK, Phases, Told, Talk, ForegroundChild, At, Goto, Leaves
    <2>5. QED BY <2>1, <2>2, <2>3, <2>4 DEF ExecInv
  <1>8. CASE Watch
    <2>1. TypeOK' BY <1>8 DEF ExecInv, TypeOK, Watch, At, Goto, Leaves
    <2>2. Phases' BY <1>8 DEF ExecInv, TypeOK, Phases, Watch, At, Goto, Leaves
    <2>3. Talk' BY <1>8 DEF ExecInv, TypeOK, Phases, Talk, Watch, At, Goto, Leaves
    <2>4. Told' BY <1>8 DEF ExecInv, TypeOK, Phases, Told, Talk, Watch, At, Goto, Leaves
    <2>5. QED BY <2>1, <2>2, <2>3, <2>4 DEF ExecInv
  <1>9. CASE WaitChild
    <2>1. TypeOK' BY <1>9 DEF ExecInv, TypeOK, WaitChild, At, Goto, Leaves
    <2>2. Phases' BY <1>9 DEF ExecInv, TypeOK, Phases, WaitChild, At, Goto, Leaves
    <2>3. Talk' BY <1>9 DEF ExecInv, TypeOK, Phases, Talk, WaitChild, At, Goto, Leaves
    <2>4. Told' BY <1>9 DEF ExecInv, TypeOK, Phases, Told, Talk, WaitChild, At, Goto, Leaves
    <2>5. QED BY <2>1, <2>2, <2>3, <2>4 DEF ExecInv
  <1>10. CASE CloseDone
    <2>1. TypeOK' BY <1>10 DEF ExecInv, TypeOK, CloseDone, At, Goto, Leaves
    <2>2. Phases' BY <1>10 DEF ExecInv, TypeOK, Phases, CloseDone, At, Goto, Leaves
    <2>3. Talk' BY <1>10 DEF ExecInv, TypeOK, Phases, Talk, CloseDone, At, Goto, Leaves
    <2>4. Told' BY <1>10 DEF ExecInv, TypeOK, Phases, Told, Talk, CloseDone, At, Goto, Leaves
    <2>5. QED BY <2>1, <2>2, <2>3, <2>4 DEF ExecInv
  <1>11. CASE RestoreTerminal
    <2>1. TypeOK' BY <1>11 DEF ExecInv, TypeOK, RestoreTerminal, At
    <2>2. Phases' BY <1>11 DEF ExecInv, TypeOK, Phases, RestoreTerminal, At
    <2>3. Talk' BY <1>11 DEF ExecInv, TypeOK, Phases, Talk, RestoreTerminal, At
    <2>4. Told' BY <1>11 DEF ExecInv, TypeOK, Phases, Told, Talk, RestoreTerminal, At
    <2>5. QED BY <2>1, <2>2, <2>3, <2>4 DEF ExecInv
  <1>12. CASE TerminateChild
    <2>1. TypeOK' BY <1>12 DEF ExecInv, TypeOK, TerminateChild, At, Goto, Leaves
    <2>2. Phases' BY <1>12 DEF ExecInv, TypeOK, Phases, TerminateChild, At, Goto, Leaves
    <2>3. Talk' BY <1>12 DEF ExecInv, TypeOK, Phases, Talk, TerminateChild, At, Goto, Leaves
    <2>4. Told' BY <1>12 DEF ExecInv, TypeOK, Phases, Told, Talk, TerminateChild, At, Goto, Leaves
    <2>5. QED BY <2>1, <2>2, <2>3, <2>4 DEF ExecInv
  <1>13. CASE KillChild
    <2>1. TypeOK' BY <1>13 DEF ExecInv, TypeOK, KillChild, At, Goto, Leaves
    <2>2. Phases' BY <1>13 DEF ExecInv, TypeOK, Phases, KillChild, At, Goto, Leaves
    <2>3. Talk' BY <1>13 DEF ExecInv, TypeOK, Phases, Talk, KillChild, At, Goto, Leaves
    <2>4. Told' BY <1>13 DEF ExecInv, TypeOK, Phases, Told, Talk, KillChild, At, Goto, Leaves
    <2>5. QED BY <2>1, <2>2, <2>3, <2>4 DEF ExecInv
  <1>14. CASE ReapChild
    <2>1. TypeOK' BY <1>14 DEF ExecInv, TypeOK, ReapChild, At, Goto, Leaves
    <2>2. Phases' BY <1>14 DEF ExecInv, TypeOK, Phases, ReapChild, At, Goto, Leaves
    <2>3. Talk' BY <1>14 DEF ExecInv, TypeOK, Phases, Talk, ReapChild, At, Goto, Leaves
    <2>4. Told' BY <1>14 DEF ExecInv, TypeOK, Phases, Told, Talk, ReapChild, At, Goto, Leaves
    <2>5. QED BY <2>1, <2>2, <2>3, <2>4 DEF ExecInv
  <1>15. CASE SendReport
    <2>1. TypeOK' 
      <3>1. asked \in Seq({"request"} \cup Reports)
        BY DEF ExecInv, TypeOK
      <3>2. \A m \in Reports : Append(asked, m) \in Seq({"request"} \cup Reports)
        BY <3>1, AppendProperties
      <3>3. asked' \in Seq({"request"} \cup Reports)
        BY <1>15, <3>1, <3>2 DEF Reports, SendReport, At, Goto, Onward, Leaves
      <3>4. QED
        BY <1>15, <3>3 DEF ExecInv, TypeOK, SendReport, At, Goto, Onward, Leaves
    <2>2. Phases' BY <1>15 DEF ExecInv, TypeOK, Phases, SendReport, At, Goto, Onward, Leaves
    <2>3. Talk' 
      <3>1. asked \in Seq(Reports)
        BY <1>15 DEF ExecInv, TypeOK, Talk, SendReport, At, Goto, Onward, Leaves
      <3>2. \A m \in Reports : Append(asked, m) \in Seq(Reports)
        BY <3>1, AppendProperties
      <3>3. asked' \in Seq(Reports)
        BY <1>15, <3>1, <3>2 DEF Reports, SendReport, At, Goto, Onward, Leaves
      <3>4. QED
        BY <1>15, <3>3 DEF ExecInv, TypeOK, Talk, SendReport, At, Goto, Onward, Leaves
    <2>4. Told' 
      <3>1. asked \in Seq(Reports) /\ pc \in {"report", "complete"}
        BY <1>15 DEF ExecInv, Talk, SendReport
      <3>2. asked' = asked \/ asked' = Append(asked, IF pc = "report" THEN "started" ELSE "completed")
        BY <1>15 DEF SendReport, At
      <3>3. \A i \in DOMAIN asked' : \/ i \in DOMAIN asked /\ asked'[i] = asked[i]
                                   \/ asked'[i] = IF pc = "report" THEN "started" ELSE "completed"
        BY <3>1, <3>2, OneMore DEF Reports
      <3>4. QED
        BY <1>15, <3>1, <3>3 DEF ExecInv, Phases, Told, SendReport, At, Goto, Onward, Leaves
    <2>5. QED BY <2>1, <2>2, <2>3, <2>4 DEF ExecInv
  <1>16. CASE ReportAnswered
    <2>1. TypeOK' 
      <3>1. answers' \in Seq(Says)
        BY <1>16 DEF ExecInv, TypeOK, ReportAnswered, At, Goto, Leaves, AfterStarted
      <3>2. refused' \in BOOLEAN
        BY <1>16 DEF ExecInv, TypeOK, ReportAnswered, At, Goto, Leaves, AfterStarted
      <3>3. QED
        BY <1>16, <3>1, <3>2 DEF ExecInv, TypeOK, ReportAnswered, At, Goto, Leaves, AfterStarted
    <2>2. Phases' BY <1>16 DEF ExecInv, TypeOK, Phases, ReportAnswered, At, Goto, Leaves, AfterStarted
    <2>3. Talk' BY <1>16 DEF ExecInv, TypeOK, Phases, Talk, ReportAnswered, At, Goto, Leaves, AfterStarted
    <2>4. Told' BY <1>16 DEF ExecInv, TypeOK, Phases, Told, Talk, ReportAnswered, At, Goto, Leaves, AfterStarted
    <2>5. QED BY <2>1, <2>2, <2>3, <2>4 DEF ExecInv
  <1>17. CASE ReportLost
    <2>1. TypeOK' BY <1>17 DEF ExecInv, TypeOK, ReportLost, Goto, Onward, At
    <2>2. Phases' BY <1>17 DEF ExecInv, TypeOK, Phases, ReportLost, Goto, Onward, At
    <2>3. Talk' BY <1>17 DEF ExecInv, TypeOK, Phases, Talk, ReportLost, Goto, Onward, At
    <2>4. Told' BY <1>17 DEF ExecInv, TypeOK, Phases, Told, Talk, ReportLost, Goto, Onward, At
    <2>5. QED BY <2>1, <2>2, <2>3, <2>4 DEF ExecInv
  <1>18. CASE TakeInterrupt
    <2>1. TypeOK' BY <1>18, ChannelAssumption DEF ExecInv, TypeOK, TakeInterrupt
    <2>2. Phases' BY <1>18 DEF ExecInv, TypeOK, Phases, TakeInterrupt, At, Goto, Leaves
    <2>3. Talk' BY <1>18 DEF ExecInv, TypeOK, Phases, Talk, TakeInterrupt, At, Goto, Leaves
    <2>4. Told' BY <1>18 DEF ExecInv, TypeOK, Phases, Told, Talk, TakeInterrupt, At, Goto, Leaves
    <2>5. QED BY <2>1, <2>2, <2>3, <2>4 DEF ExecInv
  <1>19. CASE Forward
    <2>1. TypeOK' BY <1>19 DEF ExecInv, TypeOK, Forward, At, Goto, Leaves
    <2>2. Phases' BY <1>19 DEF ExecInv, TypeOK, Phases, Forward, At, Goto, Leaves
    <2>3. Talk' BY <1>19 DEF ExecInv, TypeOK, Phases, Talk, Forward, At, Goto, Leaves
    <2>4. Told' BY <1>19 DEF ExecInv, TypeOK, Phases, Told, Talk, Forward, At, Goto, Leaves
    <2>5. QED BY <2>1, <2>2, <2>3, <2>4 DEF ExecInv
  <1>20. CASE ForwarderEnds
    <2>1. TypeOK' BY <1>20 DEF ExecInv, TypeOK, ForwarderEnds, At, Goto, Leaves
    <2>2. Phases' BY <1>20 DEF ExecInv, TypeOK, Phases, ForwarderEnds, At, Goto, Leaves
    <2>3. Talk' BY <1>20 DEF ExecInv, TypeOK, Phases, Talk, ForwarderEnds, At, Goto, Leaves
    <2>4. Told' BY <1>20 DEF ExecInv, TypeOK, Phases, Told, Talk, ForwarderEnds, At, Goto, Leaves
    <2>5. QED BY <2>1, <2>2, <2>3, <2>4 DEF ExecInv
  <1>21. CASE KillerTerminates
    <2>1. TypeOK' BY <1>21 DEF ExecInv, TypeOK, KillerTerminates, At, Goto, Leaves
    <2>2. Phases' BY <1>21 DEF ExecInv, TypeOK, Phases, KillerTerminates, At, Goto, Leaves
    <2>3. Talk' BY <1>21 DEF ExecInv, TypeOK, Phases, Talk, KillerTerminates, At, Goto, Leaves
    <2>4. Told' BY <1>21 DEF ExecInv, TypeOK, Phases, Told, Talk, KillerTerminates, At, Goto, Leaves
    <2>5. QED BY <2>1, <2>2, <2>3, <2>4 DEF ExecInv
  <1>22. CASE KillerKills
    <2>1. TypeOK' BY <1>22 DEF ExecInv, TypeOK, KillerKills, Alive
    <2>2. Phases' BY <1>22 DEF ExecInv, TypeOK, Phases, KillerKills, Alive
    <2>3. Talk' BY <1>22 DEF ExecInv, TypeOK, Phases, Talk, KillerKills, Alive
    <2>4. Told' BY <1>22 DEF ExecInv, TypeOK, Phases, Told, Talk, KillerKills, Alive
    <2>5. QED BY <2>1, <2>2, <2>3, <2>4 DEF ExecInv
  <1>23. CASE KillerEnds
    <2>1. TypeOK' BY <1>23 DEF ExecInv, TypeOK, KillerEnds, At, Goto, Leaves
    <2>2. Phases' BY <1>23 DEF ExecInv, TypeOK, Phases, KillerEnds, At, Goto, Leaves
    <2>3. Talk' BY <1>23 DEF ExecInv, TypeOK, Phases, Talk, KillerEnds, At, Goto, Leaves
    <2>4. Told' BY <1>23 DEF ExecInv, TypeOK, Phases, Told, Talk, KillerEnds, At, Goto, Leaves
    <2>5. QED BY <2>1, <2>2, <2>3, <2>4 DEF ExecInv
  <1>24. CASE Interrupt
    <2>1. TypeOK' BY <1>24, ChannelAssumption, InterruptsAssumption DEF ExecInv, TypeOK, Interrupt, Goto
    <2>2. Phases' BY <1>24 DEF ExecInv, TypeOK, Phases, Interrupt, Goto
    <2>3. Talk' BY <1>24 DEF ExecInv, TypeOK, Phases, Talk, Interrupt, Goto
    <2>4. Told' BY <1>24 DEF ExecInv, TypeOK, Phases, Told, Talk, Interrupt, Goto
    <2>5. QED BY <2>1, <2>2, <2>3, <2>4 DEF ExecInv
  <1>25. CASE CancelContext
    <2>1. TypeOK' BY <1>25 DEF ExecInv, TypeOK, CancelContext, At, Goto, Leaves
    <2>2. Phases' BY <1>25 DEF ExecInv, TypeOK, Phases, CancelContext, At, Goto, Leaves
    <2>3. Talk' BY <1>25 DEF ExecInv, TypeOK, Phases, Talk, CancelContext, At, Goto, Leaves
    <2>4. Told' BY <1>25 DEF ExecInv, TypeOK, Phases, Told, Talk, CancelContext, At, Goto, Leaves
    <2>5. QED BY <2>1, <2>2, <2>3, <2>4 DEF ExecInv
  <1>26. CASE ChildActs
    <2>1. TypeOK' BY <1>26 DEF ExecInv, TypeOK, ChildActs, At, Goto, Leaves
    <2>2. Phases' BY <1>26 DEF ExecInv, TypeOK, Phases, ChildActs, At, Goto, Leaves
    <2>3. Talk' BY <1>26 DEF ExecInv, TypeOK, Phases, Talk, ChildActs, At, Goto, Leaves
    <2>4. Told' BY <1>26 DEF ExecInv, TypeOK, Phases, Told, Talk, ChildActs, At, Goto, Leaves
    <2>5. QED BY <2>1, <2>2, <2>3, <2>4 DEF ExecInv
  <1>27. CASE DaemonServes
    <2>1. TypeOK' 
      <3>1. asked \in Seq({"request"} \cup Reports) /\ asked # <<>>
        BY <1>27 DEF ExecInv, TypeOK, DaemonServes, Verdicts
      <3>2. Head(asked) \in {"request"} \cup Reports /\ Tail(asked) \in Seq({"request"} \cup Reports)
        BY <3>1, HeadTailProperties
      <3>3. PICK says \in Verdicts(Head(asked)) :
                /\ answers' = IF link = "open" THEN Append(answers, says) ELSE answers
                /\ delivered' = IF says = "payload" /\ link = "open" THEN delivered + 1 ELSE delivered
                /\ recorded' = IF says = "ok" THEN recorded \cup {Head(asked)} ELSE recorded
        BY <1>27 DEF DaemonServes
      <3>4. says \in Says
        BY <3>2 DEF Verdicts, Says, Reports
      <3>5. says = "ok" => Head(asked) \in Reports
        BY <3>2 DEF Verdicts, Reports
      <3>6. answers' \in Seq(Says)
        BY <3>3, <3>4, AppendProperties DEF ExecInv, TypeOK
      <3>7. delivered' \in Nat /\ recorded' \in SUBSET Reports
        BY <3>3, <3>5 DEF ExecInv, TypeOK
      <3>8. QED
        BY <1>27, <3>2, <3>6, <3>7 DEF ExecInv, TypeOK, DaemonServes
    <2>2. Phases' BY <1>27 DEF ExecInv, TypeOK, Phases, DaemonServes, Verdicts
    <2>3. Talk' 
      <3>1. asked \in Seq({"request"} \cup Reports) /\ asked # <<>> /\ answers \in Seq(Says)
        BY <1>27 DEF ExecInv, TypeOK, DaemonServes, Verdicts
      <3>2. PICK says \in Verdicts(Head(asked)) :
                /\ answers' = IF link = "open" THEN Append(answers, says) ELSE answers
                /\ delivered' = IF says = "payload" /\ link = "open" THEN delivered + 1 ELSE delivered
        BY <1>27 DEF DaemonServes
      <3>3. pc' = pc /\ attempt' = attempt /\ asked' = Tail(asked) /\ pc \notin Over /\ pc \notin Before \cup {"start"}
        BY <1>27 DEF ExecInv, Talk, DaemonServes, Verdicts
      <3>4. CASE pc = "asking"
        <4>1. Len(asked) + Len(answers) <= 1 /\ Head(asked) = "request"
          BY <3>1, <3>4 DEF ExecInv, Talk
        <4>2. Len(asked) > 0 /\ Len(answers) >= 0 /\ Len(Tail(asked)) = Len(asked) - 1
              /\ Tail(asked) \in Seq({"request"} \cup Reports)
          BY <3>1, FirstOut, LenProperties
        <4>3. Len(answers) = 0 /\ Len(Tail(asked)) = 0
          BY <3>1, <4>1, <4>2, LenProperties
        <4>4. answers = <<>> /\ asked' = <<>>
          BY <3>1, <3>3, <4>2, <4>3, EmptySeq
        <4>5. delivered = 0
          BY <3>4, <4>4 DEF ExecInv, Talk
        <4>6. \/ answers' = <<>> /\ delivered' = 0
              \/ answers' = <<says>> /\ delivered' = IF says = "payload" THEN 1 ELSE 0
          BY <3>2, <4>4, <4>5
        <4>7. /\ Len(asked') + Len(answers') <= 1
              /\ delivered' = IF answers' # <<>> /\ Head(answers') = "payload" THEN 1 ELSE 0
              /\ delivered' <= 1
          <5>1. Len(asked') = 0
            BY <4>4
          <5>2. CASE answers' = <<>> /\ delivered' = 0
            BY <5>1, <5>2
          <5>3. CASE answers' = <<says>> /\ delivered' = IF says = "payload" THEN 1 ELSE 0
            <6>1. Len(answers') = 1 /\ answers' # <<>> /\ Head(answers') = says
              BY <5>3
            <6>2. QED
              BY <5>1, <5>3, <6>1
          <5>4. QED
            BY <4>6, <5>2, <5>3
        <4>8. child' = "none"
          BY <1>27, <3>4 DEF ExecInv, Phases, DaemonServes
        <4>9. QED
          BY <3>3, <3>4, <4>4, <4>7, <4>8 DEF Talk
      <3>5. CASE pc # "asking"
        <4>1. pc \in After /\ asked \in Seq(Reports)
          BY <3>3, <3>5 DEF ExecInv, TypeOK, Talk
        <4>2. Head(asked) \in Reports /\ Tail(asked) \in Seq(Reports)
          BY <3>1, <4>1, HeadTailProperties
        <4>3. says # "payload"
          BY <4>2 DEF Verdicts, Reports
        <4>4. QED
          BY <3>2, <3>3, <3>5, <4>1, <4>2, <4>3 DEF ExecInv, Talk
      <3>6. QED
        BY <3>4, <3>5
    <2>4. Told' BY <1>27 DEF ExecInv, TypeOK, Phases, Told, Talk, DaemonServes, Verdicts
    <2>5. QED BY <2>1, <2>2, <2>3, <2>4 DEF ExecInv
  <1>28. CASE DaemonDrops
    <2>1. TypeOK' BY <1>28 DEF ExecInv, TypeOK, DaemonDrops, At, Goto, Leaves
    <2>2. Phases' BY <1>28 DEF ExecInv, TypeOK, Phases, DaemonDrops, At, Goto, Leaves
    <2>3. Talk' BY <1>28 DEF ExecInv, TypeOK, Phases, Talk, DaemonDrops, At, Goto, Leaves
    <2>4. Told' BY <1>28 DEF ExecInv, TypeOK, Phases, Told, Talk, DaemonDrops, At, Goto, Leaves
    <2>5. QED BY <2>1, <2>2, <2>3, <2>4 DEF ExecInv
  <1>29. CASE UNCHANGED vars
    BY <1>29 DEF ExecInv, TypeOK, Phases, Talk, Told, vars
  <1>30. QED
    BY <1>1, <1>2, <1>3, <1>4, <1>5, <1>6, <1>7, <1>8, <1>9, <1>10, <1>11, <1>12, <1>13, <1>14, <1>15, <1>16, <1>17, <1>18, <1>19, <1>20, <1>21, <1>22, <1>23, <1>24, <1>25, <1>26, <1>27, <1>28, <1>29 DEF Next, Main, Forwarder, Killer

-----------------------------------------------------------------------------
\* The inductive invariant of one agent-secret exec (execwrap.Run and its goroutines).
THEOREM ExecInvariant == Spec => []ExecInv
  BY InitKeeps, StepKeeps, PTL DEF Spec

\* The variables of the CLI keep their types.
THEOREM ExecTypes == Spec => []TypeOK
  <1>1. ExecInv => TypeOK
    BY DEF ExecInv
  <1>2. QED
    BY <1>1, ExecInvariant, PTL

\* Run never returns while its command is there, and gives the terminal back
\* (execwrap.go:80-118).
THEOREM NothingLeft == Spec => []ReturnLeavesNothing
  <1>1. ExecInv => ReturnLeavesNothing
    BY DEF ExecInv, TypeOK, Phases, ReturnLeavesNothing, Over, Asking
  <1>2. QED
    BY <1>1, ExecInvariant, PTL

\* A command costs one payload, however often it was asked for (app_requests.go:46).
THEOREM OnePayload == Spec => []DeliveredAtMostOnce
  <1>1. ExecInv => DeliveredAtMostOnce
    BY DEF ExecInv, Talk, DeliveredAtMostOnce
  <1>2. QED
    BY <1>1, ExecInvariant, PTL

\* The audit trail of a command never says more than happened (app_exec.go:199-222).
THEOREM TrueReports == Spec => []ReportsAreTrue
  <1>1. ExecInv => ReportsAreTrue
    BY DEF ExecInv, Phases, Told, ReportsAreTrue, Aborting
  <1>2. QED
    BY <1>1, ExecInvariant, PTL
=============================================================================
