--------------------------- MODULE SocketApprover ---------------------------
(***************************************************************************)
(* The approval queue of the daemon (internal/daemon/approval).  Approve   *)
(* calls line up; one job at a time is active, for which an approver       *)
(* process is launched.  The process connects back, fetches the pending    *)
(* request and submits the operator's decision.  A job also ends when it   *)
(* expires, its caller goes away, the launch fails or the process exits.   *)
(*                                                                         *)
(* A step is what a goroutine does while it holds the approver's mutex, or *)
(* one operation on a job's channels.  Goroutines: the callers, promoteNext*)
(* (from its first critical section on named after the job it took, the    *)
(* "launcher", which then monitors the process), and the server's handler   *)
(* of the connection of an approver process ("peer").  A process is named  *)
(* after the job it was launched for.                                      *)
(***************************************************************************)
EXTENDS Naturals, Sequences

CONSTANTS Jobs,             \* approval requests
          NoJob,            \* the nil job
          AllowsReusable,   \* jobs whose payload allows a reusable approval
          Peers,            \* processes that connect back, by their job
          Choices           \* decisions explored: subset of Verdicts

Approvals == {"approve_once", "approve_reusable"}
Verdicts  == Approvals \cup {"deny", "timeout"}

ASSUME JobsAssumption ==
    /\ NoJob \notin Jobs
    /\ AllowsReusable \subseteq Jobs
    /\ Peers \subseteq Jobs
    /\ Choices \subseteq Verdicts

VARIABLES
    queue,      \* waiting jobs, oldest first
    active,     \* the job being decided, or NoJob
    promoters,  \* promoteNext goroutines not yet in their critical section
    caller,     \* Approve: "idle", "waiting", "leaving", "returned"
    answer,     \* what Approve returned
    result,     \* the job's result channel, of capacity one
    done,       \* jobs whose done channel is closed
    expired,    \* jobs whose ExpiresAt has passed
    launch,     \* the launcher: "none", "check", "launching", "launched", and, as
                \* monitorExpectedApprover, "watching"; "over"
    process,    \* the approver process: "none", "running", "exited"
    ready,      \* jobs with expectedReady set
    conn,       \* a process's connection: "open", "check", "waiting", "picked"
    ask,        \* what the process asks for on it
    seen,       \* the job activeWhenExpectedReady returned to it
    ending,     \* how far an actor is in ending a job
    said        \* history: said[j]: approvals j's process submitted for j

job    == <<done, expired, ready>>
calls  == <<caller, answer>>
procs  == <<launch, process>>
peers  == <<conn, ask, seen>>
line   == <<queue, active, promoters>>
vars == <<queue, active, promoters, caller, answer, result, done, expired, launch,
          process, ready, conn, ask, seen, ending, said>>

\* A denial and every error are one outcome here: no approval.
Results  == {"approved", "reusable", "refused"}
MaybeJob == Jobs \cup {NoJob}
Actors   == {"caller", "launcher", "peer"} \X Jobs

Fetching == [op |-> "fetch", claim |-> NoJob, verdict |-> "timeout"]
Asks     == {Fetching} \cup [op : {"submit"}, claim : Jobs, verdict : Verdicts]
Idle     == [step |-> "idle", job |-> NoJob, result |-> "none"]

TypeOK ==
    /\ queue \in Seq(Jobs)
    /\ active \in MaybeJob
    /\ promoters \in Nat
    /\ caller \in [Jobs -> {"idle", "waiting", "leaving", "returned"}]
    /\ answer \in [Jobs -> Results \cup {"none"}]
    /\ result \in [Jobs -> Results \cup {"none"}]
    /\ done \in SUBSET Jobs
    /\ expired \in SUBSET Jobs
    /\ launch \in [Jobs -> {"none", "check", "launching", "launched", "watching", "over"}]
    /\ process \in [Jobs -> {"none", "running", "exited"}]
    /\ ready \in SUBSET Jobs
    /\ conn \in [Jobs -> {"open", "check", "waiting", "picked"}]
    /\ ask \in [Jobs -> Asks]
    /\ seen \in [Jobs -> MaybeJob]
    /\ ending \in [Actors -> [step : {"idle", "dequeue", "clear", "send"},
                              job : MaybeJob, result : Results \cup {"none"}]]
    /\ said \in [Jobs -> SUBSET Approvals]

Init ==
    /\ queue = <<>>
    /\ active = NoJob
    /\ promoters = 0
    /\ caller = [j \in Jobs |-> "idle"]
    /\ answer = [j \in Jobs |-> "none"]
    /\ result = [j \in Jobs |-> "none"]
    /\ done = {}
    /\ expired = {}
    /\ launch = [j \in Jobs |-> "none"]
    /\ process = [j \in Jobs |-> "none"]
    /\ ready = {}
    /\ conn = [j \in Jobs |-> "open"]
    /\ ask = [j \in Jobs |-> Fetching]
    /\ seen = [j \in Jobs |-> NoJob]
    /\ ending = [a \in Actors |-> Idle]
    /\ said = [j \in Jobs |-> {}]

-----------------------------------------------------------------------------
(***************************************************************************)
(* Ending a job.  complete closes done and calls finish; cancel closes     *)
(* done, takes the job out of the queue, and calls finish only if it was   *)
(* not there.  finish clears active (and broadcasts), sends the result     *)
(* unless one is there already, and starts a promoteNext.                  *)
(***************************************************************************)
Ends(a, step, j, r) ==
    /\ ending[a] = Idle
    /\ ending' = [ending EXCEPT ![a] = [step |-> step, job |-> j, result |-> r]]
    /\ done' = done \cup {j}

Complete(a, j, r) == Ends(a, "clear", j, r)
Cancel(a, j, r)   == Ends(a, "dequeue", j, r)

At(a, step) == ending[a].step = step

\* cond.Broadcast: everyone in cond.Wait looks again.
Woken == [p \in Jobs |-> IF conn[p] = "waiting" THEN "check" ELSE conn[p]]

\* Approve returns r once its cancel is through.
Returns(a, r) ==
    IF a[1] = "caller"
    THEN /\ caller' = [caller EXCEPT ![a[2]] = "returned"]
         /\ answer' = [answer EXCEPT ![a[2]] = r]
    ELSE UNCHANGED calls

Queued == {queue[i] : i \in 1..Len(queue)}

\* cancel finds the job in the queue: it is removed and that is all ...
CancelQueued(a) ==
    /\ At(a, "dequeue")
    /\ \E i \in 1..Len(queue) :
          /\ queue[i] = ending[a].job
          /\ queue' = SubSeq(queue, 1, i - 1) \o SubSeq(queue, i + 1, Len(queue))
    /\ ending' = [ending EXCEPT ![a] = Idle]
    /\ Returns(a, ending[a].result)
    /\ UNCHANGED <<active, promoters, result, job, procs, peers, said>>

\* ... or does not, and goes on to finish.
CancelStarted(a) ==
    /\ At(a, "dequeue")
    /\ ending[a].job \notin Queued
    /\ ending' = [ending EXCEPT ![a].step = "clear"]
    /\ UNCHANGED <<line, calls, result, job, procs, peers, said>>

\* Faulty: no broadcast.
ClearActiveSilently(a) ==
    /\ At(a, "clear")
    /\ active' = IF active = ending[a].job THEN NoJob ELSE active
    /\ ending' = [ending EXCEPT ![a].step = "send"]
    /\ UNCHANGED <<queue, promoters, calls, result, job, procs, peers, said>>

\* finish, under the mutex.
ClearActive(a) ==
    /\ At(a, "clear")
    /\ active' = IF active = ending[a].job THEN NoJob ELSE active
    /\ conn' = Woken
    /\ ending' = [ending EXCEPT ![a].step = "send"]
    /\ UNCHANGED <<queue, promoters, calls, result, job, procs, ask, seen, said>>

\* Faulty: nobody is promoted next.
SendPromotesNone(a) ==
    /\ At(a, "send")
    /\ result' = [result EXCEPT ![ending[a].job] = IF @ = "none" THEN ending[a].result ELSE @]
    /\ ending' = [ending EXCEPT ![a] = Idle]
    /\ Returns(a, ending[a].result)
    /\ UNCHANGED <<line, job, procs, peers, said>>

\* Faulty: the send waits for room in the channel.
SendBlocks(a) ==
    /\ At(a, "send")
    /\ result[ending[a].job] = "none"
    /\ result' = [result EXCEPT ![ending[a].job] = ending[a].result]
    /\ promoters' = promoters + 1
    /\ ending' = [ending EXCEPT ![a] = Idle]
    /\ Returns(a, ending[a].result)
    /\ UNCHANGED <<queue, active, job, procs, peers, said>>

\* finish, after it.
SendResult(a) ==
    /\ At(a, "send")
    /\ result' = [result EXCEPT ![ending[a].job] = IF @ = "none" THEN ending[a].result ELSE @]
    /\ promoters' = promoters + 1
    /\ ending' = [ending EXCEPT ![a] = Idle]
    /\ Returns(a, ending[a].result)
    /\ UNCHANGED <<queue, active, job, procs, peers, said>>

-----------------------------------------------------------------------------
(***************************************************************************)
(* Approve.                                                                *)
(***************************************************************************)
Approve(j) ==
    /\ caller[j] = "idle"
    /\ queue' = Append(queue, j)
    /\ promoters' = IF active = NoJob /\ queue = <<>> THEN promoters + 1 ELSE promoters
    /\ caller' = [caller EXCEPT ![j] = "waiting"]
    /\ UNCHANGED <<active, answer, result, job, procs, peers, ending, said>>

ReceiveResult(j) ==
    /\ caller[j] = "waiting"
    /\ result[j] # "none"
    /\ caller' = [caller EXCEPT ![j] = "returned"]
    /\ answer' = [answer EXCEPT ![j] = result[j]]
    /\ result' = [result EXCEPT ![j] = "none"]
    /\ UNCHANGED <<line, job, procs, peers, ending, said>>

\* The timer fires, or the request had expired on arrival ...
CallerTimesOut(j) ==
    /\ caller[j] = "waiting"
    /\ j \in expired
    /\ Cancel(<<"caller", j>>, j, "refused")
    /\ caller' = [caller EXCEPT ![j] = "leaving"]
    /\ UNCHANGED <<line, answer, result, expired, ready, procs, peers, said>>

\* ... or the request's context ends: the broker stops or its client is gone.
CallerGivesUp(j) ==
    /\ caller[j] = "waiting"
    /\ Cancel(<<"caller", j>>, j, "refused")
    /\ caller' = [caller EXCEPT ![j] = "leaving"]
    /\ UNCHANGED <<line, answer, result, expired, ready, procs, peers, said>>

Expire(j) ==
    /\ j \notin expired
    /\ expired' = expired \cup {j}
    /\ UNCHANGED <<line, calls, result, done, ready, procs, peers, ending, said>>

-----------------------------------------------------------------------------
(***************************************************************************)
(* promoteNext and the approver process.                                   *)
(***************************************************************************)
PromoteNext ==
    /\ promoters > 0
    /\ promoters' = promoters - 1
    /\ IF active # NoJob \/ queue = <<>>
       THEN UNCHANGED <<queue, active, launch>>
       ELSE /\ active' = Head(queue)
            /\ queue' = Tail(queue)
            /\ launch' = [launch EXCEPT ![Head(queue)] = "check"]
    /\ UNCHANGED <<calls, result, job, process, peers, ending, said>>

PromotedExpired(j) ==
    /\ launch[j] = "check"
    /\ j \in expired
    /\ Complete(<<"launcher", j>>, j, "refused")
    /\ launch' = [launch EXCEPT ![j] = "over"]
    /\ UNCHANGED <<line, calls, result, expired, ready, process, peers, said>>

StartLaunch(j) ==
    /\ launch[j] = "check"
    /\ j \notin expired
    /\ launch' = [launch EXCEPT ![j] = "launching"]
    /\ UNCHANGED <<line, calls, result, job, process, peers, ending, said>>

\* Launch starts a process; it runs before the launcher gets to know.
LaunchStarts(j) ==
    /\ launch[j] = "launching"
    /\ launch' = [launch EXCEPT ![j] = "launched"]
    /\ process' = [process EXCEPT ![j] = "running"]
    /\ UNCHANGED <<line, calls, result, job, peers, ending, said>>

\* Launch fails, because the job is done or for a reason of its own, or returns
\* an approver that is not acceptable.
LaunchFails(j) ==
    /\ launch[j] = "launching"
    /\ \/ j \in done /\ Cancel(<<"launcher", j>>, j, "refused")
       \/ Complete(<<"launcher", j>>, j, "refused")
    /\ launch' = [launch EXCEPT ![j] = "over"]
    /\ UNCHANGED <<line, calls, result, expired, ready, process, peers, said>>

\* Faulty: no broadcast.
ExpectSilently(j) ==
    /\ launch[j] = "launched"
    /\ launch' = [launch EXCEPT ![j] = "watching"]
    /\ ready' = IF active = j THEN ready \cup {j} ELSE ready
    /\ UNCHANGED <<line, calls, result, done, expired, process, peers, ending, said>>

\* The launched process becomes the expected one if the job is still active.
ExpectApprover(j) ==
    /\ launch[j] = "launched"
    /\ launch' = [launch EXCEPT ![j] = "watching"]
    /\ IF active = j
       THEN ready' = ready \cup {j} /\ conn' = Woken
       ELSE UNCHANGED <<ready, conn>>
    /\ UNCHANGED <<line, calls, result, done, expired, process, ask, seen, ending, said>>

ApproverExits(p) ==
    /\ process[p] = "running"
    /\ process' = [process EXCEPT ![p] = "exited"]
    /\ UNCHANGED <<line, calls, result, job, launch, peers, ending, said>>

\* The process is gone: the job fails if it is still the active one.
MonitorExit(j) ==
    /\ launch[j] = "watching"
    /\ process[j] = "exited"
    /\ launch' = [launch EXCEPT ![j] = "over"]
    /\ IF active = j /\ j \in ready
       THEN Complete(<<"launcher", j>>, j, "refused")
       ELSE UNCHANGED <<ending, done>>
    /\ UNCHANGED <<line, calls, result, expired, ready, process, peers, said>>

MonitorDone(j) ==
    /\ launch[j] = "watching"
    /\ j \in done
    /\ launch' = [launch EXCEPT ![j] = "over"]
    /\ UNCHANGED <<line, calls, result, job, process, peers, ending, said>>

-----------------------------------------------------------------------------
(***************************************************************************)
(* FetchPending and SubmitDecision, for the process p.                     *)
(***************************************************************************)
FetchPending(p) ==
    /\ process[p] = "running"
    /\ conn[p] = "open" /\ ending[<<"peer", p>>] = Idle
    /\ ask' = [ask EXCEPT ![p] = Fetching]
    /\ conn' = [conn EXCEPT ![p] = "check"]
    /\ UNCHANGED <<line, calls, result, job, procs, seen, ending, said>>

SubmitDecision(p, claim, verdict) ==
    /\ process[p] = "running"
    /\ conn[p] = "open" /\ ending[<<"peer", p>>] = Idle
    /\ ask' = [ask EXCEPT ![p] = [op |-> "submit", claim |-> claim, verdict |-> verdict]]
    /\ conn' = [conn EXCEPT ![p] = "check"]
    /\ said' = IF claim = p THEN [said EXCEPT ![p] = @ \cup ({verdict} \cap Approvals)] ELSE said
    /\ UNCHANGED <<line, calls, result, job, procs, seen, ending>>

\* The call returns; what it knew is gone.
Reply(p) ==
    /\ conn' = [conn EXCEPT ![p] = "open"]
    /\ ask'  = [ask EXCEPT ![p] = Fetching]
    /\ seen' = [seen EXCEPT ![p] = NoJob]

\* activeWhenExpectedReady: the loop condition.
NotReadyYet ==
    \/ active = NoJob /\ queue # <<>>
    \/ active # NoJob /\ active \notin ready

Waits(p) ==
    /\ conn[p] = "check"
    /\ NotReadyYet
    /\ conn' = [conn EXCEPT ![p] = "waiting"]
    /\ UNCHANGED <<line, calls, result, job, procs, ask, seen, ending, said>>

\* The loop is left with the active job, if there is one.
Picks(p) ==
    /\ conn[p] = "check"
    /\ ~NotReadyYet
    /\ IF active = NoJob
       THEN Reply(p)
       ELSE /\ seen' = [seen EXCEPT ![p] = active]
            /\ conn' = [conn EXCEPT ![p] = "picked"]
            /\ UNCHANGED ask
    /\ UNCHANGED <<line, calls, result, job, procs, ending, said>>

\* The server's context ends: the handler is woken and returns its error.
ContextEnds(p) ==
    /\ conn[p] \in {"check", "waiting"}
    /\ Reply(p)
    /\ UNCHANGED <<line, calls, result, job, procs, ending, said>>

\* FetchPending completes a job it finds expired, whoever asked; otherwise the
\* expected process gets the payload if the job is still active.  Neither the
\* payload nor an error changes anything here.
FetchReplies(p) ==
    /\ conn[p] = "picked"
    /\ ask[p].op = "fetch"
    /\ Reply(p)
    /\ IF seen[p] \in expired
       THEN Complete(<<"peer", p>>, seen[p], "refused")
       ELSE UNCHANGED <<ending, done>>
    /\ UNCHANGED <<line, calls, result, expired, ready, procs, said>>

\* Faulty: any approver process may decide.
AcceptableFromAny(p) ==
    /\ ask[p].claim = seen[p]
    /\ ask[p].verdict = "approve_reusable" => seen[p] \in AllowsReusable

\* SubmitDecision goes through: the peer is the expected process, the decision
\* names the job, and its kind is valid for the job's payload.
Acceptable(p) ==
    /\ seen[p] = p
    /\ ask[p].claim = seen[p]
    /\ ask[p].verdict = "approve_reusable" => seen[p] \in AllowsReusable

Decision(p) ==
    CASE ask[p].verdict \notin Approvals \/ seen[p] \in expired -> "refused"
      [] ask[p].verdict = "approve_once" -> "approved"
      [] OTHER -> "reusable"

SubmitAccepted(p) ==
    /\ conn[p] = "picked"
    /\ ask[p].op = "submit"
    /\ Acceptable(p)
    /\ Reply(p)
    /\ Complete(<<"peer", p>>, seen[p], Decision(p))
    /\ UNCHANGED <<line, calls, result, expired, ready, procs, said>>

SubmitRejected(p) ==
    /\ conn[p] = "picked"
    /\ ask[p].op = "submit"
    /\ ~Acceptable(p)
    /\ Reply(p)
    /\ UNCHANGED <<line, calls, result, job, procs, ending, said>>

-----------------------------------------------------------------------------
EndStep(a) == CancelQueued(a) \/ CancelStarted(a) \/ ClearActive(a) \/ SendResult(a)

LauncherStep(j) ==
    PromotedExpired(j) \/ StartLaunch(j) \/ LaunchStarts(j) \/ LaunchFails(j) \/ ExpectApprover(j)

MonitorStep(j) == MonitorExit(j) \/ MonitorDone(j)

\* The handler of p's connection is free to go on once its job is ended.
HandlerStep(p) ==
    Waits(p) \/ Picks(p) \/ FetchReplies(p) \/ SubmitAccepted(p) \/ SubmitRejected(p)

CallerStep(j) == ReceiveResult(j) \/ CallerTimesOut(j)

Environment ==
    \/ \E j \in Jobs : Approve(j) \/ CallerGivesUp(j) \/ ApproverExits(j)
    \/ \E p \in Peers : \/ FetchPending(p) \/ ContextEnds(p)
                        \/ \E j \in Jobs, v \in Choices : SubmitDecision(p, j, v)

Next ==
    \/ \E a \in Actors : EndStep(a)
    \/ PromoteNext
    \/ \E j \in Jobs : \/ LauncherStep(j) \/ MonitorStep(j) \/ HandlerStep(j)
                       \/ CallerStep(j) \/ Expire(j)
    \/ Environment

Spec == Init /\ [][Next]_vars

\* Goroutines are scheduled and deadlines pass.  Nothing is assumed of a launch, a
\* process, the operator or the requester.
Fairness ==
    /\ \A a \in Actors : WF_vars(EndStep(a))
    /\ WF_vars(PromoteNext)
    /\ \A j \in Jobs : WF_vars(HandlerStep(j)) /\ WF_vars(CallerStep(j)) /\ WF_vars(Expire(j))

FairSpec == Spec /\ Fairness

-----------------------------------------------------------------------------
(***************************************************************************)
(* Properties.                                                             *)
(***************************************************************************)

\* The queue never stalls: while jobs wait and none is active, a promoteNext is
\* on its way or a goroutine is about to start one, although Approve starts one
\* only for the first job and cancel removes queued jobs without starting any.
NoStrandedJob ==
    active = NoJob /\ queue # <<>> =>
        promoters > 0 \/ \E a \in Actors : At(a, "send")

\* When Approve has returned, by whatever way, its job is neither queued nor
\* active: no ghost job blocks those behind it or is shown to an operator.
ReturnedJobIsGone ==
    \A j \in Jobs : caller[j] = "returned" => active # j /\ j \notin Queued

\* A handler sleeping in cond.Wait has not missed the moment its active job became
\* ready (activeWhenExpectedReady against promoteNext and finish).
SleepersMissNoJob ==
    \A p \in Jobs : conn[p] = "waiting" => active = NoJob \/ active \notin ready

\* Approve reports an approval only if the process launched for this very job
\* submitted it for this very job, and a reusable one only where it is allowed,
\* whatever the other processes said and however late.
ApprovedByItsApprover ==
    \A j \in Jobs :
        /\ answer[j] = "approved" => "approve_once" \in said[j]
        /\ answer[j] = "reusable" => "approve_reusable" \in said[j] /\ j \in AllowsReusable

\* The inductive strengthening of ReturnedJobIsGone.  A job is queued once and only
\* while it is called for and not promoted ...
QueueInv ==
    /\ \A i, k \in 1..Len(queue) : queue[i] = queue[k] => i = k
    /\ \A j \in Queued : launch[j] = "none" /\ caller[j] \in {"waiting", "leaving"}
    /\ \A j \in Jobs :
          /\ active = j => launch[j] # "none"
          /\ caller[j] = "idle" => launch[j] = "none"
          /\ caller[j] \in {"waiting", "leaving"} => j \in Queued \/ launch[j] # "none"
          /\ caller[j] = "returned" => active # j

\* ... and whoever ends a job or has its result in the channel finds it promoted.
EndingInv ==
    /\ \A j \in Jobs :
          /\ At(<<"caller", j>>, "idle") \/ (ending[<<"caller", j>>].job = j /\ caller[j] = "leaving")
          /\ result[j] # "none" => launch[j] # "none" /\ active # j
          /\ conn[j] = "picked" => seen[j] \in Jobs /\ launch[seen[j]] # "none"
    /\ \A a \in Actors :
          /\ ~At(a, "idle") => ending[a].job \in Jobs /\ ending[a].result \in Results
          /\ At(a, "clear") \/ At(a, "send") => launch[ending[a].job] # "none"
          /\ At(a, "dequeue") => a[1] = "caller" \/ launch[ending[a].job] # "none"
          /\ At(a, "send") => active # ending[a].job

ApproverInv == TypeOK /\ QueueInv /\ EndingInv /\ NoStrandedJob

\* Every Approve call returns once its request has expired, even if a result was
\* sent meanwhile: finish never blocks on the result channel.
ApproveReturns == \A j \in Jobs : caller[j] = "waiting" ~> caller[j] = "returned"

\* A handler that waits for the approver of an active job does not sleep forever,
\* even if the launch hangs: the job's end wakes it.
SleepersWake ==
    \A p \in Jobs : conn[p] = "waiting" /\ active # NoJob ~> conn[p] # "waiting"
=============================================================================
