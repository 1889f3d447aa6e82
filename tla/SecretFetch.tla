----------------------------- MODULE SecretFetch -----------------------------
(***************************************************************************)
(* The bounded fetch of a request's references                             *)
(* (fetchUniqueRefs of internal/daemon/broker/grant_issuer.go) over the    *)
(* client pool: a feeder hands references to workers, workers resolve them *)
(* and send results, the request collects them until one fails.            *)
(*                                                                         *)
(* A call of the pool is one reference of one request.  Which reference    *)
(* comes first is left open.                                               *)
(***************************************************************************)
EXTENDS DesktopPool, FiniteSetsExt

CONSTANTS Requests,
          RequestOf,   \* the request a call belongs to
          FetchLimit

ASSUME FetchAssumption ==
    /\ IsFiniteSet(Calls)
    /\ RequestOf \in [Calls -> Requests]
    /\ FetchLimit \in Nat \ {0}

VARIABLES
    fetch,     \* where each request's fetch is
    waiting,   \* workers waiting for a job
    feeding,   \* requests whose feeder runs (jobs is not closed)
    unfed,     \* references not handed over yet
    running,   \* references some worker has in hand
    results,   \* results in the channel
    received   \* results collected

fetchVars == <<fetch, waiting, feeding, unfed, running, results, received>>
vars == <<clients, inits, outcome, pc, attempt, held, stale, cancelled,
          fetch, waiting, feeding, unfed, running, results, received>>

CallsOf(r) == {c \in Calls : RequestOf[c] = r}

\* max(min(fetchLimit, len(identities)), 1)
WorkerCount(r) == Max({Min({FetchLimit, Cardinality(CallsOf(r))}), 1})

\* fetchCtx is done.
ContextDone(r) == CallsOf(r) \subseteq cancelled

Ended == {"resolved", "failed", "abandoned"}

TypeOK ==
    /\ PoolTypeOK
    /\ fetch \in [Requests -> {"new", "fetching"} \cup Ended]
    /\ waiting \in [Requests -> Nat]
    /\ feeding \in SUBSET Requests
    /\ {unfed, running, results, received} \subseteq SUBSET Calls

Init ==
    /\ PoolInit
    /\ fetch = [r \in Requests |-> "new"]
    /\ waiting = [r \in Requests |-> 0]
    /\ feeding = {}
    /\ unfed = Calls
    /\ running = {}
    /\ results = {}
    /\ received = {}

\* fetchUniqueRefs starts its workers and its feeder.
StartFetch(r) ==
    /\ fetch[r] = "new"
    /\ fetch' = [fetch EXCEPT ![r] = "fetching"]
    /\ waiting' = [waiting EXCEPT ![r] = WorkerCount(r)]
    /\ feeding' = feeding \cup {r}
    /\ UNCHANGED <<poolVars, unfed, running, results, received>>

\* The feeder gives a reference to a waiting worker.  Both sides also select on
\* the context, so a hand-over may still win after it is done.
HandOver(c) ==
    /\ RequestOf[c] \in feeding /\ c \in unfed
    /\ waiting[RequestOf[c]] > 0
    /\ waiting' = [waiting EXCEPT ![RequestOf[c]] = @ - 1]
    /\ unfed' = unfed \ {c}
    /\ running' = running \cup {c}
    /\ Resolve(c)
    /\ UNCHANGED <<fetch, feeding, results, received>>

\* A worker resolves its reference.
Work(c) == c \in running /\ CallStep(c) /\ UNCHANGED fetchVars

\* It sends the result and waits for another job ...
Send(c) ==
    /\ c \in running /\ pc[c] \in Returned
    /\ Cardinality(results \cap CallsOf(RequestOf[c])) < WorkerCount(RequestOf[c])
    /\ results' = results \cup {c}
    /\ running' = running \ {c}
    /\ waiting' = [waiting EXCEPT ![RequestOf[c]] = @ + 1]
    /\ UNCHANGED <<poolVars, fetch, feeding, unfed, received>>

\* Faulty: a worker sends whatever happens.
KeepResult(c) == c \in running /\ FALSE /\ UNCHANGED vars

\* ... or ends, the context being done.
DropResult(c) ==
    /\ c \in running /\ pc[c] \in Returned
    /\ ContextDone(RequestOf[c])
    /\ running' = running \ {c}
    /\ UNCHANGED <<poolVars, fetch, waiting, feeding, unfed, results, received>>

EndWorker(r) ==
    /\ waiting[r] > 0
    /\ r \notin feeding \/ ContextDone(r)
    /\ waiting' = [waiting EXCEPT ![r] = @ - 1]
    /\ UNCHANGED <<poolVars, fetch, feeding, unfed, running, results, received>>

\* The feeder closes the jobs when none is left or the context is done.
EndFeeder(r) ==
    /\ r \in feeding
    /\ unfed \cap CallsOf(r) = {} \/ ContextDone(r)
    /\ feeding' = feeding \ {r}
    /\ UNCHANGED <<poolVars, fetch, waiting, unfed, running, results, received>>

\* fetchUniqueRefs ends: the deferred cancelFetches.
EndFetch(r, how) ==
    /\ fetch' = [fetch EXCEPT ![r] = how]
    /\ Cancel(CallsOf(r))

Collect(c) ==
    /\ fetch[RequestOf[c]] = "fetching" /\ c \in results
    /\ results' = results \ {c}

\* Faulty: errors are counted as results.
ReceiveAny(c) ==
    /\ Collect(c)
    /\ received' = received \cup {c}
    /\ IF CallsOf(RequestOf[c]) \subseteq received'
       THEN EndFetch(RequestOf[c], "resolved")
       ELSE UNCHANGED <<poolVars, fetch>>
    /\ UNCHANGED <<waiting, feeding, unfed, running>>

\* The last value makes the fetch complete.
ReceiveValue(c) ==
    /\ Collect(c)
    /\ pc[c] = "ok"
    /\ received' = received \cup {c}
    /\ IF CallsOf(RequestOf[c]) \subseteq received'
       THEN EndFetch(RequestOf[c], "resolved")
       ELSE UNCHANGED <<poolVars, fetch>>
    /\ UNCHANGED <<waiting, feeding, unfed, running>>

\* The first error ends it.
ReceiveError(c) ==
    /\ Collect(c)
    /\ pc[c] = "failed"
    /\ EndFetch(RequestOf[c], "failed")
    /\ UNCHANGED <<waiting, feeding, unfed, running, received>>

\* The request's own context ends (its deadline, the stop of the daemon) ...
CancelRequest(r) ==
    /\ fetch[r] = "fetching"
    /\ Cancel(CallsOf(r))
    /\ UNCHANGED fetchVars

\* ... and the fetch is given up, unless a result is seen first.
AbandonFetch(r) ==
    /\ fetch[r] = "fetching" /\ ContextDone(r)
    /\ fetch' = [fetch EXCEPT ![r] = "abandoned"]
    /\ UNCHANGED <<poolVars, waiting, feeding, unfed, running, results, received>>

CallNext(c) ==
    \/ HandOver(c) \/ Work(c) \/ Send(c) \/ DropResult(c)
    \/ ReceiveValue(c) \/ ReceiveError(c)

FetchNext(r) ==
    \/ StartFetch(r) \/ EndWorker(r) \/ EndFeeder(r) \/ CancelRequest(r) \/ AbandonFetch(r)

Next == (\E c \in Calls : CallNext(c)) \/ (\E r \in Requests : FetchNext(r))

Spec == Init /\ [][Next]_vars

-----------------------------------------------------------------------------
(***************************************************************************)
(* Properties.                                                             *)
(***************************************************************************)
\* A fetch is complete or fails: no request goes on with some of its values, nor
\* takes another's error for a value (fetchUniqueRefs, resolveUniqueRefs).
ResolvedIsComplete ==
    \A r \in Requests : fetch[r] = "resolved" => \A c \in CallsOf(r) : pc[c] = "ok"

\* Never more references of a request in flight than the limit, late hand-overs
\* included (fetchUniqueRefs starts workerCount workers).
FetchesAreBounded ==
    \A r \in Requests : Cardinality(running \cap CallsOf(r)) <= FetchLimit

\* A fetch is over, and so are its feeder and its workers.
Quiet(r) ==
    /\ fetch[r] \in Ended
    /\ waiting[r] = 0 /\ r \notin feeding /\ running \cap CallsOf(r) = {}

\* The steps that need no new request and no end of a request's context.
Progress ==
    \/ \E c \in Calls : CallNext(c)
    \/ \E r \in Requests : EndWorker(r) \/ EndFeeder(r) \/ AbandonFetch(r)

\* Nobody waits for ever, neither a request for its results, nor a call for another
\* request's client, nor a worker or a feeder for a channel nobody reads: while one
\* of them is there, somebody can move.  No step can be repeated, so all come to an
\* end (fetchUniqueRefs and its goroutines, waitForDesktopPoolInit).
NobodyIsStuck ==
    \A r \in Requests : fetch[r] # "new" /\ ~Quiet(r) => ENABLED Progress
=============================================================================
