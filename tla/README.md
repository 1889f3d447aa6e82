# agent-secret: a verification project

agent-secret lets a coding agent run a command with secrets it never sees
before a human approves. A CLI (`agent-secret exec`) asks a per-user daemon over
a Unix socket; the daemon shows the request in a native approver app, fetches
the values from 1Password or Bitwarden, and hands them to the CLI, which starts
the command. An approval may be reusable (several uses until a TTL passes), and
a bounded session keeps fetched values for a number of reads.

This directory holds TLA+ modules translated from the code under `src/`, the TLC
configurations that check them, and TLAPS proofs about them. `PROJECT.json` maps
every definition to the lines it stands for.

## Inventory

| Component | State | Operations | Talks to |
|---|---|---|---|
| policy store (`internal/policy`) | approvals by id: uses, reservations, expiry | AddReusable, ReserveReusable, FinishReusableAttempt, RemoveReusable, Clear | called by the grant manager |
| secret cache (`internal/secretcache`, `secretmem`) | values in locked memory, by approval and reference | Put, Get, ClearScope, Clear | grant manager |
| reusable grant manager (`broker/reusable_grants.go`) | expiry timers; store and cache | reserve, createGrant, finishDelivery, scheduleExpiry, rollbackApproval, clear | timer callbacks, issuer |
| grant issuer (`broker/grant_issuer.go`, `grant_values.go`) | none of its own | issue, freshGrant, issueReusableGrant, rollbackDelivery, fetchUniqueRefs | approver, audit, resolvers |
| broker (`broker/broker.go`) | active map, stop channel | PrepareExecDelivery, session handlers, ReportStarted/Completed, ClientDisconnected, Stop | server, all of the above |
| session store (`broker/session_store.go`) | sessions by id and token: values, reads, reservations | create, reserve, finishReservation, destroy, list, clear | broker |
| session peer authorizer (`broker/session_peer_authorizer.go`, `peercred/peercred_darwin.go`) | none; the process table | BindSessionPeer, ValidateSessionPeer: walk the caller's ancestors, a system call at a time | session handlers, kernel |
| approval queue (`daemon/approval/socket_approver.go`) | queue, active job, expected approver | Approve, FetchPending, SubmitDecision, promoteNext, finish, cancel | issuer, server, launcher |
| approver launch and validation (`daemon/approval`) | none | Launch, ValidateApproverPeer, ValidateDecision | OS processes |
| server (`daemon/server.go`) | connections, active-command owners, retirement flag | one handler per message type, retireIfExecutableChanged, stopIfRetiredAndIdle, stopWithAudit | broker, approver |
| protocol, socket (`daemon/protocol`, `daemon/socket`) | framing; socket file | read/write a message; Listen, CleanupStale | server, control |
| control (`daemon/control`) | none; the world is the socket and processes | Start, Stop, Repair | daemon |
| 1Password pool (`opresolver/pool.go`) | client per account, in-flight initialisation | Resolve, init, evict | SDK |
| Bitwarden, provider dispatch (`bwsm`, `providerresolver`) | none | Resolve | external CLI, keychain |
| request validation (`internal/request`, `secretref`, `opref`) | none | constructors, Validate, Expired, WithReceiptTime | CLI, broker |
| audit (`internal/audit`) | append-only file | Record, Preflight | broker |
| daemon client (`control/client.go`) | one connection | connect, a request and its answer, lifecycle reports | CLI, server |
| exec wrapper (`internal/execwrap`) | child process, terminal, caught signals | Run, forward signals, terminate, give the terminal back | CLI |
| profile configuration (`internal/profileconfig`) | a resolver's stack, memo and count | Find, Load, LoadMetadata, Inspect | CLI |
| CLI parsing (`cli/exec_parse.go`, `parse.go`, `profile_parse.go`) | none | from flags, env files and a profile to a request | profileconfig, request |
| CLI output, installer, peer trust, Swift approver | see `PROJECT.json` | | |

What is hard: every request is a goroutine, and the approval it draws on, the
values and the timer each have their own lock, so one delivery is a dozen
critical sections interleaved with those of other requests, of the expiry timers
and of the stop sequence; a request may fail at any of them and must undo
exactly what it did. The approval queue hands jobs between callers, launch
goroutines, process monitors and connection handlers through one mutex, a
condition variable and buffered channels.

What makes the components correct:

* an approval (or a session) never pays for more payloads than the operator
  allowed, and a failure before the payload gives its use or read back as long as
  the approval or session is stored;
* values stay in memory no longer than their approval or session;
* a stopped daemon holds nothing, and starts nothing;
* an approval comes from the process launched for that very request;
* the queue of approvals keeps moving and no caller waits for ever;
* every delivered command is accounted for, and a retired daemon stops once idle;
* one 1Password client is made per account at a time, nobody who waits for one is
  forgotten, and a fetch yields every value or fails;
* commands that start or replace the daemon at once end, and commands that only start
  one end with one that serves, unless a daemon gave up securing its path (known gaps);
* a CLI gets one payload at most, leaves no command and no lost terminal behind, and
  the daemon's records of the command are true;
* a profile is what its includes say, whatever the order and the memo, and what the
  CLI accepts the daemon accepts;
* a session is bound to the ancestor that was asked for and admits its descendants only.

The hazards behind these are listed in `PROJECT.json` with their lines.

## Modules

```
UseLedger            what an approval for several payloads promises
  ^ implemented by
ReusableGrants       exec delivery: store, cache, timers, issuer, stop
  ReusableGrants_proofs
SessionBroker        bounded sessions: store, create, resolve, list, destroy, stop
  SessionBroker_proofs  (it implements UseLedger, too)
SocketApprover       the approval queue
  SocketApprover_proofs
DaemonServer         connections, the life of a command, retirement, stop
  DaemonServer_proofs
DesktopPool          1Password clients: one creation per account, refresh, eviction
  ^ extended by
SecretFetch          the workers that fetch a request's references through the pool
  SecretFetch_proofs    (of both)
DaemonLifecycle      commands that find, replace and start the daemon at once
  DaemonLifecycle_proofs
ExecClient           one agent-secret exec: its connection, its command, its signals
  ExecClient_proofs
ProfileConfig        the configuration file and its includes
  ^ extended by
RequestBuilder       command lines that make a request, and its validation
SessionPeers         processes, and the binding of a session to one of them
  ^ both extended by
SessionAdmission     from the command line to the processes a session admits
  SessionAdmission_proofs    (of it, RequestBuilder and SessionPeers)
MC<module>           constants and symmetry for TLC
```

### UseLedger

An abstract specification. An approval is unused, open or closed; requests take
places while some are left, spend a place by sending the payload, or give it
back; a closed approval takes nobody in and never reopens. A place taken in time
may be spent after the closing: the code lets a request finish that was let in.

### ReusableGrants

`pc[r]` is the next critical section of request `r`: `reserve` (policy store),
`reused`/`refetch`/`reading` (issueReusableGrant), `prompt`/`fetch`/`create`
(freshGrant), `caching`/`putting` (cacheResolvedValues, a check and a Put per
value), `schedule`, `issued` (command_starting and its checks), `activate`,
`prewrite`, `write`, `commit` or `abort`/`finish` (server and ExecDelivery).
Clearing a cache scope is a step of its own, because the code does it after the
store's lock is released; `scope[r]` and `next[r]` say what to clear and where
to go on. `lease[r]` is the delivery's approval id, `owns[r]` its mutation id:
a request that created or refreshed an approval removes it on failure, one that
only reused it returns its reservation.

Audit writes and provider fetches touch only the request, so they are a choice
between success and failure joined with the check that follows. Time is `now`;
`Tick` may come between any two steps. A timer fires in two steps (remove, then
clear), as the AfterFunc does. `Stop` and the four steps after it are
StopWithAuditEvent and reusableGrantManager.clear, lock by lock.

Abstractions: values are not told apart (a reference is cached or not); a
request's references are all of `Refs`; a reuse key is a model value that fixes
uses and TTL; approval ids are never drawn twice; payloads are written or not.

### SessionBroker

`maker[s]` is the create request of session `s`, `reader[r]` a resolve request.
The store's operations are atomic (its mutex), and deletion, by whoever finds a
session expired, full or destroyed, is `Deleted`. Peer, directory and alias
checks refuse nondeterministically and after the code's own order: expired and
full sessions are deleted first. List and destroy may run after the stop: the
handlers check for it only at the start.

### SocketApprover

The actions are critical sections of the approver's mutex and operations on a
job's channels. Ending a job is itself several steps (`ending[a]`): the done
channel, the queue (cancel), the active slot with the broadcast (finish), the
result channel with the next promoteNext. Any of three actors may be ending the
same job at once: its caller, its launcher or monitor, and a connection handler
of any process. Processes are named after the job they were launched for; a
process may be slow, exit, fetch, or decide for any job at any time.

### DaemonServer

The broker's active map seen from the connections: one handler per connection,
which serves its messages in turn (`pc[c]`). A message passes the self-check of
the executable (`selfcheck`, `count`), the gate of a stopped server and the
dispatch; a command is activated, delivered or aborted, reported started and
completed, or lost with its connection; the stop closes the broker's channel,
clears the active map and closes the server's channel, and several handlers may
be doing so at once (ReusableGrants and SessionBroker run that sequence once, with
the clearing of their own stores in it). `retiring` and `counting` are
stopIfRetiredAndIdle, which reads the mark and the count separately. `trail[c]`
keeps the audit events of a command. Preparing a delivery is one step here: it
succeeds or fails, for the reasons the other modules give.

`Pipelining` says whether a client may send another foreground request on the
connection of its running command. The repository's CLI does not, and the run has
FALSE; with TRUE, `ActiveIsOwned` fails (a known gap, below). `aborted` is
history: `RetiredIsWatched` leaves out the other known gap, an active map emptied
by an aborted delivery.

### DesktopPool and SecretFetch

A call of the pool is one reference of one request. `pc[c]` follows
`DesktopPool.client` (find, join or own an initialisation), the SDK's answer, and
the one refresh; an initialisation and the client it makes are named after the
call and the attempt that make them, so an eviction that hits the wrong client is
visible. SecretFetch adds the goroutines of fetchUniqueRefs: `unfed` and `feeding`
are the feeder, `waiting` counts workers at the select on the jobs channel,
`running` are references some worker has in hand, `results` is the buffered
channel. A select on a channel and the context is two actions that may both be
enabled. Workers are interchangeable and counted; which reference is fed first is
left open. A request that ends cancels its calls, and a request's own context may
end at any time.

`NobodyIsStuck` states progress as an invariant: while a request, its feeder or a
worker is there, some step other than a new request or a cancellation is enabled.
No step of this system can be repeated, so this is termination under any fair
scheduler, and it costs one pass over the states instead of a liveness check.

### DaemonLifecycle

The shared state is the socket path and the daemons' processes; every look at the
path, connection, answer and removal is a step of its own, so whatever another
command or a daemon does in between is seen. `pc[m]` is the question a manager
asks (`inspect`, `stop`, `signal`, `drain`, `status`, `wait`, `ready`, `confirm`;
`halt`, `halting` for `agent-secret daemon stop`) or its next step on the path; `path` and `second` are the two nested retries
(startCurrentWithStatusRetry inside Repair). A daemon binds after lstat, dial and
unlink, listens, and secures its path with chmod; if the path has been removed by
then it gives up, and its listener removes whatever is at the path as it closes
(`aborted`, if that was another daemon's). When a daemon stops its path is removed
twice, by the listener and by ListenAndServe. What a peer can answer on a connection follows from where the
daemon is (`Answers`). An older daemon may not trust the command, and then it is
signalled and dies leaving its socket. `left` says what the commands find: nothing,
a daemon just coming up, an older one, or a crashed one's socket. The number of
daemons is a bound: a command that would start one more waits (`AtBound`). Timeouts are long enough for a daemon that
is starting or stopping to get there; they come when nobody is on the way. Daemons
have no commands in flight, and every daemon is one the manager trusts.

### ExecClient

The other end of a delivery. `pc` is the main goroutine of `agent-secret exec`:
repair the daemon, connect, ask (again only when the daemon answers that it is
stopped; a lost connection ends the run), start the command, take it to the terminal's
foreground, report it started, wait, restore the terminal, report it completed.
`Aborting` are the steps of a command that must not run on (terminate, grace,
kill, reap, give the terminal back). `forwarder` and `killer` are the goroutines
beside it, `queue` the buffered channel of caught signals. The daemon is whoever
reads `asked` and writes `answers`, in order, late or never. The command belongs
to the user: it ends, is stopped and continued, or ignores everything but SIGKILL,
at any time. `delivered` and `recorded` are what the daemon did, which the CLI may
never hear of.

The CLI of this repository runs with a context that never ends
(`cmd/agent-secret/main.go` gives `context.Background()`); `CancelContext` is for
callers of `execwrap.Run` that have one, as its tests do. `DoomedCommandEnds`
speaks of both reasons to end a command, and the second, a refused started report,
is the CLI's own.

### ProfileConfig and RequestBuilder

ProfileConfig is the search for the file and the resolver: `stack` is the recursion
of `resolve`, one frame per profile with the includes done so far, `memo` and
`count` live as long as the resolver, so for `Inspect` they are shared by all
profiles. `ResolvedAsDeclared` compares the result with a definition that knows no
walk: a profile's settings and secrets are those of the profile itself and then
those of the latest include that has them.

RequestBuilder follows one command line, `step` by step of the code: flags, env
files (last line of a name wins), the profile, the reason, the selection of
`--only`, the sources of Bitwarden secrets, the constructors of
`internal/request`, and at last the daemon's `ValidateForDaemon`, which checks the
same request again. `FileChanges` comes once the request is sent, to the executable
or the directory, which the daemon looks at again. References, reasons, lifetimes and
read counts are drawn from the classes the code tells apart ("padded", "off" range, a
reference of a bad form); a request carries its lifetime and read count to the
daemon, which checks their range a second time.

Behaviour that is easy to overlook and that the model keeps: an alias that the
profile and an env file both have comes from the file when `--only` names it;
`--account` goes before a profile's account for explicit secrets only; a conflict of
`with-session` with the caller's environment is found after the values were read; a
profile met again through the memo is not counted against the depth, and in
Inspect the count of includes adds up over the profiles.

### SessionPeers and SessionAdmission

`proc` is the process table: processes fork, change their executable, end, and a
pid is used again with a new start time; `lineage` remembers who descends from
whom. An authorisation is a `walk`: the parent and the executable of one process
are read after another while all this happens. A pid does not come back while a
walk holds it (`Reserved`): kernels do not hand out a freed pid for a long time,
and without this assumption neither the code nor `AdmittedIsDescendant` could say
anything. `MaxWalk` stands for the limit of the code's loop; a chain longer than
it is "too far" and refused, as in the code. Either system call may fail, for a
process that has ended and for a living one (`CannotInspect`, for instance a process of
another user); the walk then ends with what it has seen, and `refused` remembers
whom it could not inspect. A process may replace its executable as
often as it likes. The history variable `replaced` remembers who did during the walk:
an anchor that did may be turned away for having become another, although it is back
to what it was when the walk ends. `IntactIsAdmitted` speaks of all others that are
reached without meeting a `refused` one.

SessionAdmission composes both: the binding in the accepted request of a
`session create`, from a flag or a profile, is what the daemon binds the session
to (`BoundAsAsked`).

## Runs

| Run | Shows | Bounds |
|---|---|---|
| `reuse_refresh` | exact counters, live approvals keep their values, the stop leaves nothing, refinement of `UseLedger` | 2 requests, 2 approvals of 2 uses, 2 references, all modes, TTL 2, time 3 |
| `reuse_liveness` | without refreshes every cached value has a timer; every request ends, values are cleared | 2 requests, keys of 1 and of 2 uses, 1 approval |
| `reuse_orphan` | finding: values left behind by a refresh of a removed approval | as `reuse_refresh` |
| `approver` | an approval is from the right process for the right job; no missed broadcast, no stranded queue | 2 jobs, 1 talking process, both verdict kinds |
| `approver_liveness` | Approve returns, sleepers wake | 2 jobs, 1 talking process |
| `session_reads` | read counters of a stored session are exact, used-up sessions go, refinement of `UseLedger` | 2 sessions of 2 reads, 3 resolves |
| `server` | no entry without a handler, every delivered command accounted for, nothing active after the stop, an idle retired daemon is being stopped unless its last entry was an aborted delivery | 3 connections, no pipelining |
| `fetch` | one creator per account, no live client evicted, complete fetches, nobody stuck | 2 requests, 3 references of 1 account, fetch limit 1 |
| `lifecycle` | a lone repair succeeds, starters never stop each other's daemon, someone serves unless one gave up securing its path, commands return | 2 commands, 3 daemons |
| `exec` | one payload at most, true records, no command or terminal left behind, signals passed on, a doomed command ends | channel of 2, 4 signals |
| `admission` | includes resolve as declared and cycles are refused; what the CLI accepts the daemon accepts, lifetimes and read counts included; a session admits descendants of the ancestor asked for, and all that are still connected to it by processes that can be inspected | 384 files of 3 profiles, includes 2 deep and 3 in all, 2 aliases, 2 sources; 3 pids, 4 starts, 3 executables, walks of 3 |
| `mixed_account` | finding: a Bitwarden secret inherits the 1Password account | as `admission` |

Why the bounds are enough: two requests for an approval of one use race for it and
can over-draw it, and for one of two uses can share, refresh and exhaust it (the
proofs cover any number); two approvals let one be removed while its successor is
made; two references let a request be overtaken between two values; TTL 2 with
time 3 lets an approval expire before, during and after each step and a second one
be made afterwards. Two jobs are one that is active and one to be promoted, and
the approver may act on either. Three connections are one that notices the
replaced executable, one that runs a command and one that stops the daemon. Two
requests with a fetch limit of 1 share one account: one creates the client, the
other waits for it or finds it stale, and the request with two references has one
fed late; a limit of 2 is beyond the time of a run, and the account is where
requests meet. Two commands are one that inspects and one that changes what was
inspected; besides the former daemon there are two, so each command may start one and
a lone repair both, which is all it needs (`LoneRepairSucceeds`); beyond them nothing
is started (`AtBound`), and the proofs cover any number. Four signals are two more
than the channel holds, which loses some, and one that comes after the command has
ended. The 384 files have includes that repeat, overlap, loop, name a missing or
empty profile or exceed each limit, and every setting absent, overridden and bad;
three pids are a session's ancestor, a process between and the caller, and the
fourth start uses one of their pids again. Deadlock checking is off because all
these systems may come to rest: requests, approvals, time and commands are finite.

`UsesWithinApproval`, `ReturnedJobIsGone`, `RefreshedIsAnother`,
`WaitersHaveAnOwner` and `FetchesAreBounded` have no run: they are proved for every
value of the constants. So are the `TypeOK` of the modules with proofs; in the
others `TypeOK` documents the state.

Symmetry is used only in runs without liveness properties, over requests,
approvals, sessions, connections, managers or daemons where the configuration
treats them alike.

### Fairness

Goroutines and timer callbacks are scheduled (weak fairness per request, per
timer, per ending goroutine), time passes up to its bound, and a prompt ends
because the approval request carries a deadline. Nothing is assumed of clients,
of the operator, of a launch or an approver process, and nobody has to stop the
daemon. `ApproveReturns` in particular holds although a launch may hang. For
`CommandsReturn` the processes are scheduled (weak fairness per manager and per
daemon, and of the timeouts, which are timers); no manager has to begin. In
`ExecClient` the main goroutine, the forwarder and the killer are scheduled, and a
deadline passes; the daemon need not answer, the command need not end, and the
user need do nothing.

## Proofs

For every value of the constants (any number of requests, approvals, jobs, references):

* `ReusableGrants_proofs`: `TypeCorrect`, `ApprovalIsNotOverspent`
  (`UsesWithinApproval`), `CountersAreExact` (`CountersMatchDeliveries`) and
  `BrokerKeepsLedger` (the refinement of `UseLedger`), from the assumption that
  requests are finite and uses positive (`ConstantsAssumption`).
  `UsesWithinApproval` is not inductive: a request that reserved a use will
  deliver later. `GrantInv` adds where a request may hold a lease (`LeaseInv`),
  that a paid request is past its write (`PaidInv`, `WriterInv`), and that the
  store's counters equal the cardinalities of the holders and of those paid
  (`AccountInv`), whose last conjunct counts both against the budget. The proof
  sorts steps by what they do to `<<store, lease, delivered>>` (`NextLedger`), so
  each of some forty actions is treated once, and both the account and the
  refinement follow from six kinds of steps.
  `TidyInvariant` is about the cache, the timers and the stop. An approval that must
  go is always in somebody's hands: the request that rolls it back or exhausts it, its
  timer, or the stop, which has yet to reach it. `TidyInv` names who it is
  (`CacheInv`, `TimerInv`, `StopInv` and their parts), because several may be at it
  and each may find it gone. From it follow `StoppedIsEmpty` (`StopLeavesNothing`),
  `LiveHasValues` (`LiveApprovalsAreCached`) and, where `Modes` has no
  `force_refresh`, `ValuesAreTimed` (`CachedValuesHaveTimer`): with refreshes it is
  false, which is the finding `reuse_orphan`.
* `SocketApprover_proofs`: `QueueNeverStalls` (`NoStrandedJob`), `NoGhostJob`
  (`ReturnedJobIsGone`), `ApprovalsAreSubmitted` (`ApprovedByItsApprover`) and
  `ApproverTypes`. `ApproverInv` adds `QueueInv` (a job
  is queued once, only while it is called for and not promoted) and `EndingInv`
  (whoever finishes a job, or finds its result in the channel, finds it promoted,
  and whoever is about to send has seen it leave the active slot). Without the
  latter nothing excludes a job finished while still queued. `VerdictInv` follows
  an approval from the process that submits it, through whoever ends the job and
  the result channel, to the call that returns it. `NobodyOversleeps`
  (`SleepersMissNoJob`) needs that a job whose process is not known yet is not ready
  (`ReadyInv`), so that whoever makes it ready is the one to wake its sleepers.
* `SessionBroker_proofs`: `ReadsAreExact` (`ReadCountersMatch`), `UsedUpSessionsGo`
  (`ExhaustedValuesClear`), `SessionIsNotOverspent` (`ReadsWithinCount`),
  `SessionTypes` and `SessionKeepsLedger` (the refinement of `UseLedger`), from
  finitely many requests and positive counts (`SessionAssumption`). Along the same
  lines as ReusableGrants: `SessionInv` adds whom a request holds a read of
  (`ReaderInv`), that a session is stored once, by its own request (`MakerInv`), and
  the account of each session, the budget of holders and paid included, which
  must survive the session's removal (`AccountInv`); every step is one of six kinds
  (`LedgerStep`). The counters speak of stored sessions: what is given back
  to a session deleted meanwhile is lost (known gaps).
* `DaemonServer_proofs`, for any number of connections and under `Pipelining = FALSE`
  (with TRUE the first is false): `EntriesAreOwned` (`ActiveIsOwned`),
  `StopLeavesNoCommand` (`StoppedHasNoCommand`), `CommandsAreAccounted`
  (`TrailIsClosed`) and `RetirementIsWatched` (`RetiredIsWatched`, which leaves out a
  map emptied by an aborted delivery: nobody looks then). `ServerInv` adds
  where a handler may be that owns a command, is in the map or takes part in the
  stop (`Places`), and that until the stop the map tells which trails are open: a
  command in the map has no end on record and one that has left it has exactly one
  that fits (`TrailInv`).
* `SecretFetch_proofs`, first of `PoolSpec` (calls that use the pool in whatever
  order): `AccountHasOneCreator` (`OneCreatorPerAccount`), `NoForgottenWaiter`
  (`WaitersHaveAnOwner`), `StaleIsNotGivenAgain` (`RefreshedIsAnother`) and
  `LiveClientsStay` (`OnlyStaleClientsLeave`). `PoolInv` adds that a registered
  initialisation has its creator (`InitInv`), that a call looks for a stale client
  once (`AttemptInv`), and that what sits in the pool or in use has been made,
  what a call has yet to make has not (`FreshInv`, `MadeInv`): a client that was
  evicted can therefore not come back. One lemma per action, one step per conjunct.
  Then of the fetch: `FetchUsesPool` (`Spec => PoolSpec`, so the theorems of the
  pool hold in the fetch; `FetchesShareCreator` is one of them), `NoPartialFetch`
  (`ResolvedIsComplete`) and `FetchesStayBounded` (`FetchesAreBounded`), from
  finitely many calls and a positive limit (`FetchAssumption`). `FetchInv` counts
  a worker as waiting or as having a reference in hand (`WorkersAreCounted`):
  together they are never more than `WorkerCount`, which bounds the references.
  `SomebodyCanMove` is `NobodyIsStuck` without `ENABLED`: `CanMove` has the guards of
  the steps of `Progress`, and on the instance of the run the two are equivalent.
  `MoveInv` says that a call that has begun is in a worker's hand (`HandsInv`), and
  that until its context is done a request loses no reference and no worker
  (`KeepsInv`); a reference in hand then moves itself, or the creator it waits for
  does (`WaitersHaveAnOwner`), or the request that must make room in the channel.
* `ExecClient_proofs`: `NothingLeft`
  (`ReturnLeavesNothing`), `OnePayload` (`DeliveredAtMostOnce`), `TrueReports`
  (`ReportsAreTrue`) and `ExecTypes`, for every channel size and number of signals
  (`ChannelAssumption`, `InterruptsAssumption`). The invariant `ExecInv` adds
  `Phases` (which of command, terminal, forwarder and killer can be what while the
  main goroutine is where it is), `Talk` (what may be under way on the connection:
  at most one request or report, and an answer only to it) and `Told` (what the
  daemon recorded follows what the CLI did). `Talk` is what makes one payload
  inductive: the CLI asks a second time only after the daemon has refused the
  first.
* `DaemonLifecycle_proofs`, for any number of commands and daemons: `LifecycleTypes`,
  `StartsAreGentle` (`StartKeepsDaemons`), `ColdStartsServe` (`ColdStartServes`) and
  `LoneRepairs` (`LoneRepairSucceeds`). Each of the last three is about the commands
  while they are in a situation that they do not enter again once they have left it,
  and so is its invariant. `ColdInv`, while no older daemon was there and nobody was told to stop
  one: every daemon a command is connected to is current and nobody stops it
  (`GentleInv`), and while there is no path somebody is about to start a daemon, one
  is coming up, or one that gave up before it had secured its path has taken away the
  path of another (`PathInv`). That daemon is what `ColdStartServes` excludes, and its
  life says so (`aborted`). `LoneInv`, while
  all other commands have yet to begin: the command looks at the former daemon, has
  started one that only a former one about to leave can disturb, before or after its
  path is secured, or has lost its path to that one and has an attempt left.
  `LoneRepairs` assumes two processes besides the former daemon, because it may take
  two, and shows that it takes no more; `LifecycleAssumption` says that the former
  daemon is one and that the marks for none and for not asked are not.
* `SessionAdmission_proofs`, of `AdmissionSpec`, so of a request and the processes
  that its session admits together: `NoCycleIsResolved` (`CyclesAreRefused`),
  `WalkGivesDeclared` (`ResolvedAsDeclared`), `NothingIsTurnedDown`
  (`RequestsAreAccepted`), `StartMeetsNoConflict` (`StartFindsNoConflict`), `OnlyWhatWasNamed`
  (`SelectionIsExact`), `OnlyDescendants` (`AdmittedIsDescendant`),
  `BoundToAncestor` (`BoundAsAsked`) and `IntactAreAdmitted` (`IntactIsAdmitted`). For the configuration, what the memo has for a
  profile is what its includes have there, one after another, with its own on top,
  and nobody in it includes himself (`Resolved`); each frame on the stack has added
  the includes before the one it waits for, and no name is on it twice (`Stacked`).
  The file is read without a walk by the functions `Reach` and `Parts`, which recur
  over numbers. That they are functions, and that at the depth of the file all that
  is resolved is what it says (`AllDeclared`), needs an induction over numbers:
  `SetInduction` gets it for a set of numbers, from the pigeonhole principle of
  FiniteSetTheorems, without an operator as a parameter. For the requests the invariant follows the
  secrets through the parser: what is gathered is a sequence of specs, whose aliases
  are those named once `--only` has been applied (`GatheredInv`), and what is sent
  passes the check of its kind, range of lifetime and read count included, and overlaps the environment only with leave
  (`SentInv`); that sorting, concatenating, filling in accounts and sources keep the
  aliases are lemmas. This holds whatever the configuration resolves to. For
  the peers: a living parent is the parent that was there (`TreeInv`), so what a walk
  has seen are the first processes of the path from the peer up, and where it stands
  is the next, if it is alive at all (`WalkInv`). That the walk misses nobody it could
  have met is `WatchInv`. A parent is older than its children (`StartInv`). Whom the
  walk has seen is as it was, unless he is gone or has replaced his executable, and
  above him is the one seen next, or nobody any more (`SeenInv`, `ReadInv`). So the walk
  goes on to older and older processes and meets none twice (`OrderInv`), and when it is
  over, the last one seen has nobody above him, or is gone, or he or the next could not
  be inspected (`refused`), or the limit is reached (`EndInv`). Whoever is connected to
  the peer by processes that could be inspected has then been seen
  (`ConnectedAreSeen`, an induction along the path by `SetInduction`). The assumptions are on the constants:
  the includes of a file are lists and the profiles are those of its order
  (`DocAssumption`), aliases are finitely many (`AliasAssumption`), flags give sequences of secrets
  (`FlagAssumption`), a walk takes in at least its peer (`WalkAssumption`), and the marks for what is not
  there are no reason, policy or process (`ReasonAssumption`, `PolicyAssumption`, `ProcessAssumption`).

Only model-checked:

* liveness (`RequestsSettle`, `CachedValuesAreCleared`, `ApproveReturns`,
  `SleepersWake`, `CommandsReturn`, `InterruptsReachCommand`, `DoomedCommandEnds`): out
  of the prover's reach;
* `NobodyIsStuck`, for its `ENABLED`; `SomebodyCanMove` has its substance;
* `CachedValuesHaveTimer` with refreshes, which is false (above).

## Findings

Two runs have a counterexample, quoted in `PROJECT.json`:

* `reuse_orphan`: a refresh of an approval that is being rolled back leaves values
  in memory until the daemon stops (`docs/threat-model.md:107-108`).
* `mixed_account`: a Bitwarden secret gets the account of its profile or file and is
  then refused for having one, so no profile with an account can hold one
  (`docs/bitwarden-v1-plan.md:225-230`, `profileconfig_test.go:365`).

### Known gaps

Behaviour the models keep and no run is about; each is among the hazards or in the
comment of the action concerned.

* Reads that are reserved end a session: a `list` or another resolve deletes a
  session whose last reads are under way, and if they fail the reads given back are
  lost (`session_store.go:137, 207`; `docs/configuration.md:345-346, 444-446`).
  `ReadCountersMatch` speaks of stored sessions only.
* A daemon whose path is removed by another command before it could secure it gives
  up, and its closing listener removes the path by name, by then maybe that of the
  daemon both commands have found serving (`socket.go:40-43`; `docs/prd.md:268-271`).
  `ColdStartServes` states what holds; drop its condition on `aborted` to see it.
* No timer clears an expired session; its values stay until a session request meets
  it (`session_store.go:98`; `docs/prd.md:695-696`).
* With an older daemon, a slower repair may stop the current daemon that a faster one
  has just started (`manager.go:558`; `docs/prd.md:280-281`). `StartKeepsDaemons`
  states what holds.
* A session whose create request passed its last check is stored after the stop has
  cleared the store (`broker.go:202`; the process exits soon after).
* A client that asks for more on the connection of its running command, with the
  executable replaced, leaves its active entry behind (`server.go:322`; set
  `Pipelining` to TRUE).
* A retired daemon whose last entry is an aborted delivery stays up until the next
  request (`server.go:755`; drop `~aborted` from `RetiredIsWatched`).
* The late answer to `started`, after its deadline, is read as the answer to
  `completed` (`client.go:473`).
* An item describe that loses its last check leaves no terminal audit event
  (`broker.go:449-518`).
* A signal may be sent to a command that has just been reaped (`execwrap.go:172`).
* `docs/configuration.md:210-221` orders the sources of an alias otherwise than
  `exec_parse.go:300-310`; and two Bitwarden aliases of one file that normalise to
  the same name are settled by the order of a Go map (`profileconfig.go:805-811`).

## Plan

What the models could take in next: item describe; the audit writer; value versions
in the cache; the approver app's run loop; the repair of an untrusted helper; daemons
with commands in flight in DaemonLifecycle.

## Not modelled

Operating-system checks (code signatures, peer credentials), encodings, the CLI's
help, output and its daemon, install and doctor commands, the approver's views, the installer and the build: I/O or
sequential text handling whose properties are not about interleavings. The SDKs
and the OS are external.
