--------------------------- MODULE ReusableGrants ---------------------------
(***************************************************************************)
(* Delivery of secrets to `agent-secret exec` through the daemon's broker: *)
(* the policy store of reusable approvals (internal/policy), the cache of  *)
(* their values (internal/secretcache), the reusable grant manager and the *)
(* grant issuer (internal/daemon/broker) and the exec delivery that the    *)
(* server writes and then commits or aborts.                               *)
(*                                                                         *)
(* Every request is a goroutine of its own.  A step of a request is what   *)
(* it does between two operations on shared state (the store, the cache,   *)
(* the timers, the active map: each has its own lock).  Audit writes and   *)
(* provider fetches touch only the request; they are a choice between      *)
(* success and failure, taken together with the checks that follow them.   *)
(***************************************************************************)
EXTENDS Naturals, FiniteSets

CONSTANTS
    Requests,     \* exec requests, each handled by one goroutine
    Approvals,    \* identifiers the store may draw; bounds the approvals made
    NoApproval,   \* the empty approval id
    Keys,         \* reuse keys (policy.ReuseKey)
    UsesOf,       \* UsesOf[k]: ReusableUses, part of the reuse key
    TTLOf,        \* TTLOf[k]: TTL, part of the reuse key
    Refs,         \* unique secret references of a request
    Modes,        \* request options explored: subset of RequestModes
    MaxTime       \* bound on the clock

RequestModes == {"plain", "force_refresh", "reuse_only"}

ASSUME ConstantsAssumption ==
    /\ IsFiniteSet(Requests)
    /\ NoApproval \notin Approvals
    /\ Keys # {}
    /\ UsesOf \in [Keys -> Nat \ {0}]
    /\ TTLOf \in [Keys -> Nat \ {0}]
    /\ Modes \subseteq RequestModes
    /\ MaxTime \in Nat

VARIABLES
    now,        \* the clock
    stopping,   \* progress of StopWithAuditEvent
    store,      \* policy.Store: approvals by id
    cache,      \* cache[x]: references whose value is cached under scope x
    timer,      \* timer[x]: expiry timer of x
    active,     \* broker.active: requests whose command may be running
    pc,         \* where each request is
    req,        \* the request: reuse key, mode, ExpiresAt
    lease,      \* grantDelivery.approvalID: the approval a request drew on
    owns,       \* grantDelivery.mutationID is set: a failure removes the approval
    todo,       \* references still to put in, or to get from, the cache
    scope,      \* approval whose scope the request is about to clear
    next,       \* where the request goes after clearing a scope
    delivered   \* history: requests whose payload was written under x

ledger == <<store, lease, delivered>>   \* what the use count depends on
scopes == <<cache, timer>>
world  == <<now, stopping, active>>
plan   == <<req, owns, todo>>
detour == <<scope, next>>
vars == <<now, stopping, store, cache, timer, active, pc, req, lease, owns,
          todo, scope, next, delivered>>

PCs == {"new", "reserve", "missed", "prompt", "fetch", "create", "reused",
        "refetch", "caching", "putting", "schedule", "refreshed", "reading",
        "values", "issued", "activate", "prewrite", "write", "commit",
        "abort", "finish", "clearing", "done", "failed"}

StopSteps == {"running", "closed", "inactive", "untimed", "uncached", "stopped"}

Approval == [status : {"unused", "live", "gone"}, key : Keys, expires : Nat,
             uses : Nat, reserved : Nat]

Request == [key : Keys, mode : RequestModes, expires : Nat]

TypeOK ==
    /\ now \in Nat
    /\ stopping \in StopSteps
    /\ store \in [Approvals -> Approval]
    /\ cache \in [Approvals -> SUBSET Refs]
    /\ timer \in [Approvals -> {"none", "armed", "firing"}]
    /\ active \in SUBSET Requests
    /\ pc \in [Requests -> PCs]
    /\ req \in [Requests -> Request]
    /\ lease \in [Requests -> Approvals \cup {NoApproval}]
    /\ owns \in [Requests -> BOOLEAN]
    /\ todo \in [Requests -> SUBSET Refs]
    /\ scope \in [Requests -> Approvals \cup {NoApproval}]
    /\ next \in [Requests -> PCs]
    /\ delivered \in [Approvals -> SUBSET Requests]

\* A filler for records that are not in use yet.
AnyKey == CHOOSE k \in Keys : TRUE

Init ==
    /\ now = 0
    /\ stopping = "running"
    /\ store = [x \in Approvals |->
           [status |-> "unused", key |-> AnyKey, expires |-> 0, uses |-> 0, reserved |-> 0]]
    /\ req = [r \in Requests |-> [key |-> AnyKey, mode |-> "plain", expires |-> 0]]
    /\ cache = [x \in Approvals |-> {}]
    /\ timer = [x \in Approvals |-> "none"]
    /\ active = {}
    /\ pc = [r \in Requests |-> "new"]
    /\ lease = [r \in Requests |-> NoApproval]
    /\ owns = [r \in Requests |-> FALSE]
    /\ todo = [r \in Requests |-> {}]
    /\ scope = [r \in Requests |-> NoApproval]
    /\ next = [r \in Requests |-> "new"]
    /\ delivered = [x \in Approvals |-> {}]

-----------------------------------------------------------------------------
(***************************************************************************)
(* The policy store.  Each operation holds the store's mutex throughout.   *)
(***************************************************************************)
Live(x)    == store[x].status = "live"
Expired(x) == now >= store[x].expires

Remaining(a) == UsesOf[a.key] - a.uses - a.reserved

UsedUp(a) == a.uses >= UsesOf[a.key] /\ a.reserved = 0

\* Faulty: an approval that was removed is still found.
MatchesRemoved(r) == {x \in Approvals : store[x].status # "unused" /\ store[x].key = req[r].key}

\* findReusableLocked walks the map in an arbitrary order.
Matches(r) == {x \in Approvals : Live(x) /\ store[x].key = req[r].key}

ExpiredMatches(r)   == {x \in Matches(r) : Expired(x)}
UsableMatches(r)    == {x \in Matches(r) : ~Expired(x) /\ Remaining(store[x]) > 0}
ExhaustedMatches(r) == Matches(r) \ (ExpiredMatches(r) \cup UsableMatches(r))

Without(st, X) ==
    [x \in Approvals |-> IF x \in X /\ st[x].status = "live"
                         THEN [st[x] EXCEPT !.status = "gone"] ELSE st[x]]

RemoveReusable(x) == store' = Without(store, {x})

\* FinishReusableAttempt: the reservation ends, with or without a payload.
AfterAttempt(a, result) ==
    LET b == [a EXCEPT !.reserved = IF @ > 0 THEN @ - 1 ELSE @,
                       !.uses = IF result = "payload_delivered" THEN @ + 1 ELSE @]
    IN  IF UsedUp(b) THEN [b EXCEPT !.status = "gone"] ELSE b

FinishReusableAttempt(x, result) ==
    store' = IF Live(x) /\ ~Expired(x)
             THEN [store EXCEPT ![x] = AfterAttempt(@, result)]
             ELSE Without(store, {x})

\* Faulty: any delivered payload clears the scope.
ClearsEarly(x, result) ==
    result = "payload_delivered" \/ Expired(x)

\* finishDelivery and finishDeliveryError: must the scope of x be cleared?
ClearsScope(x, result) ==
    IF ~Live(x) THEN result = "payload_delivered"
    ELSE \/ Expired(x)
         \/ AfterAttempt(store[x], result).uses >= UsesOf[store[x].key]

\* Faulty: the timer is stopped, the values are forgotten.
ScopeUntimed(x) ==
    /\ timer' = [timer EXCEPT ![x] = IF @ = "armed" THEN "none" ELSE @]
    /\ UNCHANGED cache

\* clearScope: stop the timer (a callback that already runs goes on), then
\* drop the cached values.
ScopeCleared(x) ==
    /\ timer' = [timer EXCEPT ![x] = IF @ = "armed" THEN "none" ELSE @]
    /\ cache' = [cache EXCEPT ![x] = {}]

-----------------------------------------------------------------------------
(***************************************************************************)
(* Checks and moves of a request.                                          *)
(***************************************************************************)
Running == stopping = "running"

\* ensureRequestActive: not stopped, and the request has not expired.
RequestActive(r) == Running /\ now < req[r].expires

\* ensureApprovalActive, which decides by the snapshot's ExpiresAt.
ApprovalActive(r) == lease[r] # NoApproval => Running /\ ~Expired(lease[r])

\* ensureGrantStillActive
GrantActive(r) == RequestActive(r) /\ ApprovalActive(r)

Goto(r, p) == pc' = [pc EXCEPT ![r] = p]

At(r, p) == pc[r] = p

\* A step that only the request sees.
Move(r, p) ==
    /\ Goto(r, p)
    /\ UNCHANGED <<ledger, scopes, world, plan, detour>>

\* Clear the scope of x next, then go on at p.
ClearThen(r, x, p) ==
    /\ scope' = [scope EXCEPT ![r] = x]
    /\ next'  = [next EXCEPT ![r] = p]
    /\ Goto(r, "clearing")

\* rollbackApproval: remove the approval from the store, then clear its scope.
Rollback(r, p) ==
    /\ RemoveReusable(lease[r])
    /\ ClearThen(r, lease[r], p)

DropLease(r) == lease' = [lease EXCEPT ![r] = NoApproval]

\* clearScope, wherever the request calls it.
ClearScope(r) ==
    /\ At(r, "clearing")
    /\ ScopeCleared(scope[r])
    /\ Goto(r, next[r])
    /\ scope' = [scope EXCEPT ![r] = NoApproval]
    /\ next'  = [next EXCEPT ![r] = "new"]
    /\ UNCHANGED <<ledger, world, plan>>

-----------------------------------------------------------------------------
(***************************************************************************)
(* A request arrives and looks for an approval to reuse.                   *)
(***************************************************************************)

\* PrepareExecDelivery up to the store: the daemon runs, the audit log can be
\* written, the request is fresh.
Receive(r, k, m) ==
    /\ At(r, "new")
    /\ Running
    /\ now + TTLOf[k] <= MaxTime
    /\ req' = [req EXCEPT ![r] = [key |-> k, mode |-> m, expires |-> now + TTLOf[k]]]
    /\ Goto(r, "reserve")
    /\ UNCHANGED <<ledger, scopes, world, owns, todo, detour>>

\* ReserveReusable finds a usable approval; expired ones met on the way are
\* pruned from the store, their scopes left to their timers.
ReserveHit(r) ==
    /\ At(r, "reserve")
    /\ \E x \in UsableMatches(r), pruned \in SUBSET ExpiredMatches(r) :
          /\ store' = [Without(store, pruned) EXCEPT ![x].reserved = @ + 1]
          /\ lease' = [lease EXCEPT ![r] = x]
    /\ owns' = [owns EXCEPT ![r] = (req[r].mode = "force_refresh")]
    /\ Goto(r, "reused")
    /\ UNCHANGED <<delivered, scopes, world, req, todo, detour>>

\* No usable approval: stale matches are pruned, and the scope of the one that
\* is reported is cleared.
ReserveMiss(r) ==
    /\ At(r, "reserve")
    /\ UsableMatches(r) = {}
    /\ LET spentUp  == {x \in ExhaustedMatches(r) : UsedUp(store[x])}
           reported == IF ExpiredMatches(r) # {} THEN ExpiredMatches(r) ELSE spentUp
       IN  /\ store' = Without(store, ExpiredMatches(r) \cup spentUp)
           /\ IF reported = {}
              THEN Goto(r, "missed") /\ UNCHANGED detour
              ELSE \E x \in reported : ClearThen(r, x, "missed")
    /\ UNCHANGED <<lease, delivered, scopes, world, plan>>

\* Faulty: the reservation is not returned.
ReuseAuditLeaks(r) ==
    /\ At(r, "reused")
    /\ DropLease(r)
    /\ Goto(r, "failed")
    /\ UNCHANGED <<store, delivered, scopes, world, plan, detour>>

\* The approval_reused event cannot be written: the reservation is returned
\* without looking at the outcome.
ReuseAuditFails(r) ==
    /\ At(r, "reused")
    /\ FinishReusableAttempt(lease[r], "pre_payload_failure")
    /\ DropLease(r)
    /\ Goto(r, "failed")
    /\ UNCHANGED <<delivered, scopes, world, plan, detour>>

BeginReuse(r) ==
    /\ At(r, "reused")
    /\ GrantActive(r)
    /\ todo' = [todo EXCEPT ![r] = Refs]
    /\ Goto(r, IF owns[r] THEN "refetch" ELSE "reading")
    /\ UNCHANGED <<ledger, scopes, world, req, owns, detour>>

\* cachedValues gets one reference at a time.
GetCached(r, ref) ==
    /\ At(r, "reading")
    /\ ref \in todo[r] \cap cache[lease[r]]
    /\ todo' = [todo EXCEPT ![r] = @ \ {ref}]
    /\ Goto(r, IF todo[r] = {ref} THEN "values" ELSE "reading")
    /\ UNCHANGED <<ledger, scopes, world, req, owns, detour>>

\* Faulty: a reader waits for the values until the daemon stops.
AwaitCache(r) ==
    /\ At(r, "reading")
    /\ todo[r] \ cache[lease[r]] # {}
    /\ ~Running
    /\ Move(r, "finish")

\* ErrMissingCache: the deferred finishDeliveryBeforePayload follows.
MissingCache(r) ==
    /\ At(r, "reading")
    /\ todo[r] \ cache[lease[r]] # {}
    /\ Move(r, "finish")

\* resolveReusableRefresh: every reference is fetched again.
Refetched(r) ==
    /\ At(r, "refetch")
    /\ GrantActive(r)
    /\ next' = [next EXCEPT ![r] = "refreshed"]
    /\ Goto(r, "caching")
    /\ UNCHANGED <<ledger, scopes, world, plan, scope>>

RefetchFails(r) == At(r, "refetch") /\ Move(r, "finish")

\* approval_refreshed is on record and the grant is still good.
Refreshed(r) == At(r, "refreshed") /\ GrantActive(r) /\ Move(r, "values")

\* The refresh is not on record, or too late: the approval is rolled back.
RefreshFails(r) ==
    /\ At(r, "refreshed")
    /\ Rollback(r, "finish")
    /\ UNCHANGED <<lease, delivered, scopes, world, plan>>

\* A check of issueReusableGrant finds the request expired or the daemon
\* stopped; the deferred finishDeliveryBeforePayload follows.
ReuseLapses(r) ==
    /\ pc[r] \in {"reused", "refetch", "values"}
    /\ ~RequestActive(r)
    /\ Move(r, "finish")

\* The same check finds the approval expired or the daemon stopped, and rolls
\* the approval back itself.
ReuseExpires(r) ==
    /\ pc[r] \in {"reused", "refetch", "values"}
    /\ ~ApprovalActive(r)
    /\ Rollback(r, "finish")
    /\ UNCHANGED <<lease, delivered, scopes, world, plan>>

ValuesReady(r) == At(r, "values") /\ GrantActive(r) /\ Move(r, "issued")

-----------------------------------------------------------------------------
(***************************************************************************)
(* freshGrant: ask the operator, fetch, and keep a reusable approval.      *)
(***************************************************************************)

\* approval_requested is on record and the operator is asked.
Prompt(r) == At(r, "missed") /\ req[r].mode # "reuse_only" /\ Move(r, "prompt")

\* The operator approves; approval_granted is on record.
Approved(r, reusable) ==
    /\ At(r, "prompt")
    /\ RequestActive(r)
    /\ owns' = [owns EXCEPT ![r] = reusable]
    /\ Goto(r, "fetch")
    /\ UNCHANGED <<ledger, scopes, world, req, todo, detour>>

\* resolveUniqueRefs has every value.
Fetched(r) ==
    /\ At(r, "fetch")
    /\ RequestActive(r)
    /\ Move(r, IF owns[r] THEN "create" ELSE "issued")

\* Before anything is shared, a failure ends the request: stopped, expired,
\* denied, no approval to reuse, an audit write or a fetch that fails, no
\* random bytes for the id.
GiveUp(r) ==
    /\ pc[r] \in {"new", "reserve", "missed", "prompt", "fetch", "create"}
    /\ At(r, "reserve") => ~RequestActive(r)
    /\ Move(r, "failed")

\* createGrant: AddReusable stores the approval with one use reserved.  From
\* here on other requests can find it, although nothing is cached yet.
CreateGrant(r, x) ==
    /\ At(r, "create")
    /\ store[x].status = "unused"
    /\ store' = [store EXCEPT ![x] = [status |-> "live", key |-> req[r].key,
                     expires |-> req[r].expires, uses |-> 0, reserved |-> 1]]
    /\ lease' = [lease EXCEPT ![r] = x]
    /\ todo'  = [todo EXCEPT ![r] = Refs]
    /\ next'  = [next EXCEPT ![r] = "schedule"]
    /\ Goto(r, "caching")
    /\ UNCHANGED <<delivered, scopes, world, req, owns, scope>>

\* cacheResolvedValues checks the approval before every value ...
CacheCheck(r) ==
    /\ At(r, "caching")
    /\ todo[r] # {}
    /\ ApprovalActive(r)
    /\ Move(r, "putting")

\* ... which it then puts in locked memory ...
Put(r, ref) ==
    /\ At(r, "putting")
    /\ ref \in todo[r]
    /\ cache' = [cache EXCEPT ![lease[r]] = @ \cup {ref}]
    /\ todo' = [todo EXCEPT ![r] = @ \ {ref}]
    /\ Goto(r, "caching")
    /\ UNCHANGED <<ledger, timer, world, req, owns, detour>>

\* ... and once more after the last.
CacheDone(r) ==
    /\ At(r, "caching")
    /\ todo[r] = {}
    /\ ApprovalActive(r)
    /\ Goto(r, next[r])
    /\ next' = [next EXCEPT ![r] = "new"]
    /\ UNCHANGED <<ledger, scopes, world, plan, scope>>

\* A check or a Put fails: createGrant and refreshedReusableValues both roll
\* the approval back; only the latter still has a deferred finish to run.
CacheFails(r) ==
    /\ \/ At(r, "caching") /\ ~ApprovalActive(r)
       \/ At(r, "putting")
    /\ IF next[r] = "schedule"
       THEN Rollback(r, "failed") /\ DropLease(r)
       ELSE Rollback(r, "finish") /\ UNCHANGED lease
    /\ todo' = [todo EXCEPT ![r] = {}]
    /\ UNCHANGED <<delivered, scopes, world, req, owns>>

\* Faulty: the timer is not armed.
ScheduleNothing(r) ==
    /\ At(r, "schedule")
    /\ Move(r, "issued")

\* scheduleExpiry
ScheduleExpiry(r) ==
    /\ At(r, "schedule")
    /\ IF ~Expired(lease[r])
       THEN /\ timer' = [timer EXCEPT ![lease[r]] = "armed"]
            /\ Goto(r, "issued")
            /\ UNCHANGED <<store, detour>>
       ELSE /\ Rollback(r, "issued")
            /\ UNCHANGED timer
    /\ UNCHANGED <<lease, delivered, cache, world, plan>>

-----------------------------------------------------------------------------
(***************************************************************************)
(* issue, PrepareExecDelivery and handleRequestExec: the payload.          *)
(***************************************************************************)

\* command_starting is on record and the grant is still good.
StartCommand(r) == At(r, "issued") /\ GrantActive(r) /\ Move(r, "activate")

\* Faulty: the reservation is returned, the approval stays.
IssueKeeps(r) == At(r, "issued") /\ Move(r, "finish")

\* rollbackDelivery: a request that made or refreshed the approval removes it,
\* one that only reused it returns its reservation.
IssueFails(r) ==
    /\ At(r, "issued")
    /\ IF owns[r] /\ lease[r] # NoApproval
       THEN Rollback(r, "failed") /\ DropLease(r)
       ELSE Goto(r, "finish") /\ UNCHANGED <<store, lease, detour>>
    /\ UNCHANGED <<delivered, scopes, world, plan>>

\* ensureApprovalActive rolled the approval back before rollbackDelivery.
IssueExpires(r) ==
    /\ At(r, "issued")
    /\ ~owns[r]
    /\ ~ApprovalActive(r)
    /\ Rollback(r, "finish")
    /\ UNCHANGED <<lease, delivered, scopes, world, plan>>

\* activateExec looks at the stop channel again under the broker's lock.
ActivateExec(r) ==
    /\ At(r, "activate")
    /\ Running
    /\ active' = active \cup {r}
    /\ Goto(r, "prewrite")
    /\ UNCHANGED <<ledger, scopes, now, stopping, plan, detour>>

ActivateRefused(r) == At(r, "activate") /\ ~Running /\ Move(r, "finish")

\* BeforeWrite
BeforeWrite(r) == At(r, "prewrite") /\ GrantActive(r) /\ Move(r, "write")

\* The write deadline cannot be set or has passed, or BeforeWrite finds the
\* request expired or the daemon stopped.
WriteRefused(r) == At(r, "prewrite") /\ Move(r, "abort")

\* BeforeWrite finds the approval expired and rolls it back.
WriteExpires(r) ==
    /\ At(r, "prewrite")
    /\ ~ApprovalActive(r)
    /\ Rollback(r, "abort")
    /\ UNCHANGED <<lease, delivered, scopes, world, plan>>

\* writeOK hands the payload to the client before the write deadline, which is
\* the end of the approval or of the request, whichever comes first.
WritePayload(r) ==
    /\ At(r, "write")
    /\ now < req[r].expires
    /\ lease[r] # NoApproval => ~Expired(lease[r])
    /\ delivered' = [x \in Approvals |->
                       IF x = lease[r] THEN delivered[x] \cup {r} ELSE delivered[x]]
    /\ Goto(r, "commit")
    /\ UNCHANGED <<store, lease, scopes, world, plan, detour>>

WriteFails(r) == At(r, "write") /\ Move(r, "abort")

\* finishDelivery, with the scope cleared afterwards where it must be.
FinishDelivery(r, result, p) ==
    /\ IF lease[r] = NoApproval
       THEN Goto(r, p) /\ UNCHANGED <<store, detour>>
       ELSE /\ FinishReusableAttempt(lease[r], result)
            /\ IF ClearsScope(lease[r], result)
               THEN ClearThen(r, lease[r], p)
               ELSE Goto(r, p) /\ UNCHANGED detour
    /\ DropLease(r)
    /\ UNCHANGED <<delivered, scopes, world, plan>>

CommitDelivered(r) ==
    At(r, "commit") /\ FinishDelivery(r, "payload_delivered", "done")

FinishBeforePayload(r) ==
    At(r, "finish") /\ FinishDelivery(r, "pre_payload_failure", "failed")

\* AbortBeforePayload: deactivateExec, then finishDeliveryBeforePayload.
AbortBeforePayload(r) ==
    /\ At(r, "abort")
    /\ active' = active \ {r}
    /\ Goto(r, "finish")
    /\ UNCHANGED <<ledger, scopes, now, stopping, plan, detour>>

\* ReportCompleted, or ClientDisconnected: the command is over.
EndExec(r) ==
    /\ At(r, "done")
    /\ r \in active
    /\ active' = active \ {r}
    /\ UNCHANGED <<ledger, scopes, now, stopping, pc, plan, detour>>

-----------------------------------------------------------------------------
(***************************************************************************)
(* The expiry timers, the stop sequence and the clock.                     *)
(***************************************************************************)

\* The AfterFunc of scheduleExpiry removes the approval ...
TimerFires(x) ==
    /\ timer[x] = "armed"
    /\ Expired(x)
    /\ RemoveReusable(x)
    /\ timer' = [timer EXCEPT ![x] = "firing"]
    /\ UNCHANGED <<lease, delivered, cache, world, pc, plan, detour>>

\* ... and then clears its scope.
TimerClears(x) ==
    /\ timer[x] = "firing"
    /\ timer' = [timer EXCEPT ![x] = "none"]
    /\ cache' = [cache EXCEPT ![x] = {}]
    /\ UNCHANGED <<ledger, world, pc, plan, detour>>

\* StopWithAuditEvent closes the stop channel first.
Stop ==
    /\ stopping = "running"
    /\ stopping' = "closed"
    /\ UNCHANGED <<ledger, scopes, now, active, pc, plan, detour>>

ClearActive ==
    /\ stopping = "closed"
    /\ stopping' = "inactive"
    /\ active' = {}
    /\ UNCHANGED <<ledger, scopes, now, pc, plan, detour>>

\* reusableGrantManager.clear: timers, cache and store, each under its lock.
ClearTimers ==
    /\ stopping = "inactive"
    /\ stopping' = "untimed"
    /\ timer' = [x \in Approvals |-> IF timer[x] = "armed" THEN "none" ELSE timer[x]]
    /\ UNCHANGED <<ledger, cache, now, active, pc, plan, detour>>

ClearCache ==
    /\ stopping = "untimed"
    /\ stopping' = "uncached"
    /\ cache' = [x \in Approvals |-> {}]
    /\ UNCHANGED <<ledger, timer, now, active, pc, plan, detour>>

ClearStore ==
    /\ stopping = "uncached"
    /\ stopping' = "stopped"
    /\ store' = Without(store, Approvals)
    /\ UNCHANGED <<lease, delivered, scopes, now, active, pc, plan, detour>>

Tick ==
    /\ now < MaxTime
    /\ now' = now + 1
    /\ UNCHANGED <<ledger, scopes, stopping, active, pc, plan, detour>>

\* Steps a request takes by itself, once it is received.
RequestStep(r) ==
    \/ ClearScope(r)
    \/ ReserveHit(r)
    \/ ReserveMiss(r)
    \/ ReuseAuditFails(r)
    \/ BeginReuse(r)
    \/ \E ref \in Refs : GetCached(r, ref)
    \/ MissingCache(r)
    \/ Refetched(r)
    \/ RefetchFails(r)
    \/ Refreshed(r)
    \/ RefreshFails(r)
    \/ ReuseLapses(r)
    \/ ReuseExpires(r)
    \/ ValuesReady(r)
    \/ Prompt(r)
    \/ \E reusable \in BOOLEAN : Approved(r, reusable)
    \/ Fetched(r)
    \/ GiveUp(r)
    \/ \E x \in Approvals : CreateGrant(r, x)
    \/ CacheCheck(r)
    \/ \E ref \in Refs : Put(r, ref)
    \/ CacheDone(r)
    \/ CacheFails(r)
    \/ ScheduleExpiry(r)
    \/ StartCommand(r)
    \/ IssueFails(r)
    \/ IssueExpires(r)
    \/ ActivateExec(r)
    \/ ActivateRefused(r)
    \/ BeforeWrite(r)
    \/ WriteRefused(r)
    \/ WriteExpires(r)
    \/ WritePayload(r)
    \/ WriteFails(r)
    \/ CommitDelivered(r)
    \/ FinishBeforePayload(r)
    \/ AbortBeforePayload(r)

TimerStep(x) == TimerFires(x) \/ TimerClears(x)

StopStep == ClearActive \/ ClearTimers \/ ClearCache \/ ClearStore

Next ==
    \/ \E r \in Requests :
          \/ \E k \in Keys, m \in Modes : Receive(r, k, m)
          \/ RequestStep(r)
          \/ EndExec(r)
    \/ \E x \in Approvals : TimerStep(x)
    \/ Stop
    \/ StopStep
    \/ Tick

Spec == Init /\ [][Next]_vars

\* Goroutines and timer callbacks are scheduled, a prompt times out and time
\* passes; nobody has to send a request, approve one or stop the daemon.
Fairness ==
    /\ \A r \in Requests : WF_vars(RequestStep(r))
    /\ \A x \in Approvals : WF_vars(TimerStep(x))
    /\ WF_vars(StopStep)
    /\ WF_vars(Tick)

FairSpec == Spec /\ Fairness

-----------------------------------------------------------------------------
(***************************************************************************)
(* Properties.                                                             *)
(***************************************************************************)
Holders(x) == {r \in Requests : lease[r] = x}

AtRest == \A r \in Requests : pc[r] \in {"new", "done", "failed"}

\* No approval pays for more payloads than the operator allowed, however many
\* requests race for its last use and however they fail: a use is reserved
\* before the values are read and spent or returned exactly once
\* (ReserveReusable, FinishReusableAttempt, rollbackDelivery).
UsesWithinApproval ==
    \A x \in Approvals : Cardinality(delivered[x]) <= UsesOf[store[x].key]

\* The counters of a stored approval agree with what happened: a reservation
\* for every request that may still write its payload, a use for every payload
\* written and committed.  So no failure before the payload costs a use, and no
\* reservation leaks or is returned twice.
CountersMatchDeliveries ==
    \A x \in Approvals : Live(x) =>
        /\ store[x].reserved = Cardinality(Holders(x))
        /\ store[x].uses = Cardinality(delivered[x] \ Holders(x))

\* The inductive strengthening of the two: where a request may hold a lease, who
\* has been paid, and what the counters say while requests are under way.
LeaseInv ==
    \A r \in Requests :
        /\ pc[r] = "clearing" =>
              next[r] \in {"missed", "finish", "abort", "issued", "failed", "done"}
        /\ pc[r] \in {"caching", "putting"} => next[r] \in {"schedule", "refreshed"}
        /\ (\/ pc[r] \in {"new", "reserve", "missed", "prompt", "fetch", "create",
                          "done", "failed"}
            \/ pc[r] = "clearing" /\ next[r] \in {"missed", "failed", "done"})
              => lease[r] = NoApproval
        /\ pc[r] \in {"reused", "refetch", "caching", "putting", "schedule",
                      "refreshed", "reading", "values"} => lease[r] # NoApproval

PaidInv ==
    \A r \in Requests, x \in Approvals : r \in delivered[x] =>
        \/ pc[r] = "commit" /\ lease[r] = x
        \/ pc[r] = "done"
        \/ pc[r] = "clearing" /\ next[r] = "done"

\* A request writes at most one payload, and a writer that committed is paid.
WriterInv ==
    \A r \in Requests : pc[r] = "commit" /\ lease[r] # NoApproval => r \in delivered[lease[r]]

AccountInv ==
    \A x \in Approvals :
        /\ store[x].status = "unused" => Holders(x) = {} /\ delivered[x] = {}
        /\ Live(x) => /\ store[x].reserved = Cardinality(Holders(x))
                      /\ store[x].uses = Cardinality(delivered[x] \ Holders(x))
        /\ Cardinality(delivered[x] \cup Holders(x)) <= UsesOf[store[x].key]

GrantInv == TypeOK /\ LeaseInv /\ PaidInv /\ WriterInv /\ AccountInv

\* When no request is under way, every cached value has an expiry timer that
\* will clear it: a rollback, an exhausted approval or a failed delivery leaves
\* nothing behind (finishDelivery, rollbackApproval, scheduleExpiry).
CachedValuesHaveTimer ==
    AtRest /\ stopping \in {"running", "stopped"} =>
        \A x \in Approvals : cache[x] # {} => timer[x] # "none"

\* When no request is under way, an approval a request could still reuse has
\* all its values cached: rolling one approval back or finishing one delivery
\* never takes the values from under a live approval.
LiveApprovalsAreCached ==
    AtRest /\ Running =>
        \A x \in Approvals : Live(x) /\ ~Expired(x) => cache[x] = Refs

\* Once the stop has gone through and the requests it met have ended, nothing is
\* left of the approvals: no store entry, no value, no timer, although requests
\* may add an approval, put a value or arm a timer after the clearing
\* (StopWithAuditEvent against createGrant and cacheResolvedValues).
StopLeavesNothing ==
    stopping = "stopped" /\ AtRest =>
        \A x \in Approvals :
            /\ ~Live(x)
            /\ timer[x] = "firing" \/ (timer[x] = "none" /\ cache[x] = {})

\* Every request that is received comes to an end.
RequestsSettle ==
    \A r \in Requests : pc[r] # "new" ~> pc[r] \in {"done", "failed"}

\* Values do not stay in the cache: their approval is used up, rolled back or
\* expires, or the daemon stops.
CachedValuesAreCleared ==
    \A x \in Approvals : cache[x] # {} ~> cache[x] = {}

\* The approval as a ledger of places and payloads.
LedgerPhase ==
    [x \in Approvals |-> CASE store[x].status = "unused" -> "unused"
                           [] store[x].status = "live" -> "open"
                           [] OTHER -> "closed"]

LedgerBudget ==
    [x \in Approvals |-> IF store[x].status = "unused" THEN 0 ELSE UsesOf[store[x].key]]

LedgerPlaces == [x \in Approvals |-> Holders(x) \ delivered[x]]

Ledger == INSTANCE UseLedger WITH
    Budgets <- {UsesOf[k] : k \in Keys},
    phase   <- LedgerPhase,
    budget  <- LedgerBudget,
    places  <- LedgerPlaces,
    spent   <- delivered

\* Seen from outside, the broker keeps that ledger: no place is taken beyond the
\* budget or on an approval that is closed, and a closed approval never reopens
\* (ReserveReusable, AddReusable, FinishReusableAttempt, RemoveReusable).
ImplementsLedger == Ledger!LedgerSpec
=============================================================================
