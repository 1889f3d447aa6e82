------------------------ MODULE ReusableGrants_proofs ------------------------
(***************************************************************************)
(* The use count of a reusable approval, and what is left of its values    *)
(* and timers, for any number of requests, approvals, keys and references. *)
(***************************************************************************)
EXTENDS ReusableGrants, FiniteSetTheorems, TLAPS

\* Every request step, by name.
LEMMA RequestStepCases ==
    ASSUME NEW r \in Requests, RequestStep(r)
    PROVE  \/ ClearScope(r) \/ ReserveHit(r) \/ ReserveMiss(r) \/ ReuseAuditFails(r)
           \/ BeginReuse(r) \/ (\E ref \in Refs : GetCached(r, ref)) \/ MissingCache(r)
           \/ Refetched(r) \/ RefetchFails(r) \/ Refreshed(r) \/ RefreshFails(r)
           \/ ReuseLapses(r) \/ ReuseExpires(r) \/ ValuesReady(r) \/ Prompt(r)
           \/ (\E reusable \in BOOLEAN : Approved(r, reusable)) \/ Fetched(r) \/ GiveUp(r)
           \/ (\E x \in Approvals : CreateGrant(r, x)) \/ CacheCheck(r)
           \/ (\E ref \in Refs : Put(r, ref)) \/ CacheDone(r) \/ CacheFails(r)
           \/ ScheduleExpiry(r) \/ StartCommand(r) \/ IssueFails(r) \/ IssueExpires(r)
           \/ ActivateExec(r) \/ ActivateRefused(r) \/ BeforeWrite(r) \/ WriteRefused(r)
           \/ WriteExpires(r) \/ WritePayload(r) \/ WriteFails(r) \/ CommitDelivered(r)
           \/ FinishBeforePayload(r) \/ AbortBeforePayload(r)
  BY DEF RequestStep

LEMMA WithoutType ==
    ASSUME TypeOK, NEW X
    PROVE  Without(store, X) \in [Approvals -> Approval]
  BY DEF TypeOK, Without, Approval

LEMMA AfterAttemptType ==
    ASSUME NEW a \in Approval, NEW result
    PROVE  AfterAttempt(a, result) \in Approval
  <1> DEFINE b == [a EXCEPT !.reserved = IF @ > 0 THEN @ - 1 ELSE @,
                            !.uses = IF result = "payload_delivered" THEN @ + 1 ELSE @]
  <1>1. b \in Approval
    <2>1. (IF a.reserved > 0 THEN a.reserved - 1 ELSE a.reserved) \in Nat
      BY DEF Approval
    <2>2. (IF result = "payload_delivered" THEN a.uses + 1 ELSE a.uses) \in Nat
      BY DEF Approval
    <2>3. QED
      BY <2>1, <2>2 DEF Approval
  <1>2. [b EXCEPT !.status = "gone"] \in Approval
    BY <1>1 DEF Approval
  <1>3. QED
    BY <1>1, <1>2 DEF AfterAttempt

LEMMA FinishType ==
    ASSUME TypeOK, NEW x, NEW result, FinishReusableAttempt(x, result)
    PROVE  store' \in [Approvals -> Approval]
  <1>1. CASE x \in Approvals
    <2>1. AfterAttempt(store[x], result) \in Approval
      BY <1>1, AfterAttemptType DEF TypeOK
    <2>2. QED
      BY <1>1, <2>1, WithoutType DEF FinishReusableAttempt, TypeOK
  <1>2. CASE x \notin Approvals
    BY <1>2, WithoutType DEF FinishReusableAttempt, TypeOK
  <1>3. QED
    BY <1>1, <1>2

\* Init gives every variable its type.
LEMMA InitTypeOK == Init => TypeOK
  <1>1. AnyKey \in Keys
    BY ConstantsAssumption DEF AnyKey
  <1>2. QED
    BY <1>1 DEF Init, TypeOK, Approval, Request, PCs, StopSteps, RequestModes

\* A rollback of a leased approval keeps the types of what it changes.
LEMMA RollbackType ==
    ASSUME TypeOK, NEW r \in Requests, NEW p \in PCs, Rollback(r, p)
    PROVE  /\ store' \in [Approvals -> Approval]
           /\ pc' \in [Requests -> PCs]
           /\ scope' \in [Requests -> Approvals \cup {NoApproval}]
           /\ next' \in [Requests -> PCs]
  <1>1. store' \in [Approvals -> Approval]
    BY WithoutType DEF Rollback, RemoveReusable
  <1>2. QED
    BY <1>1 DEF TypeOK, Rollback, ClearThen, Goto, PCs

LEMMA FinishDeliveryType ==
    ASSUME TypeOK, NEW r \in Requests, NEW p \in PCs, NEW result,
           FinishDelivery(r, result, p)
    PROVE  TypeOK'
  <1>1. store' \in [Approvals -> Approval]
    BY FinishType DEF FinishDelivery, TypeOK
  <1>2. /\ pc' \in [Requests -> PCs]
        /\ scope' \in [Requests -> Approvals \cup {NoApproval}]
        /\ next' \in [Requests -> PCs]
    BY DEF TypeOK, FinishDelivery, ClearThen, Goto, PCs, detour
  <1>3. QED
    BY <1>1, <1>2 DEF TypeOK, FinishDelivery, DropLease, scopes, world, plan

\* A step only the request sees changes nothing but its pc.
LEMMA MoveType ==
    ASSUME TypeOK, NEW r \in Requests, NEW p \in PCs, Move(r, p)
    PROVE  TypeOK'
  BY DEF TypeOK, Move, Goto, ledger, scopes, world, plan, detour

LEMMA StepTypeOK == TypeOK /\ [Next]_vars => TypeOK'
  <1> SUFFICES ASSUME TypeOK, [Next]_vars PROVE TypeOK'
    OBVIOUS
  <1> USE DEF ledger, scopes, world, plan, detour
  <1>1. ASSUME NEW r \in Requests, NEW k \in Keys, NEW m \in Modes, Receive(r, k, m)
        PROVE  TypeOK'
    <2>1. [key |-> k, mode |-> m, expires |-> now + TTLOf[k]] \in Request
      BY ConstantsAssumption DEF Request, TypeOK
    <2>2. QED
      BY <1>1, <2>1 DEF Receive, TypeOK, Goto, PCs
  <1>2. ASSUME NEW r \in Requests, RequestStep(r)
        PROVE  TypeOK'
    <2>1. CASE \/ MissingCache(r) \/ RefetchFails(r) \/ Refreshed(r) \/ ReuseLapses(r)
               \/ ValuesReady(r) \/ Prompt(r) \/ Fetched(r) \/ GiveUp(r) \/ CacheCheck(r)
               \/ StartCommand(r) \/ ActivateRefused(r) \/ BeforeWrite(r)
               \/ WriteRefused(r) \/ WriteFails(r)
      BY <2>1, MoveType DEF MissingCache, RefetchFails, Refreshed, ReuseLapses, ValuesReady,
         Prompt, Fetched, GiveUp, CacheCheck, StartCommand, ActivateRefused, BeforeWrite,
         WriteRefused, WriteFails, PCs
    <2>2. CASE RefreshFails(r) \/ ReuseExpires(r) \/ IssueExpires(r) \/ WriteExpires(r)
      <3>1. \E p \in PCs : Rollback(r, p)
        BY <2>2 DEF RefreshFails, ReuseExpires, IssueExpires, WriteExpires, PCs
      <3>2. QED
        BY <2>2, <3>1, RollbackType
           DEF RefreshFails, ReuseExpires, IssueExpires, WriteExpires, TypeOK
    <2>3. CASE CommitDelivered(r) \/ FinishBeforePayload(r)
      BY <2>3, FinishDeliveryType DEF CommitDelivered, FinishBeforePayload, PCs
    <2>4. CASE ClearScope(r)
      BY <2>4 DEF ClearScope, ScopeCleared, Goto, TypeOK, PCs
    <2>5. CASE ReserveHit(r)
      <3>1. PICK x \in UsableMatches(r), pruned \in SUBSET ExpiredMatches(r) :
              /\ store' = [Without(store, pruned) EXCEPT ![x].reserved = @ + 1]
              /\ lease' = [lease EXCEPT ![r] = x]
        BY <2>5 DEF ReserveHit
      <3>2. x \in Approvals
        BY DEF UsableMatches, Matches
      <3>3. store' \in [Approvals -> Approval]
        BY <3>1, <3>2, WithoutType DEF Approval
      <3>4. QED
        BY <2>5, <3>1, <3>2, <3>3 DEF ReserveHit, TypeOK, Goto, PCs
    <2>6. CASE ReserveMiss(r)
      <3>1. store' \in [Approvals -> Approval]
        BY <2>6, WithoutType DEF ReserveMiss
      <3>2. /\ pc' \in [Requests -> PCs]
            /\ scope' \in [Requests -> Approvals \cup {NoApproval}]
            /\ next' \in [Requests -> PCs]
        BY <2>6 DEF ReserveMiss, TypeOK, ClearThen, Goto, PCs,
           ExpiredMatches, ExhaustedMatches, Matches
      <3>3. QED
        BY <2>6, <3>1, <3>2 DEF ReserveMiss, TypeOK
    <2>7. CASE ReuseAuditFails(r)
      BY <2>7, FinishType DEF ReuseAuditFails, DropLease, Goto, TypeOK, PCs
    <2>8. CASE BeginReuse(r) \/ Refetched(r)
      BY <2>8 DEF BeginReuse, Refetched, Goto, TypeOK, PCs
    <2>9. CASE \E ref \in Refs : GetCached(r, ref)
      BY <2>9 DEF GetCached, Goto, TypeOK, PCs
    <2>10. CASE \E reusable \in BOOLEAN : Approved(r, reusable)
      BY <2>10 DEF Approved, Goto, TypeOK, PCs
    <2>11. CASE \E x \in Approvals : CreateGrant(r, x)
      <3>1. PICK x \in Approvals : CreateGrant(r, x)
        BY <2>11
      <3>2. [status |-> "live", key |-> req[r].key, expires |-> req[r].expires,
             uses |-> 0, reserved |-> 1] \in Approval
        BY DEF TypeOK, Request, Approval
      <3>3. QED
        BY <3>1, <3>2 DEF CreateGrant, Goto, TypeOK, PCs
    <2>12. CASE \E ref \in Refs : Put(r, ref)
      <3>1. PICK ref \in Refs : Put(r, ref)
        BY <2>12
      <3>2. cache' \in [Approvals -> SUBSET Refs]
        <4>1. cache \in [Approvals -> SUBSET Refs]
          BY DEF TypeOK
        <4>2. cache' = [cache EXCEPT ![lease[r]] = cache[lease[r]] \cup {ref}]
          BY <3>1 DEF Put
        <4>3. CASE lease[r] \in Approvals
          BY <4>1, <4>2, <4>3
        <4>4. CASE lease[r] \notin Approvals
          BY <4>1, <4>2, <4>4
        <4>5. QED
          BY <4>3, <4>4
      <3>3. todo' \in [Requests -> SUBSET Refs] /\ pc' \in [Requests -> PCs]
        BY <3>1 DEF Put, Goto, TypeOK, PCs
      <3>4. QED
        BY <3>1, <3>2, <3>3 DEF Put, TypeOK
    <2>13. CASE CacheDone(r)
      BY <2>13 DEF CacheDone, Goto, TypeOK, PCs
    <2>14. CASE CacheFails(r)
      <3>1. \E p \in PCs : Rollback(r, p)
        BY <2>14 DEF CacheFails, PCs
      <3>2. QED
        BY <2>14, <3>1, RollbackType DEF CacheFails, DropLease, TypeOK
    <2>15. CASE ScheduleExpiry(r)
      <3>1. CASE Expired(lease[r])
        <4>1. Rollback(r, "issued") /\ UNCHANGED timer
          BY <2>15, <3>1 DEF ScheduleExpiry
        <4>2. QED
          BY <2>15, <4>1, RollbackType DEF ScheduleExpiry, TypeOK, PCs
      <3>2. CASE ~Expired(lease[r])
        BY <2>15, <3>2 DEF ScheduleExpiry, Goto, TypeOK, PCs
      <3>3. QED
        BY <3>1, <3>2
    <2>16. CASE IssueFails(r)
      <3>1. CASE owns[r] /\ lease[r] # NoApproval
        <4>1. Rollback(r, "failed") /\ DropLease(r)
          BY <2>16, <3>1 DEF IssueFails
        <4>2. QED
          BY <2>16, <4>1, RollbackType DEF IssueFails, DropLease, TypeOK, PCs
      <3>2. CASE ~(owns[r] /\ lease[r] # NoApproval)
        BY <2>16, <3>2 DEF IssueFails, Goto, TypeOK, PCs
      <3>3. QED
        BY <3>1, <3>2
    <2>17. CASE ActivateExec(r) \/ AbortBeforePayload(r)
      BY <2>17 DEF ActivateExec, AbortBeforePayload, Goto, TypeOK, PCs
    <2>18. CASE WritePayload(r)
      BY <2>18 DEF WritePayload, Goto, TypeOK, PCs
    <2>19. QED
      BY <1>2, <2>1, <2>2, <2>3, <2>4, <2>5, <2>6, <2>7, <2>8, <2>9, <2>10, <2>11, <2>12,
         <2>13, <2>14, <2>15, <2>16, <2>17, <2>18, RequestStepCases
  <1>3. ASSUME NEW r \in Requests, EndExec(r)
        PROVE  TypeOK'
    BY <1>3 DEF EndExec, TypeOK
  <1>4. ASSUME NEW x \in Approvals, TimerStep(x)
        PROVE  TypeOK'
    BY <1>4, WithoutType DEF TimerStep, TimerFires, TimerClears, RemoveReusable, TypeOK
  <1>5. CASE Stop \/ Tick
    BY <1>5 DEF Stop, Tick, TypeOK, StopSteps
  <1>6. CASE StopStep
    BY <1>6, WithoutType
       DEF StopStep, ClearActive, ClearTimers, ClearCache, ClearStore, TypeOK, StopSteps
  <1>7. CASE UNCHANGED vars
    BY <1>7 DEF vars, TypeOK
  <1>8. QED
    BY <1>1, <1>2, <1>3, <1>4, <1>5, <1>6, <1>7 DEF Next

\* Type correctness: the store keeps well-formed approvals and every request,
\* timer and scope its type through every step of the broker.
THEOREM TypeCorrect == Spec => []TypeOK
  BY InitTypeOK, StepTypeOK, PTL DEF Spec

-----------------------------------------------------------------------------
(***************************************************************************)
(* Where a request may hold a lease, and who has been paid.                *)
(***************************************************************************)
Control == LeaseInv /\ PaidInv /\ WriterInv

LEMMA InitControl == Init => Control
  BY DEF Init, Control, LeaseInv, PaidInv, WriterInv

\* A step of r that gives no payload keeps the control invariants if it does so
\* for r itself.
LEMMA ControlFrame ==
    ASSUME TypeOK, Control, NEW r \in Requests, NEW p \in PCs, NEW n \in PCs,
           NEW x \in Approvals \cup {NoApproval},
           pc' = [pc EXCEPT ![r] = p], next' = [next EXCEPT ![r] = n],
           lease' = [lease EXCEPT ![r] = x], delivered' = delivered,
           p = "clearing" => n \in {"missed", "finish", "abort", "issued", "failed", "done"},
           p \in {"caching", "putting"} => n \in {"schedule", "refreshed"},
           (\/ p \in {"new", "reserve", "missed", "prompt", "fetch", "create", "done", "failed"}
            \/ p = "clearing" /\ n \in {"missed", "failed", "done"}) => x = NoApproval,
           p \in {"reused", "refetch", "caching", "putting", "schedule", "refreshed",
                  "reading", "values"} => x # NoApproval,
           p # "commit",
           (\A y \in Approvals : r \notin delivered[y])
              \/ p = "done" \/ (p = "clearing" /\ n = "done")
    PROVE  Control'
  <1>1. /\ pc'[r] = p /\ next'[r] = n /\ lease'[r] = x
        /\ \A q \in Requests \ {r} : pc'[q] = pc[q] /\ next'[q] = next[q] /\ lease'[q] = lease[q]
    BY DEF TypeOK
  <1>2. LeaseInv'
    BY <1>1 DEF Control, LeaseInv
  <1>3. PaidInv'
    BY <1>1 DEF Control, PaidInv
  <1>4. WriterInv'
    BY <1>1 DEF Control, WriterInv
  <1>5. QED
    BY <1>2, <1>3, <1>4 DEF Control

\* A request that has neither sent its payload nor finished is not paid.
LEMMA Unpaid ==
    ASSUME Control, NEW r \in Requests, pc[r] \notin {"commit", "done"},
           pc[r] = "clearing" => next[r] # "done", NEW y \in Approvals
    PROVE  r \notin delivered[y]
  BY DEF Control, PaidInv

LEMMA NextStays ==
    ASSUME TypeOK, NEW r \in Requests
    PROVE  /\ next = [next EXCEPT ![r] = next[r]] /\ next[r] \in PCs
           /\ lease = [lease EXCEPT ![r] = lease[r]]
           /\ lease[r] \in Approvals \cup {NoApproval}
  BY DEF TypeOK

\* The same for a step that leaves r's lease and detour as they are.
LEMMA ControlStays ==
    ASSUME TypeOK, Control, NEW r \in Requests, NEW p \in PCs,
           pc' = [pc EXCEPT ![r] = p], UNCHANGED <<next, lease, delivered>>,
           p \notin {"clearing", "commit"},
           p \in {"caching", "putting"} => next[r] \in {"schedule", "refreshed"},
           p \in {"new", "reserve", "missed", "prompt", "fetch", "create", "done", "failed"}
             => lease[r] = NoApproval,
           p \in {"reused", "refetch", "caching", "putting", "schedule", "refreshed",
                  "reading", "values"} => lease[r] # NoApproval,
           (\A y \in Approvals : r \notin delivered[y]) \/ p = "done"
    PROVE  Control'
  <1>1. next[r] \in PCs /\ lease[r] \in Approvals \cup {NoApproval}
    BY DEF TypeOK
  <1>2. next' = [next EXCEPT ![r] = next[r]] /\ lease' = [lease EXCEPT ![r] = lease[r]]
    BY DEF TypeOK
  <1>3. p \in {"new", "reserve", "missed", "prompt", "fetch", "create", "done", "failed"}
          \/ (p = "clearing" /\ next[r] \in {"missed", "failed", "done"})
          => lease[r] = NoApproval
    OBVIOUS
  <1>4. (\A y \in Approvals : r \notin delivered[y])
          \/ p = "done" \/ (p = "clearing" /\ next[r] = "done")
    OBVIOUS
  <1> DEFINE n == next[r]
             x == lease[r]
  <1> HIDE DEF n, x
  <1>5. n \in PCs /\ x \in Approvals \cup {NoApproval}
        /\ next' = [next EXCEPT ![r] = n] /\ lease' = [lease EXCEPT ![r] = x]
    BY <1>1, <1>2 DEF n, x
  <1>6. /\ p \in {"caching", "putting"} => n \in {"schedule", "refreshed"}
        /\ p \in {"new", "reserve", "missed", "prompt", "fetch", "create", "done", "failed"}
             \/ (p = "clearing" /\ n \in {"missed", "failed", "done"}) => x = NoApproval
        /\ p \in {"reused", "refetch", "caching", "putting", "schedule", "refreshed",
                  "reading", "values"} => x # NoApproval
        /\ (\A y \in Approvals : r \notin delivered[y])
             \/ p = "done" \/ (p = "clearing" /\ n = "done")
    BY <1>3, <1>4 DEF n, x
  <1>7. QED
    BY <1>5, <1>6, ControlFrame

LEMMA MoveControl ==
    ASSUME TypeOK, Control, NEW r \in Requests, NEW p \in PCs, Move(r, p),
           pc[r] \notin {"commit", "done", "clearing"},
           p \notin {"new", "reserve", "missed", "prompt", "fetch", "create", "done", "failed",
                     "clearing", "commit"} \/ lease[r] = NoApproval,
           p \notin {"clearing", "commit"},
           p = "putting" => pc[r] = "caching",
           p # "caching",
           p \in {"reused", "refetch", "schedule", "refreshed", "reading", "values"}
             => lease[r] # NoApproval
    PROVE  Control'
  <1>1. \A y \in Approvals : r \notin delivered[y]
    BY Unpaid
  <1>2. p = "putting" => next[r] \in {"schedule", "refreshed"} /\ lease[r] # NoApproval
    BY DEF Control, LeaseInv
  <1>3. pc' = [pc EXCEPT ![r] = p] /\ next' = next /\ lease' = lease /\ delivered' = delivered
    BY DEF Move, Goto, ledger, detour
  <1>4. p \in {"new", "reserve", "missed", "prompt", "fetch", "create", "done", "failed"}
          => lease[r] = NoApproval
    OBVIOUS
  <1>5. QED
    BY <1>1, <1>2, <1>3, <1>4, ControlStays

LEMMA RollbackControl ==
    ASSUME TypeOK, Control, NEW r \in Requests, NEW p \in {"finish", "abort", "issued"},
           Rollback(r, p), UNCHANGED <<lease, delivered>>,
           pc[r] \notin {"commit", "done", "clearing"}
    PROVE  Control'
  <1>1. \A y \in Approvals : r \notin delivered[y]
    BY Unpaid
  <1>2. pc' = [pc EXCEPT ![r] = "clearing"] /\ next' = [next EXCEPT ![r] = p]
    BY DEF Rollback, ClearThen, Goto
  <1>3. "clearing" \in PCs /\ p \in PCs
    BY DEF PCs
  <1>4. QED
    BY <1>1, <1>2, <1>3, NextStays, ControlFrame

LEMMA FinishDeliveryControl ==
    ASSUME TypeOK, Control, NEW r \in Requests, NEW result, NEW p \in {"done", "failed"},
           FinishDelivery(r, result, p),
           p = "failed" => pc[r] = "finish"
    PROVE  Control'
  <1>1. lease' = [lease EXCEPT ![r] = NoApproval] /\ delivered' = delivered
    BY DEF FinishDelivery, DropLease
  <1>2. p = "failed" => \A y \in Approvals : r \notin delivered[y]
    BY Unpaid
  <1>3. p \in PCs /\ "clearing" \in PCs
    BY DEF PCs
  <1>4. CASE pc' = [pc EXCEPT ![r] = p] /\ next' = next
    BY <1>1, <1>2, <1>3, <1>4, NextStays, ControlFrame
  <1>5. CASE pc' = [pc EXCEPT ![r] = "clearing"] /\ next' = [next EXCEPT ![r] = p]
    BY <1>1, <1>2, <1>3, <1>5, ControlFrame
  <1>6. QED
    BY <1>4, <1>5 DEF FinishDelivery, ClearThen, Goto, detour

LEMMA StepControl == TypeOK /\ Control /\ [Next]_vars => Control'
  <1> SUFFICES ASSUME TypeOK, Control, [Next]_vars PROVE Control'
    OBVIOUS
  <1> USE DEF ledger, scopes, world, plan, detour
  <1>1. ASSUME NEW r \in Requests, NEW k \in Keys, NEW m \in Modes, Receive(r, k, m)
        PROVE  Control'
    <2>1. pc' = [pc EXCEPT ![r] = "reserve"] /\ next' = next /\ lease' = lease
          /\ delivered' = delivered /\ lease[r] = NoApproval
      BY <1>1 DEF Receive, Goto, At, Control, LeaseInv
    <2>2. \A y \in Approvals : r \notin delivered[y]
      BY <1>1, Unpaid DEF Receive, At
    <2>3. "reserve" \in PCs
      BY DEF PCs
    <2>4. QED
      BY <2>1, <2>2, <2>3, ControlStays
  <1>2. ASSUME NEW r \in Requests, RequestStep(r)
        PROVE  Control'
    <2>0. pc[r] \notin {"commit", "done", "clearing"} => \A y \in Approvals : r \notin delivered[y]
      BY Unpaid
    <2>1. CASE \/ MissingCache(r) \/ RefetchFails(r) \/ Refreshed(r) \/ ReuseLapses(r)
               \/ ValuesReady(r) \/ Prompt(r) \/ Fetched(r) \/ GiveUp(r) \/ CacheCheck(r)
               \/ StartCommand(r) \/ ActivateRefused(r) \/ BeforeWrite(r)
               \/ WriteRefused(r) \/ WriteFails(r)
      <3>1. /\ At(r, "refreshed") => lease[r] # NoApproval
            /\ pc[r] \in {"new", "reserve", "missed", "prompt", "fetch", "create"}
                 => lease[r] = NoApproval
        BY DEF Control, LeaseInv, At
      <3>2. PICK p \in PCs :
              /\ Move(r, p)
              /\ pc[r] \notin {"commit", "done", "clearing"}
              /\ \/ p \in {"finish", "issued", "activate", "write", "abort"}
                 \/ p = "values" /\ lease[r] # NoApproval
                 \/ p \in {"prompt", "create", "failed"} /\ lease[r] = NoApproval
                 \/ p = "putting" /\ pc[r] = "caching"
        BY <2>1, <3>1 DEF MissingCache, RefetchFails, Refreshed, ReuseLapses, ValuesReady,
           Prompt, Fetched, GiveUp, CacheCheck, StartCommand, ActivateRefused, BeforeWrite,
           WriteRefused, WriteFails, PCs, At
      <3>3. QED
        BY <3>2, MoveControl
    <2>2. CASE RefreshFails(r) \/ ReuseExpires(r) \/ IssueExpires(r) \/ WriteExpires(r)
      <3>1. PICK p \in {"finish", "abort", "issued"} :
              /\ Rollback(r, p)
              /\ UNCHANGED <<lease, delivered>>
              /\ pc[r] \notin {"commit", "done", "clearing"}
        BY <2>2 DEF RefreshFails, ReuseExpires, IssueExpires, WriteExpires, At
      <3>2. QED
        BY <3>1, RollbackControl
    <2>3. CASE CommitDelivered(r) \/ FinishBeforePayload(r)
      BY <2>3, FinishDeliveryControl DEF CommitDelivered, FinishBeforePayload, At
    <2>4. CASE ClearScope(r)
      <3>1. /\ pc' = [pc EXCEPT ![r] = next[r]] /\ next' = [next EXCEPT ![r] = "new"]
            /\ lease' = lease /\ delivered' = delivered
        BY <2>4 DEF ClearScope, Goto
      <3>2. /\ next[r] \in {"missed", "finish", "abort", "issued", "failed", "done"}
            /\ next[r] \in {"missed", "failed", "done"} => lease[r] = NoApproval
        BY <2>4 DEF ClearScope, At, Control, LeaseInv
      <3>3. next[r] = "done" \/ \A y \in Approvals : r \notin delivered[y]
        BY <2>4, Unpaid DEF ClearScope, At
      <3>4. "new" \in PCs
        BY DEF PCs
      <3>5. QED
        BY <3>1, <3>2, <3>3, <3>4, NextStays, ControlFrame
    <2>5. CASE ReserveHit(r)
      <3>1. PICK x \in UsableMatches(r) : lease' = [lease EXCEPT ![r] = x]
        BY <2>5 DEF ReserveHit
      <3>2. x \in Approvals /\ x # NoApproval
        BY ConstantsAssumption DEF UsableMatches, Matches
      <3>3. /\ pc' = [pc EXCEPT ![r] = "reused"] /\ next' = next /\ delivered' = delivered
            /\ pc[r] = "reserve"
        BY <2>5 DEF ReserveHit, Goto, At
      <3>4. "reused" \in PCs
        BY DEF PCs
      <3>5. QED
        BY <2>0, <3>1, <3>2, <3>3, <3>4, NextStays, ControlFrame
    <2>6. CASE ReserveMiss(r)
      <3>1. lease' = lease /\ delivered' = delivered /\ lease[r] = NoApproval
            /\ \A y \in Approvals : r \notin delivered[y]
        BY <2>0, <2>6 DEF ReserveMiss, At, Control, LeaseInv
      <3>2. \/ pc' = [pc EXCEPT ![r] = "missed"] /\ next' = next
            \/ pc' = [pc EXCEPT ![r] = "clearing"] /\ next' = [next EXCEPT ![r] = "missed"]
        BY <2>6 DEF ReserveMiss, ClearThen, Goto
      <3>3. "missed" \in PCs /\ "clearing" \in PCs
        BY DEF PCs
      <3>4. QED
        BY <3>1, <3>2, <3>3, NextStays, ControlFrame
    <2>7. CASE ReuseAuditFails(r)
      <3>1. /\ pc' = [pc EXCEPT ![r] = "failed"] /\ next' = next
            /\ lease' = [lease EXCEPT ![r] = NoApproval] /\ delivered' = delivered
            /\ \A y \in Approvals : r \notin delivered[y]
        BY <2>0, <2>7 DEF ReuseAuditFails, Goto, DropLease, At
      <3>2. "failed" \in PCs
        BY DEF PCs
      <3>3. QED
        BY <3>1, <3>2, NextStays, ControlFrame
    <2>8. CASE \/ BeginReuse(r) \/ (\E ref \in Refs : GetCached(r, ref))
               \/ ScheduleExpiry(r) /\ ~Expired(lease[r])
      <3>1. PICK p \in {"refetch", "reading", "values", "issued"} :
              /\ pc' = [pc EXCEPT ![r] = p] /\ next' = next /\ lease' = lease
              /\ delivered' = delivered
              /\ pc[r] \in {"reused", "reading", "schedule"}
        BY <2>8 DEF BeginReuse, GetCached, ScheduleExpiry, Goto, At
      <3>2. lease[r] # NoApproval
        BY <3>1 DEF Control, LeaseInv
      <3>3. p \in PCs
        BY DEF PCs
      <3>4. QED
        BY <2>0, <3>1, <3>2, <3>3, NextStays, ControlFrame
    <2>9. CASE Refetched(r)
      <3>1. /\ pc' = [pc EXCEPT ![r] = "caching"] /\ next' = [next EXCEPT ![r] = "refreshed"]
            /\ lease' = lease /\ delivered' = delivered /\ pc[r] = "refetch"
        BY <2>9 DEF Refetched, Goto, At
      <3>2. lease[r] # NoApproval
        BY <3>1 DEF Control, LeaseInv
      <3>3. "caching" \in PCs /\ "refreshed" \in PCs
        BY DEF PCs
      <3>4. QED
        BY <2>0, <3>1, <3>2, <3>3, NextStays, ControlFrame
    <2>10. CASE \E reusable \in BOOLEAN : Approved(r, reusable)
      <3>1. /\ pc' = [pc EXCEPT ![r] = "fetch"] /\ next' = next /\ lease' = lease
            /\ delivered' = delivered /\ pc[r] = "prompt"
        BY <2>10 DEF Approved, Goto, At
      <3>2. lease[r] = NoApproval
        BY <3>1 DEF Control, LeaseInv
      <3>3. "fetch" \in PCs
        BY DEF PCs
      <3>4. QED
        BY <2>0, <3>1, <3>2, <3>3, NextStays, ControlFrame
    <2>11. CASE \E x \in Approvals : CreateGrant(r, x)
      <3>1. PICK x \in Approvals : CreateGrant(r, x)
        BY <2>11
      <3>2. /\ pc' = [pc EXCEPT ![r] = "caching"] /\ next' = [next EXCEPT ![r] = "schedule"]
            /\ lease' = [lease EXCEPT ![r] = x] /\ delivered' = delivered /\ pc[r] = "create"
        BY <3>1 DEF CreateGrant, Goto, At
      <3>3. "caching" \in PCs /\ "schedule" \in PCs /\ x # NoApproval
        BY ConstantsAssumption DEF PCs
      <3>4. QED
        BY <2>0, <3>2, <3>3, ControlFrame
    <2>12. CASE \E ref \in Refs : Put(r, ref)
      <3>1. /\ pc' = [pc EXCEPT ![r] = "caching"] /\ next' = next /\ lease' = lease
            /\ delivered' = delivered /\ pc[r] = "putting"
        BY <2>12 DEF Put, Goto, At
      <3>2. lease[r] # NoApproval /\ next[r] \in {"schedule", "refreshed"}
        BY <3>1 DEF Control, LeaseInv
      <3>3. "caching" \in PCs
        BY DEF PCs
      <3>4. QED
        BY <2>0, <3>1, <3>2, <3>3, NextStays, ControlFrame
    <2>13. CASE CacheDone(r)
      <3>1. /\ pc' = [pc EXCEPT ![r] = next[r]] /\ next' = [next EXCEPT ![r] = "new"]
            /\ lease' = lease /\ delivered' = delivered /\ pc[r] = "caching"
        BY <2>13 DEF CacheDone, Goto, At
      <3>2. lease[r] # NoApproval /\ next[r] \in {"schedule", "refreshed"}
        BY <3>1 DEF Control, LeaseInv
      <3>3. "new" \in PCs /\ next[r] \in PCs
        BY <3>2 DEF PCs
      <3>4. QED
        BY <2>0, <3>1, <3>2, <3>3, NextStays, ControlFrame
    <2>14. CASE \/ CacheFails(r)
                \/ IssueFails(r)
                \/ ScheduleExpiry(r) /\ Expired(lease[r])
      <3>1. delivered' = delivered /\ pc[r] \in {"caching", "putting", "issued", "schedule"}
        BY <2>14 DEF CacheFails, IssueFails, ScheduleExpiry, At
      <3>2. CASE \E p \in {"finish", "issued"} : Rollback(r, p) /\ UNCHANGED lease
        BY <3>1, <3>2, RollbackControl
      <3>3. CASE Rollback(r, "failed") /\ DropLease(r)
        <4>1. /\ pc' = [pc EXCEPT ![r] = "clearing"] /\ next' = [next EXCEPT ![r] = "failed"]
              /\ lease' = [lease EXCEPT ![r] = NoApproval]
          BY <3>3 DEF Rollback, ClearThen, Goto, DropLease
        <4>2. "clearing" \in PCs /\ "failed" \in PCs
          BY DEF PCs
        <4>3. QED
          BY <2>0, <3>1, <4>1, <4>2, ControlFrame
      <3>4. CASE Goto(r, "finish") /\ UNCHANGED <<lease, detour>>
        <4>1. pc' = [pc EXCEPT ![r] = "finish"] /\ next' = next /\ lease' = lease
              /\ "finish" \in PCs
          BY <3>4 DEF Goto, PCs
        <4>2. QED
          BY <2>0, <3>1, <4>1, NextStays, ControlFrame
      <3>5. QED
        BY <2>14, <3>2, <3>3, <3>4 DEF CacheFails, IssueFails, ScheduleExpiry
    <2>15. CASE ActivateExec(r) \/ AbortBeforePayload(r)
      <3>1. PICK p \in {"prewrite", "finish"} :
              /\ pc' = [pc EXCEPT ![r] = p] /\ next' = next /\ lease' = lease
              /\ delivered' = delivered /\ pc[r] \in {"activate", "abort"}
        BY <2>15 DEF ActivateExec, AbortBeforePayload, Goto, At
      <3>2. p \in PCs
        BY DEF PCs
      <3>3. QED
        BY <2>0, <3>1, <3>2, ControlStays
    <2>16. CASE WritePayload(r)
      <3>1. /\ pc' = [pc EXCEPT ![r] = "commit"] /\ next' = next /\ lease' = lease
            /\ delivered' = [x \in Approvals |->
                   IF x = lease[r] THEN delivered[x] \cup {r} ELSE delivered[x]]
            /\ pc[r] = "write"
        BY <2>16 DEF WritePayload, Goto, At
      <3>2. pc'[r] = "commit" /\ \A q \in Requests \ {r} : pc'[q] = pc[q]
        BY <3>1 DEF TypeOK
      <3>3. LeaseInv'
        BY <3>1, <3>2 DEF Control, LeaseInv
      <3>4. PaidInv'
        BY <2>0, <3>1, <3>2 DEF Control, PaidInv
      <3>5. WriterInv'
        <4> SUFFICES ASSUME NEW q \in Requests, pc'[q] = "commit", lease[q] # NoApproval
                     PROVE  q \in delivered'[lease[q]]
          BY <3>1 DEF WriterInv
        <4>1. lease[q] \in Approvals
          BY DEF TypeOK
        <4>2. QED
          BY <3>1, <3>2, <4>1 DEF Control, WriterInv
      <3>6. QED
        BY <3>3, <3>4, <3>5 DEF Control
    <2>17. QED
      BY <1>2, <2>1, <2>2, <2>3, <2>4, <2>5, <2>6, <2>7, <2>8, <2>9, <2>10, <2>11, <2>12,
         <2>13, <2>14, <2>15, <2>16, RequestStepCases
  <1>3. CASE UNCHANGED <<pc, next, lease, delivered>>
    BY <1>3 DEF Control, LeaseInv, PaidInv, WriterInv
  <1>4. QED
    BY <1>1, <1>2, <1>3 DEF Next, EndExec, TimerStep, TimerFires, TimerClears, Stop, Tick,
       StopStep, ClearActive, ClearTimers, ClearCache, ClearStore, vars

-----------------------------------------------------------------------------
(***************************************************************************)
(* What a step does to the ledger (store, leases, payloads), whatever else *)
(* it does: six kinds of steps, on which the account and the refinement    *)
(* rest.                                                                   *)
(***************************************************************************)
Closes(X) ==
    store' = Without(store, X) /\ UNCHANGED <<lease, delivered>>

ClosesAndDrops(r) ==
    /\ lease[r] \in Approvals
    /\ store' = Without(store, {lease[r]})
    /\ lease' = [lease EXCEPT ![r] = NoApproval]
    /\ UNCHANGED delivered

Reserves(r, x, X) ==
    /\ lease[r] = NoApproval
    /\ \A y \in Approvals : r \notin delivered[y]
    /\ Live(x) /\ Remaining(store[x]) > 0 /\ x \notin X
    /\ X = {y \in X : Expired(y)}
    /\ store' = [Without(store, X) EXCEPT ![x].reserved = @ + 1]
    /\ lease' = [lease EXCEPT ![r] = x]
    /\ UNCHANGED delivered

Creates(r, x) ==
    /\ lease[r] = NoApproval
    /\ store[x].status = "unused"
    /\ store' = [store EXCEPT ![x] = [status |-> "live", key |-> req[r].key,
                     expires |-> req[r].expires, uses |-> 0, reserved |-> 1]]
    /\ lease' = [lease EXCEPT ![r] = x]
    /\ UNCHANGED delivered

Sends(r) ==
    /\ \A y \in Approvals : r \notin delivered[y]
    /\ delivered' = [x \in Approvals |->
                       IF x = lease[r] THEN delivered[x] \cup {r} ELSE delivered[x]]
    /\ UNCHANGED <<store, lease>>

Finishes(r, result) ==
    /\ lease[r] \in Approvals
    /\ result = "payload_delivered" <=> r \in delivered[lease[r]]
    /\ FinishReusableAttempt(lease[r], result)
    /\ DropLease(r)
    /\ UNCHANGED delivered

LedgerStep ==
    \/ UNCHANGED ledger
    \/ \E X \in SUBSET Approvals : Closes(X)
    \/ \E r \in Requests :
          \/ ClosesAndDrops(r)
          \/ \E x \in Approvals, X \in SUBSET Approvals : Reserves(r, x, X)
          \/ \E x \in Approvals : Creates(r, x)
          \/ Sends(r)
          \/ \E result \in {"payload_delivered", "pre_payload_failure"} : Finishes(r, result)

LEMMA RollbackLedger ==
    ASSUME TypeOK, NEW r \in Requests, NEW p, Rollback(r, p), lease[r] # NoApproval,
           UNCHANGED delivered, UNCHANGED lease \/ DropLease(r)
    PROVE  LedgerStep
  <1>1. lease[r] \in Approvals
    BY DEF TypeOK
  <1>2. store' = Without(store, {lease[r]})
    BY DEF Rollback, RemoveReusable
  <1>3. CASE UNCHANGED lease
    <2>1. Closes({lease[r]})
      BY <1>2, <1>3 DEF Closes
    <2>2. QED
      BY <1>1, <2>1 DEF LedgerStep
  <1>4. CASE DropLease(r)
    BY <1>1, <1>2, <1>4 DEF LedgerStep, ClosesAndDrops, DropLease
  <1>5. QED
    BY <1>3, <1>4

LEMMA FinishDeliveryLedger ==
    ASSUME TypeOK, Control, NEW r \in Requests, NEW p,
           NEW result \in {"payload_delivered", "pre_payload_failure"},
           FinishDelivery(r, result, p),
           \/ result = "payload_delivered" /\ pc[r] = "commit"
           \/ result = "pre_payload_failure" /\ pc[r] = "finish"
    PROVE  LedgerStep
  <1>1. CASE lease[r] = NoApproval
    BY <1>1, NextStays DEF FinishDelivery, DropLease, LedgerStep, ledger
  <1>2. CASE lease[r] # NoApproval
    <2>1. lease[r] \in Approvals
      BY <1>2 DEF TypeOK
    <2>2. result = "payload_delivered" <=> r \in delivered[lease[r]]
      BY <1>2, <2>1, Unpaid DEF Control, WriterInv
    <2>3. Finishes(r, result)
      BY <1>2, <2>1, <2>2 DEF FinishDelivery, Finishes
    <2>4. QED
      BY <2>3 DEF LedgerStep
  <1>3. QED
    BY <1>1, <1>2

LEMMA NextLedger == TypeOK /\ Control /\ [Next]_vars => LedgerStep
  <1> SUFFICES ASSUME TypeOK, Control, [Next]_vars PROVE LedgerStep
    OBVIOUS
  <1>1. CASE UNCHANGED ledger
    BY <1>1 DEF LedgerStep
  <1>2. ASSUME NEW r \in Requests, RequestStep(r), ~UNCHANGED ledger
        PROVE  LedgerStep
    <2>1. CASE ReserveHit(r)
      <3>1. PICK x \in UsableMatches(r), X \in SUBSET ExpiredMatches(r) :
              /\ store' = [Without(store, X) EXCEPT ![x].reserved = @ + 1]
              /\ lease' = [lease EXCEPT ![r] = x]
        BY <2>1 DEF ReserveHit
      <3>2. /\ x \in Approvals /\ Live(x) /\ Remaining(store[x]) > 0 /\ x \notin X
            /\ X \in SUBSET Approvals /\ X = {y \in X : Expired(y)}
        BY DEF UsableMatches, ExpiredMatches, Matches
      <3>3. lease[r] = NoApproval /\ delivered' = delivered /\ pc[r] = "reserve"
        BY <2>1 DEF ReserveHit, At, Control, LeaseInv
      <3>4. Reserves(r, x, X)
        BY <3>1, <3>2, <3>3, Unpaid DEF Reserves
      <3>5. QED
        BY <3>2, <3>4 DEF LedgerStep
    <2>2. CASE ReserveMiss(r)
      <3>1. \E X \in SUBSET Approvals : Closes(X)
        BY <2>2 DEF ReserveMiss, Closes, ExpiredMatches, ExhaustedMatches, Matches
      <3>2. QED
        BY <3>1 DEF LedgerStep
    <2>3. CASE ReuseAuditFails(r)
      <3>1. lease[r] \in Approvals /\ r \notin delivered[lease[r]]
        BY <2>3, Unpaid DEF ReuseAuditFails, At, Control, LeaseInv, TypeOK
      <3>2. Finishes(r, "pre_payload_failure")
        BY <2>3, <3>1 DEF ReuseAuditFails, Finishes
      <3>3. QED
        BY <3>2 DEF LedgerStep
    <2>4. CASE \/ RefreshFails(r) \/ ReuseExpires(r) \/ IssueExpires(r) \/ WriteExpires(r)
               \/ CacheFails(r) \/ ScheduleExpiry(r) \/ IssueFails(r)
      <3>1. pc[r] \in {"caching", "putting", "schedule", "refreshed"} => lease[r] # NoApproval
        BY DEF Control, LeaseInv
      <3>2. \E p \in PCs : Rollback(r, p) /\ lease[r] # NoApproval
        BY <1>2, <2>4, <3>1 DEF RefreshFails, ReuseExpires, IssueExpires, WriteExpires,
           CacheFails, ScheduleExpiry, IssueFails, ApprovalActive, At, PCs, ledger
      <3>3. UNCHANGED delivered /\ (UNCHANGED lease \/ DropLease(r))
        BY <2>4 DEF RefreshFails, ReuseExpires, IssueExpires, WriteExpires,
           CacheFails, ScheduleExpiry, IssueFails
      <3>4. QED
        BY <3>2, <3>3, RollbackLedger
    <2>5. CASE \E x \in Approvals : CreateGrant(r, x)
      <3>1. PICK x \in Approvals : CreateGrant(r, x)
        BY <2>5
      <3>2. lease[r] = NoApproval
        BY <3>1 DEF CreateGrant, At, Control, LeaseInv
      <3>3. Creates(r, x)
        BY <3>1, <3>2 DEF CreateGrant, Creates
      <3>4. QED
        BY <3>3 DEF LedgerStep
    <2>6. CASE WritePayload(r)
      <3>1. Sends(r)
        BY <2>6, Unpaid DEF WritePayload, Sends, At
      <3>2. QED
        BY <3>1 DEF LedgerStep
    <2>7. CASE CommitDelivered(r) \/ FinishBeforePayload(r)
      BY <2>7, FinishDeliveryLedger DEF CommitDelivered, FinishBeforePayload, At
    <2>8. QED
      BY <1>2, <2>1, <2>2, <2>3, <2>4, <2>5, <2>6, <2>7, RequestStepCases
         DEF ClearScope, BeginReuse, GetCached, MissingCache, Refetched, RefetchFails,
         Refreshed, ReuseLapses, ValuesReady, Prompt, Approved, Fetched, GiveUp, CacheCheck,
         Put, CacheDone, StartCommand, ActivateExec, ActivateRefused, BeforeWrite,
         WriteRefused, WriteFails, AbortBeforePayload, Move
  <1>3. CASE \E x \in Approvals : TimerFires(x)
    <2>1. \E X \in SUBSET Approvals : Closes(X)
      BY <1>3 DEF TimerFires, RemoveReusable, Closes
    <2>2. QED
      BY <2>1 DEF LedgerStep
  <1>4. CASE ClearStore
    <2>1. Closes(Approvals)
      BY <1>4 DEF ClearStore, Closes
    <2>2. QED
      BY <2>1 DEF LedgerStep
  <1>5. QED
    BY <1>1, <1>2, <1>3, <1>4 DEF Next, Receive, EndExec, TimerStep, TimerClears, Stop, Tick,
       StopStep, ClearActive, ClearTimers, ClearCache, vars, ledger

-----------------------------------------------------------------------------
(***************************************************************************)
(* The account of one approval a, with holders H and payloads D.           *)
(***************************************************************************)
Account(a, H, D) ==
    /\ a.status = "unused" => H = {} /\ D = {}
    /\ a.status = "live" => a.reserved = Cardinality(H) /\ a.uses = Cardinality(D \ H)
    /\ Cardinality(D \cup H) <= UsesOf[a.key]

LEMMA AccountOfEach ==
    AccountInv <=> \A x \in Approvals : Account(store[x], Holders(x), delivered[x])
  BY DEF AccountInv, Account, Live

LEMMA KeyBudget ==
    ASSUME NEW a \in Approval
    PROVE  UsesOf[a.key] \in Nat /\ UsesOf[a.key] > 0
  BY ConstantsAssumption DEF Approval

LEMMA UnionCardinality ==
    ASSUME NEW D, NEW H, IsFiniteSet(D), IsFiniteSet(H)
    PROVE  /\ Cardinality(D \cup H) = Cardinality(D \ H) + Cardinality(H)
           /\ IsFiniteSet(D \cup H) /\ IsFiniteSet(D \ H)
           /\ Cardinality(D \cup H) \in Nat /\ Cardinality(D \ H) \in Nat
           /\ Cardinality(H) \in Nat
  <1>1. IsFiniteSet(D \ H)
    BY FS_Subset
  <1>2. (D \ H) \cup H = D \cup H /\ (D \ H) \cap H = {}
    OBVIOUS
  <1>3. /\ IsFiniteSet((D \ H) \cup H)
        /\ Cardinality((D \ H) \cup H) =
              Cardinality(D \ H) + Cardinality(H) - Cardinality((D \ H) \cap H)
    BY <1>1, FS_Union
  <1>4. Cardinality({}) = 0 /\ Cardinality(D \ H) \in Nat /\ Cardinality(H) \in Nat
    BY <1>1, FS_EmptySet, FS_CardinalityType
  <1>5. IsFiniteSet(D \cup H)
    BY <1>2, <1>3, Zenon
  <1>6. Cardinality(D \cup H) = Cardinality(D \ H) + Cardinality(H)
    <2>1. Cardinality((D \ H) \cap H) = 0
      BY <1>2, <1>4, Zenon
    <2>2. Cardinality((D \ H) \cup H) = Cardinality(D \cup H)
      BY <1>2, Zenon
    <2>3. QED
      BY <1>3, <1>4, <2>1, <2>2
  <1>7. QED
    BY <1>1, <1>4, <1>5, <1>6, FS_CardinalityType

\* Closing an approval, with or without one of its holders leaving.
LEMMA AccountClosed ==
    ASSUME NEW a \in Approval, NEW b \in Approval, NEW H, NEW D, NEW G \in SUBSET H,
           IsFiniteSet(H), IsFiniteSet(D), Account(a, H, D),
           b.status = "gone", b.key = a.key
    PROVE  Account(b, G, D)
  <1>1. Cardinality(D \cup G) <= Cardinality(D \cup H)
    <2>1. IsFiniteSet(D \cup H) /\ D \cup G \in SUBSET (D \cup H)
      BY UnionCardinality
    <2>2. QED
      BY <2>1, FS_Subset
  <1>2. Cardinality(D \cup G) \in Nat /\ Cardinality(D \cup H) \in Nat
    BY UnionCardinality, FS_Subset
  <1>3. QED
    BY <1>1, <1>2, KeyBudget DEF Account

\* A request that has not been paid reserves a use that is left.
LEMMA AccountReserved ==
    ASSUME NEW a \in Approval, NEW b \in Approval, NEW H, NEW D, NEW r,
           IsFiniteSet(H), IsFiniteSet(D), Account(a, H, D),
           r \notin H, r \notin D, a.status = "live", Remaining(a) > 0,
           b.status = "live", b.key = a.key, b.uses = a.uses, b.reserved = a.reserved + 1
    PROVE  Account(b, H \cup {r}, D)
  <1>1. IsFiniteSet(H \cup {r}) /\ Cardinality(H \cup {r}) = Cardinality(H) + 1
    BY FS_AddElement
  <1>2. D \ (H \cup {r}) = D \ H
    OBVIOUS
  <1>3. Cardinality(D \cup (H \cup {r})) = Cardinality(D \ H) + Cardinality(H) + 1
    <2>1. Cardinality(D \cup (H \cup {r})) =
             Cardinality(D \ (H \cup {r})) + Cardinality(H \cup {r})
      BY <1>1, UnionCardinality
    <2>2. Cardinality(D \ H) \in Nat /\ Cardinality(H) \in Nat
      BY UnionCardinality
    <2>3. Cardinality(D \ (H \cup {r})) = Cardinality(D \ H)
      BY <1>2, Zenon
    <2>4. QED
      BY <1>1, <2>1, <2>2, <2>3
  <1>4. a.reserved = Cardinality(H) /\ a.uses = Cardinality(D \ H)
    BY DEF Account
  <1>5. Cardinality(D \cup (H \cup {r})) <= UsesOf[b.key]
    <2>1. a.reserved \in Nat /\ a.uses \in Nat /\ UsesOf[a.key] \in Nat
      BY KeyBudget DEF Approval
    <2>2. UsesOf[a.key] - a.uses - a.reserved > 0
      BY DEF Remaining
    <2>3. QED
      BY <1>3, <1>4, <2>1, <2>2
  <1>6. Cardinality(D \ (H \cup {r})) = Cardinality(D \ H)
    BY <1>2, Zenon
  <1>7. QED
    BY <1>1, <1>4, <1>5, <1>6 DEF Account

\* A new approval, with its maker as the only holder.
LEMMA AccountCreated ==
    ASSUME NEW b \in Approval, NEW r,
           b.status = "live", b.uses = 0, b.reserved = 1
    PROVE  Account(b, {r}, {})
  <1>1. Cardinality({r}) = 1 /\ Cardinality({}) = 0
    BY FS_Singleton, FS_EmptySet
  <1>2. {} \ {r} = {} /\ {} \cup {r} = {r}
    OBVIOUS
  <1>3. QED
    BY <1>1, <1>2, KeyBudget DEF Account

\* A holder sends its payload.
LEMMA AccountSent ==
    ASSUME NEW a, NEW H, NEW D, NEW r \in H, Account(a, H, D)
    PROVE  Account(a, H, D \cup {r})
  <1>1. (D \cup {r}) \ H = D \ H /\ (D \cup {r}) \cup H = D \cup H
    OBVIOUS
  <1>2. QED
    BY <1>1 DEF Account

LEMMA AfterAttemptFields ==
    ASSUME NEW a \in Approval, NEW result, a.status = "live"
    PROVE  LET b == AfterAttempt(a, result)
           IN  /\ b.key = a.key
               /\ b.status \in {"live", "gone"}
               /\ b.reserved = IF a.reserved > 0 THEN a.reserved - 1 ELSE a.reserved
               /\ b.uses = IF result = "payload_delivered" THEN a.uses + 1 ELSE a.uses
  <1> DEFINE b == AfterAttempt(a, result)
             c == [a EXCEPT !.reserved = IF @ > 0 THEN @ - 1 ELSE @,
                            !.uses = IF result = "payload_delivered" THEN @ + 1 ELSE @]
  <1>1. /\ c.key = a.key /\ c.status = a.status
        /\ c.reserved = IF a.reserved > 0 THEN a.reserved - 1 ELSE a.reserved
        /\ c.uses = IF result = "payload_delivered" THEN a.uses + 1 ELSE a.uses
    BY DEF Approval
  <1>2. b = c \/ b = [c EXCEPT !.status = "gone"]
    BY DEF AfterAttempt
  <1>3. QED
    BY <1>1, <1>2 DEF Approval

\* A holder finishes: its reservation becomes a use exactly if it was paid.
LEMMA AccountFinished ==
    ASSUME NEW a \in Approval, NEW H, NEW D, NEW r \in H, NEW result,
           IsFiniteSet(H), IsFiniteSet(D), Account(a, H, D), a.status = "live",
           result = "payload_delivered" <=> r \in D
    PROVE  Account(AfterAttempt(a, result), H \ {r}, D)
  <1> DEFINE G == H \ {r}
             b == AfterAttempt(a, result)
  <1>1. IsFiniteSet(G) /\ Cardinality(G) = Cardinality(H) - 1
    BY FS_RemoveElement
  <1>2. a.reserved = Cardinality(H) /\ a.uses = Cardinality(D \ H) /\ a.reserved > 0
    <2>1. Cardinality(H) \in Nat /\ Cardinality(G) \in Nat
      BY <1>1, FS_CardinalityType
    <2>2. QED
      BY <1>1, <2>1 DEF Account
  <1>3. Cardinality(D \ G) = IF r \in D THEN Cardinality(D \ H) + 1 ELSE Cardinality(D \ H)
    <2>1. CASE r \in D
      <3>1. D \ G = (D \ H) \cup {r} /\ r \notin D \ H
        BY <2>1
      <3>2. QED
        BY <2>1, <3>1, UnionCardinality, FS_AddElement
    <2>2. CASE r \notin D
      <3>1. D \ G = D \ H
        BY <2>2
      <3>2. QED
        BY <2>2, <3>1
    <2>3. QED
      BY <2>1, <2>2
  <1>4. Cardinality(D \cup G) <= Cardinality(D \cup H) /\ Cardinality(D \cup G) \in Nat
        /\ Cardinality(D \cup H) \in Nat
    <2>1. D \cup G \in SUBSET (D \cup H) /\ IsFiniteSet(D \cup H)
      BY UnionCardinality
    <2>2. QED
      BY <1>1, <2>1, FS_Subset, UnionCardinality
  <1>5. /\ b.key = a.key
        /\ b.status \in {"live", "gone"}
        /\ b.reserved = a.reserved - 1
        /\ b.uses = IF result = "payload_delivered" THEN a.uses + 1 ELSE a.uses
    BY <1>2, AfterAttemptFields
  <1>6. b.reserved = Cardinality(G) /\ b.uses = Cardinality(D \ G)
    BY <1>1, <1>2, <1>3, <1>5
  <1>7. Cardinality(D \cup G) <= UsesOf[b.key]
    BY <1>4, <1>5, KeyBudget DEF Account
  <1>8. QED
    BY <1>5, <1>6, <1>7 DEF Account

LEMMA FiniteAccounts ==
    ASSUME TypeOK, NEW x \in Approvals
    PROVE  /\ store[x] \in Approval
           /\ IsFiniteSet(Holders(x)) /\ IsFiniteSet(delivered[x])
  <1>1. Holders(x) \in SUBSET Requests /\ delivered[x] \in SUBSET Requests
    BY DEF TypeOK, Holders
  <1>2. QED
    BY <1>1, FS_Subset, ConstantsAssumption DEF TypeOK

LEMMA WithoutFields ==
    ASSUME TypeOK, NEW x \in Approvals, NEW X
    PROVE  LET b == Without(store, X)[x]
           IN  /\ b.key = store[x].key
               /\ b = store[x] \/ (store[x].status = "live" /\ b.status = "gone")
               /\ x \notin X => b = store[x]
  <1>1. store[x] \in Approval
    BY DEF TypeOK
  <1>2. Without(store, X)[x] = IF x \in X /\ store[x].status = "live"
                               THEN [store[x] EXCEPT !.status = "gone"] ELSE store[x]
    BY DEF Without
  <1>3. QED
    BY <1>1, <1>2 DEF Approval

\* The holders after r takes or drops a lease.
LEMMA HoldersChange ==
    ASSUME TypeOK, NEW r \in Requests, NEW y, lease' = [lease EXCEPT ![r] = y],
           NEW x \in Approvals
    PROVE  /\ x # y => Holders(x)' = Holders(x) \ {r}
           /\ x = y => Holders(x)' = Holders(x) \cup {r}
           /\ r \in Holders(x) <=> lease[r] = x
  BY DEF TypeOK, Holders

LEMMA StepAccount ==
    TypeOK /\ TypeOK' /\ AccountInv /\ LedgerStep => AccountInv'
  <1> SUFFICES ASSUME TypeOK, TypeOK', AccountInv, LedgerStep, NEW x \in Approvals
               PROVE  Account(store'[x], Holders(x)', delivered'[x])
    BY DEF AccountInv, Account, Live
  <1>0. /\ Account(store[x], Holders(x), delivered[x])
        /\ store[x] \in Approval /\ store'[x] \in Approval
        /\ IsFiniteSet(Holders(x)) /\ IsFiniteSet(delivered[x])
    BY AccountOfEach, FiniteAccounts DEF TypeOK
  <1>1. CASE UNCHANGED ledger
    <2>1. Holders(x)' = Holders(x)
      BY <1>1 DEF Holders, ledger
    <2>2. QED
      BY <1>0, <1>1, <2>1 DEF ledger
  <1>2. ASSUME NEW X \in SUBSET Approvals, Closes(X)
        PROVE  Account(store'[x], Holders(x)', delivered'[x])
    <2>1. Holders(x)' = Holders(x) /\ delivered' = delivered
      BY <1>2 DEF Holders, Closes
    <2>2. /\ store'[x].key = store[x].key
          /\ store'[x] = store[x] \/ store'[x].status = "gone"
      BY <1>2, WithoutFields DEF Closes
    <2>3. QED
      BY <1>0, <2>1, <2>2, AccountClosed
  <1>3. ASSUME NEW r \in Requests, ClosesAndDrops(r)
        PROVE  Account(store'[x], Holders(x)', delivered'[x])
    <2>1. delivered' = delivered
      BY <1>3 DEF ClosesAndDrops
    <2>2. Holders(x)' = Holders(x) \ {r} /\ (r \in Holders(x) <=> lease[r] = x)
      <3>1. lease' = [lease EXCEPT ![r] = NoApproval] /\ x # NoApproval
        BY <1>3, ConstantsAssumption DEF ClosesAndDrops
      <3>2. QED
        BY <3>1, HoldersChange
    <2>3. CASE x = lease[r] /\ store[x].status # "unused"
      <3>1. store'[x].key = store[x].key /\ store'[x].status = "gone"
        <4>1. store[x] \in Approval
          BY <1>0
        <4>2. store'[x] = IF store[x].status = "live"
                          THEN [store[x] EXCEPT !.status = "gone"] ELSE store[x]
          BY <1>3, <2>3 DEF ClosesAndDrops, Without
        <4>3. QED
          BY <2>3, <4>1, <4>2 DEF Approval
      <3>2. QED
        BY <1>0, <2>1, <2>2, <3>1, AccountClosed
    <2>4. CASE x # lease[r]
      <3>1. store'[x] = store[x]
        BY <1>3, <2>4, WithoutFields DEF ClosesAndDrops
      <3>2. Holders(x)' = Holders(x)
        BY <2>2, <2>4
      <3>3. QED
        BY <1>0, <2>1, <3>1, <3>2
    <2>5. x = lease[r] => store[x].status # "unused"
      BY <1>0, <2>2 DEF Account
    <2>6. QED
      BY <2>3, <2>4, <2>5
  <1>4. ASSUME NEW r \in Requests, NEW y \in Approvals, NEW X \in SUBSET Approvals,
               Reserves(r, y, X)
        PROVE  Account(store'[x], Holders(x)', delivered'[x])
    <2>1. delivered' = delivered /\ r \notin delivered[x]
      BY <1>4 DEF Reserves
    <2>2. r \notin Holders(x)
      BY <1>4, HoldersChange, ConstantsAssumption DEF Reserves
    <2>3. CASE x = y
      <3>1. /\ store'[x].status = "live" /\ store'[x].key = store[x].key
            /\ store'[x].uses = store[x].uses /\ store'[x].reserved = store[x].reserved + 1
        <4>1. Without(store, X)[x] = store[x]
          BY <1>4, <2>3, WithoutFields DEF Reserves
        <4>2. Without(store, X) \in [Approvals -> Approval]
          BY WithoutType
        <4>3. store'[x] = [store[x] EXCEPT !.reserved = store[x].reserved + 1]
          BY <1>4, <2>3, <4>1, <4>2 DEF Reserves
        <4>4. QED
          BY <1>0, <1>4, <2>3, <4>3 DEF Reserves, Live, Approval
      <3>2. Holders(x)' = Holders(x) \cup {r}
        BY <1>4, <2>3, HoldersChange DEF Reserves
      <3>3. store[x].status = "live" /\ Remaining(store[x]) > 0
        BY <1>4, <2>3 DEF Reserves, Live
      <3>4. QED
        BY <1>0, <2>1, <2>2, <3>1, <3>2, <3>3, AccountReserved
    <2>4. CASE x # y
      <3>1. Holders(x)' = Holders(x)
        <4>1. Holders(x)' = Holders(x) \ {r}
          BY <1>4, <2>4, HoldersChange DEF Reserves
        <4>2. QED
          BY <2>2, <4>1
      <3>2. store'[x] = Without(store, X)[x]
        <4>1. Without(store, X) \in [Approvals -> Approval]
          BY WithoutType
        <4>2. QED
          BY <1>4, <2>4, <4>1 DEF Reserves
      <3>3. /\ store'[x].key = store[x].key
            /\ store'[x] = store[x] \/ store'[x].status = "gone"
        BY <3>2, WithoutFields
      <3>4. QED
        BY <1>0, <2>1, <3>1, <3>3, AccountClosed
    <2>5. QED
      BY <2>3, <2>4
  <1>5. ASSUME NEW r \in Requests, NEW y \in Approvals, Creates(r, y)
        PROVE  Account(store'[x], Holders(x)', delivered'[x])
    <2>1. delivered' = delivered
      BY <1>5 DEF Creates
    <2>2. r \notin Holders(x)
      BY <1>5, HoldersChange, ConstantsAssumption DEF Creates
    <2>3. CASE x = y
      <3>1. store'[x].status = "live" /\ store'[x].uses = 0 /\ store'[x].reserved = 1
        BY <1>5, <2>3 DEF Creates, TypeOK
      <3>2. Holders(x) = {} /\ delivered[x] = {}
        BY <1>0, <1>5, <2>3 DEF Creates, Account
      <3>3. Holders(x)' = {r}
        BY <1>5, <2>3, <3>2, HoldersChange DEF Creates
      <3>4. QED
        BY <1>0, <2>1, <3>1, <3>2, <3>3, AccountCreated
    <2>4. CASE x # y
      <3>1. Holders(x)' = Holders(x)
        <4>1. Holders(x)' = Holders(x) \ {r}
          BY <1>5, <2>4, HoldersChange DEF Creates
        <4>2. QED
          BY <2>2, <4>1
      <3>2. store'[x] = store[x]
        BY <1>5, <2>4 DEF Creates, TypeOK
      <3>3. QED
        BY <1>0, <2>1, <3>1, <3>2
    <2>5. QED
      BY <2>3, <2>4
  <1>6. ASSUME NEW r \in Requests, Sends(r)
        PROVE  Account(store'[x], Holders(x)', delivered'[x])
    <2>1. Holders(x)' = Holders(x) /\ store' = store
      BY <1>6 DEF Holders, Sends
    <2>2. \/ delivered'[x] = delivered[x]
          \/ r \in Holders(x) /\ delivered'[x] = delivered[x] \cup {r}
      BY <1>6 DEF Sends, Holders
    <2>3. QED
      BY <1>0, <2>1, <2>2, AccountSent
  <1>7. ASSUME NEW r \in Requests, NEW result, Finishes(r, result)
        PROVE  Account(store'[x], Holders(x)', delivered'[x])
    <2>1. delivered' = delivered
      BY <1>7 DEF Finishes
    <2>2. Holders(x)' = Holders(x) \ {r} /\ (r \in Holders(x) <=> lease[r] = x)
      BY <1>7, HoldersChange, ConstantsAssumption DEF Finishes, DropLease
    <2>3. CASE x # lease[r]
      <3>1. store'[x] = store[x]
        BY <1>7, <2>3, WithoutFields DEF Finishes, FinishReusableAttempt, TypeOK
      <3>2. Holders(x)' = Holders(x)
        BY <2>2, <2>3
      <3>3. QED
        BY <1>0, <2>1, <3>1, <3>2
    <2>4. CASE x = lease[r] /\ Live(x) /\ ~Expired(x)
      <3>1. store'[x] = AfterAttempt(store[x], result)
        BY <1>7, <2>4 DEF Finishes, FinishReusableAttempt, TypeOK
      <3>2. store[x].status = "live" /\ (result = "payload_delivered" <=> r \in delivered[x])
            /\ r \in Holders(x)
        BY <1>7, <2>2, <2>4 DEF Finishes, Live
      <3>3. QED
        BY <1>0, <2>1, <2>2, <3>1, <3>2, AccountFinished
    <2>5. CASE x = lease[r] /\ ~(Live(x) /\ ~Expired(x))
      <3>1. store'[x] = IF store[x].status = "live"
                        THEN [store[x] EXCEPT !.status = "gone"] ELSE store[x]
        BY <1>7, <2>5 DEF Finishes, FinishReusableAttempt, Without
      <3>2. store[x].status # "unused"
        BY <1>0, <2>2, <2>5 DEF Account
      <3>3. store'[x].key = store[x].key /\ store'[x].status = "gone"
        BY <1>0, <3>1, <3>2 DEF Approval
      <3>4. QED
        BY <1>0, <2>1, <2>2, <3>3, AccountClosed
    <2>6. QED
      BY <2>3, <2>4, <2>5
  <1>8. QED
    BY <1>1, <1>2, <1>3, <1>4, <1>5, <1>6, <1>7 DEF LedgerStep

LEMMA InitAccount == Init => AccountInv
  <1> SUFFICES ASSUME Init, NEW x \in Approvals
               PROVE  Account(store[x], Holders(x), delivered[x])
    BY AccountOfEach
  <1>1. store[x] \in Approval
    BY InitTypeOK DEF TypeOK
  <1>2. Holders(x) = {} /\ delivered[x] = {} /\ store[x].status = "unused"
    BY ConstantsAssumption DEF Init, Holders
  <1>3. Cardinality({}) = 0 /\ {} \cup {} = {}
    BY FS_EmptySet
  <1>4. QED
    BY <1>1, <1>2, <1>3, KeyBudget DEF Account

-----------------------------------------------------------------------------
\* The inductive invariant of the broker's bookkeeping: types, where leases are
\* held, who was paid, and the account of every approval.
THEOREM GrantInvariant == Spec => []GrantInv
  <1>1. Init => GrantInv
    BY InitTypeOK, InitControl, InitAccount DEF GrantInv, Control
  <1>2. GrantInv /\ [Next]_vars => GrantInv'
    BY StepTypeOK, StepControl, NextLedger, StepAccount DEF GrantInv, Control
  <1>3. QED
    BY <1>1, <1>2, PTL DEF Spec

\* However many requests race for the last use of an approval, and however they
\* fail, no approval pays for more payloads than the operator allowed
\* (ReserveReusable, FinishReusableAttempt, rollbackDelivery).
THEOREM ApprovalIsNotOverspent == Spec => []UsesWithinApproval
  <1>1. GrantInv => UsesWithinApproval
    <2> SUFFICES ASSUME GrantInv, NEW x \in Approvals
                 PROVE  Cardinality(delivered[x]) <= UsesOf[store[x].key]
      BY DEF UsesWithinApproval
    <2>1. /\ store[x] \in Approval
          /\ IsFiniteSet(Holders(x)) /\ IsFiniteSet(delivered[x])
      BY FiniteAccounts DEF GrantInv
    <2>2. IsFiniteSet(delivered[x] \cup Holders(x))
          /\ Cardinality(delivered[x] \cup Holders(x)) \in Nat
      BY <2>1, UnionCardinality
    <2>3. delivered[x] \in SUBSET (delivered[x] \cup Holders(x))
      OBVIOUS
    <2>4. Cardinality(delivered[x]) <= Cardinality(delivered[x] \cup Holders(x))
          /\ Cardinality(delivered[x]) \in Nat
      BY <2>1, <2>2, <2>3, FS_Subset, FS_CardinalityType
    <2>5. Cardinality(delivered[x] \cup Holders(x)) <= UsesOf[store[x].key]
      BY DEF GrantInv, AccountInv
    <2>6. QED
      BY <2>1, <2>2, <2>4, <2>5, KeyBudget
  <1>2. QED
    BY <1>1, GrantInvariant, PTL

\* No reservation leaks and none is returned twice, no failure before the payload
\* costs a use: the counters of a stored approval are exactly its holders and the
\* payloads committed under it.
THEOREM CountersAreExact == Spec => []CountersMatchDeliveries
  <1>1. GrantInv => CountersMatchDeliveries
    BY DEF GrantInv, AccountInv, CountersMatchDeliveries
  <1>2. QED
    BY <1>1, GrantInvariant, PTL

-----------------------------------------------------------------------------
(***************************************************************************)
(* The broker implements the ledger of UseLedger: each of the six kinds of *)
(* steps is a step of the ledger or leaves it alone.                       *)
(***************************************************************************)
LEMMA InitLedger == Init => Ledger!LedgerInit
  <1> SUFFICES ASSUME Init PROVE Ledger!LedgerInit
    OBVIOUS
  <1>1. \A x \in Approvals : store[x].status = "unused" /\ Holders(x) = {} /\ delivered[x] = {}
    BY ConstantsAssumption DEF Init, Holders
  <1>2. LedgerPhase = [x \in Approvals |-> "unused"]
    BY <1>1 DEF LedgerPhase
  <1>3. LedgerBudget = [x \in Approvals |-> 0]
    BY <1>1 DEF LedgerBudget
  <1>4. LedgerPlaces = [x \in Approvals |-> {}]
    BY <1>1 DEF LedgerPlaces
  <1>5. delivered = [x \in Approvals |-> {}]
    BY DEF Init
  <1>6. QED
    BY <1>2, <1>3, <1>4, <1>5 DEF Ledger!LedgerInit

\* A store that only closes the approvals of X.
LEMMA ClosingMaps ==
    ASSUME TypeOK, NEW X, NEW st, st \in [Approvals -> Approval],
           \A x \in Approvals : st[x].key = store[x].key,
           \A x \in Approvals : st[x].status =
               IF x \in X /\ store[x].status = "live" THEN "gone" ELSE store[x].status,
           store' = st
    PROVE  /\ LedgerBudget' = LedgerBudget
           /\ Ledger!Closing(X)
  <1>1. LedgerBudget' = LedgerBudget
    BY DEF LedgerBudget
  <1>2. LedgerPhase' = [x \in Approvals |->
            IF x \in X /\ LedgerPhase[x] = "open" THEN "closed" ELSE LedgerPhase[x]]
    BY DEF LedgerPhase, TypeOK, Approval
  <1>3. QED
    BY <1>1, <1>2 DEF Ledger!Closing

LEMMA WithoutMaps ==
    ASSUME TypeOK, NEW X, store' = Without(store, X)
    PROVE  /\ LedgerBudget' = LedgerBudget
           /\ Ledger!Closing(X)
  <1>1. Without(store, X) \in [Approvals -> Approval]
    BY WithoutType
  <1>2. \A x \in Approvals : /\ Without(store, X)[x].key = store[x].key
                            /\ Without(store, X)[x].status =
               IF x \in X /\ store[x].status = "live" THEN "gone" ELSE store[x].status
    BY DEF Without, TypeOK, Approval
  <1>3. QED
    BY <1>1, <1>2, ClosingMaps

\* The places after r takes or drops a lease.
LEMMA PlacesChange ==
    ASSUME TypeOK, NEW r \in Requests, NEW y, lease' = [lease EXCEPT ![r] = y],
           UNCHANGED delivered
    PROVE  LedgerPlaces' = [x \in Approvals |->
               IF x = y THEN (Holders(x) \cup {r}) \ delivered[x] ELSE LedgerPlaces[x] \ {r}]
  <1>1. ASSUME NEW x \in Approvals
        PROVE  Holders(x)' \ delivered[x] =
               IF x = y THEN (Holders(x) \cup {r}) \ delivered[x]
                        ELSE (Holders(x) \ delivered[x]) \ {r}
    <2>1. CASE x = y
      <3>1. Holders(x)' = Holders(x) \cup {r}
        BY <2>1, HoldersChange
      <3>2. QED
        BY <2>1, <3>1
    <2>2. CASE x # y
      <3>1. Holders(x)' = Holders(x) \ {r}
        BY <2>2, HoldersChange
      <3>2. QED
        BY <2>2, <3>1
    <2>3. QED
      BY <2>1, <2>2
  <1>2. QED
    BY <1>1 DEF LedgerPlaces

LEMMA PlacesDropped ==
    ASSUME TypeOK, NEW r \in Requests, lease' = [lease EXCEPT ![r] = NoApproval],
           UNCHANGED delivered
    PROVE  LedgerPlaces' = [x \in Approvals |-> LedgerPlaces[x] \ {r}]
  <1>1. LedgerPlaces' = [x \in Approvals |->
            IF x = NoApproval THEN (Holders(x) \cup {r}) \ delivered[x]
                              ELSE LedgerPlaces[x] \ {r}]
    BY PlacesChange
  <1>2. \A x \in Approvals : x # NoApproval
    BY ConstantsAssumption
  <1>3. QED
    BY <1>1, <1>2

\* The ledger counts as the broker does.
LEMMA SameCardinality ==
    ASSUME NEW S
    PROVE  Ledger!Cardinality(S) = Cardinality(S)
  BY Zenon DEF Cardinality, Ledger!Cardinality

LEMMA StepLedger ==
    GrantInv /\ GrantInv' /\ LedgerStep => [Ledger!LedgerNext]_(Ledger!ledgerVars)
  <1> SUFFICES ASSUME GrantInv, GrantInv', LedgerStep
               PROVE  Ledger!LedgerNext \/ UNCHANGED Ledger!ledgerVars
    OBVIOUS
  <1>0. TypeOK /\ TypeOK' /\ AccountInv /\ AccountInv'
    BY DEF GrantInv
  <1>1. CASE UNCHANGED ledger
    <2>1. LedgerPhase' = LedgerPhase /\ LedgerBudget' = LedgerBudget
      BY <1>1 DEF ledger, LedgerPhase, LedgerBudget
    <2>2. LedgerPlaces' = LedgerPlaces /\ delivered' = delivered
      BY <1>1 DEF ledger, LedgerPlaces, Holders
    <2>3. QED
      BY <2>1, <2>2 DEF Ledger!ledgerVars
  <1>2. ASSUME NEW X \in SUBSET Approvals, Closes(X)
        PROVE  Ledger!LedgerNext
    <2>1. LedgerBudget' = LedgerBudget /\ Ledger!Closing(X)
      BY <1>0, <1>2, WithoutMaps DEF Closes
    <2>2. delivered' = delivered /\ LedgerPlaces' = [x \in Approvals |-> LedgerPlaces[x] \ {}]
      BY <1>2 DEF Closes, LedgerPlaces, Holders
    <2>3. Ledger!Settle(X, {})
      BY <2>1, <2>2 DEF Ledger!Settle
    <2>4. QED
      BY <2>3 DEF Ledger!LedgerNext
  <1>3. ASSUME NEW r \in Requests, ClosesAndDrops(r)
        PROVE  Ledger!LedgerNext
    <2>1. LedgerBudget' = LedgerBudget /\ Ledger!Closing({lease[r]})
      BY <1>0, <1>3, WithoutMaps DEF ClosesAndDrops
    <2>2. delivered' = delivered /\ lease[r] \in Approvals
      BY <1>3 DEF ClosesAndDrops
    <2>3. LedgerPlaces' = [x \in Approvals |-> LedgerPlaces[x] \ {r}]
      BY <1>0, <1>3, PlacesDropped DEF ClosesAndDrops
    <2>4. Ledger!Settle({lease[r]}, {r})
      BY <2>1, <2>2, <2>3 DEF Ledger!Settle
    <2>5. QED
      BY <2>2, <2>4 DEF Ledger!LedgerNext
  <1>4. ASSUME NEW r \in Requests, NEW y \in Approvals, NEW X \in SUBSET Approvals,
               Reserves(r, y, X)
        PROVE  Ledger!LedgerNext
    <2>1. delivered' = delivered /\ r \notin delivered[y] /\ Live(y) /\ y \notin X
          /\ Remaining(store[y]) > 0 /\ lease' = [lease EXCEPT ![r] = y]
          /\ lease[r] = NoApproval
      BY <1>4 DEF Reserves
    <2>2. LedgerBudget' = LedgerBudget /\ Ledger!Closing(X)
      <3> DEFINE w  == Without(store, X)
                 st == [w EXCEPT ![y].reserved = @ + 1]
      <3>1. w \in [Approvals -> Approval]
        BY <1>0, WithoutType
      <3>2. \A x \in Approvals : /\ w[x].key = store[x].key
                                /\ w[x].status =
               IF x \in X /\ store[x].status = "live" THEN "gone" ELSE store[x].status
        BY <1>0 DEF Without, TypeOK, Approval
      <3> HIDE DEF w
      <3>3. st \in [Approvals -> Approval]
        BY <3>1 DEF Approval
      <3>4. \A x \in Approvals : st[x].key = w[x].key /\ st[x].status = w[x].status
        BY <3>1 DEF Approval
      <3>5. store' = st
        BY <1>4 DEF Reserves, w
      <3> HIDE DEF st
      <3>6. QED
        BY <1>0, <3>2, <3>3, <3>4, <3>5, ClosingMaps
    <2>3. LedgerPlaces' = [LedgerPlaces EXCEPT ![y] = @ \cup {r}]
      <3>1. LedgerPlaces' = [x \in Approvals |->
               IF x = y THEN (Holders(x) \cup {r}) \ delivered[x] ELSE LedgerPlaces[x] \ {r}]
        BY <1>0, <2>1, PlacesChange
      <3>2. \A x \in Approvals : r \notin LedgerPlaces[x]
        BY <2>1, ConstantsAssumption DEF LedgerPlaces, Holders
      <3>3. (Holders(y) \cup {r}) \ delivered[y] = LedgerPlaces[y] \cup {r}
        BY <2>1 DEF LedgerPlaces
      <3>4. \A x \in Approvals : LedgerPlaces[x] \ {r} = LedgerPlaces[x]
        BY <3>2
      <3>5. QED
        BY <3>1, <3>3, <3>4 DEF LedgerPlaces
    <2>4. LedgerPhase[y] = "open" /\ LedgerBudget[y] = UsesOf[store[y].key]
      BY <2>1 DEF LedgerPhase, LedgerBudget, Live
    <2>5. r \notin LedgerPlaces[y] \cup delivered[y]
      BY <2>1, ConstantsAssumption DEF LedgerPlaces, Holders
    <2>6. Cardinality(LedgerPlaces[y] \cup delivered[y]) < LedgerBudget[y]
      <3>1. /\ store[y] \in Approval
            /\ IsFiniteSet(Holders(y)) /\ IsFiniteSet(delivered[y])
        BY <1>0, FiniteAccounts
      <3>2. LedgerPlaces[y] \cup delivered[y] = delivered[y] \cup Holders(y)
        BY DEF LedgerPlaces
      <3>3. /\ Cardinality(delivered[y] \cup Holders(y)) =
                 Cardinality(delivered[y] \ Holders(y)) + Cardinality(Holders(y))
            /\ Cardinality(delivered[y] \ Holders(y)) \in Nat
            /\ Cardinality(Holders(y)) \in Nat
        BY <3>1, UnionCardinality
      <3>4. /\ store[y].reserved = Cardinality(Holders(y))
            /\ store[y].uses = Cardinality(delivered[y] \ Holders(y))
        BY <1>0, <2>1 DEF AccountInv
      <3>5. UsesOf[store[y].key] - store[y].uses - store[y].reserved > 0
            /\ UsesOf[store[y].key] \in Nat
        BY <2>1, <3>1, KeyBudget DEF Remaining
      <3>6. Cardinality(delivered[y] \cup Holders(y)) < UsesOf[store[y].key]
        BY <3>3, <3>4, <3>5
      <3>7. Cardinality(LedgerPlaces[y] \cup delivered[y]) < UsesOf[store[y].key]
        BY <3>2, <3>6, Zenon
      <3>8. QED
        BY <2>4, <3>7
    <2>7. Ledger!Take(y, r, X)
      <3>1. delivered' = delivered /\ y \notin X /\ LedgerPhase[y] = "open"
        BY <2>1, <2>4
      <3>2. QED
        BY <2>2, <2>3, <2>5, <2>6, <3>1, SameCardinality DEF Ledger!Take
    <2>8. QED
      BY <2>7 DEF Ledger!LedgerNext
  <1>5. ASSUME NEW r \in Requests, NEW y \in Approvals, Creates(r, y)
        PROVE  Ledger!LedgerNext
    <2> DEFINE k == req[r].key
    <2>1. k \in Keys
      BY <1>0 DEF TypeOK, Request
    <2>2. /\ store'[y].status = "live" /\ store'[y].key = k
          /\ \A x \in Approvals \ {y} : store'[x] = store[x]
          /\ store[y].status = "unused" /\ delivered' = delivered
      BY <1>0, <1>5 DEF Creates, TypeOK
    <2>3. LedgerPhase[y] = "unused" /\ LedgerPhase' = [LedgerPhase EXCEPT ![y] = "open"]
      BY <2>2 DEF LedgerPhase
    <2>4. LedgerBudget' = [LedgerBudget EXCEPT ![y] = UsesOf[k]]
      BY <2>2 DEF LedgerBudget
    <2>5. LedgerPlaces' = [LedgerPlaces EXCEPT ![y] = {r}]
      <3>1. LedgerPlaces' = [x \in Approvals |->
               IF x = y THEN (Holders(x) \cup {r}) \ delivered[x] ELSE LedgerPlaces[x] \ {r}]
        BY <1>0, <1>5, PlacesChange DEF Creates
      <3>2. \A x \in Approvals : r \notin LedgerPlaces[x]
        BY <1>5, ConstantsAssumption DEF Creates, LedgerPlaces, Holders
      <3>3. Holders(y) = {} /\ delivered[y] = {}
        BY <1>0, <2>2 DEF AccountInv
      <3>4. \A x \in Approvals : LedgerPlaces[x] \ {r} = LedgerPlaces[x]
        BY <3>2
      <3>5. QED
        BY <3>1, <3>3, <3>4 DEF LedgerPlaces
    <2>6. Ledger!Grant(y, r, UsesOf[k])
      BY <2>2, <2>3, <2>4, <2>5 DEF Ledger!Grant
    <2>7. QED
      BY <2>1, <2>6 DEF Ledger!LedgerNext
  <1>6. ASSUME NEW r \in Requests, Sends(r)
        PROVE  Ledger!LedgerNext \/ UNCHANGED Ledger!ledgerVars
    <2>1. LedgerPhase' = LedgerPhase /\ LedgerBudget' = LedgerBudget
      BY <1>6 DEF Sends, LedgerPhase, LedgerBudget
    <2>2. CASE lease[r] \in Approvals
      <3>1. r \in LedgerPlaces[lease[r]]
        BY <1>6, <2>2 DEF Sends, LedgerPlaces, Holders
      <3>2. delivered' = [delivered EXCEPT ![lease[r]] = @ \cup {r}]
        BY <1>0, <1>6, <2>2 DEF Sends, TypeOK
      <3>3. LedgerPlaces' = [LedgerPlaces EXCEPT ![lease[r]] = @ \ {r}]
        <4>1. ASSUME NEW x \in Approvals
              PROVE  LedgerPlaces'[x] = [LedgerPlaces EXCEPT ![lease[r]] = @ \ {r}][x]
          <5>1. LedgerPlaces'[x] = Holders(x) \ delivered'[x]
            BY <1>6 DEF Sends, LedgerPlaces, Holders
          <5>2. LedgerPlaces[x] = Holders(x) \ delivered[x]
            BY DEF LedgerPlaces
          <5>3. delivered'[x] = IF x = lease[r] THEN delivered[x] \cup {r} ELSE delivered[x]
            BY <1>0, <2>2, <3>2 DEF TypeOK
          <5>4. LedgerPlaces'[x] = IF x = lease[r] THEN LedgerPlaces[x] \ {r} ELSE LedgerPlaces[x]
            BY <5>1, <5>2, <5>3
          <5>5. QED
            BY <2>2, <5>4 DEF LedgerPlaces
        <4>2. QED
          BY <4>1 DEF LedgerPlaces
      <3>4. Ledger!Spend(lease[r], r)
        BY <2>1, <3>1, <3>2, <3>3 DEF Ledger!Spend
      <3>5. QED
        BY <2>2, <3>4 DEF Ledger!LedgerNext
    <2>3. CASE lease[r] \notin Approvals
      <3>1. delivered' = delivered
        BY <1>0, <1>6, <2>3 DEF Sends, TypeOK
      <3>2. LedgerPlaces' = LedgerPlaces
        BY <1>6, <3>1 DEF Sends, LedgerPlaces, Holders
      <3>3. QED
        BY <2>1, <3>1, <3>2 DEF Ledger!ledgerVars
    <2>4. QED
      BY <2>2, <2>3
  <1>7. ASSUME NEW r \in Requests, NEW result, Finishes(r, result)
        PROVE  Ledger!LedgerNext
    <2> DEFINE y == lease[r]
    <2>1. y \in Approvals /\ delivered' = delivered
      BY <1>7 DEF Finishes
    <2>2. LedgerPlaces' = [x \in Approvals |-> LedgerPlaces[x] \ {r}]
      BY <1>0, <1>7, PlacesDropped DEF Finishes, DropLease
    <2>3. \E S \in SUBSET Approvals : LedgerBudget' = LedgerBudget /\ Ledger!Closing(S)
      <3>1. CASE Live(y) /\ ~Expired(y)
        <4>1. store' = [store EXCEPT ![y] = AfterAttempt(store[y], result)]
          BY <1>7, <3>1 DEF Finishes, FinishReusableAttempt
        <4>2. store[y] \in Approval /\ store[y].status = "live"
          BY <1>0, <2>1, <3>1 DEF TypeOK, Live
        <4>3. /\ AfterAttempt(store[y], result).key = store[y].key
              /\ AfterAttempt(store[y], result).status \in {"live", "gone"}
          BY <4>2, AfterAttemptFields
        <4>4. /\ \A x \in Approvals : store'[x].key = store[x].key
              /\ \A x \in Approvals \ {y} : store'[x].status = store[x].status
              /\ store'[y].status \in {"live", "gone"}
          BY <1>0, <2>1, <4>1, <4>3 DEF TypeOK
        <4>5. CASE store'[y].status = "gone"
          <5>1. LedgerBudget' = LedgerBudget /\ Ledger!Closing({y})
            <6>1. store' \in [Approvals -> Approval]
              BY <1>0 DEF TypeOK
            <6>2. \A x \in Approvals : store'[x].status =
                     IF x \in {y} /\ store[x].status = "live" THEN "gone" ELSE store[x].status
              BY <4>2, <4>4, <4>5
            <6>3. QED
              BY <1>0, <4>4, <6>1, <6>2, ClosingMaps
          <5>2. QED
            BY <2>1, <5>1
        <4>6. CASE store'[y].status = "live"
          <5>1. LedgerBudget' = LedgerBudget /\ Ledger!Closing({})
            BY <1>0, <4>2, <4>4, <4>6, ClosingMaps DEF TypeOK
          <5>2. QED
            BY <5>1
        <4>7. QED
          BY <4>4, <4>5, <4>6
      <3>2. CASE ~(Live(y) /\ ~Expired(y))
        <4>1. LedgerBudget' = LedgerBudget /\ Ledger!Closing({y})
          BY <1>0, <1>7, <3>2, WithoutMaps DEF Finishes, FinishReusableAttempt
        <4>2. QED
          BY <2>1, <4>1
      <3>3. QED
        BY <3>1, <3>2
    <2>4. PICK S \in SUBSET Approvals : LedgerBudget' = LedgerBudget /\ Ledger!Closing(S)
      BY <2>3
    <2>5. Ledger!Settle(S, {r})
      BY <2>1, <2>2, <2>4 DEF Ledger!Settle
    <2>6. QED
      BY <2>5 DEF Ledger!LedgerNext
  <1>8. QED
    BY <1>1, <1>2, <1>3, <1>4, <1>5, <1>6, <1>7 DEF LedgerStep

\* Seen from outside, the broker is the ledger of places and payloads: requests are
\* let in only while the approval is open and a use is left, a payload is sent only
\* from a place, and a closed approval never reopens.
THEOREM BrokerKeepsLedger == Spec => ImplementsLedger
  <1>1. GrantInv /\ GrantInv' /\ [Next]_vars => [Ledger!LedgerNext]_(Ledger!ledgerVars)
    BY NextLedger, StepLedger DEF GrantInv, Control
  <1>2. QED
    BY InitLedger, GrantInvariant, <1>1, PTL DEF Spec, ImplementsLedger, Ledger!LedgerSpec

-----------------------------------------------------------------------------
(***************************************************************************)
(* Values, timers and the stop: whatever is left of an approval that must  *)
(* go is some request's to clear, or some timer's.                         *)
(***************************************************************************)
\* What r is about for x: it puts values, arms the timer, has armed it, clears.
Filling(r, x)    == lease[r] = x /\ pc[r] \in {"caching", "putting"}
Creating(r, x)   == Filling(r, x) /\ next[r] = "schedule"
Scheduling(r, x) == lease[r] = x /\ pc[r] = "schedule"
Issuing(r, x)    == lease[r] = x /\ owns[r] /\ pc[r] = "issued"
Clearing(r, x)   == pc[r] = "clearing" /\ scope[r] = x

\* Only who owns an approval makes it or arms its timer; without the option to force
\* a refresh nobody refreshes.
Proper(r) ==
    /\ pc[r] \in {"create", "schedule"} \/ (pc[r] \in {"caching", "putting"} /\ next[r] = "schedule")
         => owns[r]
    /\ "force_refresh" \notin Modes =>
           /\ req[r].mode # "force_refresh"
           /\ pc[r] = "reused" => ~owns[r]
           /\ pc[r] # "refetch"
           /\ pc[r] \in {"caching", "putting"} => next[r] = "schedule"

OptionsInv == \A r \in Requests : Proper(r)

\* A scope is cleared only after its approval has left the store for good, and only an
\* approval that was made has a timer.
GoneInv ==
    /\ \A r \in Requests :
          pc[r] = "clearing" => scope[r] \in Approvals /\ store[scope[r]].status = "gone"
    /\ \A x \in Approvals : timer[x] = "firing" => store[x].status = "gone"
    /\ \A x \in Approvals : timer[x] = "armed" => store[x].status # "unused"

\* Until the stop reaches the cache, a stored approval has its values, or its maker
\* still holds those that are missing.
CacheInv ==
    stopping \in {"running", "closed", "inactive", "untimed"} =>
        \A x \in Approvals : Live(x) =>
            cache[x] = Refs \/ \E r \in Requests : Creating(r, x) /\ Refs \ cache[x] \subseteq todo[r]

\* Whatever the stop has cleared and is back is in the hands of a request that will
\* find the daemon stopped, and clear it.
StopInv ==
    \A x \in Approvals :
        /\ stopping \in {"untimed", "uncached", "stopped"} /\ timer[x] = "armed" =>
               \E r \in Requests : Clearing(r, x) \/ Issuing(r, x)
        /\ stopping \in {"uncached", "stopped"} /\ cache[x] # {} =>
               \E r \in Requests : Clearing(r, x) \/ Filling(r, x)
        /\ stopping = "stopped" /\ Live(x) => \E r \in Requests : Creating(r, x)

\* Without refreshes, values without a timer are in the hands of their maker, or of who
\* clears them.
TimerInv ==
    "force_refresh" \notin Modes /\ stopping \in {"running", "closed", "inactive"} =>
        \A x \in Approvals : cache[x] # {} /\ timer[x] = "none" =>
            \E r \in Requests : Clearing(r, x) \/ Creating(r, x) \/ Scheduling(r, x)

TidyInv == GoneInv /\ CacheInv /\ StopInv /\ TimerInv

\* What r has to do for x, and what a step of r leaves to others.
Tends(r, x) ==
    \/ Filling(r, x) \/ Scheduling(r, x) \/ Clearing(r, x)
    \/ Issuing(r, x) /\ ~Running

Others(r) ==
    \A q \in Requests \ {r} :
        /\ pc'[q] = pc[q] /\ next'[q] = next[q] /\ lease'[q] = lease[q]
        /\ owns'[q] = owns[q] /\ scope'[q] = scope[q] /\ todo'[q] = todo[q]
        /\ req'[q] = req[q]

\* Approvals may leave the store.
Closing ==
    \A x \in Approvals : store'[x].status = store[x].status
                         \/ (Live(x) /\ store'[x].status = "gone")

\* r clears what is gone.
ClearsGone(r) == pc'[r] = "clearing" => scope'[r] \in Approvals /\ store'[scope'[r]].status = "gone"

LEMMA OptionsKept ==
    ASSUME OptionsInv, NEW r \in Requests, Others(r), Proper(r)'
    PROVE  OptionsInv'
  BY DEF OptionsInv, Others, Proper

LEMMA OthersTend ==
    ASSUME NEW r \in Requests, Others(r), NEW q \in Requests, q # r, NEW x
    PROVE  /\ Filling(q, x)' = Filling(q, x) /\ Creating(q, x)' = Creating(q, x)
           /\ Scheduling(q, x)' = Scheduling(q, x) /\ Clearing(q, x)' = Clearing(q, x)
           /\ Issuing(q, x)' = Issuing(q, x) /\ todo'[q] = todo[q]
  BY DEF Others, Filling, Creating, Scheduling, Clearing, Issuing

\* A step of r that leaves cache and timers alone, and clears next whatever it had in
\* hand.
LEMMA TidyKept ==
    ASSUME TypeOK, TidyInv, NEW r \in Requests, Others(r), Closing, ClearsGone(r),
           UNCHANGED <<cache, timer, stopping>>,
           \A x \in Approvals : Tends(r, x) => Clearing(r, x)'
    PROVE  TidyInv'
  <1>1. GoneInv'
    BY DEF TidyInv, GoneInv, Others, Closing, ClearsGone, Live
  <1>2. CacheInv'
    <2> SUFFICES ASSUME stopping \in {"running", "closed", "inactive", "untimed"},
                        NEW x \in Approvals, Live(x)', cache[x] # Refs
                 PROVE  \E q \in Requests : Creating(q, x)' /\ Refs \ cache'[x] \subseteq todo'[q]
      BY DEF CacheInv
    <2>1. Live(x)
      BY DEF Closing, Live
    <2>2. PICK q \in Requests : Creating(q, x) /\ Refs \ cache[x] \subseteq todo[q]
      BY <2>1 DEF TidyInv, CacheInv
    <2>3. ~Clearing(r, x)'
      BY DEF ClearsGone, Clearing, Live
    <2>4. q # r
      BY <2>2, <2>3 DEF Creating, Tends
    <2>5. QED
      BY <2>2, <2>4, OthersTend
  <1>3. StopInv'
    <2> SUFFICES ASSUME NEW x \in Approvals
                 PROVE
        /\ stopping \in {"untimed", "uncached", "stopped"} /\ timer[x] = "armed" =>
               \E q \in Requests : Clearing(q, x)' \/ Issuing(q, x)'
        /\ stopping \in {"uncached", "stopped"} /\ cache[x] # {} =>
               \E q \in Requests : Clearing(q, x)' \/ Filling(q, x)'
        /\ stopping = "stopped" /\ Live(x)' => \E q \in Requests : Creating(q, x)'
      BY DEF StopInv
    <2>1. ASSUME stopping \in {"untimed", "uncached", "stopped"}, timer[x] = "armed"
          PROVE  \E q \in Requests : Clearing(q, x)' \/ Issuing(q, x)'
      <3>1. PICK q \in Requests : Clearing(q, x) \/ Issuing(q, x)
        BY <2>1 DEF TidyInv, StopInv
      <3>2. CASE q = r
        BY <2>1, <3>1, <3>2 DEF Tends, Running
      <3>3. CASE q # r
        BY <3>1, <3>3, OthersTend
      <3>4. QED
        BY <3>2, <3>3
    <2>2. ASSUME stopping \in {"uncached", "stopped"}, cache[x] # {}
          PROVE  \E q \in Requests : Clearing(q, x)' \/ Filling(q, x)'
      <3>1. PICK q \in Requests : Clearing(q, x) \/ Filling(q, x)
        BY <2>2 DEF TidyInv, StopInv
      <3>2. CASE q = r
        BY <3>1, <3>2 DEF Tends
      <3>3. CASE q # r
        BY <3>1, <3>3, OthersTend
      <3>4. QED
        BY <3>2, <3>3
    <2>3. ASSUME stopping = "stopped", Live(x)'
          PROVE  \E q \in Requests : Creating(q, x)'
      <3>1. Live(x) /\ ~Clearing(r, x)'
        BY <2>3 DEF Closing, Live, ClearsGone, Clearing
      <3>2. PICK q \in Requests : Creating(q, x)
        BY <2>3, <3>1 DEF TidyInv, StopInv
      <3>3. q # r
        BY <3>1, <3>2 DEF Creating, Tends
      <3>4. QED
        BY <3>2, <3>3, OthersTend
    <2>4. QED
      BY <2>1, <2>2, <2>3
  <1>4. TimerInv'
    <2> SUFFICES ASSUME "force_refresh" \notin Modes, stopping \in {"running", "closed", "inactive"},
                        NEW x \in Approvals, cache[x] # {}, timer[x] = "none"
                 PROVE  \E q \in Requests : Clearing(q, x)' \/ Creating(q, x)' \/ Scheduling(q, x)'
      BY DEF TimerInv
    <2>1. PICK q \in Requests : Clearing(q, x) \/ Creating(q, x) \/ Scheduling(q, x)
      BY DEF TidyInv, TimerInv
    <2>2. CASE q = r
      BY <2>1, <2>2 DEF Tends, Creating
    <2>3. CASE q # r
      BY <2>1, <2>3, OthersTend
    <2>4. QED
      BY <2>2, <2>3
  <1>5. QED
    BY <1>1, <1>2, <1>3, <1>4 DEF TidyInv

-----------------------------------------------------------------------------
\* What a step of a request leaves to the others, and what it is allowed to do itself.
LEMMA OthersStay ==
    ASSUME TypeOK, NEW r \in Requests, RequestStep(r)
    PROVE  Others(r)
  <1> USE DEF TypeOK, Others, Goto, ledger, scopes, world, plan, detour
  <1>1. CASE \/ MissingCache(r) \/ RefetchFails(r) \/ Refreshed(r) \/ ReuseLapses(r)
             \/ ValuesReady(r) \/ Prompt(r) \/ Fetched(r) \/ GiveUp(r) \/ CacheCheck(r)
             \/ StartCommand(r) \/ ActivateRefused(r) \/ BeforeWrite(r)
             \/ WriteRefused(r) \/ WriteFails(r)
    <2>1. PICK p : Move(r, p)
      BY <1>1 DEF MissingCache, RefetchFails, Refreshed, ReuseLapses, ValuesReady,
         Prompt, Fetched, GiveUp, CacheCheck, StartCommand, ActivateRefused, BeforeWrite,
         WriteRefused, WriteFails
    <2>2. QED
      BY <2>1 DEF Move
  <1>2. CASE RefreshFails(r) \/ ReuseExpires(r) \/ IssueExpires(r) \/ WriteExpires(r)
    BY <1>2 DEF RefreshFails, ReuseExpires, IssueExpires, WriteExpires, Rollback, ClearThen
  <1>3. CASE CommitDelivered(r) \/ FinishBeforePayload(r)
    BY <1>3 DEF CommitDelivered, FinishBeforePayload, FinishDelivery, ClearThen, DropLease
  <1>4. CASE ClearScope(r) \/ ReserveHit(r) \/ ReuseAuditFails(r) \/ BeginReuse(r) \/ Refetched(r)
    BY <1>4 DEF ClearScope, ReserveHit, ReuseAuditFails, DropLease, BeginReuse, Refetched
  <1>5. CASE ReserveMiss(r)
    BY <1>5 DEF ReserveMiss, ClearThen
  <1>6. CASE (\E ref \in Refs : GetCached(r, ref)) \/ (\E ref \in Refs : Put(r, ref))
    BY <1>6 DEF GetCached, Put
  <1>7. CASE (\E reusable \in BOOLEAN : Approved(r, reusable)) \/ \E x \in Approvals : CreateGrant(r, x)
    BY <1>7 DEF Approved, CreateGrant
  <1>8. CASE CacheDone(r) \/ ActivateExec(r) \/ WritePayload(r) \/ AbortBeforePayload(r)
    BY <1>8 DEF CacheDone, ActivateExec, WritePayload, AbortBeforePayload
  <1>9. CASE CacheFails(r)
    BY <1>9 DEF CacheFails, Rollback, ClearThen, DropLease
  <1>10. CASE ScheduleExpiry(r) \/ IssueFails(r)
    BY <1>10 DEF ScheduleExpiry, IssueFails, Rollback, ClearThen, DropLease
  <1>11. QED
    BY <1>1, <1>2, <1>3, <1>4, <1>5, <1>6, <1>7, <1>8, <1>9, <1>10, RequestStepCases

\* A step of r that neither enters nor stays in the places Proper speaks of.
LEMMA ProperElsewhere ==
    ASSUME TypeOK, OptionsInv, NEW r \in Requests, UNCHANGED req,
           pc'[r] \notin {"create", "schedule", "caching", "putting", "reused", "refetch"}
    PROVE  Proper(r)'
  BY DEF OptionsInv, Proper

LEMMA StepProper ==
    ASSUME TypeOK, Control, OptionsInv, NEW r \in Requests, RequestStep(r)
    PROVE  Proper(r)'
  <1> USE DEF Goto, At, ledger, scopes, world, plan, detour
  <1>1. CASE \/ MissingCache(r) \/ RefetchFails(r) \/ Refreshed(r) \/ ReuseLapses(r)
             \/ ValuesReady(r) \/ Prompt(r) \/ GiveUp(r)
             \/ StartCommand(r) \/ ActivateRefused(r) \/ BeforeWrite(r)
             \/ WriteRefused(r) \/ WriteFails(r)
    <2>1. PICK p \in {"finish", "values", "issued", "prompt", "failed", "activate", "write", "abort"} :
             Move(r, p)
      BY <1>1 DEF MissingCache, RefetchFails, Refreshed, ReuseLapses, ValuesReady,
         Prompt, GiveUp, StartCommand, ActivateRefused, BeforeWrite,
         WriteRefused, WriteFails
    <2>2. QED
      BY <2>1, ProperElsewhere DEF Move, TypeOK
  <1>2. CASE RefreshFails(r) \/ ReuseExpires(r) \/ IssueExpires(r) \/ WriteExpires(r)
    BY <1>2, ProperElsewhere
       DEF RefreshFails, ReuseExpires, IssueExpires, WriteExpires, Rollback, ClearThen, TypeOK
  <1>3. CASE CommitDelivered(r) \/ FinishBeforePayload(r)
    BY <1>3, ProperElsewhere
       DEF CommitDelivered, FinishBeforePayload, FinishDelivery, ClearThen, TypeOK
  <1>4. CASE ClearScope(r)
    <2>1. pc' = [pc EXCEPT ![r] = next[r]] /\ req' = req
          /\ next[r] \in {"missed", "finish", "abort", "issued", "failed", "done"}
      BY <1>4 DEF ClearScope, Control, LeaseInv
    <2>2. QED
      BY <2>1, ProperElsewhere DEF TypeOK
  <1>5. CASE ReserveHit(r)
    <2>1. /\ pc' = [pc EXCEPT ![r] = "reused"] /\ req' = req
          /\ owns' = [owns EXCEPT ![r] = (req[r].mode = "force_refresh")]
      BY <1>5 DEF ReserveHit
    <2>2. QED
      BY <2>1 DEF OptionsInv, Proper, TypeOK
  <1>6. CASE ReuseAuditFails(r) \/ ReserveMiss(r) \/ (\E ref \in Refs : GetCached(r, ref))
    <2>1. req' = req /\ \E p \in {"failed", "missed", "clearing", "values", "reading"} :
             pc' = [pc EXCEPT ![r] = p]
      BY <1>6 DEF ReuseAuditFails, ReserveMiss, ClearThen, GetCached
    <2>2. QED
      BY <2>1, ProperElsewhere DEF TypeOK
  <1>7. CASE BeginReuse(r)
    BY <1>7 DEF BeginReuse, OptionsInv, Proper, TypeOK
  <1>8. CASE Refetched(r)
    BY <1>8 DEF Refetched, OptionsInv, Proper, TypeOK
  <1>9. CASE \E reusable \in BOOLEAN : Approved(r, reusable)
    <2>1. req' = req /\ pc' = [pc EXCEPT ![r] = "fetch"]
      BY <1>9 DEF Approved
    <2>2. QED
      BY <2>1, ProperElsewhere DEF TypeOK
  <1>10. CASE Fetched(r)
    BY <1>10 DEF Fetched, Move, OptionsInv, Proper, TypeOK
  <1>11. CASE \E x \in Approvals : CreateGrant(r, x)
    BY <1>11 DEF CreateGrant, OptionsInv, Proper, TypeOK
  <1>12. CASE CacheCheck(r)
    BY <1>12 DEF CacheCheck, Move, OptionsInv, Proper, TypeOK
  <1>13. CASE \E ref \in Refs : Put(r, ref)
    BY <1>13 DEF Put, OptionsInv, Proper, TypeOK
  <1>14. CASE CacheDone(r)
    BY <1>14 DEF CacheDone, OptionsInv, Proper, TypeOK, Control, LeaseInv
  <1>15. CASE CacheFails(r)
    <2>1. pc' = [pc EXCEPT ![r] = "clearing"] /\ req' = req
      BY <1>15 DEF CacheFails, Rollback, ClearThen
    <2>2. QED
      BY <2>1, ProperElsewhere DEF TypeOK
  <1>16. CASE ScheduleExpiry(r) \/ IssueFails(r)
    <2>1. req' = req /\ \E p \in {"issued", "clearing", "finish"} : pc' = [pc EXCEPT ![r] = p]
      BY <1>16 DEF ScheduleExpiry, IssueFails, Rollback, ClearThen
    <2>2. QED
      BY <2>1, ProperElsewhere DEF TypeOK
  <1>17. CASE ActivateExec(r) \/ WritePayload(r) \/ AbortBeforePayload(r)
    BY <1>17, ProperElsewhere DEF ActivateExec, WritePayload, AbortBeforePayload, TypeOK
  <1>18. QED
    BY <1>1, <1>2, <1>3, <1>4, <1>5, <1>6, <1>7, <1>8, <1>9, <1>10, <1>11, <1>12, <1>13,
       <1>14, <1>15, <1>16, <1>17, RequestStepCases

LEMMA StepOptions == TypeOK /\ Control /\ OptionsInv /\ [Next]_vars => OptionsInv'
  <1> SUFFICES ASSUME TypeOK, Control, OptionsInv, [Next]_vars PROVE OptionsInv'
    OBVIOUS
  <1>1. ASSUME NEW r \in Requests, NEW k \in Keys, NEW m \in Modes, Receive(r, k, m)
        PROVE  OptionsInv'
    <2>1. Others(r)
      BY <1>1 DEF Receive, Others, Goto, TypeOK, ledger, detour
    <2>2. pc'[r] = "reserve" /\ req'[r].mode = m
      BY <1>1 DEF Receive, Goto, TypeOK
    <2>3. QED
      BY <2>1, <2>2, OptionsKept DEF Proper
  <1>2. ASSUME NEW r \in Requests, RequestStep(r)
        PROVE  OptionsInv'
    BY <1>2, OthersStay, StepProper, OptionsKept
  <1>3. CASE \/ UNCHANGED <<pc, next, owns, req>>
    BY <1>3 DEF OptionsInv, Proper
  <1>4. ASSUME NEW r \in Requests, EndExec(r)
        PROVE  OptionsInv'
    BY <1>4, <1>3 DEF EndExec, plan, detour
  <1>5. ASSUME NEW x \in Approvals, TimerStep(x)
        PROVE  OptionsInv'
    BY <1>5, <1>3 DEF TimerStep, TimerFires, TimerClears, plan, detour
  <1>6. CASE Stop \/ Tick \/ StopStep \/ UNCHANGED vars
    BY <1>6, <1>3 DEF Stop, Tick, StopStep, ClearActive, ClearTimers, ClearCache, ClearStore,
       vars, plan, detour
  <1>7. QED
    BY <1>1, <1>2, <1>4, <1>5, <1>6 DEF Next

-----------------------------------------------------------------------------
\* An approval that is leased has been made.
LEMMA LeasedIsUsed ==
    ASSUME AccountInv, NEW r \in Requests, lease[r] \in Approvals
    PROVE  store[lease[r]].status # "unused"
  BY DEF AccountInv, Holders

LEMMA WithoutCloses ==
    ASSUME TypeOK, NEW X, store' = Without(store, X)
    PROVE  /\ Closing
           /\ \A x \in Approvals : x \in X /\ store[x].status # "unused" => store'[x].status = "gone"
  BY DEF TypeOK, Without, Closing, Live, Approval

\* rollbackApproval leaves the approval to the request to clear.
LEMMA RollbackTidy ==
    ASSUME TypeOK, AccountInv, NEW r \in Requests, NEW p, Rollback(r, p), lease[r] # NoApproval,
           pc[r] # "clearing"
    PROVE  /\ Closing /\ ClearsGone(r)
           /\ \A x \in Approvals : Tends(r, x) => Clearing(r, x)'
  <1>1. lease[r] \in Approvals /\ store[lease[r]].status # "unused"
    BY LeasedIsUsed DEF TypeOK
  <1>2. store' = Without(store, {lease[r]})
    BY DEF Rollback, RemoveReusable
  <1>3. Closing /\ store'[lease[r]].status = "gone"
    BY <1>1, <1>2, WithoutCloses
  <1>4. pc'[r] = "clearing" /\ scope'[r] = lease[r]
    BY DEF Rollback, ClearThen, Goto, TypeOK
  <1>5. QED
    BY <1>1, <1>3, <1>4 DEF ClearsGone, Tends, Filling, Scheduling, Issuing, Clearing

\* A scope that is cleared after a delivery belongs to an approval whose uses are spent:
\* nobody can have reserved another.
LEMMA FinishedIsGone ==
    ASSUME TypeOK, AccountInv, AccountInv', TypeOK', NEW x \in Approvals,
           store[x].status # "unused", NEW result,
           FinishReusableAttempt(x, result), ClearsScope(x, result)
    PROVE  store'[x].status = "gone"
  <1>1. CASE Live(x) /\ ~Expired(x)
    <2> DEFINE b == AfterAttempt(store[x], result)
    <2>1. store'[x] = b /\ b.uses >= UsesOf[store[x].key] /\ store[x] \in Approval
      BY <1>1 DEF FinishReusableAttempt, ClearsScope, TypeOK
    <2>2. b.key = store[x].key /\ b.status \in {"live", "gone"}
      BY <1>1, <2>1, AfterAttemptFields DEF Live
    <2>3. SUFFICES ASSUME b.status = "live" PROVE FALSE
      BY <2>1, <2>2
    <2>4. /\ store'[x].reserved = Cardinality(Holders(x)')
          /\ store'[x].uses = Cardinality(delivered'[x] \ Holders(x)')
          /\ Cardinality(delivered'[x] \cup Holders(x)') <= UsesOf[store'[x].key]
      BY <2>1, <2>3 DEF AccountInv, Live
    <2>5. IsFiniteSet(Holders(x)') /\ IsFiniteSet(delivered'[x])
      <3>1. Holders(x)' \in SUBSET Requests /\ delivered'[x] \in SUBSET Requests
        BY DEF Holders, TypeOK
      <3>2. QED
        BY <3>1, ConstantsAssumption, FS_Subset
    <2>6. /\ Cardinality(delivered'[x] \cup Holders(x)')
               = Cardinality(delivered'[x] \ Holders(x)') + Cardinality(Holders(x)')
          /\ Cardinality(delivered'[x] \ Holders(x)') \in Nat /\ Cardinality(Holders(x)') \in Nat
      BY <2>5, UnionCardinality
    <2>7. b.reserved = 0
      BY <2>1, <2>2, <2>4, <2>6, ConstantsAssumption DEF Approval
    <2>8. QED
      BY <2>1, <2>2, <2>3, <2>7 DEF AfterAttempt, UsedUp
  <1>2. CASE ~(Live(x) /\ ~Expired(x))
    BY <1>2, WithoutCloses DEF FinishReusableAttempt
  <1>3. QED
    BY <1>1, <1>2

LEMMA AttemptCloses ==
    ASSUME TypeOK, NEW x \in Approvals, NEW result, FinishReusableAttempt(x, result)
    PROVE  Closing
  <1>1. CASE Live(x) /\ ~Expired(x)
    <2>1. store' = [store EXCEPT ![x] = AfterAttempt(store[x], result)] /\ store[x] \in Approval
      BY <1>1 DEF FinishReusableAttempt, TypeOK
    <2>2. AfterAttempt(store[x], result).status \in {"live", "gone"}
      BY <1>1, <2>1, AfterAttemptFields DEF Live
    <2>3. QED
      BY <1>1, <2>1, <2>2 DEF Closing, Live, TypeOK
  <1>2. CASE ~(Live(x) /\ ~Expired(x))
    BY <1>2, WithoutCloses DEF FinishReusableAttempt
  <1>3. QED
    BY <1>1, <1>2

LEMMA FinishTidy ==
    ASSUME TypeOK, TypeOK', AccountInv, AccountInv', NEW r \in Requests, NEW result,
           NEW p, p # "clearing", FinishDelivery(r, result, p)
    PROVE  Closing /\ ClearsGone(r)
  <1>1. CASE lease[r] = NoApproval
    <2>1. store' = store /\ pc'[r] = p
      BY <1>1 DEF FinishDelivery, Goto, TypeOK
    <2>2. QED
      BY <2>1 DEF Closing, ClearsGone
  <1>2. CASE lease[r] # NoApproval
    <2>1. lease[r] \in Approvals /\ store[lease[r]].status # "unused"
      BY <1>2, LeasedIsUsed DEF TypeOK
    <2>2. FinishReusableAttempt(lease[r], result)
      BY <1>2 DEF FinishDelivery
    <2>3. Closing
      BY <2>1, <2>2, AttemptCloses
    <2>4. CASE ClearsScope(lease[r], result)
      <3>1. scope'[r] = lease[r]
        BY <1>2, <2>4 DEF FinishDelivery, ClearThen, TypeOK
      <3>2. store'[lease[r]].status = "gone"
        BY <2>1, <2>2, <2>4, FinishedIsGone
      <3>3. QED
        BY <2>1, <2>3, <3>1, <3>2 DEF ClearsGone
    <2>5. CASE ~ClearsScope(lease[r], result)
      <3>1. pc'[r] = p
        BY <1>2, <2>5 DEF FinishDelivery, Goto, TypeOK
      <3>2. QED
        BY <2>3, <3>1 DEF ClearsGone
    <2>6. QED
      BY <2>4, <2>5
  <1>3. QED
    BY <1>1, <1>2

\* Where r has nothing to do for any approval.
LEMMA NothingToDo ==
    ASSUME NEW r \in Requests, pc[r] \notin {"caching", "putting", "schedule", "clearing"},
           pc[r] = "issued" => ~owns[r] \/ Running \/ lease[r] \notin Approvals
    PROVE  \A x \in Approvals : ~Tends(r, x)
  BY DEF Tends, Filling, Scheduling, Clearing, Issuing

LEMMA ClearScopeTidy ==
    ASSUME TypeOK, TidyInv, Control, NEW r \in Requests, ClearScope(r)
    PROVE  TidyInv'
  <1>1. PICK y \in Approvals :
        /\ scope[r] = y /\ store[y].status = "gone" /\ pc[r] = "clearing"
        /\ store' = store /\ stopping' = stopping
        /\ cache' = [cache EXCEPT ![y] = {}] /\ timer'[y] # "armed"
        /\ \A x \in Approvals \ {y} : timer'[x] = timer[x]
        /\ \A x \in Approvals : timer'[x] = "firing" => timer[x] = "firing"
    BY DEF ClearScope, ScopeCleared, TidyInv, GoneInv, At, ledger, world, TypeOK
  <1>2. pc'[r] \notin {"clearing", "caching", "putting", "schedule"}
    BY DEF ClearScope, Control, LeaseInv, Goto, At, TypeOK
  <1>3. Others(r)
    BY OthersStay DEF RequestStep
  <1>4. Live(y)' = FALSE /\ cache'[y] = {}
    <2>1. store'[y].status = "gone"
      BY <1>1
    <2>2. cache'[y] = {}
      BY <1>1 DEF TypeOK
    <2>3. QED
      BY <2>1, <2>2 DEF Live
  <1>5. GoneInv'
    BY <1>1, <1>2, <1>3 DEF TidyInv, GoneInv, Others
  <1>6. ASSUME NEW x \in Approvals, x # y
        PROVE  /\ \A q \in Requests : Clearing(q, x) => Clearing(q, x)'
               /\ \A q \in Requests : Filling(q, x) => Filling(q, x)'
               /\ \A q \in Requests : Creating(q, x) => Creating(q, x)' /\ todo'[q] = todo[q]
               /\ \A q \in Requests : Scheduling(q, x) => Scheduling(q, x)'
               /\ \A q \in Requests : Issuing(q, x) => Issuing(q, x)'
               /\ cache'[x] = cache[x] /\ timer'[x] = timer[x]
    <2>1. cache'[x] = cache[x] /\ timer'[x] = timer[x]
      BY <1>1, <1>6 DEF TypeOK
    <2>2. ASSUME NEW q \in Requests,
                 Clearing(q, x) \/ Filling(q, x) \/ Scheduling(q, x) \/ Issuing(q, x)
          PROVE  q # r
      BY <1>1, <1>6, <2>2 DEF Clearing, Filling, Scheduling, Issuing
    <2>3. QED
      BY <1>3, <2>1, <2>2, OthersTend DEF Creating
  <1>7. CacheInv'
    <2> SUFFICES ASSUME stopping \in {"running", "closed", "inactive", "untimed"},
                        NEW x \in Approvals, Live(x), x # y, cache[x] # Refs
                 PROVE  \E q \in Requests : Creating(q, x)' /\ Refs \ cache'[x] \subseteq todo'[q]
      BY <1>1, <1>6, <1>4 DEF CacheInv, Live
    <2>1. PICK q \in Requests : Creating(q, x) /\ Refs \ cache[x] \subseteq todo[q]
      BY DEF TidyInv, CacheInv
    <2>2. QED
      BY <1>6, <2>1
  <1>8. StopInv'
    <2> SUFFICES ASSUME NEW x \in Approvals
                 PROVE
        /\ stopping \in {"untimed", "uncached", "stopped"} /\ timer'[x] = "armed" =>
               \E q \in Requests : Clearing(q, x)' \/ Issuing(q, x)'
        /\ stopping \in {"uncached", "stopped"} /\ cache'[x] # {} =>
               \E q \in Requests : Clearing(q, x)' \/ Filling(q, x)'
        /\ stopping = "stopped" /\ Live(x)' => \E q \in Requests : Creating(q, x)'
      BY <1>1 DEF StopInv
    <2>1. CASE x = y
      BY <1>1, <1>4, <2>1
    <2>2. CASE x # y
      <3>1. /\ stopping \in {"untimed", "uncached", "stopped"} /\ timer[x] = "armed" =>
                 \E q \in Requests : Clearing(q, x) \/ Issuing(q, x)
            /\ stopping \in {"uncached", "stopped"} /\ cache[x] # {} =>
                 \E q \in Requests : Clearing(q, x) \/ Filling(q, x)
            /\ stopping = "stopped" /\ Live(x) => \E q \in Requests : Creating(q, x)
        BY DEF TidyInv, StopInv
      <3>2. Live(x)' = Live(x)
        BY <1>1 DEF Live
      <3>3. QED
        BY <1>6, <2>2, <3>1, <3>2
    <2>3. QED
      BY <2>1, <2>2
  <1>9. TimerInv'
    <2> SUFFICES ASSUME "force_refresh" \notin Modes, stopping \in {"running", "closed", "inactive"},
                        NEW x \in Approvals, cache'[x] # {}, timer'[x] = "none"
                 PROVE  \E q \in Requests : Clearing(q, x)' \/ Creating(q, x)' \/ Scheduling(q, x)'
      BY <1>1 DEF TimerInv
    <2>1. x # y
      BY <1>4
    <2>2. PICK q \in Requests : Clearing(q, x) \/ Creating(q, x) \/ Scheduling(q, x)
      BY <1>6, <2>1 DEF TidyInv, TimerInv
    <2>3. QED
      BY <1>6, <2>1, <2>2
  <1>10. QED
    BY <1>5, <1>7, <1>8, <1>9 DEF TidyInv

\* A maker, or a refresher, on its way through the values: it keeps what it has in hand.
LEMMA FillingTidy ==
    ASSUME TypeOK, TidyInv, NEW r \in Requests, Others(r),
           UNCHANGED <<store, timer, stopping>>, lease'[r] = lease[r], next'[r] = next[r],
           lease[r] \in Approvals,
           pc[r] \in {"caching", "putting"}, pc'[r] \in {"caching", "putting"},
           \A x \in Approvals : cache[x] \subseteq cache'[x] /\ cache'[x] \subseteq Refs
                                /\ (x # lease[r] => cache'[x] = cache[x]),
           Refs \ cache[lease[r]] \subseteq todo[r] => Refs \ cache'[lease[r]] \subseteq todo'[r],
           pc[r] = "caching" => UNCHANGED <<cache, todo>>,
           "force_refresh" \notin Modes => next[r] = "schedule"
    PROVE  TidyInv'
  <1>1. ASSUME NEW x \in Approvals, NEW q \in Requests
        PROVE  /\ Clearing(q, x) => Clearing(q, x)'
               /\ Filling(q, x) => Filling(q, x)'
               /\ Creating(q, x) => Creating(q, x)'
               /\ Scheduling(q, x) => Scheduling(q, x)'
               /\ Issuing(q, x) => Issuing(q, x)'
    <2>1. CASE q = r
      BY <2>1 DEF Clearing, Filling, Creating, Scheduling, Issuing
    <2>2. CASE q # r
      BY <2>2, OthersTend
    <2>3. QED
      BY <2>1, <2>2
  <1>2. Filling(r, lease[r])'
    BY DEF Filling
  <1>3. GoneInv'
    BY DEF TidyInv, GoneInv, Others
  <1>4. CacheInv'
    <2> SUFFICES ASSUME stopping \in {"running", "closed", "inactive", "untimed"},
                        NEW x \in Approvals, Live(x), cache'[x] # Refs
                 PROVE  \E q \in Requests : Creating(q, x)' /\ Refs \ cache'[x] \subseteq todo'[q]
      BY DEF CacheInv, Live
    <2>1. cache[x] # Refs
      OBVIOUS
    <2>2. PICK q \in Requests : Creating(q, x) /\ Refs \ cache[x] \subseteq todo[q]
      BY <2>1 DEF TidyInv, CacheInv
    <2>3. CASE q = r
      <3>1. x = lease[r]
        BY <2>2, <2>3 DEF Creating, Filling
      <3>2. QED
        BY <1>1, <2>2, <2>3, <3>1
    <2>4. CASE q # r
      <3>1. todo'[q] = todo[q] /\ Creating(q, x)'
        BY <1>1, <2>2, <2>4, OthersTend
      <3>2. QED
        BY <2>2, <3>1
    <2>5. QED
      BY <2>3, <2>4
  <1>5. StopInv'
    <2> SUFFICES ASSUME NEW x \in Approvals
                 PROVE
        /\ stopping \in {"untimed", "uncached", "stopped"} /\ timer[x] = "armed" =>
               \E q \in Requests : Clearing(q, x)' \/ Issuing(q, x)'
        /\ stopping \in {"uncached", "stopped"} /\ cache'[x] # {} =>
               \E q \in Requests : Clearing(q, x)' \/ Filling(q, x)'
        /\ stopping = "stopped" /\ Live(x) => \E q \in Requests : Creating(q, x)'
      BY DEF StopInv, Live
    <2>1. /\ stopping \in {"untimed", "uncached", "stopped"} /\ timer[x] = "armed" =>
               \E q \in Requests : Clearing(q, x) \/ Issuing(q, x)
          /\ stopping \in {"uncached", "stopped"} /\ cache[x] # {} =>
               \E q \in Requests : Clearing(q, x) \/ Filling(q, x)
          /\ stopping = "stopped" /\ Live(x) => \E q \in Requests : Creating(q, x)
      BY DEF TidyInv, StopInv
    <2>2. x # lease[r] => cache'[x] = cache[x]
      OBVIOUS
    <2>3. QED
      BY <1>1, <1>2, <2>1, <2>2
  <1>6. TimerInv'
    <2> SUFFICES ASSUME "force_refresh" \notin Modes, stopping \in {"running", "closed", "inactive"},
                        NEW x \in Approvals, cache'[x] # {}, timer[x] = "none"
                 PROVE  \E q \in Requests : Clearing(q, x)' \/ Creating(q, x)' \/ Scheduling(q, x)'
      BY DEF TimerInv
    <2>1. CASE x = lease[r]
      BY <1>2, <2>1 DEF Creating
    <2>2. CASE x # lease[r]
      <3>1. PICK q \in Requests : Clearing(q, x) \/ Creating(q, x) \/ Scheduling(q, x)
        BY <2>2 DEF TidyInv, TimerInv
      <3>2. QED
        BY <1>1, <3>1
    <2>3. QED
      BY <2>1, <2>2
  <1>7. QED
    BY <1>3, <1>4, <1>5, <1>6 DEF TidyInv

\* What createGrant stores is in the hands of its request.
LEMMA CreateTidy ==
    ASSUME TypeOK, TidyInv, OptionsInv, NEW r \in Requests, NEW y \in Approvals, CreateGrant(r, y)
    PROVE  TidyInv'
  <1>1. /\ pc[r] = "create" /\ pc'[r] = "caching" /\ next'[r] = "schedule" /\ lease'[r] = y
        /\ todo'[r] = Refs /\ store[y].status = "unused"
        /\ \A x \in Approvals \ {y} : store'[x] = store[x]
        /\ UNCHANGED <<cache, timer, stopping>>
    BY DEF CreateGrant, At, Goto, TypeOK, scopes, world
  <1>2. Others(r)
    BY OthersStay DEF RequestStep
  <1>3. Creating(r, y)' /\ Filling(r, y)' /\ Refs \ cache'[y] \subseteq todo'[r]
    BY <1>1 DEF Creating, Filling
  <1>4. ASSUME NEW x \in Approvals, NEW q \in Requests
        PROVE  /\ Clearing(q, x) => Clearing(q, x)'
               /\ Filling(q, x) => Filling(q, x)'
               /\ Creating(q, x) => Creating(q, x)' /\ todo'[q] = todo[q]
               /\ Scheduling(q, x) => Scheduling(q, x)'
               /\ Issuing(q, x) => Issuing(q, x)'
    <2>1. CASE q = r
      BY <1>1, <2>1 DEF Clearing, Filling, Creating, Scheduling, Issuing
    <2>2. CASE q # r
      BY <1>2, <2>2, OthersTend
    <2>3. QED
      BY <2>1, <2>2
  <1>5. GoneInv'
    <2>1. \A x \in Approvals : store[x].status = "gone" => store'[x].status = "gone"
      BY <1>1
    <2>2. \A q \in Requests : pc'[q] = "clearing" => pc[q] = "clearing" /\ scope'[q] = scope[q]
      BY <1>1, <1>2 DEF Others
    <2>3. QED
      BY <1>1, <2>1, <2>2 DEF TidyInv, GoneInv
  <1>6. CacheInv'
    <2> SUFFICES ASSUME stopping \in {"running", "closed", "inactive", "untimed"},
                        NEW x \in Approvals, Live(x)', cache[x] # Refs
                 PROVE  \E q \in Requests : Creating(q, x)' /\ Refs \ cache'[x] \subseteq todo'[q]
      BY <1>1 DEF CacheInv
    <2>1. CASE x = y
      BY <1>3, <2>1
    <2>2. CASE x # y
      <3>1. PICK q \in Requests : Creating(q, x) /\ Refs \ cache[x] \subseteq todo[q]
        BY <1>1, <2>2 DEF TidyInv, CacheInv, Live
      <3>2. QED
        BY <1>1, <1>4, <3>1
    <2>3. QED
      BY <2>1, <2>2
  <1>7. StopInv'
    <2> SUFFICES ASSUME NEW x \in Approvals
                 PROVE
        /\ stopping \in {"untimed", "uncached", "stopped"} /\ timer[x] = "armed" =>
               \E q \in Requests : Clearing(q, x)' \/ Issuing(q, x)'
        /\ stopping \in {"uncached", "stopped"} /\ cache[x] # {} =>
               \E q \in Requests : Clearing(q, x)' \/ Filling(q, x)'
        /\ stopping = "stopped" /\ Live(x)' => \E q \in Requests : Creating(q, x)'
      BY <1>1 DEF StopInv
    <2>1. /\ stopping \in {"untimed", "uncached", "stopped"} /\ timer[x] = "armed" =>
               \E q \in Requests : Clearing(q, x) \/ Issuing(q, x)
          /\ stopping \in {"uncached", "stopped"} /\ cache[x] # {} =>
               \E q \in Requests : Clearing(q, x) \/ Filling(q, x)
          /\ stopping = "stopped" /\ Live(x) => \E q \in Requests : Creating(q, x)
      BY DEF TidyInv, StopInv
    <2>2. x # y => Live(x)' = Live(x)
      BY <1>1 DEF Live
    <2>3. QED
      BY <1>3, <1>4, <2>1, <2>2
  <1>8. TimerInv'
    <2> SUFFICES ASSUME "force_refresh" \notin Modes, stopping \in {"running", "closed", "inactive"},
                        NEW x \in Approvals, cache[x] # {}, timer[x] = "none"
                 PROVE  \E q \in Requests : Clearing(q, x)' \/ Creating(q, x)' \/ Scheduling(q, x)'
      BY <1>1 DEF TimerInv
    <2>1. PICK q \in Requests : Clearing(q, x) \/ Creating(q, x) \/ Scheduling(q, x)
      BY DEF TidyInv, TimerInv
    <2>2. QED
      BY <1>4, <2>1
  <1>9. QED
    BY <1>5, <1>6, <1>7, <1>8 DEF TidyInv

\* The values are cached, and the maker goes on to arm the timer.
LEMMA CacheDoneTidy ==
    ASSUME TypeOK, TidyInv, OptionsInv, Control, NEW r \in Requests, CacheDone(r)
    PROVE  TidyInv'
  <1>1. /\ pc[r] = "caching" /\ pc'[r] = next[r] /\ next[r] \in {"schedule", "refreshed"}
        /\ lease'[r] = lease[r] /\ lease[r] \in Approvals /\ todo[r] = {} /\ stopping = "running"
        /\ UNCHANGED <<store, cache, timer, stopping>>
    BY DEF CacheDone, At, Goto, TypeOK, Control, LeaseInv, ApprovalActive, Running,
       ledger, scopes, world, plan
  <1>2. Others(r)
    BY OthersStay DEF RequestStep
  <1>3. "force_refresh" \notin Modes => Scheduling(r, lease[r])'
    BY <1>1 DEF Scheduling, OptionsInv, Proper
  <1>4. GoneInv'
    BY <1>1, <1>2 DEF TidyInv, GoneInv, Others
  <1>5. CacheInv'
    <2> SUFFICES ASSUME NEW x \in Approvals, Live(x), cache[x] # Refs
                 PROVE  \E q \in Requests : Creating(q, x)' /\ Refs \ cache'[x] \subseteq todo'[q]
      BY <1>1 DEF CacheInv, Live
    <2>1. PICK q \in Requests : Creating(q, x) /\ Refs \ cache[x] \subseteq todo[q]
      BY <1>1 DEF TidyInv, CacheInv
    <2>2. cache[x] \subseteq Refs
      BY DEF TypeOK
    <2>3. q # r
      BY <1>1, <2>1, <2>2
    <2>4. QED
      BY <1>1, <1>2, <2>1, <2>3, OthersTend
  <1>6. StopInv'
    BY <1>1 DEF StopInv
  <1>7. TimerInv'
    <2> SUFFICES ASSUME "force_refresh" \notin Modes, NEW x \in Approvals, cache[x] # {}, timer[x] = "none"
                 PROVE  \E q \in Requests : Clearing(q, x)' \/ Creating(q, x)' \/ Scheduling(q, x)'
      BY <1>1 DEF TimerInv
    <2>1. PICK q \in Requests : Clearing(q, x) \/ Creating(q, x) \/ Scheduling(q, x)
      BY <1>1 DEF TidyInv, TimerInv
    <2>2. CASE q = r
      <3>1. lease[r] = x
        BY <1>1, <2>1, <2>2 DEF Clearing, Creating, Filling, Scheduling
      <3>2. pc'[r] = "schedule" /\ lease'[r] = x
        BY <1>1, <3>1 DEF OptionsInv, Proper
      <3>3. Scheduling(r, x)'
        BY <3>2 DEF Scheduling
      <3>4. QED
        BY <3>3
    <2>3. CASE q # r
      BY <1>2, <2>1, <2>3, OthersTend
    <2>4. QED
      BY <2>2, <2>3
  <1>8. QED
    BY <1>4, <1>5, <1>6, <1>7 DEF TidyInv

\* The timer is armed; should the daemon stop meanwhile, its owner will clear it.
LEMMA ArmedTidy ==
    ASSUME TypeOK, TidyInv, AccountInv, OptionsInv, Control, NEW r \in Requests,
           ScheduleExpiry(r), ~Expired(lease[r])
    PROVE  TidyInv'
  <1>1. /\ pc[r] = "schedule" /\ pc'[r] = "issued" /\ owns[r] /\ owns' = owns
        /\ lease'[r] = lease[r] /\ lease[r] \in Approvals
        /\ timer' = [timer EXCEPT ![lease[r]] = "armed"]
        /\ UNCHANGED <<store, cache, stopping>>
    BY DEF ScheduleExpiry, At, Goto, TypeOK, Control, LeaseInv, OptionsInv, Proper, world, plan
  <1>2. Others(r)
    BY OthersStay DEF RequestStep
  <1>3. timer'[lease[r]] = "armed" /\ \A x \in Approvals : x # lease[r] => timer'[x] = timer[x]
    BY <1>1 DEF TypeOK
  <1>4. GoneInv'
    BY <1>1, <1>2, <1>3, LeasedIsUsed DEF TidyInv, GoneInv, Others
  <1>5. ASSUME NEW x \in Approvals, NEW q \in Requests
        PROVE  /\ Clearing(q, x) => Clearing(q, x)'
               /\ Filling(q, x) => Filling(q, x)'
               /\ Creating(q, x) => Creating(q, x)' /\ todo'[q] = todo[q]
               /\ x # lease[r] => (Scheduling(q, x) => Scheduling(q, x)')
               /\ Issuing(q, x) => Issuing(q, x)'
    <2>1. CASE q = r
      BY <1>1, <2>1 DEF Clearing, Filling, Creating, Scheduling, Issuing
    <2>2. CASE q # r
      BY <1>2, <2>2, OthersTend
    <2>3. QED
      BY <2>1, <2>2
  <1>6. CacheInv'
    <2> SUFFICES ASSUME stopping \in {"running", "closed", "inactive", "untimed"},
                        NEW x \in Approvals, Live(x), cache[x] # Refs
                 PROVE  \E q \in Requests : Creating(q, x)' /\ Refs \ cache'[x] \subseteq todo'[q]
      BY <1>1 DEF CacheInv, Live
    <2>1. PICK q \in Requests : Creating(q, x) /\ Refs \ cache[x] \subseteq todo[q]
      BY DEF TidyInv, CacheInv
    <2>2. QED
      BY <1>1, <1>5, <2>1
  <1>7. StopInv'
    <2> SUFFICES ASSUME NEW x \in Approvals
                 PROVE
        /\ stopping \in {"untimed", "uncached", "stopped"} /\ timer'[x] = "armed" =>
               \E q \in Requests : Clearing(q, x)' \/ Issuing(q, x)'
        /\ stopping \in {"uncached", "stopped"} /\ cache[x] # {} =>
               \E q \in Requests : Clearing(q, x)' \/ Filling(q, x)'
        /\ stopping = "stopped" /\ Live(x) => \E q \in Requests : Creating(q, x)'
      BY <1>1 DEF StopInv, Live
    <2>1. /\ stopping \in {"untimed", "uncached", "stopped"} /\ timer[x] = "armed" =>
               \E q \in Requests : Clearing(q, x) \/ Issuing(q, x)
          /\ stopping \in {"uncached", "stopped"} /\ cache[x] # {} =>
               \E q \in Requests : Clearing(q, x) \/ Filling(q, x)
          /\ stopping = "stopped" /\ Live(x) => \E q \in Requests : Creating(q, x)
      BY DEF TidyInv, StopInv
    <2>2. stopping \in {"untimed", "uncached", "stopped"} /\ timer'[x] = "armed" =>
              \E q \in Requests : Clearing(q, x)' \/ Issuing(q, x)'
      <3>1. CASE x = lease[r]
        <4>1. Issuing(r, x)'
          BY <1>1, <3>1 DEF Issuing
        <4>2. QED
          BY <4>1
      <3>2. CASE x # lease[r]
        BY <1>3, <1>5, <2>1, <3>2
      <3>3. QED
        BY <3>1, <3>2
    <2>3. stopping \in {"uncached", "stopped"} /\ cache[x] # {} =>
              \E q \in Requests : Clearing(q, x)' \/ Filling(q, x)'
      BY <1>5, <2>1
    <2>4. stopping = "stopped" /\ Live(x) => \E q \in Requests : Creating(q, x)'
      BY <1>5, <2>1
    <2>5. QED
      BY <2>2, <2>3, <2>4
  <1>8. TimerInv'
    <2> SUFFICES ASSUME "force_refresh" \notin Modes, stopping \in {"running", "closed", "inactive"},
                        NEW x \in Approvals, cache[x] # {}, timer'[x] = "none"
                 PROVE  \E q \in Requests : Clearing(q, x)' \/ Creating(q, x)' \/ Scheduling(q, x)'
      BY <1>1 DEF TimerInv
    <2>1. x # lease[r] /\ timer[x] = "none"
      BY <1>3
    <2>2. PICK q \in Requests : Clearing(q, x) \/ Creating(q, x) \/ Scheduling(q, x)
      BY <2>1 DEF TidyInv, TimerInv
    <2>3. QED
      BY <1>5, <2>1, <2>2
  <1>9. QED
    BY <1>4, <1>6, <1>7, <1>8 DEF TidyInv

-----------------------------------------------------------------------------
\* Once stopped, nobody finds the daemon running: the steps that do are quiet.
LEMMA RequestTidy ==
    ASSUME TypeOK, TypeOK', Control, AccountInv, AccountInv', OptionsInv, TidyInv,
           NEW r \in Requests, RequestStep(r)
    PROVE  TidyInv'
  <1>0. Others(r)
    BY OthersStay
  <1>1. CASE \/ MissingCache(r) \/ RefetchFails(r) \/ Refreshed(r) \/ ReuseLapses(r)
             \/ ValuesReady(r) \/ Prompt(r) \/ Fetched(r) \/ GiveUp(r)
             \/ StartCommand(r) \/ ActivateRefused(r) \/ BeforeWrite(r)
             \/ WriteRefused(r) \/ WriteFails(r)
    <2>1. PICK p \in {"finish", "values", "issued", "prompt", "failed", "create", "activate", "write", "abort"} :
             Move(r, p)
      BY <1>1 DEF MissingCache, RefetchFails, Refreshed, ReuseLapses, ValuesReady,
         Prompt, Fetched, GiveUp, StartCommand, ActivateRefused, BeforeWrite,
         WriteRefused, WriteFails
    <2>2. Closing /\ ClearsGone(r) /\ UNCHANGED <<cache, timer, stopping>>
      BY <2>1 DEF Move, Goto, Closing, ClearsGone, TypeOK, ledger, scopes, world
    <2>3. /\ pc[r] \notin {"caching", "putting", "schedule", "clearing"}
          /\ pc[r] = "issued" => Running
      BY <1>1 DEF MissingCache, RefetchFails, Refreshed, ReuseLapses, ValuesReady,
         Prompt, Fetched, GiveUp, StartCommand, ActivateRefused, BeforeWrite,
         WriteRefused, WriteFails, At, GrantActive, RequestActive
    <2>4. QED
      BY <1>0, <2>2, <2>3, NothingToDo, TidyKept
  <1>2. CASE RefreshFails(r) \/ ReuseExpires(r) \/ IssueExpires(r) \/ WriteExpires(r)
    <2>1. /\ \E p : Rollback(r, p)
          /\ UNCHANGED <<cache, timer, stopping>>
          /\ pc[r] # "clearing" /\ lease[r] # NoApproval
      BY <1>2 DEF RefreshFails, ReuseExpires, IssueExpires, WriteExpires, ApprovalActive, At,
         Control, LeaseInv, scopes, world
    <2>2. /\ Closing /\ ClearsGone(r)
          /\ \A x \in Approvals : Tends(r, x) => Clearing(r, x)'
      BY <2>1, RollbackTidy
    <2>3. QED
      BY <1>0, <2>1, <2>2, TidyKept
  <1>3. CASE CacheFails(r)
    <2>1. /\ \E p : Rollback(r, p)
          /\ UNCHANGED <<cache, timer, stopping>>
          /\ pc[r] # "clearing" /\ lease[r] # NoApproval
      BY <1>3 DEF CacheFails, At, Control, LeaseInv, scopes, world
    <2>2. /\ Closing /\ ClearsGone(r)
          /\ \A x \in Approvals : Tends(r, x) => Clearing(r, x)'
      BY <2>1, RollbackTidy
    <2>3. QED
      BY <1>0, <2>1, <2>2, TidyKept
  <1>4. CASE IssueFails(r)
    <2>1. UNCHANGED <<cache, timer, stopping>> /\ pc[r] = "issued"
      BY <1>4 DEF IssueFails, At, scopes, world
    <2>2. CASE owns[r] /\ lease[r] # NoApproval
      <3>1. Rollback(r, "failed")
        BY <1>4, <2>2 DEF IssueFails
      <3>2. /\ Closing /\ ClearsGone(r)
            /\ \A x \in Approvals : Tends(r, x) => Clearing(r, x)'
        BY <2>1, <2>2, <3>1, RollbackTidy
      <3>3. QED
        BY <1>0, <2>1, <3>2, TidyKept
    <2>3. CASE ~(owns[r] /\ lease[r] # NoApproval)
      <3>1. Closing /\ ClearsGone(r)
        BY <1>4, <2>3 DEF IssueFails, Goto, Closing, ClearsGone, TypeOK
      <3>2. ~owns[r] \/ lease[r] \notin Approvals
        BY <2>3, ConstantsAssumption
      <3>3. QED
        BY <1>0, <2>1, <3>1, <3>2, NothingToDo, TidyKept
    <2>4. QED
      BY <2>2, <2>3
  <1>5. CASE ScheduleExpiry(r)
    <2>1. CASE ~Expired(lease[r])
      BY <1>5, <2>1, ArmedTidy
    <2>2. CASE Expired(lease[r])
      <3>1. /\ Rollback(r, "issued")
            /\ UNCHANGED <<cache, timer, stopping>>
            /\ pc[r] # "clearing" /\ lease[r] # NoApproval
        BY <1>5, <2>2 DEF ScheduleExpiry, At, Control, LeaseInv, world
      <3>2. /\ Closing /\ ClearsGone(r)
            /\ \A x \in Approvals : Tends(r, x) => Clearing(r, x)'
        BY <3>1, RollbackTidy
      <3>3. QED
        BY <1>0, <3>1, <3>2, TidyKept
    <2>3. QED
      BY <2>1, <2>2
  <1>6. CASE ReuseAuditFails(r)
    <2>1. /\ UNCHANGED <<cache, timer, stopping>> /\ pc[r] = "reused" /\ pc'[r] = "failed"
          /\ lease[r] \in Approvals
          /\ FinishReusableAttempt(lease[r], "pre_payload_failure")
      BY <1>6 DEF ReuseAuditFails, At, Goto, Control, LeaseInv, TypeOK, scopes, world
    <2>2. Closing /\ ClearsGone(r)
      BY <2>1, AttemptCloses DEF ClearsGone
    <2>3. QED
      BY <1>0, <2>1, <2>2, NothingToDo, TidyKept
  <1>7. CASE ReserveHit(r)
    <2>1. /\ UNCHANGED <<cache, timer, stopping>> /\ pc[r] = "reserve" /\ pc'[r] = "reused"
      BY <1>7 DEF ReserveHit, At, Goto, TypeOK, scopes, world
    <2>2. PICK x \in Approvals, pruned \in SUBSET Approvals :
              store' = [Without(store, pruned) EXCEPT ![x].reserved = @ + 1]
      BY <1>7 DEF ReserveHit, UsableMatches, ExpiredMatches, Matches
    <2>3. \A y \in Approvals : store'[y].status = Without(store, pruned)[y].status
      BY <2>2, WithoutType DEF Approval
    <2>4. Closing
      BY <2>3 DEF Closing, Without, Live, TypeOK, Approval
    <2>5. QED
      BY <1>0, <2>1, <2>4, NothingToDo, TidyKept DEF ClearsGone
  <1>8. CASE ReserveMiss(r)
    <2>1. /\ UNCHANGED <<cache, timer, stopping>> /\ pc[r] = "reserve"
      BY <1>8 DEF ReserveMiss, At, scopes, world
    <2>2. PICK X \in SUBSET Approvals :
              /\ store' = Without(store, X) /\ \A x \in X : store[x].status # "unused"
              /\ \/ pc' = [pc EXCEPT ![r] = "missed"]
                 \/ \E x \in X : ClearThen(r, x, "missed")
      <3> DEFINE spentUp  == {x \in ExhaustedMatches(r) : UsedUp(store[x])}
                 reported == IF ExpiredMatches(r) # {} THEN ExpiredMatches(r) ELSE spentUp
                 X == ExpiredMatches(r) \cup spentUp
      <3>1. /\ store' = Without(store, X)
            /\ \/ Goto(r, "missed")
               \/ \E x \in reported : ClearThen(r, x, "missed")
        BY <1>8 DEF ReserveMiss
      <3>2. X \subseteq Matches(r) /\ reported \subseteq X
        BY DEF ExpiredMatches, ExhaustedMatches
      <3>3. QED
        BY <3>1, <3>2 DEF Goto, Matches, Live
    <2>3. Closing /\ \A x \in X : store'[x].status = "gone"
      BY <2>2, WithoutCloses
    <2>4. ClearsGone(r)
      BY <2>2, <2>3 DEF ClearsGone, ClearThen, TypeOK
    <2>5. QED
      BY <1>0, <2>1, <2>3, <2>4, NothingToDo, TidyKept
  <1>9. CASE CommitDelivered(r) \/ FinishBeforePayload(r)
    <2>1. /\ UNCHANGED <<cache, timer, stopping>> /\ pc[r] \in {"commit", "finish"}
          /\ \E p \in {"done", "failed"}, result \in {"payload_delivered", "pre_payload_failure"} :
                 FinishDelivery(r, result, p)
      BY <1>9 DEF CommitDelivered, FinishBeforePayload, FinishDelivery, At, scopes, world
    <2>2. Closing /\ ClearsGone(r)
      BY <2>1, FinishTidy
    <2>3. QED
      BY <1>0, <2>1, <2>2, NothingToDo, TidyKept
  <1>10. CASE ClearScope(r)
    BY <1>10, ClearScopeTidy
  <1>11. CASE CacheCheck(r)
    <2>1. /\ pc[r] = "caching" /\ pc'[r] = "putting" /\ lease[r] \in Approvals
          /\ lease' = lease /\ next' = next /\ UNCHANGED <<store, timer, stopping, cache, todo>>
      BY <1>11 DEF CacheCheck, Move, At, Goto, Control, LeaseInv, TypeOK, ledger, scopes, world, plan, detour
    <2>2. "force_refresh" \notin Modes => next[r] = "schedule"
      BY <2>1 DEF OptionsInv, Proper
    <2>3. \A x \in Approvals : cache[x] \subseteq Refs
      BY DEF TypeOK
    <2>4. QED
      BY <1>0, <2>1, <2>2, <2>3, FillingTidy
  <1>12. CASE \E ref \in Refs : Put(r, ref)
    <2>1. PICK ref \in Refs : Put(r, ref)
      BY <1>12
    <2>2. /\ pc[r] = "putting" /\ pc'[r] = "caching" /\ lease[r] \in Approvals
          /\ lease' = lease /\ next' = next /\ UNCHANGED <<store, timer, stopping>>
          /\ cache' = [cache EXCEPT ![lease[r]] = @ \cup {ref}]
          /\ todo'[r] = todo[r] \ {ref}
      BY <2>1 DEF Put, At, Goto, Control, LeaseInv, TypeOK, ledger, scopes, world, plan, detour
    <2>3. "force_refresh" \notin Modes => next[r] = "schedule"
      BY <2>2 DEF OptionsInv, Proper
    <2>4. /\ cache'[lease[r]] = cache[lease[r]] \cup {ref}
          /\ \A x \in Approvals : x # lease[r] => cache'[x] = cache[x]
          /\ \A x \in Approvals : cache[x] \subseteq Refs
      BY <2>2 DEF TypeOK
    <2>5. /\ \A x \in Approvals : cache[x] \subseteq cache'[x] /\ cache'[x] \subseteq Refs
          /\ Refs \ cache[lease[r]] \subseteq todo[r] => Refs \ cache'[lease[r]] \subseteq todo'[r]
      BY <2>2, <2>4
    <2>6. QED
      BY <1>0, <2>2, <2>3, <2>4, <2>5, FillingTidy
  <1>13. CASE CacheDone(r)
    BY <1>13, CacheDoneTidy
  <1>14. CASE \E x \in Approvals : CreateGrant(r, x)
    BY <1>14, CreateTidy
  <1>15. CASE \/ BeginReuse(r) \/ (\E ref \in Refs : GetCached(r, ref))
              \/ (\E reusable \in BOOLEAN : Approved(r, reusable))
              \/ ActivateExec(r) \/ WritePayload(r) \/ AbortBeforePayload(r)
    <2>1. /\ pc[r] \in {"reused", "reading", "prompt", "activate", "write", "abort"}
          /\ UNCHANGED <<store, cache, timer, stopping>>
          /\ \E p \in {"refetch", "reading", "values", "fetch", "prewrite", "commit", "finish"} :
                pc' = [pc EXCEPT ![r] = p]
      BY <1>15 DEF BeginReuse, GetCached, Approved, ActivateExec, WritePayload, AbortBeforePayload,
         At, Goto, ledger, scopes, world
    <2>2. Closing /\ ClearsGone(r)
      BY <2>1 DEF Closing, ClearsGone, TypeOK
    <2>3. QED
      BY <1>0, <2>1, <2>2, NothingToDo, TidyKept
  <1>16. CASE Refetched(r)
    <2>1. /\ pc[r] = "refetch" /\ pc'[r] = "caching" /\ UNCHANGED <<store, cache, timer, stopping>>
      BY <1>16 DEF Refetched, At, Goto, TypeOK, ledger, scopes, world
    <2>2. Closing /\ ClearsGone(r)
      BY <2>1 DEF Closing, ClearsGone
    <2>3. QED
      BY <1>0, <2>1, <2>2, NothingToDo, TidyKept
  <1>17. QED
    BY <1>1, <1>2, <1>3, <1>4, <1>5, <1>6, <1>7, <1>8, <1>9, <1>10, <1>11, <1>12, <1>13,
       <1>14, <1>15, <1>16, RequestStepCases

\* The timers, the stop and the clock take nothing out of a request's hands.
LEMMA OthersSteps ==
    ASSUME UNCHANGED <<pc, next, lease, owns, scope, todo>>, NEW q, NEW x
    PROVE  /\ Filling(q, x)' = Filling(q, x) /\ Creating(q, x)' = Creating(q, x)
           /\ Scheduling(q, x)' = Scheduling(q, x) /\ Clearing(q, x)' = Clearing(q, x)
           /\ Issuing(q, x)' = Issuing(q, x) /\ todo'[q] = todo[q]
  BY DEF Filling, Creating, Scheduling, Clearing, Issuing

\* A step that touches no approval, no value, no timer and no request.
LEMMA TidyFrame ==
    ASSUME TidyInv, UNCHANGED <<store, cache, timer, pc, next, lease, owns, scope, todo>>,
           stopping' = stopping \/ (stopping = "running" /\ stopping' = "closed")
                     \/ (stopping = "closed" /\ stopping' = "inactive")
    PROVE  TidyInv'
  <1>1. GoneInv'
    BY DEF TidyInv, GoneInv
  <1>2. CacheInv'
    BY OthersSteps DEF TidyInv, CacheInv, Live
  <1>3. StopInv'
    BY OthersSteps DEF TidyInv, StopInv, Live
  <1>4. TimerInv'
    BY OthersSteps DEF TidyInv, TimerInv
  <1>5. QED
    BY <1>1, <1>2, <1>3, <1>4 DEF TidyInv

LEMMA TimerTidy ==
    ASSUME TypeOK, TidyInv, NEW y \in Approvals, TimerStep(y)
    PROVE  TidyInv'
  <1>1. UNCHANGED <<pc, next, lease, owns, scope, todo, stopping>>
    BY DEF TimerStep, TimerFires, TimerClears, plan, detour, ledger, world
  <1>2. CASE TimerFires(y)
    <2>1. /\ timer[y] = "armed" /\ timer' = [timer EXCEPT ![y] = "firing"]
          /\ store' = Without(store, {y}) /\ cache' = cache
      BY <1>2 DEF TimerFires, RemoveReusable
    <2>2. Closing /\ store'[y].status = "gone"
      BY <2>1, WithoutCloses DEF TidyInv, GoneInv
    <2>3. timer'[y] = "firing" /\ \A x \in Approvals : x # y => timer'[x] = timer[x]
      BY <2>1 DEF TypeOK
    <2>4. GoneInv'
      BY <1>1, <2>2, <2>3 DEF TidyInv, GoneInv, Closing, Live
    <2>5. \A x \in Approvals : Live(x)' => Live(x)
      BY <2>2 DEF Closing, Live
    <2>6. CacheInv'
      BY <1>1, <2>1, <2>5, OthersSteps DEF TidyInv, CacheInv
    <2>7. StopInv'
      BY <1>1, <2>1, <2>3, <2>5, OthersSteps DEF TidyInv, StopInv
    <2>8. TimerInv'
      BY <1>1, <2>1, <2>3, OthersSteps DEF TidyInv, TimerInv
    <2>9. QED
      BY <2>4, <2>6, <2>7, <2>8 DEF TidyInv
  <1>3. CASE TimerClears(y)
    <2>1. /\ timer[y] = "firing" /\ timer' = [timer EXCEPT ![y] = "none"]
          /\ cache' = [cache EXCEPT ![y] = {}] /\ store' = store
      BY <1>3 DEF TimerClears, ledger
    <2>2. /\ timer'[y] = "none" /\ \A x \in Approvals : x # y => timer'[x] = timer[x]
          /\ cache'[y] = {} /\ \A x \in Approvals : x # y => cache'[x] = cache[x]
      BY <2>1 DEF TypeOK
    <2>3. store'[y].status = "gone" /\ ~Live(y)'
      BY <2>1 DEF TidyInv, GoneInv, Live
    <2>4. GoneInv'
      BY <1>1, <2>1, <2>2 DEF TidyInv, GoneInv
    <2>5. CacheInv'
      BY <1>1, <2>1, <2>2, <2>3, OthersSteps DEF TidyInv, CacheInv, Live
    <2>6. StopInv'
      BY <1>1, <2>1, <2>2, <2>3, OthersSteps DEF TidyInv, StopInv, Live
    <2>7. TimerInv'
      BY <1>1, <2>1, <2>2, OthersSteps DEF TidyInv, TimerInv
    <2>8. QED
      BY <2>4, <2>5, <2>6, <2>7 DEF TidyInv
  <1>4. QED
    BY <1>2, <1>3 DEF TimerStep

\* Each clearing of the stop empties what the next part of StopInv speaks of.
LEMMA StopTidy ==
    ASSUME TypeOK, TidyInv, ClearTimers \/ ClearCache \/ ClearStore
    PROVE  TidyInv'
  <1>1. UNCHANGED <<pc, next, lease, owns, scope, todo>>
    BY DEF ClearTimers, ClearCache, ClearStore, ledger, plan, detour
  <1>2. CASE ClearTimers
    <2>1. /\ stopping = "inactive" /\ stopping' = "untimed" /\ UNCHANGED <<store, cache>>
          /\ \A x \in Approvals : timer'[x] # "armed"
          /\ \A x \in Approvals : timer'[x] = "firing" => timer[x] = "firing"
      BY <1>2 DEF ClearTimers, ledger
    <2>2. GoneInv'
      BY <1>1, <2>1 DEF TidyInv, GoneInv
    <2>3. CacheInv'
      BY <1>1, <2>1, OthersSteps DEF TidyInv, CacheInv, Live
    <2>4. StopInv' /\ TimerInv'
      BY <2>1 DEF StopInv, TimerInv
    <2>5. QED
      BY <2>2, <2>3, <2>4 DEF TidyInv
  <1>3. CASE ClearCache
    <2>1. /\ stopping = "untimed" /\ stopping' = "uncached" /\ UNCHANGED <<store, timer>>
          /\ \A x \in Approvals : cache'[x] = {}
      BY <1>3 DEF ClearCache, ledger
    <2>2. GoneInv'
      BY <1>1, <2>1 DEF TidyInv, GoneInv
    <2>3. CacheInv' /\ TimerInv'
      BY <2>1 DEF CacheInv, TimerInv
    <2>4. StopInv'
      BY <1>1, <2>1, OthersSteps DEF TidyInv, StopInv
    <2>5. QED
      BY <2>2, <2>3, <2>4 DEF TidyInv
  <1>4. CASE ClearStore
    <2>1. /\ stopping = "uncached" /\ stopping' = "stopped" /\ UNCHANGED <<cache, timer>>
          /\ store' = Without(store, Approvals)
      BY <1>4 DEF ClearStore, scopes
    <2>2. Closing /\ \A x \in Approvals : ~Live(x)'
      BY <2>1, WithoutCloses DEF Live, Closing
    <2>3. GoneInv'
      BY <1>1, <2>1, <2>2 DEF TidyInv, GoneInv, Closing
    <2>4. CacheInv' /\ TimerInv'
      BY <2>1 DEF CacheInv, TimerInv
    <2>5. StopInv'
      BY <1>1, <2>1, <2>2, OthersSteps DEF TidyInv, StopInv
    <2>6. QED
      BY <2>3, <2>4, <2>5 DEF TidyInv
  <1>5. QED
    BY <1>2, <1>3, <1>4

LEMMA StepTidy ==
    TypeOK /\ TypeOK' /\ Control /\ AccountInv /\ AccountInv' /\ OptionsInv /\ TidyInv /\ [Next]_vars
        => TidyInv'
  <1> SUFFICES ASSUME TypeOK, TypeOK', Control, AccountInv, AccountInv', OptionsInv, TidyInv,
                      [Next]_vars
               PROVE  TidyInv'
    OBVIOUS
  <1>1. ASSUME NEW r \in Requests, NEW k \in Keys, NEW m \in Modes, Receive(r, k, m)
        PROVE  TidyInv'
    <2>1. /\ Others(r) /\ Closing /\ pc[r] = "new" /\ pc'[r] = "reserve"
          /\ UNCHANGED <<cache, timer, stopping>>
      BY <1>1 DEF Receive, Others, Closing, At, Goto, TypeOK, ledger, scopes, world, detour
    <2>2. QED
      BY <2>1, NothingToDo, TidyKept DEF ClearsGone
  <1>2. ASSUME NEW r \in Requests, RequestStep(r)
        PROVE  TidyInv'
    BY <1>2, RequestTidy
  <1>3. CASE UNCHANGED vars \/ (\E r \in Requests : EndExec(r)) \/ Stop \/ ClearActive \/ Tick
    <2>1. UNCHANGED <<store, cache, timer, pc, next, lease, owns, scope, todo>>
      BY <1>3 DEF vars, EndExec, Stop, ClearActive, Tick, ledger, scopes, plan, detour
    <2>2. \/ stopping' = stopping
          \/ stopping = "running" /\ stopping' = "closed"
          \/ stopping = "closed" /\ stopping' = "inactive"
      BY <1>3 DEF vars, EndExec, Stop, ClearActive, Tick
    <2>3. QED
      BY <2>1, <2>2, TidyFrame
  <1>4. ASSUME NEW x \in Approvals, TimerStep(x)
        PROVE  TidyInv'
    BY <1>4, TimerTidy
  <1>5. CASE ClearTimers \/ ClearCache \/ ClearStore
    BY <1>5, StopTidy
  <1>6. QED
    BY <1>1, <1>2, <1>3, <1>4, <1>5 DEF Next, StopStep

LEMMA InitTidy == Init => OptionsInv /\ TidyInv
  <1> SUFFICES ASSUME Init PROVE OptionsInv /\ TidyInv
    OBVIOUS
  <1>1. OptionsInv
    BY DEF Init, OptionsInv, Proper
  <1>2. GoneInv
    BY DEF Init, GoneInv
  <1>3. CacheInv /\ StopInv /\ TimerInv
    BY DEF Init, CacheInv, StopInv, TimerInv, Live
  <1>4. QED
    BY <1>1, <1>2, <1>3 DEF TidyInv

\* Whatever a step of a request, of a timer or of the stop leaves of an approval that must
\* go is in the hands of somebody who will clear it (rollbackApproval, finishDelivery,
\* scheduleExpiry, clear).
THEOREM TidyInvariant == Spec => [](OptionsInv /\ TidyInv)
  <1>1. GrantInv => TypeOK /\ Control /\ AccountInv
    BY DEF GrantInv, Control
  <1>2. GrantInv /\ GrantInv' /\ OptionsInv /\ TidyInv /\ [Next]_vars => OptionsInv' /\ TidyInv'
    <2>1. GrantInv' => TypeOK' /\ AccountInv'
      BY DEF GrantInv
    <2>2. QED
      BY <1>1, <2>1, StepOptions, StepTidy
  <1>3. QED
    BY <1>2, InitTidy, GrantInvariant, PTL DEF Spec

\* Nothing is left of the approvals once the stop has gone through and the requests it met
\* have ended (StopWithAuditEvent against createGrant and cacheResolvedValues).
THEOREM StoppedIsEmpty == Spec => []StopLeavesNothing
  <1>1. TypeOK /\ TidyInv => StopLeavesNothing
    <2> SUFFICES ASSUME TypeOK, TidyInv, stopping = "stopped", AtRest, NEW x \in Approvals
                 PROVE  ~Live(x) /\ (timer[x] = "firing" \/ (timer[x] = "none" /\ cache[x] = {}))
      BY DEF StopLeavesNothing
    <2>1. \A r \in Requests : ~Clearing(r, x) /\ ~Issuing(r, x) /\ ~Filling(r, x) /\ ~Creating(r, x)
      BY DEF AtRest, Clearing, Issuing, Filling, Creating
    <2>2. QED
      BY <2>1 DEF TidyInv, StopInv, TypeOK
  <1>2. QED
    BY <1>1, TypeCorrect, TidyInvariant, PTL

\* At rest, an approval a request could reuse has all its values (rollbackApproval,
\* finishDelivery, cacheResolvedValues).
THEOREM LiveHasValues == Spec => []LiveApprovalsAreCached
  <1>1. TidyInv => LiveApprovalsAreCached
    BY DEF TidyInv, CacheInv, Creating, Filling, AtRest, LiveApprovalsAreCached, Running
  <1>2. QED
    BY <1>1, TidyInvariant, PTL

\* Where no request forces a refresh, at rest every cached value has its timer
\* (scheduleExpiry, clearScope).
THEOREM ValuesAreTimed ==
    ASSUME "force_refresh" \notin Modes
    PROVE  Spec => []CachedValuesHaveTimer
  <1>1. TypeOK /\ TidyInv => CachedValuesHaveTimer
    <2> SUFFICES ASSUME TypeOK, TidyInv, AtRest, stopping \in {"running", "stopped"},
                        NEW x \in Approvals, cache[x] # {}
                 PROVE  timer[x] # "none"
      BY DEF CachedValuesHaveTimer
    <2>1. \A r \in Requests : ~Clearing(r, x) /\ ~Filling(r, x) /\ ~Creating(r, x) /\ ~Scheduling(r, x)
      BY DEF AtRest, Clearing, Filling, Creating, Scheduling
    <2>2. CASE stopping = "running"
      BY <2>1, <2>2 DEF TidyInv, TimerInv
    <2>3. CASE stopping = "stopped"
      BY <2>1, <2>3 DEF TidyInv, StopInv
    <2>4. QED
      BY <2>2, <2>3
  <1>2. QED
    BY <1>1, TypeCorrect, TidyInvariant, PTL
=============================================================================
