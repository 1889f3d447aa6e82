------------------------- MODULE SecretFetch_proofs -------------------------
(***************************************************************************)
(* The client pool, for any number of calls and accounts: one creator per  *)
(* account, no forgotten waiter, no live client evicted, no stale client   *)
(* given again.                                                            *)
(*                                                                         *)
(* The fetch, for any number of requests, references and accounts: it uses *)
(* the pool as its calls do, it is complete or it fails, it never has more *)
(* in flight than the limit, and its goroutines do not deadlock.           *)
(***************************************************************************)
EXTENDS SecretFetch, FiniteSetTheorems, TLAPS

Second(c) == <<c, 2>>

\* An initialisation is named after one call and one attempt.
Names ==
    /\ NoClient \notin Clients
    /\ \A c \in Calls : AccountOf[c] \in Accounts /\ Own(c) \in Clients /\ Second(c) \in Clients
    /\ \A c, d \in Calls : Own(c) = Own(d) => c = d
    /\ \A c, d \in Calls : Own(c) = Second(d) => c = d /\ attempt[c] = 2

LEMMA NamesHold == PoolTypeOK => Names
  BY PoolAssumption DEF PoolTypeOK, Names, Own, Second, Clients

-----------------------------------------------------------------------------
(***************************************************************************)
(* The inductive invariant.                                                *)
(***************************************************************************)
\* An initialisation under way has its creator.
InitInv ==
    \A a \in Accounts : inits[a] # NoClient =>
        \E c \in Calls : pc[c] = "creating" /\ AccountOf[c] = a /\ inits[a] = Own(c)

\* Only a call that has its first client finds it stale, and it does so once.
AttemptInv == \A c \in Calls : pc[c] \in {"idle", "stale"} => attempt[c] = 1

\* What a call has yet to make, nobody has made.
FreshInv ==
    \A c \in Calls :
        /\ pc[c] \in {"idle", "client", "creating"} => outcome[Own(c)] = "pending"
        /\ attempt[c] = 1 => outcome[Second(c)] = "pending"

\* What is in the pool, or in use, has been made.
MadeInv ==
    /\ \A a \in Accounts : clients[a] # NoClient => outcome[clients[a]] = "client"
    /\ \A c \in Calls :
          /\ pc[c] \in {"creating", "waiting", "using"} => held[c] # NoClient
          /\ pc[c] = "creating" => held[c] = Own(c)
          /\ pc[c] = "using" => outcome[held[c]] = "client"

\* A call that refreshes remembers a client that was made.
StaleInv ==
    \A c \in Calls :
        /\ stale[c] # NoClient => outcome[stale[c]] = "client"
        /\ pc[c] = "stale" => stale[c] # NoClient
        /\ attempt[c] = 2 /\ pc[c] \in {"client", "creating", "waiting", "using"} => stale[c] # NoClient

\* Neither the pool nor the call has the stale client any more.
RefreshInv ==
    \A c \in Calls : attempt[c] = 2 =>
        /\ pc[c] = "client" => clients[AccountOf[c]] # stale[c]
        /\ pc[c] \in {"creating", "waiting", "using"} => held[c] # stale[c]

PoolInv ==
    /\ PoolTypeOK
    /\ OneCreatorPerAccount
    /\ InitInv
    /\ WaitersHaveAnOwner
    /\ AttemptInv
    /\ FreshInv
    /\ MadeInv
    /\ StaleInv
    /\ RefreshInv

LEMMA InitPoolInv == PoolInit => PoolInv
  BY PoolAssumption DEF PoolInit, PoolInv, PoolTypeOK, OneCreatorPerAccount, InitInv, WaitersHaveAnOwner,
     AttemptInv, FreshInv, MadeInv, StaleInv, RefreshInv, Own, Second, Clients

-----------------------------------------------------------------------------
(***************************************************************************)
(* Each step keeps it.                                                     *)
(***************************************************************************)
LEMMA ResolveKeeps ==
    ASSUME PoolInv, NEW c \in Calls, Resolve(c)
    PROVE  PoolInv'
  <1>a. Names
    BY NamesHold DEF PoolInv
  <1>b. \A d \in Calls : Own(d)' = Own(d)
    BY DEF PoolInv, PoolTypeOK, AttemptInv, Own, Second, Resolve
  <1> USE <1>a, <1>b DEF PoolInv, PoolTypeOK, Names, Resolve, Goto, pool, Returned
  <1>0. PoolTypeOK'
    BY DEF AttemptInv
  <1>1. OneCreatorPerAccount'
    BY DEF OneCreatorPerAccount
  <1>2. InitInv'
    BY DEF InitInv
  <1>3. WaitersHaveAnOwner'
    BY DEF WaitersHaveAnOwner
  <1>4. AttemptInv'
    BY DEF AttemptInv
  <1>5. FreshInv'
    BY DEF FreshInv
  <1>6. MadeInv'
    BY DEF MadeInv
  <1>7. StaleInv'
    BY DEF StaleInv, AttemptInv
  <1>8. RefreshInv'
    BY DEF RefreshInv, AttemptInv
  <1>9. QED
    BY <1>0, <1>1, <1>2, <1>3, <1>4, <1>5, <1>6, <1>7, <1>8

LEMMA FindClientKeeps ==
    ASSUME PoolInv, NEW c \in Calls, StartClientInit(c), FindClient(c)
    PROVE  PoolInv'
  <1>a. Names
    BY NamesHold DEF PoolInv
  <1>b. \A d \in Calls : Own(d)' = Own(d)
    BY DEF PoolInv, PoolTypeOK, AttemptInv, Own, Second, FindClient, StartClientInit
  <1> USE <1>a, <1>b DEF PoolInv, PoolTypeOK, Names, FindClient, StartClientInit,
     Goto, Hold, pool, Returned
  <1>0. PoolTypeOK'
    BY DEF AttemptInv
  <1>1. OneCreatorPerAccount'
    BY DEF OneCreatorPerAccount
  <1>2. InitInv'
    BY DEF InitInv
  <1>3. WaitersHaveAnOwner'
    BY DEF WaitersHaveAnOwner
  <1>4. AttemptInv'
    BY DEF AttemptInv
  <1>5. FreshInv'
    BY DEF FreshInv
  <1>6. MadeInv'
    BY DEF MadeInv
  <1>7. StaleInv'
    BY DEF StaleInv
  <1>8. RefreshInv'
    BY DEF RefreshInv
  <1>9. QED
    BY <1>0, <1>1, <1>2, <1>3, <1>4, <1>5, <1>6, <1>7, <1>8

LEMMA JoinInitKeeps ==
    ASSUME PoolInv, NEW c \in Calls, StartClientInit(c), JoinInit(c)
    PROVE  PoolInv'
  <1>a. Names
    BY NamesHold DEF PoolInv
  <1>b. \A d \in Calls : Own(d)' = Own(d)
    BY DEF PoolInv, PoolTypeOK, AttemptInv, Own, Second, JoinInit, StartClientInit
  <1> USE <1>a, <1>b DEF PoolInv, PoolTypeOK, Names, JoinInit, StartClientInit,
     Goto, Hold, pool, Returned
  <1>0. PoolTypeOK'
    BY DEF AttemptInv
  <1>1. OneCreatorPerAccount'
    BY DEF OneCreatorPerAccount
  <1>2. InitInv'
    BY DEF InitInv
  <1>3. WaitersHaveAnOwner'
    BY DEF WaitersHaveAnOwner, InitInv
  <1>4. AttemptInv'
    BY DEF AttemptInv
  <1>5. FreshInv'
    BY DEF FreshInv
  <1>6. MadeInv'
    BY DEF MadeInv
  <1>7. StaleInv'
    BY DEF StaleInv
  <1>8. RefreshInv'
    BY DEF RefreshInv, InitInv, FreshInv, StaleInv
  <1>9. QED
    BY <1>0, <1>1, <1>2, <1>3, <1>4, <1>5, <1>6, <1>7, <1>8

LEMMA OwnInitKeeps ==
    ASSUME PoolInv, NEW c \in Calls, StartClientInit(c), OwnInit(c)
    PROVE  PoolInv'
  <1>a. Names
    BY NamesHold DEF PoolInv
  <1>b. \A d \in Calls : Own(d)' = Own(d)
    BY DEF PoolInv, PoolTypeOK, AttemptInv, Own, Second, OwnInit, StartClientInit
  <1> USE <1>a, <1>b DEF PoolInv, PoolTypeOK, Names, OwnInit, StartClientInit, Goto,
     Hold, Returned
  <1>0. PoolTypeOK'
    BY DEF AttemptInv
  <1>1. OneCreatorPerAccount'
    BY DEF OneCreatorPerAccount
  <1>2. InitInv'
    BY DEF InitInv
  <1>3. WaitersHaveAnOwner'
    BY DEF WaitersHaveAnOwner
  <1>4. AttemptInv'
    BY DEF AttemptInv
  <1>5. FreshInv'
    BY DEF FreshInv
  <1>6. MadeInv'
    BY DEF MadeInv
  <1>7. StaleInv'
    BY DEF StaleInv
  <1>8. RefreshInv'
    BY DEF RefreshInv, FreshInv, StaleInv
  <1>9. QED
    BY <1>0, <1>1, <1>2, <1>3, <1>4, <1>5, <1>6, <1>7, <1>8

LEMMA FinishClientInitKeeps ==
    ASSUME PoolInv, NEW c \in Calls, NEW e \in {"client", "error"}, FinishClientInit(c, e)
    PROVE  PoolInv'
  <1>a. Names
    BY NamesHold DEF PoolInv
  <1>b. \A d \in Calls : Own(d)' = Own(d)
    BY DEF PoolInv, PoolTypeOK, AttemptInv, Own, Second, FinishClientInit
  <1> USE <1>a, <1>b DEF PoolInv, PoolTypeOK, Names, FinishClientInit, Goto, Return,
     Hold, Returned
  <1>0. PoolTypeOK'
    BY DEF AttemptInv
  <1>1. OneCreatorPerAccount'
    BY DEF OneCreatorPerAccount
  <1>2. InitInv'
    BY DEF InitInv
  <1>3. WaitersHaveAnOwner'
    BY DEF WaitersHaveAnOwner
  <1>4. AttemptInv'
    BY DEF AttemptInv
  <1>5. FreshInv'
    BY DEF FreshInv
  <1>6. MadeInv'
    BY DEF MadeInv, FreshInv
  <1>7. StaleInv'
    BY DEF StaleInv, FreshInv
  <1>8. RefreshInv'
    BY DEF RefreshInv, FreshInv, StaleInv
  <1>9. QED
    BY <1>0, <1>1, <1>2, <1>3, <1>4, <1>5, <1>6, <1>7, <1>8

LEMMA TakeOutcomeKeeps ==
    ASSUME PoolInv, NEW c \in Calls, TakeOutcome(c)
    PROVE  PoolInv'
  <1>a. Names
    BY NamesHold DEF PoolInv
  <1>b. \A d \in Calls : Own(d)' = Own(d)
    BY DEF PoolInv, PoolTypeOK, AttemptInv, Own, Second, TakeOutcome
  <1> USE <1>a, <1>b DEF PoolInv, PoolTypeOK, Names, TakeOutcome, Goto, Return,
     pool, Hold, Returned
  <1>0. PoolTypeOK'
    BY DEF AttemptInv
  <1>1. OneCreatorPerAccount'
    BY DEF OneCreatorPerAccount
  <1>2. InitInv'
    BY DEF InitInv
  <1>3. WaitersHaveAnOwner'
    BY DEF WaitersHaveAnOwner
  <1>4. AttemptInv'
    BY DEF AttemptInv
  <1>5. FreshInv'
    BY DEF FreshInv
  <1>6. MadeInv'
    BY DEF MadeInv
  <1>7. StaleInv'
    BY DEF StaleInv
  <1>8. RefreshInv'
    BY DEF RefreshInv
  <1>9. QED
    BY <1>0, <1>1, <1>2, <1>3, <1>4, <1>5, <1>6, <1>7, <1>8

LEMMA LeaveInitKeeps ==
    ASSUME PoolInv, NEW c \in Calls, LeaveInit(c)
    PROVE  PoolInv'
  <1>a. Names
    BY NamesHold DEF PoolInv
  <1>b. \A d \in Calls : Own(d)' = Own(d)
    BY DEF PoolInv, PoolTypeOK, AttemptInv, Own, Second, LeaveInit
  <1> USE <1>a, <1>b DEF PoolInv, PoolTypeOK, Names, LeaveInit, Return, pool, Goto,
     Hold, Returned
  <1>0. PoolTypeOK'
    BY DEF AttemptInv
  <1>1. OneCreatorPerAccount'
    BY DEF OneCreatorPerAccount
  <1>2. InitInv'
    BY DEF InitInv
  <1>3. WaitersHaveAnOwner'
    BY DEF WaitersHaveAnOwner
  <1>4. AttemptInv'
    BY DEF AttemptInv
  <1>5. FreshInv'
    BY DEF FreshInv
  <1>6. MadeInv'
    BY DEF MadeInv
  <1>7. StaleInv'
    BY DEF StaleInv
  <1>8. RefreshInv'
    BY DEF RefreshInv
  <1>9. QED
    BY <1>0, <1>1, <1>2, <1>3, <1>4, <1>5, <1>6, <1>7, <1>8

LEMMA AnswerKeeps ==
    ASSUME PoolInv, NEW c \in Calls, NEW p \in Returned, Answer(c, p)
    PROVE  PoolInv'
  <1>a. Names
    BY NamesHold DEF PoolInv
  <1>b. \A d \in Calls : Own(d)' = Own(d)
    BY DEF PoolInv, PoolTypeOK, AttemptInv, Own, Second, Answer
  <1> USE <1>a, <1>b DEF PoolInv, PoolTypeOK, Names, Answer, Return, pool, Goto,
     Hold, Returned
  <1>0. PoolTypeOK'
    BY DEF AttemptInv
  <1>1. OneCreatorPerAccount'
    BY DEF OneCreatorPerAccount
  <1>2. InitInv'
    BY DEF InitInv
  <1>3. WaitersHaveAnOwner'
    BY DEF WaitersHaveAnOwner
  <1>4. AttemptInv'
    BY DEF AttemptInv
  <1>5. FreshInv'
    BY DEF FreshInv
  <1>6. MadeInv'
    BY DEF MadeInv
  <1>7. StaleInv'
    BY DEF StaleInv
  <1>8. RefreshInv'
    BY DEF RefreshInv
  <1>9. QED
    BY <1>0, <1>1, <1>2, <1>3, <1>4, <1>5, <1>6, <1>7, <1>8

LEMMA FindStaleKeeps ==
    ASSUME PoolInv, NEW c \in Calls, FindStale(c)
    PROVE  PoolInv'
  <1>a. Names
    BY NamesHold DEF PoolInv
  <1>b. \A d \in Calls : Own(d)' = Own(d)
    BY DEF PoolInv, PoolTypeOK, AttemptInv, Own, Second, FindStale
  <1> USE <1>a, <1>b DEF PoolInv, PoolTypeOK, Names, FindStale, Goto, pool, Returned
  <1>0. PoolTypeOK'
    BY DEF AttemptInv
  <1>1. OneCreatorPerAccount'
    BY DEF OneCreatorPerAccount
  <1>2. InitInv'
    BY DEF InitInv
  <1>3. WaitersHaveAnOwner'
    BY DEF WaitersHaveAnOwner
  <1>4. AttemptInv'
    BY DEF AttemptInv
  <1>5. FreshInv'
    BY DEF FreshInv
  <1>6. MadeInv'
    BY DEF MadeInv
  <1>7. StaleInv'
    BY DEF StaleInv, MadeInv
  <1>8. RefreshInv'
    BY DEF RefreshInv
  <1>9. QED
    BY <1>0, <1>1, <1>2, <1>3, <1>4, <1>5, <1>6, <1>7, <1>8

LEMMA EvictClientKeeps ==
    ASSUME PoolInv, NEW c \in Calls, EvictClient(c)
    PROVE  PoolInv'
  <1>a. Names
    BY NamesHold DEF PoolInv
  <1>b. \A d \in Calls : Own(d)' = IF d = c THEN Second(c) ELSE Own(d)
    BY DEF PoolInv, PoolTypeOK, AttemptInv, Own, Second, EvictClient, Evicted
  <1> USE <1>a, <1>b DEF PoolInv, PoolTypeOK, Names, EvictClient, Evicted, Goto,
     Returned
  <1>0. PoolTypeOK'
    BY DEF AttemptInv
  <1>1. OneCreatorPerAccount'
    BY DEF OneCreatorPerAccount
  <1>2. InitInv'
    BY DEF InitInv
  <1>3. WaitersHaveAnOwner'
    BY DEF WaitersHaveAnOwner
  <1>4. AttemptInv'
    BY DEF AttemptInv
  <1>5. FreshInv'
    BY DEF FreshInv, AttemptInv
  <1>6. MadeInv'
    BY DEF MadeInv
  <1>7. StaleInv'
    BY DEF StaleInv
  <1>8. RefreshInv'
    BY DEF RefreshInv, StaleInv
  <1>9. QED
    BY <1>0, <1>1, <1>2, <1>3, <1>4, <1>5, <1>6, <1>7, <1>8

-----------------------------------------------------------------------------
(***************************************************************************)
(* Theorems.                                                               *)
(***************************************************************************)
LEMMA UnchangedKeeps == PoolInv /\ UNCHANGED poolVars => PoolInv'
  BY DEF PoolInv, poolVars, PoolTypeOK, OneCreatorPerAccount, InitInv, WaitersHaveAnOwner,
     AttemptInv, FreshInv, MadeInv, StaleInv, RefreshInv, Own, Second

LEMMA CancelKeeps ==
    ASSUME PoolInv, NEW cs \in SUBSET Calls, Cancel(cs)
    PROVE  PoolInv'
  BY DEF PoolInv, Cancel, pool, PoolTypeOK, OneCreatorPerAccount, InitInv, WaitersHaveAnOwner,
     AttemptInv, FreshInv, MadeInv, StaleInv, RefreshInv, Own, Second

LEMMA StepKeeps == PoolInv /\ [PoolNext]_poolVars => PoolInv'
  <1> SUFFICES ASSUME PoolInv, [PoolNext]_poolVars PROVE PoolInv'
    OBVIOUS
  <1>1. ASSUME NEW c \in Calls, Resolve(c) PROVE PoolInv'
    BY <1>1, ResolveKeeps
  <1>2. ASSUME NEW c \in Calls, CallStep(c) PROVE PoolInv'
    <2>1. CASE StartClientInit(c)
      BY <2>1, FindClientKeeps, JoinInitKeeps, OwnInitKeeps DEF StartClientInit
    <2>2. CASE \E e \in {"client", "error"} : FinishClientInit(c, e)
      BY <2>2, FinishClientInitKeeps
    <2>3. CASE TakeOutcome(c)
      BY <2>3, TakeOutcomeKeeps
    <2>4. CASE LeaveInit(c)
      BY <2>4, LeaveInitKeeps
    <2>5. CASE \E p \in Returned : Answer(c, p)
      BY <2>5, AnswerKeeps
    <2>6. CASE FindStale(c)
      BY <2>6, FindStaleKeeps
    <2>7. CASE EvictClient(c)
      BY <2>7, EvictClientKeeps
    <2>8. QED
      BY <1>2, <2>1, <2>2, <2>3, <2>4, <2>5, <2>6, <2>7 DEF CallStep
  <1>3. ASSUME NEW cs \in SUBSET Calls, Cancel(cs) PROVE PoolInv'
    BY <1>3, CancelKeeps
  <1>4. QED
    BY <1>1, <1>2, <1>3, UnchangedKeeps DEF PoolNext

\* The inductive invariant of the pool.
THEOREM PoolInvariant == PoolSpec => []PoolInv
  BY InitPoolInv, StepKeeps, PTL DEF PoolSpec

\* A client of an account is made by one call at a time (startClientInit).
THEOREM AccountHasOneCreator == PoolSpec => []OneCreatorPerAccount
  BY PoolInvariant, PTL DEF PoolInv

\* Every waiter's initialisation has ended or has its owner (finishClientInit).
THEOREM NoForgottenWaiter == PoolSpec => []WaitersHaveAnOwner
  BY PoolInvariant, PTL DEF PoolInv

LEMMA RefreshIsAnother == PoolInv => RefreshedIsAnother
  BY DEF PoolInv, RefreshInv, RefreshedIsAnother

\* A refresh does not get the stale client again (resolveWithRefreshedClient).
THEOREM StaleIsNotGivenAgain == PoolSpec => []RefreshedIsAnother
  BY PoolInvariant, RefreshIsAnother, PTL

LEMMA EvictsStale ==
    ASSUME PoolInv, [PoolNext]_poolVars, NEW a \in Accounts,
           clients[a] # NoClient, clients'[a] # clients[a]
    PROVE  \E c \in Calls : stale[c] = clients[a]
  <1>1. ASSUME NEW c \in Calls, StartClientInit(c) PROVE clients' = clients
    BY <1>1 DEF StartClientInit, FindClient, JoinInit, OwnInit, pool
  <1>2. ASSUME NEW c \in Calls, NEW e \in {"client", "error"}, FinishClientInit(c, e)
        PROVE  clients'[a] = clients[a]
    BY <1>2 DEF FinishClientInit, PoolInv, PoolTypeOK, OneCreatorPerAccount
  <1>3. ASSUME NEW c \in Calls, EvictClient(c) PROVE stale[c] = clients[a]
    BY <1>3 DEF EvictClient, Evicted, PoolInv, PoolTypeOK
  <1>4. QED
    BY <1>1, <1>2, <1>3 DEF PoolNext, CallStep, poolVars, pool, Resolve, TakeOutcome, LeaveInit,
       Answer, FindStale, Cancel

\* Only a client some call found stale leaves the pool (evictClient).
THEOREM LiveClientsStay == PoolSpec => OnlyStaleClientsLeave
  <1>1. PoolInv /\ [PoolNext]_poolVars
        => [\A a \in Accounts : clients[a] # NoClient /\ clients'[a] # clients[a] =>
               \E c \in Calls : stale[c] = clients[a]]_poolVars
    BY EvictsStale
  <1>2. QED
    BY <1>1, PoolInvariant, PTL DEF PoolSpec, OnlyStaleClientsLeave

-----------------------------------------------------------------------------
(***************************************************************************)
(* The fetch.                                                              *)
(***************************************************************************)
Ours(r) == running \cap CallsOf(r)

\* A worker waits or has a reference in hand.
WorkersAreCounted ==
    \A r \in Requests :
        /\ waiting[r] + Cardinality(Ours(r)) <= WorkerCount(r)
        /\ fetch[r] = "new" => waiting[r] = 0 /\ Ours(r) = {} /\ r \notin feeding

\* What was received was a value, and stays one.
ReceivedAreValues ==
    /\ \A c \in received : pc[c] = "ok"
    /\ \A r \in Requests : fetch[r] = "resolved" => CallsOf(r) \subseteq received

FetchInv == TypeOK /\ WorkersAreCounted /\ ReceivedAreValues

-----------------------------------------------------------------------------
(***************************************************************************)
(* Counting workers.                                                       *)
(***************************************************************************)
\* Between one worker and fetchLimit of them.
LEMMA WorkerCountBound ==
    ASSUME NEW r \in Requests
    PROVE  WorkerCount(r) \in Nat /\ WorkerCount(r) >= 1 /\ WorkerCount(r) <= FetchLimit
  <1>1. Cardinality(CallsOf(r)) \in Nat
    BY FetchAssumption, FS_Subset, FS_CardinalityType DEF CallsOf
  <1>2. ASSUME NEW m \in Nat, NEW n \in Nat PROVE Min({m, n}) = IF m <= n THEN m ELSE n
    BY DEF Min
  <1>3. ASSUME NEW m \in Nat, NEW n \in Nat PROVE Max({m, n}) = IF m >= n THEN m ELSE n
    BY DEF Max
  <1>4. QED
    BY <1>1, <1>2, <1>3, FetchAssumption DEF WorkerCount

LEMMA OursAreFinite ==
    ASSUME TypeOK, NEW r \in Requests
    PROVE  IsFiniteSet(Ours(r)) /\ Cardinality(Ours(r)) \in Nat
  BY FetchAssumption, FS_Subset, FS_CardinalityType DEF TypeOK, Ours

\* One reference more or less in hand.
LEMMA TakesOne ==
    ASSUME TypeOK, NEW c \in Calls, NEW r \in Requests, running' = running \cup {c}
    PROVE  /\ Cardinality(Ours(r)') \in Nat
           /\ Cardinality(Ours(r)') <= Cardinality(Ours(r)) + IF RequestOf[c] = r THEN 1 ELSE 0
  <1>1. IsFiniteSet(Ours(r)) /\ Cardinality(Ours(r)) \in Nat
    BY OursAreFinite
  <1>2. CASE RequestOf[c] = r
    <2>1. Ours(r)' = Ours(r) \cup {c}
      BY <1>2 DEF Ours, CallsOf
    <2>2. Cardinality(Ours(r) \cup {c}) \in {Cardinality(Ours(r)), Cardinality(Ours(r)) + 1}
      BY <1>1, FS_AddElement
    <2>3. QED
      BY <1>1, <1>2, <2>1, <2>2
  <1>3. CASE RequestOf[c] # r
    <2>1. Ours(r)' = Ours(r)
      BY <1>3 DEF Ours, CallsOf
    <2>2. QED
      BY <1>1, <1>3, <2>1
  <1>4. QED
    BY <1>2, <1>3

LEMMA LeavesOne ==
    ASSUME TypeOK, NEW c \in Calls, c \in running, NEW r \in Requests, running' = running \ {c}
    PROVE  /\ Cardinality(Ours(r)') \in Nat
           /\ Cardinality(Ours(r)') = Cardinality(Ours(r)) - IF RequestOf[c] = r THEN 1 ELSE 0
  <1>1. IsFiniteSet(Ours(r)) /\ Cardinality(Ours(r)) \in Nat
    BY OursAreFinite
  <1>2. CASE RequestOf[c] = r
    <2>1. Ours(r)' = Ours(r) \ {c} /\ c \in Ours(r)
      BY <1>2 DEF Ours, CallsOf
    <2>2. /\ Cardinality(Ours(r) \ {c}) = Cardinality(Ours(r)) - 1
          /\ Cardinality(Ours(r) \ {c}) \in Nat
      BY <1>1, <2>1, FS_RemoveElement, FS_CardinalityType
    <2>3. QED
      BY <1>1, <1>2, <2>1, <2>2
  <1>3. CASE RequestOf[c] # r
    <2>1. Ours(r)' = Ours(r)
      BY <1>3 DEF Ours, CallsOf
    <2>2. QED
      BY <1>1, <1>3, <2>1
  <1>4. QED
    BY <1>2, <1>3

-----------------------------------------------------------------------------
(***************************************************************************)
(* The fetch steps its pool.                                               *)
(***************************************************************************)
LEMMA PoolSteps == [Next]_vars => [PoolNext]_poolVars
  <1> SUFFICES ASSUME [Next]_vars PROVE [PoolNext]_poolVars
    OBVIOUS
  <1>1. ASSUME NEW c \in Calls, CallNext(c) PROVE [PoolNext]_poolVars
    BY <1>1 DEF CallNext, HandOver, Work, Send, DropResult, ReceiveValue, ReceiveError, EndFetch,
       PoolNext, CallsOf
  <1>2. ASSUME NEW r \in Requests, FetchNext(r) PROVE [PoolNext]_poolVars
    BY <1>2 DEF FetchNext, StartFetch, EndWorker, EndFeeder, CancelRequest, AbandonFetch,
       PoolNext, CallsOf
  <1>3. QED
    BY <1>1, <1>2 DEF Next, vars, poolVars

\* The calls of the fetch are calls of the pool (resolveUniqueRefs over pool.go).
THEOREM FetchUsesPool == Spec => PoolSpec
  <1>1. Init => PoolInit
    BY DEF Init
  <1>2. QED
    BY <1>1, PoolSteps, PTL DEF Spec, PoolSpec

\* So an account's client has one creator, whatever fetches share it.
THEOREM FetchesShareCreator == Spec => []OneCreatorPerAccount
  BY FetchUsesPool, AccountHasOneCreator, PTL

-----------------------------------------------------------------------------
(***************************************************************************)
(* Each step keeps the invariant.                                          *)
(***************************************************************************)
LEMMA InitFetchInv == Init => FetchInv
  <1> SUFFICES ASSUME Init PROVE FetchInv
    OBVIOUS
  <1>1. TypeOK
    BY InitPoolInv DEF Init, PoolInv, TypeOK
  <1>2. WorkersAreCounted
    BY <1>1, WorkerCountBound, FS_EmptySet DEF Init, WorkersAreCounted, Ours
  <1>3. ReceivedAreValues
    BY DEF Init, ReceivedAreValues
  <1>4. QED
    BY <1>1, <1>2, <1>3 DEF FetchInv

\* A value that was resolved stays resolved.
LEMMA ValuesStay ==
    ASSUME PoolTypeOK, [PoolNext]_poolVars, NEW c \in Calls, pc[c] = "ok"
    PROVE  pc'[c] = "ok"
  BY DEF PoolNext, PoolTypeOK, poolVars, pool, Resolve, CallStep, StartClientInit, FindClient,
     JoinInit, OwnInit, FinishClientInit, TakeOutcome, LeaveInit, Answer, FindStale, EvictClient, Cancel,
     Goto, Return, Returned

LEMMA CallKeepsTypes ==
    ASSUME TypeOK, NEW c \in Calls, CallNext(c), PoolTypeOK'
    PROVE  TypeOK'
  BY FetchAssumption DEF TypeOK, CallNext, HandOver, Work, Send, DropResult, Collect, ReceiveValue,
     ReceiveError, EndFetch, Ended, fetchVars

LEMMA FetchKeepsTypes ==
    ASSUME TypeOK, NEW r \in Requests, FetchNext(r), PoolTypeOK'
    PROVE  TypeOK'
  BY WorkerCountBound DEF TypeOK, FetchNext, StartFetch, EndWorker, EndFeeder, CancelRequest,
     AbandonFetch, Ended, fetchVars

LEMMA StepKeepsTypes == TypeOK /\ PoolTypeOK' /\ [Next]_vars => TypeOK'
  BY CallKeepsTypes, FetchKeepsTypes DEF Next, vars, TypeOK

\* A worker that takes a reference no longer waits, one that ends was counted.
LEMMA CallKeepsWorkers ==
    ASSUME TypeOK, WorkersAreCounted, NEW c \in Calls, CallNext(c), NEW r \in Requests
    PROVE  /\ waiting'[r] + Cardinality(Ours(r)') <= WorkerCount(r)
           /\ fetch'[r] = "new" => waiting'[r] = 0 /\ Ours(r)' = {} /\ r \notin feeding'
  <1>1. /\ waiting[r] \in Nat /\ Cardinality(Ours(r)) \in Nat /\ WorkerCount(r) \in Nat
        /\ waiting[r] + Cardinality(Ours(r)) <= WorkerCount(r)
        /\ fetch[r] = "new" => waiting[r] = 0 /\ Ours(r) = {} /\ r \notin feeding
    BY OursAreFinite, WorkerCountBound DEF TypeOK, WorkersAreCounted
  <1>2. /\ RequestOf[c] \in Requests
        /\ waiting \in [Requests -> Nat]
        /\ fetch \in [Requests -> {"new", "fetching"} \cup Ended]
    BY FetchAssumption DEF TypeOK
  <1>3. CASE HandOver(c)
    <2>1. /\ Cardinality(Ours(r)') \in Nat
          /\ Cardinality(Ours(r)') <= Cardinality(Ours(r)) + IF RequestOf[c] = r THEN 1 ELSE 0
      BY <1>3, TakesOne DEF HandOver
    <2>2. waiting'[r] = waiting[r] - IF RequestOf[c] = r THEN 1 ELSE 0
      BY <1>1, <1>2, <1>3 DEF HandOver
    <2>3. RequestOf[c] # r => Ours(r)' = Ours(r)
      BY <1>3 DEF HandOver, Ours, CallsOf
    <2>4. fetch' = fetch /\ feeding' = feeding /\ RequestOf[c] \in feeding
      BY <1>3 DEF HandOver
    <2>5. waiting'[r] + Cardinality(Ours(r)') <= WorkerCount(r)
      BY <1>1, <2>1, <2>2
    <2>6. QED
      BY <1>1, <2>2, <2>3, <2>4, <2>5
  <1>4. CASE Send(c)
    <2>1. /\ Cardinality(Ours(r)') \in Nat
          /\ Cardinality(Ours(r)') = Cardinality(Ours(r)) - IF RequestOf[c] = r THEN 1 ELSE 0
      BY <1>4, LeavesOne DEF Send
    <2>2. waiting'[r] = waiting[r] + IF RequestOf[c] = r THEN 1 ELSE 0
      BY <1>1, <1>2, <1>4 DEF Send
    <2>3. RequestOf[c] = r => Ours(r) # {}
      BY <1>4 DEF Send, Ours, CallsOf
    <2>4. fetch' = fetch /\ feeding' = feeding /\ Ours(r)' \subseteq Ours(r)
      BY <1>4 DEF Send, Ours
    <2>5. QED
      BY <1>1, <2>1, <2>2, <2>3, <2>4
  <1>5. CASE DropResult(c)
    <2>1. /\ Cardinality(Ours(r)') \in Nat
          /\ Cardinality(Ours(r)') <= Cardinality(Ours(r))
      BY <1>1, <1>5, LeavesOne DEF DropResult
    <2>2. waiting' = waiting /\ fetch' = fetch /\ feeding' = feeding /\ Ours(r)' \subseteq Ours(r)
      BY <1>5 DEF DropResult, Ours
    <2>3. QED
      BY <1>1, <2>1, <2>2
  <1>6. CASE Work(c) \/ ReceiveValue(c) \/ ReceiveError(c)
    <2>1. Ours(r)' = Ours(r) /\ waiting' = waiting /\ feeding' = feeding
      BY <1>6 DEF Work, ReceiveValue, ReceiveError, Collect, fetchVars, Ours
    <2>2. fetch'[r] = "new" => fetch[r] = "new"
      BY <1>2, <1>6 DEF Work, ReceiveValue, ReceiveError, EndFetch, fetchVars
    <2>3. QED
      BY <1>1, <2>1, <2>2
  <1>7. QED
    BY <1>3, <1>4, <1>5, <1>6 DEF CallNext

\* A fetch starts with its workers and none in hand; they end one by one.
LEMMA FetchKeepsWorkers ==
    ASSUME TypeOK, WorkersAreCounted, NEW q \in Requests, FetchNext(q), NEW r \in Requests
    PROVE  /\ waiting'[r] + Cardinality(Ours(r)') <= WorkerCount(r)
           /\ fetch'[r] = "new" => waiting'[r] = 0 /\ Ours(r)' = {} /\ r \notin feeding'
  <1>1. /\ waiting[r] \in Nat /\ Cardinality(Ours(r)) \in Nat /\ WorkerCount(r) \in Nat
        /\ waiting[r] + Cardinality(Ours(r)) <= WorkerCount(r)
        /\ fetch[r] = "new" => waiting[r] = 0 /\ Ours(r) = {} /\ r \notin feeding
    BY OursAreFinite, WorkerCountBound DEF TypeOK, WorkersAreCounted
  <1>2. waiting \in [Requests -> Nat] /\ fetch \in [Requests -> {"new", "fetching"} \cup Ended]
    BY DEF TypeOK
  <1>3. Ours(r)' = Ours(r)
    BY DEF FetchNext, StartFetch, EndWorker, EndFeeder, CancelRequest, AbandonFetch, fetchVars, Ours
  <1>4. CASE StartFetch(q)
    <2>1. waiting'[r] = IF q = r THEN WorkerCount(r) ELSE waiting[r]
      BY <1>2, <1>4 DEF StartFetch
    <2>2. q = r => Ours(r) = {} /\ fetch'[r] = "fetching"
      BY <1>1, <1>2, <1>4 DEF StartFetch
    <2>3. q # r => fetch'[r] = fetch[r] /\ (r \in feeding' => r \in feeding)
      BY <1>2, <1>4 DEF StartFetch
    <2>4. Cardinality({}) = 0
      BY FS_EmptySet
    <2>5. QED
      BY <1>1, <1>3, <2>1, <2>2, <2>3, <2>4
  <1>5. CASE EndWorker(q)
    <2>1. waiting'[r] = IF q = r THEN waiting[r] - 1 ELSE waiting[r]
      BY <1>2, <1>5 DEF EndWorker
    <2>2. q = r => waiting[r] > 0
      BY <1>5 DEF EndWorker
    <2>3. fetch' = fetch /\ feeding' = feeding
      BY <1>5 DEF EndWorker
    <2>4. QED
      BY <1>1, <1>3, <2>1, <2>2, <2>3
  <1>6. CASE EndFeeder(q) \/ CancelRequest(q) \/ AbandonFetch(q)
    <2>1. waiting' = waiting /\ feeding' \subseteq feeding
      BY <1>6 DEF EndFeeder, CancelRequest, AbandonFetch, fetchVars
    <2>2. fetch'[r] = "new" => fetch[r] = "new"
      BY <1>2, <1>6 DEF EndFeeder, CancelRequest, AbandonFetch, fetchVars
    <2>3. QED
      BY <1>1, <1>3, <2>1, <2>2
  <1>7. QED
    BY <1>4, <1>5, <1>6 DEF FetchNext

LEMMA WorkersStayCounted == TypeOK /\ WorkersAreCounted /\ [Next]_vars => WorkersAreCounted'
  <1> SUFFICES ASSUME TypeOK, WorkersAreCounted, [Next]_vars PROVE WorkersAreCounted'
    OBVIOUS
  <1>2. ASSUME NEW c \in Calls, CallNext(c) PROVE WorkersAreCounted'
    BY <1>2, CallKeepsWorkers DEF WorkersAreCounted
  <1>3. ASSUME NEW q \in Requests, FetchNext(q) PROVE WorkersAreCounted'
    BY <1>3, FetchKeepsWorkers DEF WorkersAreCounted
  <1>4. CASE UNCHANGED vars
    BY <1>4 DEF vars, WorkersAreCounted, Ours
  <1>5. QED
    BY <1>2, <1>3, <1>4 DEF Next

\* Only a value is received, and the last one completes the fetch.
LEMMA ValuesAreReceived ==
    ASSUME TypeOK, PoolTypeOK, ReceivedAreValues, [Next]_vars
    PROVE  ReceivedAreValues'
  <1>1. \A c \in Calls : pc[c] = "ok" => pc'[c] = "ok"
    BY PoolSteps, ValuesStay
  <1>2. received \subseteq Calls /\ fetch \in [Requests -> {"new", "fetching"} \cup Ended]
    BY DEF TypeOK
  <1>3. ASSUME NEW c \in Calls, ReceiveValue(c) PROVE ReceivedAreValues'
    <2>1. \A d \in received' : pc'[d] = "ok"
      BY <1>1, <1>2, <1>3 DEF ReceiveValue, ReceivedAreValues
    <2>2. ASSUME NEW r \in Requests, fetch'[r] = "resolved" PROVE CallsOf(r) \subseteq received'
      BY <1>2, <1>3, <2>2 DEF ReceiveValue, Collect, EndFetch, ReceivedAreValues
    <2>3. QED
      BY <2>1, <2>2 DEF ReceivedAreValues, CallsOf
  <1>4. ASSUME received' = received,
               \A r \in Requests : fetch'[r] = "resolved" => fetch[r] = "resolved"
        PROVE  ReceivedAreValues'
    BY <1>1, <1>2, <1>4 DEF ReceivedAreValues, CallsOf
  <1>5. ASSUME NEW c \in Calls, CallNext(c), ~ReceiveValue(c) PROVE ReceivedAreValues'
    BY <1>2, <1>4, <1>5 DEF CallNext, HandOver, Work, Send, DropResult, ReceiveError, Collect,
       EndFetch, fetchVars
  <1>6. ASSUME NEW r \in Requests, FetchNext(r) PROVE ReceivedAreValues'
    BY <1>2, <1>4, <1>6 DEF FetchNext, StartFetch, EndWorker, EndFeeder, CancelRequest,
       AbandonFetch, fetchVars
  <1>7. CASE UNCHANGED vars
    BY <1>4, <1>7 DEF vars
  <1>8. QED
    BY <1>3, <1>5, <1>6, <1>7 DEF Next

-----------------------------------------------------------------------------
(***************************************************************************)
(* Theorems.                                                               *)
(***************************************************************************)
LEMMA StepKeepsFetchInv == PoolInv /\ FetchInv /\ [Next]_vars => FetchInv'
  <1> SUFFICES ASSUME PoolInv, FetchInv, [Next]_vars PROVE FetchInv'
    OBVIOUS
  <1>1. TypeOK /\ WorkersAreCounted /\ ReceivedAreValues /\ PoolTypeOK
    BY DEF PoolInv, FetchInv
  <1>2. TypeOK'
    BY <1>1, PoolSteps, StepKeeps, StepKeepsTypes DEF PoolInv
  <1>3. WorkersAreCounted'
    BY <1>1, WorkersStayCounted
  <1>4. ReceivedAreValues'
    BY <1>1, ValuesAreReceived
  <1>5. QED
    BY <1>2, <1>3, <1>4 DEF FetchInv

\* The inductive invariant of the fetch, over that of the pool.
THEOREM FetchInvariant == Spec => []FetchInv
  <1>1. Spec => []PoolInv
    BY FetchUsesPool, PoolInvariant, PTL
  <1>2. QED
    BY <1>1, InitFetchInv, StepKeepsFetchInv, PTL DEF Spec

\* The variables of the fetch and its pool keep their types.
THEOREM FetchTypes == Spec => []TypeOK
  BY FetchInvariant, PTL DEF FetchInv

LEMMA ReceivedAllAreValues == FetchInv => ResolvedIsComplete
  BY DEF FetchInv, ReceivedAreValues, ResolvedIsComplete

\* A fetch that succeeds has a value for each of its references (fetchUniqueRefs).
THEOREM NoPartialFetch == Spec => []ResolvedIsComplete
  BY FetchInvariant, ReceivedAllAreValues, PTL

LEMMA WorkersBoundFetches == FetchInv => FetchesAreBounded
  <1> SUFFICES ASSUME FetchInv, NEW r \in Requests
               PROVE  Cardinality(running \cap CallsOf(r)) <= FetchLimit
    BY DEF FetchesAreBounded
  <1>1. waiting[r] \in Nat /\ Cardinality(Ours(r)) \in Nat
    BY OursAreFinite DEF FetchInv, TypeOK
  <1>2. waiting[r] + Cardinality(Ours(r)) <= WorkerCount(r)
    BY DEF FetchInv, WorkersAreCounted
  <1>3. Cardinality(Ours(r)) <= FetchLimit
    BY <1>1, <1>2, WorkerCountBound, FetchAssumption
  <1>4. QED
    BY <1>3 DEF Ours

\* No request has more references in flight than the limit (its workerCount workers).
THEOREM FetchesStayBounded == Spec => []FetchesAreBounded
  BY FetchInvariant, WorkersBoundFetches, PTL

-----------------------------------------------------------------------------
(***************************************************************************)
(* Nobody waits for ever.  ENABLED is out of the prover's reach: CanMove   *)
(* says of each step of Progress what it needs, in the words of its guard. *)
(***************************************************************************)
Busy == {"client", "creating", "waiting", "using", "stale"}

\* What Work needs: only a wait for a client that is still being made has to wait.
CallCanMove(c) ==
    \/ pc[c] \in Busy \ {"waiting"}
    \/ pc[c] = "waiting" /\ (outcome[held[c]] # "pending" \/ c \in cancelled)

\* What Send or DropResult need.
ResultCanGo(c) ==
    /\ pc[c] \in Returned
    /\ \/ ContextDone(RequestOf[c])
       \/ Cardinality(results \cap CallsOf(RequestOf[c])) < WorkerCount(RequestOf[c])

CanMove ==
    \/ \E c \in Calls :
          \/ c \in unfed /\ pc[c] = "idle" /\ RequestOf[c] \in feeding /\ waiting[RequestOf[c]] > 0
          \/ c \in running /\ (CallCanMove(c) \/ ResultCanGo(c))
          \/ c \in results /\ pc[c] \in Returned /\ fetch[RequestOf[c]] = "fetching"
    \/ \E r \in Requests :
          \/ waiting[r] > 0 /\ (r \notin feeding \/ ContextDone(r))
          \/ r \in feeding /\ (unfed \cap CallsOf(r) = {} \/ ContextDone(r))
          \/ fetch[r] = "fetching" /\ ContextDone(r)

\* A call that has begun is in some worker's hand until it has returned.
HandsInv ==
    \A c \in Calls :
        /\ c \in unfed => pc[c] = "idle"
        /\ c \in running => pc[c] # "idle"
        /\ c \in results => pc[c] \in Returned
        /\ pc[c] \in Busy => c \in running

\* Until its context is done a request loses no reference and no worker, and has
\* something left to receive.
KeepsInv ==
    \A r \in Requests :
        /\ fetch[r] = "new" => CallsOf(r) \subseteq unfed
        /\ fetch[r] \in Ended => ContextDone(r)
        /\ ~ContextDone(r) => CallsOf(r) \subseteq unfed \cup running \cup results \cup received
        /\ ~ContextDone(r) /\ fetch[r] = "fetching" =>
              /\ ~(CallsOf(r) \subseteq received)
              /\ r \notin feeding => unfed \cap CallsOf(r) = {}
              /\ r \in feeding => waiting[r] + Cardinality(Ours(r)) >= WorkerCount(r)

MoveInv == HandsInv /\ KeepsInv

\* One step of a call that has begun.
LEMMA CallMoves ==
    ASSUME PoolTypeOK, NEW c \in Calls, CallStep(c)
    PROVE  /\ pc[c] \in Busy /\ cancelled' = cancelled
           /\ \E p \in Busy \cup Returned : pc' = [pc EXCEPT ![c] = p]
  <1>1. CASE StartClientInit(c)
    BY <1>1 DEF StartClientInit, FindClient, JoinInit, OwnInit, Goto, Busy
  <1>2. ASSUME NEW e \in {"client", "error"}, FinishClientInit(c, e)
        PROVE  /\ pc[c] \in Busy /\ cancelled' = cancelled
               /\ \E p \in Busy \cup Returned : pc' = [pc EXCEPT ![c] = p]
    BY <1>2 DEF FinishClientInit, Goto, Return, Busy, Returned
  <1>3. CASE TakeOutcome(c) \/ LeaveInit(c)
    BY <1>3 DEF TakeOutcome, LeaveInit, Goto, Return, Busy, Returned
  <1>4. CASE \E p \in Returned : Answer(c, p)
    BY <1>4 DEF Answer, Goto, Return, Busy, Returned
  <1>5. CASE FindStale(c) \/ EvictClient(c)
    BY <1>5 DEF FindStale, EvictClient, Goto, Busy
  <1>6. QED
    BY <1>1, <1>2, <1>3, <1>4, <1>5 DEF CallStep

LEMMA InitMoveInv == Init => MoveInv
  BY DEF Init, PoolInit, MoveInv, HandsInv, KeepsInv, CallsOf, Busy, Ended

\* Whoever takes a reference keeps it until its call has returned.
LEMMA HandsKept == TypeOK /\ HandsInv /\ [Next]_vars => HandsInv'
  <1> SUFFICES ASSUME TypeOK, HandsInv, [Next]_vars PROVE HandsInv'
    OBVIOUS
  <1>1. /\ pc \in [Calls -> {"idle"} \cup Busy \cup Returned] /\ PoolTypeOK
        /\ unfed \subseteq Calls /\ running \subseteq Calls
        /\ results \subseteq Calls /\ received \subseteq Calls
    BY DEF TypeOK, PoolTypeOK, Busy
  <1>2. ASSUME NEW c \in Calls, HandOver(c) PROVE HandsInv'
    BY <1>1, <1>2 DEF HandOver, Resolve, Goto, HandsInv, Busy, Returned
  <1>3. ASSUME NEW c \in Calls, Work(c) PROVE HandsInv'
    <2>1. PICK p \in Busy \cup Returned : pc' = [pc EXCEPT ![c] = p]
      BY <1>1, <1>3, CallMoves DEF Work
    <2>2. /\ c \in running /\ pc[c] \in Busy
          /\ UNCHANGED <<unfed, running, results>>
      BY <1>1, <1>3, CallMoves DEF Work, fetchVars
    <2>3. QED
      BY <1>1, <2>1, <2>2 DEF HandsInv, Busy, Returned
  <1>4. ASSUME NEW c \in Calls, Send(c) \/ DropResult(c) PROVE HandsInv'
    <2>1. /\ pc' = pc /\ unfed' = unfed /\ running' = running \ {c}
          /\ results' \subseteq results \cup {c} /\ pc[c] \in Returned
      BY <1>4 DEF Send, DropResult, poolVars
    <2>2. QED
      BY <1>1, <2>1 DEF HandsInv, Busy, Returned
  <1>5. ASSUME UNCHANGED <<pc, unfed, running>>, results' \subseteq results PROVE HandsInv'
    BY <1>5 DEF HandsInv
  <1>6. ASSUME NEW c \in Calls, ReceiveValue(c) \/ ReceiveError(c) PROVE HandsInv'
    BY <1>5, <1>6 DEF ReceiveValue, ReceiveError, Collect, EndFetch, Cancel, poolVars
  <1>7. ASSUME NEW r \in Requests, FetchNext(r) PROVE HandsInv'
    BY <1>5, <1>7 DEF FetchNext, StartFetch, EndWorker, EndFeeder, CancelRequest, AbandonFetch,
       Cancel, fetchVars, poolVars
  <1>8. CASE UNCHANGED vars
    BY <1>5, <1>8 DEF vars
  <1>9. QED
    BY <1>2, <1>3, <1>4, <1>6, <1>7, <1>8 DEF Next, CallNext

\* The steps of calls: a reference goes from hand to hand, a worker with it.
LEMMA CallKeeps ==
    ASSUME TypeOK, HandsInv, KeepsInv, ReceivedAreValues, WorkersAreCounted,
           NEW c \in Calls, CallNext(c)
    PROVE  KeepsInv'
  <1>1. /\ RequestOf[c] \in Requests
        /\ waiting \in [Requests -> Nat]
        /\ fetch \in [Requests -> {"new", "fetching"} \cup Ended]
        /\ unfed \subseteq Calls /\ running \subseteq Calls
        /\ results \subseteq Calls /\ received \subseteq Calls
        /\ cancelled \subseteq Calls /\ PoolTypeOK
    BY FetchAssumption DEF TypeOK, PoolTypeOK
  <1>2. \A r \in Requests : WorkerCount(r) \in Nat /\ Cardinality(Ours(r)) \in Nat
    BY WorkerCountBound, OursAreFinite
  <1>3. CASE HandOver(c)
    <2>1. /\ UNCHANGED <<fetch, feeding, results, received, cancelled>>
          /\ unfed' = unfed \ {c} /\ running' = running \cup {c} /\ c \notin running
          /\ RequestOf[c] \in feeding
          /\ waiting' = [waiting EXCEPT ![RequestOf[c]] = @ - 1]
      BY <1>3 DEF HandOver, Resolve, HandsInv
    <2> SUFFICES ASSUME NEW r \in Requests
                 PROVE  /\ fetch[r] = "new" => CallsOf(r) \subseteq unfed'
                        /\ fetch[r] \in Ended => ContextDone(r)
                        /\ ~ContextDone(r) =>
                              CallsOf(r) \subseteq unfed' \cup running' \cup results \cup received
                        /\ ~ContextDone(r) /\ fetch[r] = "fetching" =>
                              /\ ~(CallsOf(r) \subseteq received)
                              /\ r \notin feeding => unfed' \cap CallsOf(r) = {}
                              /\ r \in feeding => waiting'[r] + Cardinality(Ours(r)') >= WorkerCount(r)
      BY <2>1 DEF KeepsInv, ContextDone
    <2>2. fetch[r] = "new" => r # RequestOf[c]
      BY <2>1 DEF WorkersAreCounted
    <2>3. waiting'[r] + Cardinality(Ours(r)') >= waiting[r] + Cardinality(Ours(r))
      <3>1. CASE RequestOf[c] = r
        <4>1. Ours(r)' = Ours(r) \cup {c} /\ c \notin Ours(r)
          BY <2>1, <3>1 DEF Ours, CallsOf
        <4>2. Cardinality(Ours(r) \cup {c}) = Cardinality(Ours(r)) + 1
          BY <4>1, OursAreFinite, FS_AddElement
        <4>3. waiting[r] \in Nat /\ waiting'[r] = waiting[r] - 1
          BY <1>1, <2>1, <3>1
        <4>4. QED
          BY <1>2, <4>1, <4>2, <4>3
      <3>2. CASE RequestOf[c] # r
        <4>1. Ours(r)' = Ours(r) /\ waiting'[r] = waiting[r] /\ waiting[r] \in Nat
          BY <1>1, <2>1, <3>2 DEF Ours, CallsOf
        <4>2. QED
          BY <1>2, <4>1
      <3>3. QED
        BY <3>1, <3>2
    <2>4. r \in feeding /\ ~ContextDone(r) /\ fetch[r] = "fetching"
          => waiting'[r] + Cardinality(Ours(r)') >= WorkerCount(r)
      <3>1. waiting'[r] \in Int /\ Cardinality(Ours(r)') \in Nat
        <4>1. waiting'[r] \in Int
          BY <1>1, <2>1
        <4>2. Cardinality(Ours(r)') \in Nat
          BY <2>1, TakesOne
        <4>3. QED
          BY <4>1, <4>2
      <3>2. waiting[r] \in Nat
        BY <1>1
      <3>3. r \in feeding /\ ~ContextDone(r) /\ fetch[r] = "fetching"
            => waiting[r] + Cardinality(Ours(r)) >= WorkerCount(r)
        BY DEF KeepsInv
      <3>4. QED
        BY <1>2, <2>3, <3>1, <3>2, <3>3
    <2>5. /\ fetch[r] = "new" => CallsOf(r) \subseteq unfed'
          /\ fetch[r] \in Ended => ContextDone(r)
          /\ ~ContextDone(r) =>
                CallsOf(r) \subseteq unfed' \cup running' \cup results \cup received
      BY <2>1, <2>2 DEF KeepsInv, CallsOf
    <2>6. ~ContextDone(r) /\ fetch[r] = "fetching" =>
             /\ ~(CallsOf(r) \subseteq received)
             /\ r \notin feeding => unfed' \cap CallsOf(r) = {}
      BY <2>1 DEF KeepsInv
    <2>7. QED
      BY <2>4, <2>5, <2>6
  <1>4. CASE Work(c)
    BY <1>1, <1>4, CallMoves DEF Work, fetchVars, KeepsInv, ContextDone, Ours
  <1>5. CASE Send(c)
    <2>1. /\ UNCHANGED <<fetch, feeding, unfed, received, cancelled>> /\ c \in running
          /\ running' = running \ {c} /\ results' = results \cup {c}
          /\ waiting' = [waiting EXCEPT ![RequestOf[c]] = @ + 1]
      BY <1>5 DEF Send, poolVars
    <2> SUFFICES ASSUME NEW r \in Requests
                 PROVE  /\ ~ContextDone(r) =>
                              CallsOf(r) \subseteq unfed \cup running' \cup results' \cup received
                        /\ waiting'[r] + Cardinality(Ours(r)') = waiting[r] + Cardinality(Ours(r))
      BY <2>1 DEF KeepsInv, ContextDone
    <2>2. ~ContextDone(r) => CallsOf(r) \subseteq unfed \cup running' \cup results' \cup received
      BY <2>1 DEF KeepsInv
    <2>3. /\ Cardinality(Ours(r)') \in Nat
          /\ Cardinality(Ours(r)') = Cardinality(Ours(r)) - IF RequestOf[c] = r THEN 1 ELSE 0
      BY <2>1, LeavesOne
    <2>4. waiting[r] \in Nat /\ waiting'[r] = waiting[r] + IF RequestOf[c] = r THEN 1 ELSE 0
      BY <1>1, <2>1
    <2>5. waiting'[r] + Cardinality(Ours(r)') = waiting[r] + Cardinality(Ours(r))
      BY <1>2, <2>3, <2>4
    <2>6. QED
      BY <2>2, <2>5
  <1>6. CASE DropResult(c)
    <2>1. /\ UNCHANGED <<fetch, waiting, feeding, unfed, results, received, cancelled>>
          /\ running' = running \ {c} /\ ContextDone(RequestOf[c])
      BY <1>6 DEF DropResult, poolVars
    <2>2. \A r \in Requests : ~ContextDone(r) => c \notin CallsOf(r) /\ Ours(r)' = Ours(r)
      BY <2>1 DEF CallsOf, Ours
    <2>3. QED
      BY <2>1, <2>2 DEF KeepsInv, ContextDone
  <1>7. CASE ReceiveValue(c)
    <2>1. /\ UNCHANGED <<waiting, feeding, unfed, running>>
          /\ received' = received \cup {c} /\ results' = results \ {c} /\ c \in results
          /\ fetch[RequestOf[c]] = "fetching"
      BY <1>7 DEF ReceiveValue, Collect
    <2>2. cancelled \subseteq cancelled'
      BY <1>7 DEF ReceiveValue, EndFetch, Cancel, poolVars
    <2>3. CASE CallsOf(RequestOf[c]) \subseteq received'
      <3>1. fetch' = [fetch EXCEPT ![RequestOf[c]] = "resolved"] /\ ContextDone(RequestOf[c])'
        BY <1>7, <2>3 DEF ReceiveValue, EndFetch, Cancel, ContextDone, CallsOf
      <3>2. \A r \in Requests : r # RequestOf[c] =>
               /\ fetch'[r] = fetch[r] /\ Ours(r)' = Ours(r)
               /\ c \notin CallsOf(r)
               /\ ContextDone(r) => ContextDone(r)'
        BY <1>1, <2>1, <2>2, <3>1 DEF CallsOf, Ours, ContextDone
      <3>3. fetch'[RequestOf[c]] = "resolved"
        BY <1>1, <3>1
      <3>4. QED
        BY <1>1, <2>1, <3>1, <3>2, <3>3 DEF KeepsInv, Ended
    <2>4. CASE ~(CallsOf(RequestOf[c]) \subseteq received')
      <3>1. fetch' = fetch /\ cancelled' = cancelled
        BY <1>7, <2>4 DEF ReceiveValue, poolVars
      <3>2. \A r \in Requests : r # RequestOf[c] => c \notin CallsOf(r)
        BY DEF CallsOf
      <3>3. \A r \in Requests : fetch[r] = "fetching" /\ ~(CallsOf(r) \subseteq received)
                                => ~(CallsOf(r) \subseteq received')
        BY <2>1, <2>4, <3>2
      <3>4. QED
        BY <2>1, <3>1, <3>3 DEF KeepsInv, ContextDone, Ours
    <2>5. QED
      BY <2>3, <2>4
  <1>8. CASE ReceiveError(c)
    <2>1. /\ UNCHANGED <<waiting, feeding, unfed, running, received>>
          /\ results' = results \ {c}
          /\ fetch' = [fetch EXCEPT ![RequestOf[c]] = "failed"]
          /\ cancelled' = cancelled \cup CallsOf(RequestOf[c])
      BY <1>8 DEF ReceiveError, Collect, EndFetch, Cancel
    <2>2. ContextDone(RequestOf[c])' /\ fetch'[RequestOf[c]] = "failed"
      BY <1>1, <2>1 DEF ContextDone, CallsOf
    <2>3. \A r \in Requests : r # RequestOf[c] =>
             /\ fetch'[r] = fetch[r] /\ Ours(r)' = Ours(r)
             /\ c \notin CallsOf(r)
             /\ ContextDone(r) => ContextDone(r)'
      BY <1>1, <2>1 DEF CallsOf, Ours, ContextDone
    <2>4. QED
      BY <1>1, <2>1, <2>2, <2>3 DEF KeepsInv, Ended
  <1>9. QED
    BY <1>3, <1>4, <1>5, <1>6, <1>7, <1>8 DEF CallNext

\* The steps of a request, its feeder and its workers.
LEMMA FetchKeeps ==
    ASSUME TypeOK, HandsInv, KeepsInv, ReceivedAreValues, WorkersAreCounted,
           NEW q \in Requests, FetchNext(q)
    PROVE  KeepsInv'
  <1>1. /\ waiting \in [Requests -> Nat]
        /\ fetch \in [Requests -> {"new", "fetching"} \cup Ended]
    BY DEF TypeOK
  <1>2. \A r \in Requests : WorkerCount(r) \in Nat /\ Cardinality(Ours(r)) \in Nat
    BY WorkerCountBound, OursAreFinite
  <1>3. /\ UNCHANGED <<unfed, running, results, received>>
        /\ \A r \in Requests : Ours(r)' = Ours(r)
    BY DEF FetchNext, StartFetch, EndWorker, EndFeeder, CancelRequest, AbandonFetch, fetchVars, Ours
  <1>4. CASE StartFetch(q)
    <2>1. /\ fetch' = [fetch EXCEPT ![q] = "fetching"] /\ feeding' = feeding \cup {q}
          /\ waiting' = [waiting EXCEPT ![q] = WorkerCount(q)]
          /\ cancelled' = cancelled /\ fetch[q] = "new"
      BY <1>4 DEF StartFetch, poolVars
    <2>2. CallsOf(q) \subseteq received => ContextDone(q)
      <3>1. CallsOf(q) \subseteq unfed
        BY <2>1 DEF KeepsInv
      <3>2. \A c \in CallsOf(q) : c \notin received
        BY <3>1 DEF HandsInv, ReceivedAreValues, CallsOf
      <3>3. QED
        BY <3>2 DEF ContextDone
    <2>3. waiting'[q] + Cardinality(Ours(q)) >= WorkerCount(q)
      BY <1>1, <1>2, <2>1
    <2>4. \A r \in Requests : r # q => fetch'[r] = fetch[r] /\ waiting'[r] = waiting[r]
      BY <1>1, <2>1
    <2>5. fetch'[q] = "fetching"
      BY <1>1, <2>1
    <2>6. QED
      BY <1>3, <2>1, <2>2, <2>3, <2>4, <2>5 DEF KeepsInv, ContextDone, Ended
  <1>5. CASE EndWorker(q)
    <2>1. /\ UNCHANGED <<fetch, feeding, cancelled>>
          /\ waiting' = [waiting EXCEPT ![q] = @ - 1]
          /\ q \notin feeding \/ ContextDone(q)
      BY <1>5 DEF EndWorker, poolVars
    <2>2. \A r \in Requests : r # q => waiting'[r] = waiting[r]
      BY <1>1, <2>1
    <2>3. QED
      BY <1>3, <2>1, <2>2 DEF KeepsInv, ContextDone
  <1>6. CASE EndFeeder(q)
    <2>1. /\ UNCHANGED <<fetch, waiting, cancelled>> /\ feeding' = feeding \ {q}
          /\ unfed \cap CallsOf(q) = {} \/ ContextDone(q)
      BY <1>6 DEF EndFeeder, poolVars
    <2>2. QED
      BY <1>3, <2>1 DEF KeepsInv, ContextDone
  <1>7. CASE CancelRequest(q)
    <2>1. UNCHANGED <<fetch, waiting, feeding>> /\ cancelled \subseteq cancelled'
      BY <1>7 DEF CancelRequest, Cancel, fetchVars
    <2>2. \A r \in Requests : ContextDone(r) => ContextDone(r)'
      BY <2>1 DEF ContextDone
    <2>3. QED
      BY <1>3, <2>1, <2>2 DEF KeepsInv
  <1>8. CASE AbandonFetch(q)
    <2>1. /\ fetch' = [fetch EXCEPT ![q] = "abandoned"] /\ ContextDone(q)
          /\ UNCHANGED <<waiting, feeding, cancelled>>
      BY <1>8 DEF AbandonFetch, poolVars
    <2>2. fetch'[q] = "abandoned" /\ \A r \in Requests : r # q => fetch'[r] = fetch[r]
      BY <1>1, <2>1
    <2>3. QED
      BY <1>3, <2>1, <2>2 DEF KeepsInv, ContextDone, Ended
  <1>9. QED
    BY <1>4, <1>5, <1>6, <1>7, <1>8 DEF FetchNext

LEMMA MoveKept == FetchInv /\ MoveInv /\ [Next]_vars => MoveInv'
  <1> SUFFICES ASSUME FetchInv, MoveInv, [Next]_vars PROVE MoveInv'
    OBVIOUS
  <1>1. TypeOK /\ WorkersAreCounted /\ ReceivedAreValues /\ HandsInv /\ KeepsInv
    BY DEF FetchInv, MoveInv
  <1>2. HandsInv'
    BY <1>1, HandsKept
  <1>3. ASSUME NEW c \in Calls, CallNext(c) PROVE KeepsInv'
    BY <1>1, <1>3, CallKeeps
  <1>4. ASSUME NEW r \in Requests, FetchNext(r) PROVE KeepsInv'
    BY <1>1, <1>4, FetchKeeps
  <1>5. ASSUME UNCHANGED vars PROVE KeepsInv'
    BY <1>1, <1>5 DEF vars, KeepsInv, ContextDone, Ours
  <1>6. KeepsInv'
    BY <1>3, <1>4, <1>5 DEF Next
  <1>7. QED
    BY <1>2, <1>6 DEF MoveInv

\* Somebody can move while a request, its feeder or a worker is there.  A reference in
\* hand moves itself, or whoever makes the client it waits for does, or the request
\* that must make room in its channel; without one, the feeder finds a worker.
LEMMA InHandCanMove ==
    ASSUME PoolInv, FetchInv, MoveInv, NEW c \in running
    PROVE  CanMove
  <1>1. c \in Calls /\ RequestOf[c] \in Requests /\ pc[c] \in Busy \cup Returned
    BY FetchAssumption DEF FetchInv, TypeOK, PoolTypeOK, MoveInv, HandsInv, Busy, Returned
  <1>2. CASE pc[c] = "waiting" /\ outcome[held[c]] = "pending"
    <2>1. PICK d \in Calls : pc[d] = "creating"
      BY <1>1, <1>2 DEF PoolInv, WaitersHaveAnOwner
    <2>2. d \in running /\ CallCanMove(d)
      BY <2>1 DEF MoveInv, HandsInv, Busy, CallCanMove
    <2>3. QED
      BY <2>2 DEF CanMove
  <1>3. CASE pc[c] \in Busy /\ ~(pc[c] = "waiting" /\ outcome[held[c]] = "pending")
    BY <1>1, <1>3 DEF CanMove, CallCanMove, Busy
  <1>4. CASE pc[c] \in Returned
    <2>1. CASE ResultCanGo(c)
      BY <1>1, <2>1 DEF CanMove
    <2>2. CASE ~ResultCanGo(c)
      <3> DEFINE q == RequestOf[c]
      <3>1. ~ContextDone(q) /\ ~(Cardinality(results \cap CallsOf(q)) < WorkerCount(q))
        BY <1>4, <2>2 DEF ResultCanGo
      <3>2. results \cap CallsOf(q) # {}
        <4>1. WorkerCount(q) \in Nat /\ WorkerCount(q) >= 1
          BY <1>1, WorkerCountBound
        <4>2. Cardinality({}) = 0
          BY FS_EmptySet
        <4>3. QED
          BY <3>1, <4>1, <4>2
      <3>3. PICK d \in Calls : d \in results /\ RequestOf[d] = q
        BY <3>2 DEF CallsOf
      <3>4. c \in Ours(q)
        BY <1>1 DEF Ours, CallsOf
      <3>5. fetch[q] = "fetching"
        BY <1>1, <3>1, <3>4 DEF FetchInv, TypeOK, WorkersAreCounted, MoveInv, KeepsInv
      <3>6. pc[d] \in Returned
        BY <3>3 DEF MoveInv, HandsInv
      <3>7. QED
        BY <3>3, <3>5, <3>6 DEF CanMove
    <2>3. QED
      BY <2>1, <2>2
  <1>5. QED
    BY <1>1, <1>2, <1>3, <1>4

LEMMA IdleCanMove ==
    ASSUME FetchInv, MoveInv, running = {}, NEW r \in Requests, fetch[r] # "new", ~Quiet(r)
    PROVE  CanMove
  <1>1. /\ waiting[r] \in Nat /\ WorkerCount(r) \in Nat /\ WorkerCount(r) >= 1
        /\ fetch[r] \in {"new", "fetching"} \cup Ended
    BY WorkerCountBound DEF FetchInv, TypeOK
  <1>2. CASE ContextDone(r)
    BY <1>1, <1>2 DEF Quiet, CanMove
  <1>3. CASE ~ContextDone(r)
    <2>1. fetch[r] = "fetching"
      BY <1>1, <1>3 DEF MoveInv, KeepsInv
    <2>2. /\ ~(CallsOf(r) \subseteq received)
          /\ CallsOf(r) \subseteq unfed \cup results \cup received
          /\ r \notin feeding => unfed \cap CallsOf(r) = {}
          /\ r \in feeding => waiting[r] + Cardinality(Ours(r)) >= WorkerCount(r)
      BY <1>3, <2>1 DEF MoveInv, KeepsInv
    <2>3. CASE r \in feeding /\ unfed \cap CallsOf(r) # {}
      <3>1. Cardinality(Ours(r)) = 0
        BY FS_EmptySet DEF Ours
      <3>2. waiting[r] > 0
        BY <1>1, <2>2, <2>3, <3>1
      <3>3. PICK c \in Calls : c \in unfed /\ RequestOf[c] = r
        BY <2>3 DEF CallsOf
      <3>4. pc[c] = "idle"
        BY <3>3 DEF MoveInv, HandsInv
      <3>5. QED
        BY <2>3, <3>2, <3>3, <3>4 DEF CanMove
    <2>4. CASE r \in feeding /\ unfed \cap CallsOf(r) = {}
      BY <2>4 DEF CanMove
    <2>5. CASE r \notin feeding
      <3>1. PICK c \in Calls : c \in results /\ RequestOf[c] = r
        BY <2>2, <2>5 DEF CallsOf
      <3>2. pc[c] \in Returned
        BY <3>1 DEF MoveInv, HandsInv
      <3>3. QED
        BY <2>1, <3>1, <3>2 DEF CanMove
    <2>6. QED
      BY <2>3, <2>4, <2>5
  <1>4. QED
    BY <1>2, <1>3

\* NobodyIsStuck with the guards in the place of ENABLED: no deadlock of feeder,
\* workers, request and the calls that wait for one another's client (fetchUniqueRefs,
\* waitForDesktopPoolInit), for any number of them.
THEOREM SomebodyCanMove ==
    Spec => [](\A r \in Requests : fetch[r] # "new" /\ ~Quiet(r) => CanMove)
  <1>1. PoolInv /\ FetchInv /\ MoveInv
        => \A r \in Requests : fetch[r] # "new" /\ ~Quiet(r) => CanMove
    BY InHandCanMove, IdleCanMove
  <1>2. Spec => []PoolInv
    BY FetchUsesPool, PoolInvariant, PTL
  <1>3. Spec => []MoveInv
    BY FetchInvariant, InitMoveInv, MoveKept, PTL DEF Spec
  <1>4. QED
    BY <1>1, <1>2, <1>3, FetchInvariant, PTL
=============================================================================
