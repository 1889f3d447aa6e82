----------------------------- MODULE DesktopPool -----------------------------
(***************************************************************************)
(* The pool of 1Password desktop clients (internal/opresolver/pool.go):    *)
(* one client per account, created by the first call that needs it while   *)
(* the others wait, and replaced once by a call that finds it stale.       *)
(*                                                                         *)
(* A call is one Resolve or DescribeItem.  It asks for a client at most    *)
(* twice, and may have to create it: an initialisation, and the client it  *)
(* makes, are named after the call and the attempt.                        *)
(***************************************************************************)
EXTENDS Naturals

CONSTANTS Calls, Accounts,
          AccountOf,   \* the account a call is for
          NoClient

Clients == Calls \X {1, 2}

ASSUME PoolAssumption ==
    /\ AccountOf \in [Calls -> Accounts]
    /\ NoClient \notin Clients

VARIABLES
    clients,    \* p.clients
    inits,      \* p.inits: the initialisation under way
    outcome,    \* how an initialisation ended; "pending" while done is not closed
    pc,         \* where each call is
    attempt,    \* its first client, or the one that replaces a stale one
    held,       \* the client it uses, or the initialisation it makes or awaits
    stale,      \* the client it found stale
    cancelled   \* calls whose context is done

pool     == <<clients, inits, outcome>>
poolVars == <<clients, inits, outcome, pc, attempt, held, stale, cancelled>>

Returned == {"ok", "failed"}

PoolTypeOK ==
    /\ clients \in [Accounts -> Clients \cup {NoClient}]
    /\ inits \in [Accounts -> Clients \cup {NoClient}]
    /\ outcome \in [Clients -> {"pending", "client", "error"}]
    /\ pc \in [Calls -> {"idle", "client", "creating", "waiting", "using", "stale"} \cup Returned]
    /\ attempt \in [Calls -> {1, 2}]
    /\ held \in [Calls -> Clients \cup {NoClient}]
    /\ stale \in [Calls -> Clients \cup {NoClient}]
    /\ cancelled \in SUBSET Calls

PoolInit ==
    /\ clients = [a \in Accounts |-> NoClient]
    /\ inits = [a \in Accounts |-> NoClient]
    /\ outcome = [i \in Clients |-> "pending"]
    /\ pc = [c \in Calls |-> "idle"]
    /\ attempt = [c \in Calls |-> 1]
    /\ held = [c \in Calls |-> NoClient]
    /\ stale = [c \in Calls |-> NoClient]
    /\ cancelled = {}

Goto(c, p)   == pc' = [pc EXCEPT ![c] = p]
Hold(c, i)   == held' = [held EXCEPT ![c] = i]
Own(c)       == <<c, attempt[c]>>

\* The call is over, and its locals with it.
Return(c, p) ==
    /\ Goto(c, p)
    /\ Hold(c, NoClient)
    /\ stale' = [stale EXCEPT ![c] = NoClient]

Resolve(c) ==
    /\ pc[c] = "idle"
    /\ Goto(c, "client")
    /\ UNCHANGED <<pool, attempt, held, stale, cancelled>>

-----------------------------------------------------------------------------
(***************************************************************************)
(* client: startClientInit, then the client itself, a wait or a creation.  *)
(***************************************************************************)
FindClient(c) ==
    /\ clients[AccountOf[c]] # NoClient
    /\ Hold(c, clients[AccountOf[c]])
    /\ Goto(c, "using")
    /\ UNCHANGED pool

JoinInit(c) ==
    /\ clients[AccountOf[c]] = NoClient
    /\ inits[AccountOf[c]] # NoClient
    /\ Hold(c, inits[AccountOf[c]])
    /\ Goto(c, "waiting")
    /\ UNCHANGED pool

\* Faulty: whoever finds no client creates one.
OwnAnyway(c) ==
    /\ clients[AccountOf[c]] = NoClient
    /\ inits' = [inits EXCEPT ![AccountOf[c]] = Own(c)]
    /\ Hold(c, Own(c))
    /\ Goto(c, "creating")
    /\ UNCHANGED <<clients, outcome>>

OwnInit(c) ==
    /\ clients[AccountOf[c]] = NoClient
    /\ inits[AccountOf[c]] = NoClient
    /\ inits' = [inits EXCEPT ![AccountOf[c]] = Own(c)]
    /\ Hold(c, Own(c))
    /\ Goto(c, "creating")
    /\ UNCHANGED <<clients, outcome>>

StartClientInit(c) ==
    /\ pc[c] = "client"
    /\ FindClient(c) \/ JoinInit(c) \/ OwnInit(c)
    /\ UNCHANGED <<attempt, stale, cancelled>>

\* createClient returns a client or an error (of the SDK, of its timeout, of the
\* context), and finishClientInit publishes it.
FinishClientInit(c, ending) ==
    /\ pc[c] = "creating"
    /\ clients' = IF ending = "client" THEN [clients EXCEPT ![AccountOf[c]] = Own(c)] ELSE clients
    /\ inits' = [inits EXCEPT ![AccountOf[c]] = NoClient]
    /\ outcome' = [outcome EXCEPT ![Own(c)] = ending]
    /\ IF ending = "client"
       THEN Goto(c, "using") /\ UNCHANGED <<held, stale>>
       ELSE Return(c, "failed")
    /\ UNCHANGED <<attempt, cancelled>>

\* waitForDesktopPoolInit: a waiter shares the owner's client, or its error ...
TakeOutcome(c) ==
    /\ pc[c] = "waiting"
    /\ outcome[held[c]] # "pending"
    /\ IF outcome[held[c]] = "client"
       THEN Goto(c, "using") /\ UNCHANGED <<held, stale>>
       ELSE Return(c, "failed")
    /\ UNCHANGED <<pool, attempt, cancelled>>

\* ... or leaves with its own context.
LeaveInit(c) ==
    /\ pc[c] = "waiting"
    /\ c \in cancelled
    /\ Return(c, "failed")
    /\ UNCHANGED <<pool, attempt, cancelled>>

-----------------------------------------------------------------------------
(***************************************************************************)
(* The use of a client.                                                    *)
(***************************************************************************)
\* The SDK answers with a value or with an error that is final.
Answer(c, p) ==
    /\ pc[c] = "using"
    /\ Return(c, p)
    /\ UNCHANGED <<pool, attempt, cancelled>>

\* shouldRefreshDesktopClient, asked of the first answer only.
FindStale(c) ==
    /\ pc[c] = "using"
    /\ attempt[c] = 1
    /\ stale' = [stale EXCEPT ![c] = held[c]]
    /\ Goto(c, "stale")
    /\ UNCHANGED <<pool, attempt, held, cancelled>>

\* Faulty: whatever client the account has goes.
EvictedBlindly(c) == [clients EXCEPT ![AccountOf[c]] = NoClient]

\* evictClient removes the stale client unless another has taken its place.
Evicted(c) ==
    IF clients[AccountOf[c]] = stale[c]
    THEN [clients EXCEPT ![AccountOf[c]] = NoClient]
    ELSE clients

\* resolveWithRefreshedClient evicts and asks for a client once more.
EvictClient(c) ==
    /\ pc[c] = "stale"
    /\ clients' = Evicted(c)
    /\ attempt' = [attempt EXCEPT ![c] = @ + 1]
    /\ Goto(c, "client")
    /\ UNCHANGED <<inits, outcome, held, stale, cancelled>>

\* A caller's context ends.
Cancel(cs) ==
    /\ cancelled' = cancelled \cup cs
    /\ UNCHANGED <<pool, pc, attempt, held, stale>>

\* The steps of a call once it has begun.
CallStep(c) ==
    \/ StartClientInit(c)
    \/ \E ending \in {"client", "error"} : FinishClientInit(c, ending)
    \/ TakeOutcome(c) \/ LeaveInit(c)
    \/ \E p \in Returned : Answer(c, p)
    \/ FindStale(c) \/ EvictClient(c)

PoolNext ==
    \/ \E c \in Calls : Resolve(c) \/ CallStep(c)
    \/ \E cs \in SUBSET Calls : Cancel(cs)

PoolSpec == PoolInit /\ [][PoolNext]_poolVars

-----------------------------------------------------------------------------
(***************************************************************************)
(* Properties.                                                             *)
(***************************************************************************)
\* One creator per account, registered as such, and only while there is no client
\* (startClientInit and finishClientInit under the pool's mutex).
OneCreatorPerAccount ==
    \A c \in Calls : pc[c] = "creating" =>
        /\ inits[AccountOf[c]] = Own(c)
        /\ clients[AccountOf[c]] = NoClient

\* A waiter is never forgotten: what it waits for has ended or is being made by
\* its owner, which will publish the result (finishClientInit closes done).
WaitersHaveAnOwner ==
    \A c \in Calls : pc[c] = "waiting" /\ outcome[held[c]] = "pending" =>
        \E d \in Calls : pc[d] = "creating" /\ Own(d) = held[c]

\* A call that found its client stale is not given the same client again, however
\* its eviction interleaves with those of other calls (resolveWithRefreshedClient).
RefreshedIsAnother ==
    \A c \in Calls : attempt[c] = 2 /\ pc[c] \in {"waiting", "using"} => held[c] # stale[c]

\* A client leaves the pool only if a call found that very client stale: a late
\* eviction spares its replacement (evictClient).
OnlyStaleClientsLeave ==
    [][\A a \in Accounts : clients[a] # NoClient /\ clients'[a] # clients[a] =>
           \E c \in Calls : stale[c] = clients[a]]_poolVars
=============================================================================
