----------------------------- MODULE UseLedger -----------------------------
(***************************************************************************)
(* What an approval for several payloads promises (a reusable approval, or *)
(* a session and its reads), with the daemon's bookkeeping left out: the   *)
(* operator grants an approval for a number of payloads, requests take     *)
(* places against it, a place is either given back or spent by sending the *)
(* payload, and once the approval is closed (expired, used up, removed or  *)
(* cleared) nobody takes a new place.  A place taken before the closing    *)
(* may still be spent: the requester was let in while the approval was     *)
(* good.  ReusableGrants and SessionBroker implement this specification.   *)
(***************************************************************************)
EXTENDS Naturals, FiniteSets

CONSTANTS Approvals,   \* approval identifiers
          Requests,    \* exec requests
          Budgets      \* numbers of payloads an operator may allow

VARIABLES phase,       \* phase[x]: "unused", "open" or "closed"
          budget,      \* budget[x]: payloads the operator allowed
          places,      \* places[x]: requests holding a place they have not spent
          spent        \* spent[x]: requests whose payload was sent under x

ledgerVars == <<phase, budget, places, spent>>

LedgerInit ==
    /\ phase  = [x \in Approvals |-> "unused"]
    /\ budget = [x \in Approvals |-> 0]
    /\ places = [x \in Approvals |-> {}]
    /\ spent  = [x \in Approvals |-> {}]

\* The operator allows n payloads; the request that asked takes a place.
Grant(x, r, n) ==
    /\ phase[x] = "unused"
    /\ phase'  = [phase EXCEPT ![x] = "open"]
    /\ budget' = [budget EXCEPT ![x] = n]
    /\ places' = [places EXCEPT ![x] = {r}]
    /\ UNCHANGED spent

\* The operator allows n payloads to requests that are still to come.
Open(x, n) ==
    /\ phase[x] = "unused"
    /\ phase'  = [phase EXCEPT ![x] = "open"]
    /\ budget' = [budget EXCEPT ![x] = n]
    /\ UNCHANGED <<places, spent>>

\* The approvals of S are closed, those that are open.
Closing(S) ==
    phase' = [x \in Approvals |->
                 IF x \in S /\ phase[x] = "open" THEN "closed" ELSE phase[x]]

\* A later request takes a place while one is left; on its way it may find
\* other approvals expired and close them.
Take(x, r, S) ==
    /\ phase[x] = "open"
    /\ x \notin S
    /\ r \notin places[x] \cup spent[x]
    /\ Cardinality(places[x] \cup spent[x]) < budget[x]
    /\ places' = [places EXCEPT ![x] = @ \cup {r}]
    /\ Closing(S)
    /\ UNCHANGED <<budget, spent>>

\* The payload leaves the daemon.
Spend(x, r) ==
    /\ r \in places[x]
    /\ places' = [places EXCEPT ![x] = @ \ {r}]
    /\ spent'  = [spent EXCEPT ![x] = @ \cup {r}]
    /\ UNCHANGED <<phase, budget>>

\* The requests of Q give their places back and the approvals of S are closed;
\* rolling an approval back does both at once.
Settle(S, Q) ==
    /\ Closing(S)
    /\ places' = [x \in Approvals |-> places[x] \ Q]
    /\ UNCHANGED <<budget, spent>>

LedgerNext ==
    \/ \E x \in Approvals, n \in Budgets : Open(x, n)
    \/ \E x \in Approvals, r \in Requests :
          \/ \E n \in Budgets : Grant(x, r, n)
          \/ \E S \in SUBSET Approvals : Take(x, r, S)
          \/ Spend(x, r)
    \/ \E S \in SUBSET Approvals, Q \in SUBSET Requests : Settle(S, Q)

LedgerSpec == LedgerInit /\ [][LedgerNext]_ledgerVars

\* No approval ever pays for more payloads than the operator allowed.
Solvent == \A x \in Approvals : Cardinality(spent[x]) <= budget[x]
=============================================================================
