---------------------------- MODULE SessionBroker ----------------------------
(***************************************************************************)
(* Bounded sessions (internal/daemon/broker/session_store.go and the       *)
(* session handlers of the broker and the server).  A create request asks  *)
(* the operator, fetches the values and keeps them in the session store;   *)
(* resolve requests then read them, each reserving a read, writing the     *)
(* payload and committing or giving the read back; sessions are listed,    *)
(* destroyed, and cleared when the daemon stops.                           *)
(*                                                                         *)
(* A step of a handler is one critical section of the store or of the      *)
(* active map, or one write to the client, with the checks and the audit   *)
(* writes before it.  The store's two maps, by id and by token, change     *)
(* together and are one here.  A session is named after the request that   *)
(* creates it.                                                             *)
(***************************************************************************)
EXTENDS Naturals, FiniteSets

CONSTANTS Sessions,    \* create requests, and the sessions they make
          Resolves,    \* with-session requests
          NoSession,   \* the empty token
          MaxReads,    \* MaxReads[s]: successful reads the operator allows
          TTL,         \* lifetime of a request, and of a session
          MaxTime      \* bound on the clock

ASSUME SessionAssumption ==
    /\ IsFiniteSet(Resolves)
    /\ NoSession \notin Sessions
    /\ MaxReads \in [Sessions -> Nat \ {0}]
    /\ TTL \in Nat \ {0}
    /\ MaxTime \in Nat

VARIABLES
    now,        \* the clock
    stopping,   \* progress of StopWithAuditEvent
    session,    \* sessionStore: the records
    active,     \* broker.active, the resolve requests in it
    maker,      \* where each create request is
    expires,    \* ExpiresAt of each create request
    reader,     \* where each resolve request is
    token,      \* the session a resolve request names
    delivered   \* history: resolve requests whose payload was written from s

requests == <<maker, expires, reader, token>>
vars == <<now, stopping, session, active, maker, expires, reader, token, delivered>>

Record == [status : {"unused", "live", "gone"}, expires : Nat, reads : Nat, reserved : Nat]

MakerSteps  == {"new", "prompt", "fetch", "create", "created", "done", "failed"}
ReaderSteps == {"new", "reserve", "activate", "prewrite", "write", "commit", "abort",
                "finish", "done", "failed"}

TypeOK ==
    /\ now \in Nat
    /\ stopping \in {"running", "closed", "inactive", "stopped"}
    /\ session \in [Sessions -> Record]
    /\ active \in SUBSET Resolves
    /\ maker \in [Sessions -> MakerSteps]
    /\ expires \in [Sessions -> Nat]
    /\ reader \in [Resolves -> ReaderSteps]
    /\ token \in [Resolves -> Sessions \cup {NoSession}]
    /\ delivered \in [Sessions -> SUBSET Resolves]

Init ==
    /\ now = 0
    /\ stopping = "running"
    /\ session = [s \in Sessions |->
           [status |-> "unused", expires |-> 0, reads |-> 0, reserved |-> 0]]
    /\ active = {}
    /\ maker = [s \in Sessions |-> "new"]
    /\ expires = [s \in Sessions |-> 0]
    /\ reader = [r \in Resolves |-> "new"]
    /\ token = [r \in Resolves |-> NoSession]
    /\ delivered = [s \in Sessions |-> {}]

-----------------------------------------------------------------------------
(***************************************************************************)
(* The session store.                                                      *)
(***************************************************************************)
Live(s)    == session[s].status = "live"
Expired(s) == now >= session[s].expires

\* Faulty: reads under way are not counted.
SpentOnly(s) == session[s].reads >= MaxReads[s]

\* No read is left: each is spent or reserved.
Full(s) == session[s].reads + session[s].reserved >= MaxReads[s]

\* deleteRecord, for the sessions of S that are there.
Deleted(S) ==
    [s \in Sessions |-> IF s \in S /\ Live(s) THEN [session[s] EXCEPT !.status = "gone"]
                                             ELSE session[s]]

\* Faulty: only expiry deletes the record.
ReadKept(s, ok) ==
    LET rec == [session[s] EXCEPT !.reserved = @ - 1, !.reads = IF ok THEN @ + 1 ELSE @]
    IN  IF Expired(s) THEN [rec EXCEPT !.status = "gone"] ELSE rec

\* A read ends; the record goes with the last one, or if it has expired.
AfterRead(s, ok) ==
    LET rec == [session[s] EXCEPT !.reserved = @ - 1, !.reads = IF ok THEN @ + 1 ELSE @]
    IN  IF rec.reads >= MaxReads[s] \/ Expired(s) THEN [rec EXCEPT !.status = "gone"] ELSE rec

FinishReservation(s, ok) ==
    session' = IF Live(s) /\ session[s].reserved > 0
               THEN [session EXCEPT ![s] = AfterRead(s, ok)]
               ELSE session

-----------------------------------------------------------------------------
(***************************************************************************)
(* HandleSessionCreate.                                                    *)
(***************************************************************************)
Running == stopping = "running"

\* ensureSessionCreateActive
CreateActive(s) == Running /\ now < expires[s]

MakerGoto(s, p) == maker' = [maker EXCEPT ![s] = p]

MakerMove(s, p) ==
    /\ MakerGoto(s, p)
    /\ UNCHANGED <<now, stopping, session, active, expires, reader, token, delivered>>

\* The lifetime counts from now: WithReceiptTime.
Receipt(s) ==
    /\ now + TTL <= MaxTime
    /\ expires' = [expires EXCEPT ![s] = now + TTL]

\* The daemon runs and can audit, the requester is bound: the operator is asked.
CreateReceived(s) ==
    /\ maker[s] = "new"
    /\ Running
    /\ Receipt(s)
    /\ MakerGoto(s, "prompt")
    /\ UNCHANGED <<now, stopping, session, active, reader, token, delivered>>

\* The operator approves in time; the session's lifetime starts here.
CreateApproved(s) ==
    /\ maker[s] = "prompt"
    /\ CreateActive(s)
    /\ Receipt(s)
    /\ MakerGoto(s, "fetch")
    /\ UNCHANGED <<now, stopping, session, active, reader, token, delivered>>

CreateFetched(s) == maker[s] = "fetch" /\ CreateActive(s) /\ MakerMove(s, "create")

\* Nothing is stored yet: a denial, an expiry, a stop, an audit write or a fetch
\* that fails, or missing random bytes end the request.
CreateGivesUp(s) == maker[s] \in {"new", "prompt", "fetch", "create"} /\ MakerMove(s, "failed")

CreateSession(s) ==
    /\ maker[s] = "create"
    /\ session' = [session EXCEPT ![s] =
           [status |-> "live", expires |-> expires[s], reads |-> 0, reserved |-> 0]]
    /\ MakerGoto(s, "created")
    /\ UNCHANGED <<now, stopping, active, expires, reader, token, delivered>>

\* session_created is on record, and the token goes to the client.
CreateAudited(s) == maker[s] = "created" /\ MakerMove(s, "done")

\* It is not (the request's context may have ended too): the session is destroyed.
CreateUnaudited(s) ==
    /\ maker[s] = "created"
    /\ session' = Deleted({s})
    /\ MakerGoto(s, "failed")
    /\ UNCHANGED <<now, stopping, active, expires, reader, token, delivered>>

-----------------------------------------------------------------------------
(***************************************************************************)
(* PrepareSessionResolve and handleSessionResolve.                         *)
(***************************************************************************)
ReaderGoto(r, p) == reader' = [reader EXCEPT ![r] = p]

ReaderMove(r, p) ==
    /\ ReaderGoto(r, p)
    /\ UNCHANGED <<now, stopping, session, active, maker, expires, token, delivered>>

\* A request with a token its creator was given.
ResolveReceived(r, s) ==
    /\ reader[r] = "new"
    /\ maker[s] = "done"
    /\ Running
    /\ token' = [token EXCEPT ![r] = s]
    /\ ReaderGoto(r, "reserve")
    /\ UNCHANGED <<now, stopping, session, active, maker, expires, delivered>>

Reserve(r) ==
    /\ reader[r] = "reserve"
    /\ Live(token[r]) /\ ~Expired(token[r]) /\ ~Full(token[r])
    /\ session' = [session EXCEPT ![token[r]].reserved = @ + 1]
    /\ ReaderGoto(r, "activate")
    /\ UNCHANGED <<now, stopping, active, maker, expires, token, delivered>>

\* A session found expired, or with every read spent or reserved, is deleted.
ReserveDeletes(r) ==
    /\ reader[r] = "reserve"
    /\ Live(token[r]) /\ (Expired(token[r]) \/ Full(token[r]))
    /\ session' = Deleted({token[r]})
    /\ ReaderGoto(r, "failed")
    /\ UNCHANGED <<now, stopping, active, maker, expires, token, delivered>>

\* No such session, or the wrong peer, directory or alias.
ReserveRefused(r) == reader[r] = "reserve" /\ ReaderMove(r, "failed")

\* activateExec looks at the stop channel under the broker's lock.
ActivateExec(r) ==
    /\ reader[r] = "activate"
    /\ Running
    /\ active' = active \cup {r}
    /\ ReaderGoto(r, "prewrite")
    /\ UNCHANGED <<now, stopping, session, maker, expires, token, delivered>>

\* Faulty: the reserved read is not given back.
ActivateLeaks(r) ==
    /\ reader[r] = "activate"
    /\ ~Running
    /\ ReaderMove(r, "failed")

ActivateRefused(r) ==
    /\ reader[r] = "activate"
    /\ ~Running
    /\ FinishReservation(token[r], FALSE)
    /\ ReaderGoto(r, "failed")
    /\ UNCHANGED <<now, stopping, active, maker, expires, token, delivered>>

\* The write deadline is the session's end; BeforeWrite records the read.
BeforeWrite(r) == reader[r] = "prewrite" /\ ~Expired(token[r]) /\ ReaderMove(r, "write")

\* The deadline has passed, or an audit write fails.
WriteRefused(r) == reader[r] = "prewrite" /\ ReaderMove(r, "abort")

WritePayload(r) ==
    /\ reader[r] = "write"
    /\ ~Expired(token[r])
    /\ delivered' = [delivered EXCEPT ![token[r]] = @ \cup {r}]
    /\ ReaderGoto(r, "commit")
    /\ UNCHANGED <<now, stopping, session, active, maker, expires, token>>

WriteFails(r) == reader[r] = "write" /\ ReaderMove(r, "abort")

CommitDelivered(r) ==
    /\ reader[r] = "commit"
    /\ FinishReservation(token[r], TRUE)
    /\ ReaderGoto(r, "done")
    /\ UNCHANGED <<now, stopping, active, maker, expires, token, delivered>>

\* AbortBeforePayload: deactivateExec ...
AbortBeforePayload(r) ==
    /\ reader[r] = "abort"
    /\ active' = active \ {r}
    /\ ReaderGoto(r, "finish")
    /\ UNCHANGED <<now, stopping, session, maker, expires, token, delivered>>

\* ... and finishReservation.
GiveReadBack(r) ==
    /\ reader[r] = "finish"
    /\ FinishReservation(token[r], FALSE)
    /\ ReaderGoto(r, "failed")
    /\ UNCHANGED <<now, stopping, active, maker, expires, token, delivered>>

\* ReportCompleted, or ClientDisconnected: the command is over.
EndExec(r) ==
    /\ reader[r] = "done"
    /\ r \in active
    /\ active' = active \ {r}
    /\ UNCHANGED <<now, stopping, session, requests, delivered>>

-----------------------------------------------------------------------------
(***************************************************************************)
(* HandleSessionList, HandleSessionDestroy, the stop and the clock.  A list *)
(* or destroy that passed its check before the stop may run after it.      *)
(***************************************************************************)
ListSessions ==
    /\ session' = Deleted({s \in Sessions : Expired(s) \/ Full(s)})
    /\ UNCHANGED <<now, stopping, active, requests, delivered>>

\* One session, or all of them.
DestroySessions(S) ==
    /\ session' = Deleted(S)
    /\ UNCHANGED <<now, stopping, active, requests, delivered>>

Stop ==
    /\ stopping = "running"
    /\ stopping' = "closed"
    /\ UNCHANGED <<now, session, active, requests, delivered>>

ClearActive ==
    /\ stopping = "closed"
    /\ stopping' = "inactive"
    /\ active' = {}
    /\ UNCHANGED <<now, session, requests, delivered>>

ClearSessions ==
    /\ stopping = "inactive"
    /\ stopping' = "stopped"
    /\ session' = Deleted(Sessions)
    /\ UNCHANGED <<now, active, requests, delivered>>

Tick ==
    /\ now < MaxTime
    /\ now' = now + 1
    /\ UNCHANGED <<stopping, session, active, requests, delivered>>

MakerStep(s) ==
    \/ CreateApproved(s) \/ CreateFetched(s) \/ CreateGivesUp(s)
    \/ CreateSession(s) \/ CreateAudited(s) \/ CreateUnaudited(s)

ReaderStep(r) ==
    \/ Reserve(r) \/ ReserveDeletes(r) \/ ReserveRefused(r)
    \/ ActivateExec(r) \/ ActivateRefused(r) \/ BeforeWrite(r) \/ WriteRefused(r)
    \/ WritePayload(r) \/ WriteFails(r) \/ CommitDelivered(r)
    \/ AbortBeforePayload(r) \/ GiveReadBack(r)

StopStep == ClearActive \/ ClearSessions

Next ==
    \/ \E s \in Sessions : CreateReceived(s) \/ MakerStep(s)
    \/ \E r \in Resolves : (\E s \in Sessions : ResolveReceived(r, s)) \/ ReaderStep(r) \/ EndExec(r)
    \/ ListSessions
    \/ \E s \in Sessions : DestroySessions({s})
    \/ DestroySessions(Sessions)
    \/ Stop
    \/ StopStep
    \/ Tick

Spec == Init /\ [][Next]_vars

-----------------------------------------------------------------------------
(***************************************************************************)
(* Properties.                                                             *)
(***************************************************************************)

\* The requests that have reserved a read of s and not settled it.
Holders(s) ==
    {r \in Resolves : /\ token[r] = s
                      /\ reader[r] \in {"activate", "prewrite", "write", "commit", "abort", "finish"}}

\* While a session is stored its counters agree with what happened: a reserved read
\* for every request that may still write, a read for every payload written and
\* committed, whichever way the handlers leave (PrepareSessionResolve, CommitDelivered,
\* AbortBeforePayload).  So a request that fails before its payload gives its read back,
\* if the session is still there: reserve and list delete one whose last reads are only
\* reserved (session_store.go:137, 207), and reads that then fail are lost with it.
ReadCountersMatch ==
    \A s \in Sessions : Live(s) =>
        /\ session[s].reserved = Cardinality(Holders(s))
        /\ session[s].reads = Cardinality(delivered[s] \ Holders(s))

\* The values of a session leave the store with the read that uses up its count,
\* although other reads may be under way (finishReservation).
ExhaustedValuesClear ==
    \A s \in Sessions : Live(s) => Cardinality(delivered[s] \ Holders(s)) < MaxReads[s]

\* A session as a ledger of places and payloads.
LedgerPhase ==
    [s \in Sessions |-> CASE session[s].status = "unused" -> "unused"
                          [] session[s].status = "live" -> "open"
                          [] OTHER -> "closed"]

LedgerBudget ==
    [s \in Sessions |-> IF session[s].status = "unused" THEN 0 ELSE MaxReads[s]]

LedgerPlaces == [s \in Sessions |-> Holders(s) \ delivered[s]]

Ledger == INSTANCE UseLedger WITH
    Approvals <- Sessions,
    Requests  <- Resolves,
    Budgets   <- {MaxReads[s] : s \in Sessions},
    phase     <- LedgerPhase,
    budget    <- LedgerBudget,
    places    <- LedgerPlaces,
    spent     <- delivered

\* Seen from outside, a session is a ledger of reads: no read is taken beyond the
\* count or on a session that expired, was destroyed or cleared, and such a
\* session never comes back (reserve, finishReservation, deleteRecord).
SessionImplementsLedger == Ledger!LedgerSpec
=============================================================================
