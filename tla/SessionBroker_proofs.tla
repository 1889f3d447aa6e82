------------------------ MODULE SessionBroker_proofs ------------------------
(***************************************************************************)
(* Reads of bounded sessions, for any number of sessions and requests:     *)
(* the counters are exact, no more payloads leave than reads were allowed, *)
(* and a session is a ledger of reads.                                     *)
(***************************************************************************)
EXTENDS SessionBroker, FiniteSetTheorems, TLAPS

Holding == {"activate", "prewrite", "write", "commit", "abort", "finish"}

\* Where a request is says which session it reads and whether it was paid ...
ReaderInv ==
    /\ \A r \in Resolves :
          reader[r] # "new" => token[r] \in Sessions /\ maker[token[r]] = "done"
    /\ \A s \in Sessions : \A r \in delivered[s] : token[r] = s /\ reader[r] \in {"commit", "done"}
    /\ \A r \in Resolves : reader[r] = "commit" => r \in delivered[token[r]]

\* ... a session is stored once, by its own request ...
MakerInv ==
    \A s \in Sessions :
        maker[s] \in {"new", "prompt", "fetch", "create"} => session[s].status = "unused"

\* ... and its counters count those who hold a read and those who were paid.
Account(rec, H, D, n) ==
    /\ Cardinality(D \cup H) <= n
    /\ rec.status = "live" => /\ rec.reserved = Cardinality(H)
                              /\ rec.reads = Cardinality(D \ H)
                              /\ rec.reads < n

AccountInv ==
    \A s \in Sessions : Account(session[s], Holders(s), delivered[s], MaxReads[s])

SessionInv == TypeOK /\ ReaderInv /\ MakerInv /\ AccountInv

\* No more payloads leave under a session than the operator allowed.
ReadsWithinCount == \A s \in Sessions : Cardinality(delivered[s]) <= MaxReads[s]

-----------------------------------------------------------------------------
(***************************************************************************)
(* Types and control.                                                      *)
(***************************************************************************)
LEMMA InitControl == Init => TypeOK /\ ReaderInv /\ MakerInv
  BY DEF Init, TypeOK, Record, MakerSteps, ReaderSteps, ReaderInv, MakerInv

LEMMA DeletedType ==
    ASSUME TypeOK, NEW S
    PROVE  /\ Deleted(S) \in [Sessions -> Record]
           /\ \A s \in Sessions :
                 /\ Deleted(S)[s].status = "unused" <=> session[s].status = "unused"
                 /\ s \notin S => Deleted(S)[s] = session[s]
                 /\ s \in S => Deleted(S)[s].status # "live"
                 /\ Deleted(S)[s].status = "live" => Deleted(S)[s] = session[s]
                 /\ session[s].status = "gone" => Deleted(S)[s].status = "gone"
  BY DEF Deleted, Live, TypeOK, Record

LEMMA AfterReadFields ==
    ASSUME TypeOK, NEW s \in Sessions, NEW ok \in BOOLEAN, Live(s), session[s].reserved > 0
    PROVE  LET rec == AfterRead(s, ok)
           IN  /\ rec \in Record
               /\ rec.status \in {"live", "gone"}
               /\ rec.reserved = session[s].reserved - 1
               /\ rec.reads = session[s].reads + (IF ok THEN 1 ELSE 0)
               /\ rec.status = "live" => rec.reads < MaxReads[s]
  <1>1. session[s] \in Record /\ MaxReads[s] \in Nat
    BY SessionAssumption DEF TypeOK
  <1> DEFINE n == IF ok THEN session[s].reads + 1 ELSE session[s].reads
             m == session[s].reserved - 1
             rest == [session[s] EXCEPT !.reserved = m, !.reads = n]
  <1>2. n \in Nat /\ n = session[s].reads + (IF ok THEN 1 ELSE 0) /\ m \in Nat
    BY <1>1 DEF Record
  <1>3. AfterRead(s, ok) = IF rest.reads >= MaxReads[s] \/ Expired(s)
                           THEN [rest EXCEPT !.status = "gone"] ELSE rest
    BY DEF AfterRead
  <1> HIDE DEF n, m
  <1>4. rest \in Record /\ rest.status = "live" /\ rest.reserved = m /\ rest.reads = n
    BY <1>1, <1>2 DEF Record, Live
  <1> HIDE DEF rest
  <1>5. CASE rest.reads >= MaxReads[s] \/ Expired(s)
    BY <1>2, <1>3, <1>4, <1>5 DEF Record, m
  <1>6. CASE ~(rest.reads >= MaxReads[s] \/ Expired(s))
    BY <1>1, <1>2, <1>3, <1>4, <1>6 DEF m
  <1>7. QED
    BY <1>5, <1>6

LEMMA FinishType ==
    ASSUME TypeOK, NEW s \in Sessions, NEW ok \in BOOLEAN, FinishReservation(s, ok)
    PROVE  /\ session' \in [Sessions -> Record]
           /\ \A x \in Sessions :
                 session'[x].status = "unused" <=> session[x].status = "unused"
  <1>1. CASE Live(s) /\ session[s].reserved > 0
    <2>1. AfterRead(s, ok) \in Record /\ AfterRead(s, ok).status # "unused"
      BY <1>1, AfterReadFields
    <2>2. QED
      BY <1>1, <2>1 DEF FinishReservation, TypeOK, Live
  <1>2. CASE ~(Live(s) /\ session[s].reserved > 0)
    BY <1>2 DEF FinishReservation, TypeOK
  <1>3. QED
    BY <1>1, <1>2

LEMMA MakerControl ==
    ASSUME TypeOK, ReaderInv, MakerInv, NEW s \in Sessions, CreateReceived(s) \/ MakerStep(s)
    PROVE  TypeOK' /\ ReaderInv' /\ MakerInv'
  <1>1. CASE CreateReceived(s) \/ CreateApproved(s)
    BY <1>1, SessionAssumption DEF CreateReceived, CreateApproved, Receipt, MakerGoto, TypeOK,
       MakerSteps, ReaderInv, MakerInv
  <1>2. CASE CreateFetched(s) \/ CreateGivesUp(s) \/ CreateAudited(s)
    BY <1>2 DEF CreateFetched, CreateGivesUp, CreateAudited, MakerMove, MakerGoto, TypeOK,
       MakerSteps, ReaderInv, MakerInv
  <1>3. CASE CreateSession(s)
    BY <1>3 DEF CreateSession, MakerGoto, TypeOK, MakerSteps, Record, ReaderInv, MakerInv
  <1>4. CASE CreateUnaudited(s)
    <2>1. session' = Deleted({s}) /\ maker' = [maker EXCEPT ![s] = "failed"] /\ maker[s] = "created"
          /\ UNCHANGED <<now, stopping, active, expires, reader, token, delivered>>
      BY <1>4 DEF CreateUnaudited, MakerGoto
    <2>2. TypeOK'
      BY <2>1, DeletedType DEF TypeOK, MakerSteps
    <2>3. ReaderInv'
      BY <2>1 DEF TypeOK, ReaderInv
    <2>4. MakerInv'
      BY <2>1, DeletedType DEF TypeOK, MakerInv
    <2>5. QED
      BY <2>2, <2>3, <2>4
  <1>5. QED
    BY <1>1, <1>2, <1>3, <1>4 DEF MakerStep

\* A request that goes on without touching the store.
LEMMA QuietReader ==
    ASSUME TypeOK, ReaderInv, MakerInv, NEW r \in Resolves, NEW p \in ReaderSteps \ {"new", "commit"},
           reader[r] \notin {"new", "done", "commit"}, reader' = [reader EXCEPT ![r] = p],
           active' \in SUBSET Resolves,
           session' \in [Sessions -> Record],
           \A s \in Sessions : session'[s].status = "unused" <=> session[s].status = "unused",
           UNCHANGED <<now, stopping, maker, expires, token, delivered>>
    PROVE  TypeOK' /\ ReaderInv' /\ MakerInv'
  <1>1. TypeOK'
    BY DEF TypeOK
  <1>2. ReaderInv'
    BY DEF ReaderInv, TypeOK
  <1>3. MakerInv'
    BY DEF MakerInv
  <1>4. QED
    BY <1>1, <1>2, <1>3

LEMMA ReaderControl ==
    ASSUME TypeOK, ReaderInv, MakerInv, NEW r \in Resolves,
           (\E s \in Sessions : ResolveReceived(r, s)) \/ ReaderStep(r) \/ EndExec(r)
    PROVE  TypeOK' /\ ReaderInv' /\ MakerInv'
  <1>0. reader[r] # "new" => token[r] \in Sessions /\ session[token[r]] \in Record
    BY DEF ReaderInv, TypeOK
  <1>1. ASSUME NEW s \in Sessions, ResolveReceived(r, s)
        PROVE  TypeOK' /\ ReaderInv' /\ MakerInv'
    BY <1>1 DEF ResolveReceived, ReaderGoto, TypeOK, ReaderSteps, ReaderInv, MakerInv
  <1>2. CASE Reserve(r)
    <2>1. session' \in [Sessions -> Record]
          /\ \A s \in Sessions : session'[s].status = "unused" <=> session[s].status = "unused"
      BY <1>0, <1>2 DEF Reserve, TypeOK, Record
    <2>2. QED
      BY <1>2, <2>1, QuietReader DEF Reserve, ReaderGoto, ReaderSteps, TypeOK
  <1>3. CASE ReserveDeletes(r)
    BY <1>3, DeletedType, QuietReader DEF ReserveDeletes, ReaderGoto, ReaderSteps, TypeOK
  <1>4. CASE ActivateRefused(r) \/ GiveReadBack(r)
    <2>1. FinishReservation(token[r], FALSE) /\ token[r] \in Sessions
      BY <1>0, <1>4 DEF ActivateRefused, GiveReadBack
    <2>2. session' \in [Sessions -> Record]
          /\ \A s \in Sessions : session'[s].status = "unused" <=> session[s].status = "unused"
      BY <2>1, FinishType
    <2>3. QED
      BY <1>4, <2>2, QuietReader DEF ActivateRefused, GiveReadBack, ReaderGoto, ReaderSteps, TypeOK
  <1>5. CASE ReserveRefused(r) \/ BeforeWrite(r) \/ WriteRefused(r) \/ WriteFails(r)
    BY <1>5, QuietReader DEF ReserveRefused, BeforeWrite, WriteRefused, WriteFails, ReaderMove,
       ReaderGoto, ReaderSteps, TypeOK
  <1>6. CASE ActivateExec(r) \/ AbortBeforePayload(r)
    BY <1>6, QuietReader DEF ActivateExec, AbortBeforePayload, ReaderGoto, ReaderSteps, TypeOK
  <1>7. CASE WritePayload(r)
    BY <1>0, <1>7 DEF WritePayload, ReaderGoto, TypeOK, ReaderSteps, ReaderInv, MakerInv
  <1>8. CASE CommitDelivered(r)
    <2>1. FinishReservation(token[r], TRUE) /\ token[r] \in Sessions /\ reader[r] = "commit"
          /\ reader' = [reader EXCEPT ![r] = "done"]
          /\ UNCHANGED <<now, stopping, active, maker, expires, token, delivered>>
      BY <1>0, <1>8 DEF CommitDelivered, ReaderGoto
    <2>2. TypeOK'
      BY <2>1, FinishType DEF TypeOK, ReaderSteps
    <2>3. ReaderInv'
      BY <2>1 DEF TypeOK, ReaderInv
    <2>4. MakerInv'
      BY <2>1, FinishType DEF MakerInv
    <2>5. QED
      BY <2>2, <2>3, <2>4
  <1>9. CASE EndExec(r)
    BY <1>9 DEF EndExec, requests, TypeOK, ReaderInv, MakerInv
  <1>10. QED
    BY <1>1, <1>2, <1>3, <1>4, <1>5, <1>6, <1>7, <1>8, <1>9 DEF ReaderStep

LEMMA StepControl ==
    ASSUME TypeOK, ReaderInv, MakerInv, [Next]_vars
    PROVE  TypeOK' /\ ReaderInv' /\ MakerInv'
  <1>1. ASSUME NEW S, session' = Deleted(S), UNCHANGED <<now, requests, delivered>>,
               stopping' \in {"running", "closed", "inactive", "stopped"}, active' \in SUBSET Resolves
        PROVE  TypeOK' /\ ReaderInv' /\ MakerInv'
    <2>1. TypeOK'
      BY <1>1, DeletedType DEF TypeOK, requests
    <2>2. ReaderInv' /\ MakerInv'
      BY <1>1, DeletedType DEF ReaderInv, MakerInv, requests
    <2>3. QED
      BY <2>1, <2>2
  <1>2. CASE ListSessions
    BY <1>1, <1>2 DEF ListSessions, TypeOK
  <1>3. ASSUME NEW S, DestroySessions(S) PROVE TypeOK' /\ ReaderInv' /\ MakerInv'
    BY <1>1, <1>3 DEF DestroySessions, TypeOK
  <1>4. CASE StopStep \/ Stop \/ Tick \/ UNCHANGED vars
    <2>1. CASE ClearSessions
      BY <1>1, <2>1 DEF ClearSessions, TypeOK
    <2>2. CASE ClearActive \/ Stop \/ Tick \/ UNCHANGED vars
      BY <2>2 DEF ClearActive, Stop, Tick, vars, requests, TypeOK, ReaderInv, MakerInv
    <2>3. QED
      BY <1>4, <2>1, <2>2 DEF StopStep
  <1>5. QED
    BY <1>2, <1>3, <1>4, MakerControl, ReaderControl DEF Next

-----------------------------------------------------------------------------
(***************************************************************************)
(* Six kinds of steps, by what they do to the store, to the holders and to *)
(* the payloads.                                                           *)
(***************************************************************************)
SameHolders == \A s \in Sessions : Holders(s)' = Holders(s)

Keeps == UNCHANGED <<session, delivered>> /\ SameHolders

Closes(S) == session' = Deleted(S) /\ UNCHANGED delivered /\ SameHolders

Opens(s) ==
    /\ session[s].status = "unused" /\ Holders(s) = {} /\ delivered[s] = {}
    /\ session' = [session EXCEPT ![s] =
           [status |-> "live", expires |-> expires[s], reads |-> 0, reserved |-> 0]]
    /\ UNCHANGED delivered /\ SameHolders

\* r, which reads s and no other session, joins or leaves its holders.
Joins(r, s) ==
    /\ Holders(s)' = Holders(s) \cup {r}
    /\ \A x \in Sessions \ {s} : Holders(x)' = Holders(x)
Leaves(r, s) ==
    /\ Holders(s)' = Holders(s) \ {r}
    /\ \A x \in Sessions \ {s} : Holders(x)' = Holders(x) /\ r \notin Holders(x)

Reserves(r, s) ==
    /\ Live(s) /\ ~Full(s) /\ r \notin Holders(s) \cup delivered[s]
    /\ session' = [session EXCEPT ![s].reserved = @ + 1]
    /\ Joins(r, s) /\ UNCHANGED delivered

Writes(r, s) ==
    /\ r \in Holders(s) /\ r \notin delivered[s]
    /\ delivered' = [delivered EXCEPT ![s] = @ \cup {r}]
    /\ UNCHANGED session /\ SameHolders

Finishes(r, s, ok) ==
    /\ r \in Holders(s) /\ (IF ok THEN r \in delivered[s] ELSE r \notin delivered[s])
    /\ FinishReservation(s, ok)
    /\ Leaves(r, s) /\ UNCHANGED delivered

LedgerStep ==
    \/ Keeps
    \/ \E S \in SUBSET Sessions : Closes(S)
    \/ \E s \in Sessions : Opens(s)
    \/ \E r \in Resolves, s \in Sessions :
          Reserves(r, s) \/ Writes(r, s) \/ \E ok \in BOOLEAN : Finishes(r, s, ok)

\* How a request's move changes the holders.
LEMMA HoldersMove ==
    ASSUME NEW r \in Resolves, UNCHANGED token,
           \A x \in Resolves \ {r} : reader'[x] = reader[x]
    PROVE  /\ (reader'[r] \in Holding <=> reader[r] \in Holding) => SameHolders
           /\ reader'[r] \in Holding /\ reader[r] \notin Holding => Joins(r, token[r])
           /\ reader'[r] \notin Holding /\ reader[r] \in Holding => Leaves(r, token[r])
  BY DEF SameHolders, Joins, Leaves, Holders, Holding

LEMMA ReaderMoves ==
    ASSUME TypeOK, NEW r \in Resolves, NEW p, ReaderGoto(r, p)
    PROVE  reader'[r] = p /\ \A x \in Resolves \ {r} : reader'[x] = reader[x]
  BY DEF TypeOK, ReaderGoto

LEMMA ReaderLedger ==
    ASSUME TypeOK, ReaderInv, MakerInv, NEW r \in Resolves,
           (\E s \in Sessions : ResolveReceived(r, s)) \/ ReaderStep(r) \/ EndExec(r)
    PROVE  LedgerStep
  <1>0. reader[r] # "new" => token[r] \in Sessions
    BY DEF ReaderInv
  <1>1. ASSUME NEW s \in Sessions, ResolveReceived(r, s) PROVE LedgerStep
    <2>1. \A x \in Resolves \ {r} : reader'[x] = reader[x] /\ token'[x] = token[x]
      BY <1>1 DEF ResolveReceived, ReaderGoto, TypeOK
    <2>2. reader[r] \notin Holding /\ reader'[r] \notin Holding
      BY <1>1 DEF ResolveReceived, ReaderGoto, TypeOK, Holding
    <2>3. SameHolders
      BY <2>1, <2>2 DEF SameHolders, Holders, Holding
    <2>4. QED
      BY <1>1, <2>3 DEF ResolveReceived, LedgerStep, Keeps
  <1>2. CASE Reserve(r)
    <2>1. Joins(r, token[r])
      BY <1>2, ReaderMoves, HoldersMove DEF Reserve, Holding
    <2>2. r \notin Holders(token[r]) \cup delivered[token[r]]
      BY <1>0, <1>2 DEF Reserve, Holders, ReaderInv
    <2>3. Reserves(r, token[r])
      BY <1>2, <2>1, <2>2 DEF Reserve, Reserves
    <2>4. QED
      BY <1>0, <1>2, <2>3 DEF Reserve, LedgerStep
  <1>3. CASE ReserveDeletes(r)
    <2>0. /\ reader[r] = "reserve" /\ reader'[r] = "failed" /\ UNCHANGED token
          /\ \A x \in Resolves \ {r} : reader'[x] = reader[x]
      BY <1>3, ReaderMoves DEF ReserveDeletes
    <2>1. SameHolders
      BY <2>0, HoldersMove DEF Holding
    <2>2. Closes({token[r]}) /\ token[r] \in Sessions
      BY <1>0, <1>3, <2>1 DEF ReserveDeletes, Closes
    <2>3. QED
      BY <2>2 DEF LedgerStep
  <1>4. CASE ActivateRefused(r) \/ GiveReadBack(r)
    <2>0. /\ reader[r] \in {"activate", "finish"} /\ reader'[r] = "failed"
          /\ \A x \in Resolves \ {r} : reader'[x] = reader[x]
          /\ UNCHANGED <<token, delivered>>
      BY <1>4, ReaderMoves DEF ActivateRefused, GiveReadBack
    <2>1. Leaves(r, token[r])
      BY <2>0, HoldersMove DEF Holding
    <2>2. token[r] \in Sessions /\ r \in Holders(token[r]) /\ r \notin delivered[token[r]]
      BY <1>0, <2>0 DEF Holders, ReaderInv
    <2>3. Finishes(r, token[r], FALSE)
      BY <1>4, <2>1, <2>2, Zenon DEF ActivateRefused, GiveReadBack, Finishes
    <2>4. QED
      BY <2>2, <2>3 DEF LedgerStep
  <1>5. CASE CommitDelivered(r)
    <2>0. /\ reader[r] = "commit" /\ reader'[r] = "done"
          /\ \A x \in Resolves \ {r} : reader'[x] = reader[x]
          /\ UNCHANGED <<token, delivered>>
      BY <1>5, ReaderMoves DEF CommitDelivered
    <2>1. Leaves(r, token[r])
      BY <2>0, HoldersMove DEF Holding
    <2>2. token[r] \in Sessions /\ r \in Holders(token[r]) /\ r \in delivered[token[r]]
      BY <1>0, <2>0 DEF Holders, ReaderInv
    <2>3. Finishes(r, token[r], TRUE)
      BY <1>5, <2>1, <2>2, Zenon DEF CommitDelivered, Finishes
    <2>4. QED
      BY <2>2, <2>3 DEF LedgerStep
  <1>6. CASE WritePayload(r)
    <2>1. SameHolders
      BY <1>6, ReaderMoves, HoldersMove DEF WritePayload, Holding
    <2>2. token[r] \in Sessions /\ r \in Holders(token[r]) /\ r \notin delivered[token[r]]
      BY <1>0, <1>6 DEF WritePayload, Holders, ReaderInv
    <2>3. Writes(r, token[r])
      BY <1>6, <2>1, <2>2 DEF WritePayload, Writes
    <2>4. QED
      BY <2>2, <2>3 DEF LedgerStep
  <1>7. CASE \/ ReserveRefused(r) \/ BeforeWrite(r) \/ WriteRefused(r) \/ WriteFails(r)
             \/ ActivateExec(r) \/ AbortBeforePayload(r)
    <2>1. SameHolders /\ UNCHANGED <<session, delivered>>
      BY <1>7, ReaderMoves, HoldersMove DEF ReserveRefused, BeforeWrite, WriteRefused, WriteFails, ActivateExec,
         AbortBeforePayload, ReaderMove, Holding
    <2>2. QED
      BY <2>1 DEF LedgerStep, Keeps
  <1>8. CASE EndExec(r)
    BY <1>8 DEF EndExec, requests, LedgerStep, Keeps, SameHolders, Holders
  <1>9. QED
    BY <1>1, <1>2, <1>3, <1>4, <1>6, <1>7, <1>8, <1>5 DEF ReaderStep

LEMMA MakerLedger ==
    ASSUME TypeOK, ReaderInv, MakerInv, NEW s \in Sessions, CreateReceived(s) \/ MakerStep(s)
    PROVE  LedgerStep
  <1>1. UNCHANGED <<delivered, reader, token>> /\ SameHolders
    BY DEF CreateReceived, MakerStep, CreateApproved, CreateFetched, CreateGivesUp, CreateSession,
           CreateAudited, CreateUnaudited, MakerMove, SameHolders, Holders
  <1>2. CASE CreateSession(s)
    <2>1. Holders(s) = {} /\ delivered[s] = {} /\ session[s].status = "unused"
      BY <1>2 DEF CreateSession, Holders, ReaderInv, MakerInv, TypeOK
    <2>2. Opens(s)
      BY <1>1, <1>2, <2>1 DEF CreateSession, Opens
    <2>3. QED
      BY <2>2 DEF LedgerStep
  <1>3. CASE CreateUnaudited(s)
    <2>1. Closes({s})
      BY <1>1, <1>3 DEF CreateUnaudited, Closes
    <2>2. QED
      BY <2>1 DEF LedgerStep
  <1>4. CASE UNCHANGED session
    BY <1>1, <1>4 DEF LedgerStep, Keeps
  <1>5. QED
    BY <1>2, <1>3, <1>4 DEF CreateReceived, MakerStep, CreateApproved, CreateFetched, CreateGivesUp,
       CreateAudited, MakerMove

LEMMA NextLedger == TypeOK /\ ReaderInv /\ MakerInv /\ [Next]_vars => LedgerStep
  <1> SUFFICES ASSUME TypeOK, ReaderInv, MakerInv, [Next]_vars PROVE LedgerStep
    OBVIOUS
  <1>1. ASSUME NEW S \in SUBSET Sessions, session' = Deleted(S), UNCHANGED <<requests, delivered>>
        PROVE  LedgerStep
    <2>1. SameHolders
      BY <1>1 DEF requests, SameHolders, Holders
    <2>2. Closes(S)
      BY <1>1, <2>1 DEF Closes
    <2>3. QED
      BY <2>2 DEF LedgerStep
  <1>2. CASE ListSessions
    <2>1. {s \in Sessions : Expired(s) \/ Full(s)} \in SUBSET Sessions
      OBVIOUS
    <2>2. QED
      BY <1>1, <1>2, <2>1, Zenon DEF ListSessions
  <1>3. ASSUME NEW S \in SUBSET Sessions, DestroySessions(S) PROVE LedgerStep
    BY <1>1, <1>3 DEF DestroySessions
  <1>4. CASE ClearSessions
    BY <1>1, <1>4 DEF ClearSessions
  <1>5. CASE ClearActive \/ Stop \/ Tick \/ UNCHANGED vars
    BY <1>5 DEF ClearActive, Stop, Tick, vars, requests, LedgerStep, Keeps, SameHolders, Holders
  <1>6. QED
    BY <1>2, <1>3, <1>4, <1>5, MakerLedger, ReaderLedger DEF Next, StopStep

-----------------------------------------------------------------------------
(***************************************************************************)
(* The account of one session.                                             *)
(***************************************************************************)
LEMMA FiniteAccounts ==
    ASSUME TypeOK, NEW s \in Sessions
    PROVE  /\ IsFiniteSet(Holders(s)) /\ IsFiniteSet(delivered[s])
           /\ MaxReads[s] \in Nat \ {0} /\ session[s] \in Record
  <1>1. Holders(s) \in SUBSET Resolves /\ delivered[s] \in SUBSET Resolves
    BY DEF Holders, TypeOK
  <1>2. QED
    BY <1>1, SessionAssumption, FS_Subset DEF TypeOK

\* Those who hold a read and those who were paid and hold none.
LEMMA TwoParts ==
    ASSUME NEW H, NEW D, IsFiniteSet(H), IsFiniteSet(D)
    PROVE  /\ Cardinality(D \cup H) = Cardinality(H) + Cardinality(D \ H)
           /\ Cardinality(H) \in Nat /\ Cardinality(D \ H) \in Nat
           /\ IsFiniteSet(D \cup H) /\ IsFiniteSet(D \ H)
  <1>1. IsFiniteSet(D \ H)
    BY FS_Subset
  <1>2. H \cup (D \ H) = D \cup H /\ H \cap (D \ H) = {}
    OBVIOUS
  <1>3. /\ IsFiniteSet(H \cup (D \ H))
        /\ Cardinality(H \cup (D \ H)) =
             Cardinality(H) + Cardinality(D \ H) - Cardinality(H \cap (D \ H))
    BY <1>1, FS_Union
  <1>4. Cardinality({}) = 0 /\ Cardinality(H) \in Nat /\ Cardinality(D \ H) \in Nat
    BY <1>1, FS_EmptySet, FS_CardinalityType
  <1>5. Cardinality(H \cap (D \ H)) = 0
    BY <1>2, <1>4, Zenon
  <1>6. Cardinality(H \cup (D \ H)) = Cardinality(D \cup H) /\ IsFiniteSet(D \cup H)
    BY <1>2, <1>3, Zenon
  <1>7. QED
    BY <1>1, <1>3, <1>4, <1>5, <1>6

LEMMA AccountReserved ==
    ASSUME NEW rec \in Record, NEW H, NEW D, NEW n \in Nat, NEW r, IsFiniteSet(H), IsFiniteSet(D),
           r \notin H \cup D, Account(rec, H, D, n), rec.status = "live",
           rec.reads + rec.reserved < n
    PROVE  Account([rec EXCEPT !.reserved = @ + 1], H \cup {r}, D, n)
  <1>1. IsFiniteSet(H \cup {r}) /\ Cardinality(H \cup {r}) = Cardinality(H) + 1
    BY FS_AddElement
  <1>2. D \ (H \cup {r}) = D \ H
    OBVIOUS
  <1>3. Cardinality(D \ (H \cup {r})) = Cardinality(D \ H)
    BY <1>2, Zenon
  <1>4. Cardinality(D \cup (H \cup {r})) = Cardinality(H \cup {r}) + Cardinality(D \ (H \cup {r}))
    BY <1>1, TwoParts
  <1>5. rec.reserved = Cardinality(H) /\ rec.reads = Cardinality(D \ H) /\ rec.reads < n
    BY DEF Account
  <1>6. rec.reserved \in Nat /\ rec.reads \in Nat
    BY DEF Record
  <1>7. Cardinality(D \cup (H \cup {r})) <= n
    BY <1>1, <1>3, <1>4, <1>5, <1>6
  <1> DEFINE new == [rec EXCEPT !.reserved = @ + 1]
  <1>8. new.reserved = rec.reserved + 1 /\ new.reads = rec.reads
    BY DEF Record
  <1> HIDE DEF new
  <1>9. Account(new, H \cup {r}, D, n)
    BY <1>1, <1>3, <1>5, <1>7, <1>8 DEF Account
  <1>10. QED
    BY <1>9 DEF new

LEMMA AccountWritten ==
    ASSUME NEW rec, NEW H, NEW D, NEW n, NEW r \in H, Account(rec, H, D, n)
    PROVE  Account(rec, H, D \cup {r}, n)
  <1>1. (D \cup {r}) \cup H = D \cup H /\ (D \cup {r}) \ H = D \ H
    OBVIOUS
  <1>2. QED
    BY <1>1, Zenon DEF Account

LEMMA AccountFinished ==
    ASSUME NEW rec \in Record, NEW new \in Record, NEW H, NEW D, NEW n \in Nat, NEW r \in H,
           NEW ok \in BOOLEAN, IF ok THEN r \in D ELSE r \notin D,
           IsFiniteSet(H), IsFiniteSet(D), Account(rec, H, D, n),
           new.status = "live" =>
               /\ rec.status = "live" /\ new.reserved = rec.reserved - 1
               /\ new.reads = rec.reads + (IF ok THEN 1 ELSE 0) /\ new.reads < n
    PROVE  Account(new, H \ {r}, D, n)
  <1>1. IsFiniteSet(H \ {r}) /\ Cardinality(H \ {r}) = Cardinality(H) - 1
    BY FS_RemoveElement
  <1>2. Cardinality(D \ (H \ {r})) = Cardinality(D \ H) + (IF ok THEN 1 ELSE 0)
    <2>1. CASE ok
      <3>1. D \ (H \ {r}) = (D \ H) \cup {r} /\ r \notin D \ H
        BY <2>1
      <3>2. IsFiniteSet(D \ H)
        BY FS_Subset
      <3>3. Cardinality((D \ H) \cup {r}) = Cardinality(D \ H) + 1
        BY <3>1, <3>2, FS_AddElement
      <3>4. Cardinality(D \ (H \ {r})) = Cardinality((D \ H) \cup {r})
        BY <3>1, Zenon
      <3>5. QED
        BY <2>1, <3>3, <3>4
    <2>2. CASE ~ok
      <3>1. D \ (H \ {r}) = D \ H
        BY <2>2
      <3>2. Cardinality(D \ (H \ {r})) = Cardinality(D \ H) /\ Cardinality(D \ H) \in Nat
        BY <3>1, TwoParts, Zenon
      <3>3. QED
        BY <2>2, <3>2
    <2>3. QED
      BY <2>1, <2>2
  <1>3. Cardinality(D \cup (H \ {r})) <= n
    <2>1. IsFiniteSet(D \cup H) /\ D \cup (H \ {r}) \in SUBSET (D \cup H)
      BY TwoParts
    <2>2. Cardinality(D \cup (H \ {r})) <= Cardinality(D \cup H)
          /\ Cardinality(D \cup (H \ {r})) \in Nat /\ Cardinality(D \cup H) \in Nat
      BY <2>1, FS_Subset, FS_CardinalityType
    <2>3. QED
      BY <2>2 DEF Account
  <1>4. QED
    BY <1>1, <1>2, <1>3 DEF Account

LEMMA StepAccount ==
    ASSUME TypeOK, TypeOK', AccountInv, LedgerStep
    PROVE  AccountInv'
  <1> SUFFICES ASSUME NEW x \in Sessions
               PROVE  Account(session'[x], Holders(x)', delivered'[x], MaxReads[x])
    BY DEF AccountInv
  <1> DEFINE H == Holders(x)
             D == delivered[x]
  <1>0. /\ IsFiniteSet(H) /\ IsFiniteSet(D) /\ MaxReads[x] \in Nat \ {0} /\ session[x] \in Record
        /\ Account(session[x], H, D, MaxReads[x])
    BY FiniteAccounts DEF AccountInv
  <1>1. CASE /\ session'[x] = session[x] \/ session'[x].status # "live"
             /\ Holders(x)' = H /\ delivered'[x] = D
    BY <1>0, <1>1 DEF Account
  <1>2. CASE Keeps
    BY <1>1, <1>2 DEF Keeps, SameHolders
  <1>3. ASSUME NEW S \in SUBSET Sessions, Closes(S)
        PROVE  Account(session'[x], Holders(x)', delivered'[x], MaxReads[x])
    BY <1>1, <1>3, DeletedType DEF Closes, SameHolders
  <1>4. ASSUME NEW s \in Sessions, Opens(s)
        PROVE  Account(session'[x], Holders(x)', delivered'[x], MaxReads[x])
    <2>1. CASE x = s
      <3>1. Holders(x)' = {} /\ delivered'[x] = {}
        BY <1>4, <2>1 DEF Opens, SameHolders
      <3>2. session'[x].reserved = 0 /\ session'[x].reads = 0
        BY <1>4, <2>1 DEF Opens, TypeOK
      <3>3. Cardinality({}) = 0 /\ {} \cup {} = {} /\ {} \ {} = {}
        BY FS_EmptySet
      <3>4. QED
        BY <1>0, <3>1, <3>2, <3>3 DEF Account
    <2>2. CASE x # s
      BY <1>1, <1>4, <2>2 DEF Opens, SameHolders, TypeOK
    <2>3. QED
      BY <2>1, <2>2
  <1>5. ASSUME NEW r \in Resolves, NEW s \in Sessions, Reserves(r, s)
        PROVE  Account(session'[x], Holders(x)', delivered'[x], MaxReads[x])
    <2>1. CASE x = s
      <3>1. /\ session'[x] = [session[x] EXCEPT !.reserved = @ + 1]
            /\ Holders(x)' = H \cup {r} /\ delivered'[x] = D
        BY <1>5, <2>1 DEF Reserves, Joins, TypeOK
      <3>2. session[x].status = "live" /\ r \notin H \cup D
        BY <1>5, <2>1 DEF Reserves, Live
      <3>3. session[x].reads + session[x].reserved < MaxReads[x]
        BY <1>0, <1>5, <2>1 DEF Reserves, Full, Record
      <3>4. Account([session[x] EXCEPT !.reserved = @ + 1], H \cup {r}, D, MaxReads[x])
        BY <1>0, <3>2, <3>3, AccountReserved
      <3>5. QED
        BY <3>1, <3>4
    <2>2. CASE x # s
      BY <1>1, <1>5, <2>2 DEF Reserves, Joins, TypeOK
    <2>3. QED
      BY <2>1, <2>2
  <1>6. ASSUME NEW r \in Resolves, NEW s \in Sessions, Writes(r, s)
        PROVE  Account(session'[x], Holders(x)', delivered'[x], MaxReads[x])
    <2>1. CASE x = s
      <3>1. session'[x] = session[x] /\ Holders(x)' = H /\ delivered'[x] = D \cup {r} /\ r \in H
        BY <1>6, <2>1 DEF Writes, SameHolders, TypeOK
      <3>2. Account(session[x], H, D \cup {r}, MaxReads[x])
        BY <1>0, <3>1, AccountWritten
      <3>3. QED
        BY <3>1, <3>2
    <2>2. CASE x # s
      BY <1>1, <1>6, <2>2 DEF Writes, SameHolders, TypeOK
    <2>3. QED
      BY <2>1, <2>2
  <1>7. ASSUME NEW r \in Resolves, NEW s \in Sessions, NEW ok \in BOOLEAN, Finishes(r, s, ok)
        PROVE  Account(session'[x], Holders(x)', delivered'[x], MaxReads[x])
    <2>1. CASE x = s
      <3>1. /\ Holders(x)' = H \ {r} /\ delivered'[x] = D /\ r \in H
            /\ IF ok THEN r \in D ELSE r \notin D
        BY <1>7, <2>1 DEF Finishes, Leaves
      <3>2. FinishReservation(x, ok)
        BY <1>7, <2>1 DEF Finishes
      <3>3. session'[x].status = "live" =>
               /\ session[x].status = "live" /\ session'[x].reserved = session[x].reserved - 1
               /\ session'[x].reads = session[x].reads + (IF ok THEN 1 ELSE 0)
               /\ session'[x].reads < MaxReads[x]
        <4>1. CASE Live(x) /\ session[x].reserved > 0
          <5>1. session'[x] = AfterRead(x, ok)
            BY <3>2, <4>1 DEF FinishReservation, TypeOK
          <5>2. QED
            BY <4>1, <5>1, AfterReadFields DEF Live
        <4>2. CASE ~Live(x)
          BY <3>2, <4>2 DEF FinishReservation, Live
        <4>3. Live(x) => session[x].reserved > 0
          <5>1. Cardinality(H) # 0 /\ Cardinality(H) \in Nat
            BY <1>0, <3>1, FS_EmptySet, FS_CardinalityType
          <5>2. QED
            BY <1>0, <5>1 DEF Account, Live
        <4>4. QED
          BY <4>1, <4>2, <4>3
      <3>4. session'[x] \in Record
        BY DEF TypeOK
      <3>5. Account(session'[x], H \ {r}, D, MaxReads[x])
        BY <1>0, <3>1, <3>3, <3>4, AccountFinished
      <3>6. QED
        BY <3>1, <3>5
    <2>2. CASE x # s
      <3>1. session'[x] = session[x]
        BY <1>7, <2>2 DEF Finishes, FinishReservation, TypeOK
      <3>2. QED
        BY <1>1, <1>7, <2>2, <3>1 DEF Finishes, Leaves
    <2>3. QED
      BY <2>1, <2>2
  <1>8. QED
    BY <1>2, <1>3, <1>4, <1>5, <1>6, <1>7 DEF LedgerStep

LEMMA InitAccount == Init => AccountInv
  <1> SUFFICES ASSUME Init, NEW s \in Sessions
               PROVE  Account(session[s], Holders(s), delivered[s], MaxReads[s])
    BY DEF AccountInv
  <1>1. Holders(s) = {} /\ delivered[s] = {} /\ session[s].status = "unused"
    BY DEF Init, Holders
  <1>2. Cardinality({}) = 0 /\ {} \cup {} = {}
    BY FS_EmptySet
  <1>3. MaxReads[s] \in Nat
    BY SessionAssumption
  <1>4. QED
    BY <1>1, <1>2, <1>3 DEF Account

-----------------------------------------------------------------------------
\* The inductive invariant of the session store and its handlers.
THEOREM SessionInvariant == Spec => []SessionInv
  <1>1. Init => SessionInv
    BY InitControl, InitAccount DEF SessionInv
  <1>2. SessionInv /\ [Next]_vars => SessionInv'
    BY StepControl, NextLedger, StepAccount DEF SessionInv
  <1>3. QED
    BY <1>1, <1>2, PTL DEF Spec

\* The variables of the session store and its handlers keep their types.
THEOREM SessionTypes == Spec => []TypeOK
  <1>1. SessionInv => TypeOK
    BY DEF SessionInv
  <1>2. QED
    BY <1>1, SessionInvariant, PTL

\* However requests fail, the counters of a session that is still stored are those who
\* hold a read and those who were paid (reserve, finishReservation, CommitDelivered,
\* AbortBeforePayload): none is settled twice, and one given back is there for the next.
\* A session that reserve or list has deleted meanwhile has no counters any more.
THEOREM ReadsAreExact == Spec => []ReadCountersMatch
  <1>1. SessionInv => ReadCountersMatch
    BY DEF SessionInv, AccountInv, Account, ReadCountersMatch, Live
  <1>2. QED
    BY <1>1, SessionInvariant, PTL

\* A session that is still stored has a read left that has not been paid.
THEOREM UsedUpSessionsGo == Spec => []ExhaustedValuesClear
  <1>1. SessionInv => ExhaustedValuesClear
    BY DEF SessionInv, AccountInv, Account, ExhaustedValuesClear, Live
  <1>2. QED
    BY <1>1, SessionInvariant, PTL

\* However many requests race for the last read of a session, and whether it is
\* stored or gone, no more payloads leave than the operator allowed.
THEOREM SessionIsNotOverspent == Spec => []ReadsWithinCount
  <1>1. ASSUME SessionInv, NEW s \in Sessions
        PROVE  Cardinality(delivered[s]) <= MaxReads[s]
    <2>1. IsFiniteSet(delivered[s]) /\ IsFiniteSet(Holders(s)) /\ MaxReads[s] \in Nat
      BY <1>1, FiniteAccounts DEF SessionInv
    <2>2. IsFiniteSet(delivered[s] \cup Holders(s)) /\ delivered[s] \in SUBSET (delivered[s] \cup Holders(s))
      BY <2>1, TwoParts
    <2>3. Cardinality(delivered[s]) <= Cardinality(delivered[s] \cup Holders(s))
          /\ Cardinality(delivered[s]) \in Nat /\ Cardinality(delivered[s] \cup Holders(s)) \in Nat
      BY <2>1, <2>2, FS_Subset, FS_CardinalityType
    <2>4. Cardinality(delivered[s] \cup Holders(s)) <= MaxReads[s]
      BY <1>1 DEF SessionInv, AccountInv, Account
    <2>5. QED
      BY <2>1, <2>3, <2>4
  <1>2. SessionInv => ReadsWithinCount
    BY <1>1 DEF ReadsWithinCount
  <1>3. QED
    BY <1>2, SessionInvariant, PTL

-----------------------------------------------------------------------------
(***************************************************************************)
(* A session is a ledger of reads.                                         *)
(***************************************************************************)
LEMMA SameCardinality ==
    ASSUME NEW S
    PROVE  Ledger!Cardinality(S) = Cardinality(S)
  BY Zenon DEF Cardinality, Ledger!Cardinality

LEMMA InitLedger == Init => Ledger!LedgerInit
  <1> SUFFICES ASSUME Init PROVE Ledger!LedgerInit
    OBVIOUS
  <1>1. \A s \in Sessions : session[s].status = "unused" /\ Holders(s) = {} /\ delivered[s] = {}
    BY DEF Init, Holders
  <1>2. LedgerPhase = [s \in Sessions |-> "unused"] /\ LedgerBudget = [s \in Sessions |-> 0]
    BY <1>1 DEF LedgerPhase, LedgerBudget
  <1>3. LedgerPlaces = [s \in Sessions |-> {}]
    BY <1>1 DEF LedgerPlaces
  <1>4. delivered = [s \in Sessions |-> {}]
    BY DEF Init
  <1>5. QED
    BY <1>2, <1>3, <1>4 DEF Ledger!LedgerInit

\* A store in which some sessions are gone, and nothing else has happened to any.
LEMMA ClosingMaps ==
    ASSUME TypeOK, TypeOK', NEW S,
           \A s \in Sessions :
               session'[s].status =
                   IF s \in S /\ session[s].status = "live" THEN "gone" ELSE session[s].status
    PROVE  LedgerBudget' = LedgerBudget /\ Ledger!Closing(S)
  <1>1. \A s \in Sessions : session[s].status \in {"unused", "live", "gone"}
    BY DEF TypeOK, Record
  <1>2. LedgerBudget' = LedgerBudget
    BY <1>1 DEF LedgerBudget
  <1>3. LedgerPhase' = [s \in Sessions |->
            IF s \in S /\ LedgerPhase[s] = "open" THEN "closed" ELSE LedgerPhase[s]]
    BY <1>1 DEF LedgerPhase
  <1>4. QED
    BY <1>2, <1>3 DEF Ledger!Closing

LEMMA StepLedger ==
    ASSUME SessionInv, SessionInv', LedgerStep
    PROVE  Ledger!LedgerNext \/ UNCHANGED Ledger!ledgerVars
  <1>0. TypeOK /\ TypeOK' /\ AccountInv
    BY DEF SessionInv
  <1>1. ASSUME SameHolders, UNCHANGED delivered PROVE UNCHANGED LedgerPlaces
    BY <1>1 DEF SameHolders, LedgerPlaces
  <1>2. CASE Keeps
    <2>1. UNCHANGED <<LedgerPhase, LedgerBudget>>
      BY <1>2 DEF Keeps, LedgerPhase, LedgerBudget
    <2>2. QED
      BY <1>1, <1>2, <2>1 DEF Keeps, Ledger!ledgerVars
  <1>3. ASSUME NEW S \in SUBSET Sessions, Closes(S) PROVE Ledger!LedgerNext
    <2>1. \A s \in Sessions :
             session'[s].status =
                 IF s \in S /\ session[s].status = "live" THEN "gone" ELSE session[s].status
      BY <1>0, <1>3 DEF Closes, Deleted, Live, TypeOK, Record
    <2>2. LedgerBudget' = LedgerBudget /\ Ledger!Closing(S)
      BY <1>0, <2>1, ClosingMaps
    <2>3. delivered' = delivered /\ LedgerPlaces' = [s \in Sessions |-> LedgerPlaces[s] \ {}]
      BY <1>1, <1>3 DEF Closes, LedgerPlaces
    <2>4. Ledger!Settle(S, {})
      BY <2>2, <2>3 DEF Ledger!Settle
    <2>5. QED
      BY <2>4 DEF Ledger!LedgerNext
  <1>4. ASSUME NEW s \in Sessions, Opens(s) PROVE Ledger!LedgerNext
    <2>1. /\ \A x \in Sessions \ {s} : session'[x] = session[x]
          /\ session'[s].status = "live" /\ session[s].status = "unused"
      BY <1>0, <1>4 DEF Opens, TypeOK
    <2>2. LedgerPhase[s] = "unused" /\ LedgerPhase' = [LedgerPhase EXCEPT ![s] = "open"]
      BY <2>1 DEF LedgerPhase
    <2>3. LedgerBudget' = [LedgerBudget EXCEPT ![s] = MaxReads[s]]
      BY <2>1 DEF LedgerBudget
    <2>4. UNCHANGED <<LedgerPlaces, delivered>>
      BY <1>1, <1>4 DEF Opens
    <2>5. Ledger!Open(s, MaxReads[s])
      BY <2>2, <2>3, <2>4 DEF Ledger!Open
    <2>6. QED
      BY <2>5 DEF Ledger!LedgerNext
  <1>5. ASSUME NEW r \in Resolves, NEW s \in Sessions, Reserves(r, s) PROVE Ledger!LedgerNext
    <2>1. /\ session[s].status = "live" /\ r \notin Holders(s) \cup delivered[s]
          /\ delivered' = delivered
      BY <1>5 DEF Reserves, Live
    <2>2. LedgerBudget' = LedgerBudget /\ Ledger!Closing({})
      <3>1. \A x \in Sessions : session'[x].status = session[x].status
        BY <1>0, <1>5 DEF Reserves, TypeOK, Record
      <3>2. QED
        BY <1>0, <3>1, ClosingMaps
    <2>3. LedgerPhase[s] = "open" /\ LedgerBudget[s] = MaxReads[s]
      BY <2>1 DEF LedgerPhase, LedgerBudget
    <2>4. LedgerPlaces' = [LedgerPlaces EXCEPT ![s] = @ \cup {r}]
      BY <1>5, <2>1 DEF Reserves, Joins, LedgerPlaces
    <2>5. r \notin LedgerPlaces[s] \cup delivered[s]
      BY <2>1 DEF LedgerPlaces
    <2>6. Ledger!Cardinality(LedgerPlaces[s] \cup delivered[s]) < LedgerBudget[s]
      <3>1. LedgerPlaces[s] \cup delivered[s] = delivered[s] \cup Holders(s)
        BY DEF LedgerPlaces
      <3>2. /\ session[s].reads + session[s].reserved < MaxReads[s]
            /\ session[s].reads \in Nat /\ session[s].reserved \in Nat
        BY <1>0, <1>5, FiniteAccounts DEF Reserves, Full, Record
      <3>3. Cardinality(delivered[s] \cup Holders(s)) = session[s].reserved + session[s].reads
        BY <1>0, <2>1, FiniteAccounts, TwoParts DEF AccountInv, Account
      <3>4. Cardinality(LedgerPlaces[s] \cup delivered[s]) = Cardinality(delivered[s] \cup Holders(s))
        BY <3>1, Zenon
      <3>5. Cardinality(delivered[s] \cup Holders(s)) < LedgerBudget[s]
        BY <2>3, <3>2, <3>3
      <3>6. QED
        BY <3>4, <3>5, SameCardinality
    <2>7. Ledger!Take(s, r, {})
      BY <2>1, <2>2, <2>3, <2>4, <2>5, <2>6 DEF Ledger!Take
    <2>8. QED
      BY <2>7 DEF Ledger!LedgerNext
  <1>6. ASSUME NEW r \in Resolves, NEW s \in Sessions, Writes(r, s) PROVE Ledger!LedgerNext
    <2>1. UNCHANGED <<LedgerPhase, LedgerBudget>>
      BY <1>6 DEF Writes, LedgerPhase, LedgerBudget
    <2>2. r \in LedgerPlaces[s] /\ delivered' = [delivered EXCEPT ![s] = @ \cup {r}]
      BY <1>6 DEF Writes, LedgerPlaces
    <2>3. LedgerPlaces' = [LedgerPlaces EXCEPT ![s] = @ \ {r}]
      <3>1. delivered'[s] = delivered[s] \cup {r} /\ \A x \in Sessions \ {s} : delivered'[x] = delivered[x]
        BY <1>0, <1>6 DEF Writes, TypeOK
      <3>2. \A x \in Sessions : Holders(x)' = Holders(x)
        BY <1>6 DEF Writes, SameHolders
      <3>3. \A x \in Sessions :
               Holders(x)' \ delivered'[x] = IF x = s THEN LedgerPlaces[x] \ {r} ELSE LedgerPlaces[x]
        BY <3>1, <3>2 DEF LedgerPlaces
      <3>4. LedgerPlaces' = [x \in Sessions |-> Holders(x)' \ delivered'[x]]
        BY DEF LedgerPlaces
      <3>5. LedgerPlaces = [x \in Sessions |-> Holders(x) \ delivered[x]]
        BY DEF LedgerPlaces
      <3> HIDE DEF LedgerPlaces
      <3>6. QED
        BY <3>3, <3>4, <3>5
    <2>4. Ledger!Spend(s, r)
      BY <2>1, <2>2, <2>3 DEF Ledger!Spend
    <2>5. QED
      BY <2>4 DEF Ledger!LedgerNext
  <1>7. ASSUME NEW r \in Resolves, NEW s \in Sessions, NEW ok \in BOOLEAN, Finishes(r, s, ok)
        PROVE  Ledger!LedgerNext
    <2> DEFINE S == {x \in {s} : session'[x].status # session[x].status}
    <2>1. \A x \in Sessions :
             session'[x].status =
                 IF x \in S /\ session[x].status = "live" THEN "gone" ELSE session[x].status
      <3>1. CASE Live(s) /\ session[s].reserved > 0
        <4>1. session' = [session EXCEPT ![s] = AfterRead(s, ok)]
          BY <1>7, <3>1 DEF Finishes, FinishReservation
        <4>2. AfterRead(s, ok).status \in {"live", "gone"}
          BY <1>0, <3>1, AfterReadFields
        <4>3. QED
          BY <1>0, <3>1, <4>1, <4>2 DEF Live, TypeOK
      <3>2. CASE ~(Live(s) /\ session[s].reserved > 0)
        BY <1>7, <3>2 DEF Finishes, FinishReservation
      <3>3. QED
        BY <3>1, <3>2
    <2>2. LedgerBudget' = LedgerBudget /\ Ledger!Closing(S)
      BY <1>0, <2>1, ClosingMaps
    <2>3. delivered' = delivered /\ LedgerPlaces' = [x \in Sessions |-> LedgerPlaces[x] \ {r}]
      BY <1>7 DEF Finishes, Leaves, LedgerPlaces
    <2>4. Ledger!Settle(S, {r})
      BY <2>2, <2>3 DEF Ledger!Settle
    <2>5. S \in SUBSET Sessions
      OBVIOUS
    <2>6. QED
      BY <2>4, <2>5 DEF Ledger!LedgerNext
  <1>8. QED
    BY <1>2, <1>3, <1>4, <1>5, <1>6, <1>7 DEF LedgerStep

\* Seen from outside, a session is a ledger: no read is taken beyond the count or on
\* a session that is gone, each is spent at most once, and no session comes back.
THEOREM SessionKeepsLedger == Spec => SessionImplementsLedger
  <1>1. SessionInv /\ SessionInv' /\ [Next]_vars => [Ledger!LedgerNext]_(Ledger!ledgerVars)
    BY NextLedger, StepLedger DEF SessionInv
  <1>2. QED
    BY InitLedger, SessionInvariant, <1>1, PTL DEF Spec, SessionImplementsLedger, Ledger!LedgerSpec
=============================================================================
