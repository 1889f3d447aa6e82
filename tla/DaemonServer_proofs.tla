------------------------ MODULE DaemonServer_proofs ------------------------
(***************************************************************************)
(* What the server keeps of its commands, for any number of connections.   *)
(***************************************************************************)
EXTENDS DaemonServer, FiniteSetTheorems, TLAPS

\* Where a handler may be while its command is active or the server is stopping.
Places ==
    /\ \A c \in Conns : pc[c] \in {"selfcheck", "count", "prepare"} => ~owns[c]
    /\ \A c \in Conns : pc[c] \in {"retiring", "counting"} => c \notin active
    /\ \A c \in Conns : pc[c] = "write" => c \notin started
    /\ \A c \in Conns : pc[c] = "clearing" => brokerStop
    /\ \A c \in Conns : pc[c] = "closing" => brokerStop /\ active = {}

\* The trail of a command that is over, or of none.
Closed(c) ==
    trail[c] # {} =>
        /\ \E e \in Terminal : trail[c] \cap Terminal = {e}
        /\ "lost_after_start" \in trail[c] => "started" \in trail[c]
        /\ "lost_after_payload" \in trail[c] => "started" \notin trail[c]

\* The trail of a command whose payload is out.
Open(c) ==
    /\ trail[c] \cap Terminal = {}
    /\ "started" \in trail[c] <=> (c \in started \/ pc[c] = "marking")

\* Until the stop, the map knows which of the two a trail is; a payload that is
\* about to be written has an entry.
TrailInv ==
    ~brokerStop =>
        \A c \in Conns :
            /\ pc[c] = "write" => c \in active
            /\ IF c \in active /\ pc[c] # "write" THEN Open(c) ELSE Closed(c)

ServerInv == TypeOK /\ ActiveIsOwned /\ Places /\ StoppedHasNoCommand /\ TrailInv

-----------------------------------------------------------------------------
LEMMA InitHolds == Init => ServerInv
  BY DEF Init, ServerInv, TypeOK, PCs, Messages, Foreground, ActiveIsOwned, Places,
         StoppedHasNoCommand, TrailInv, Closed

LEMMA StepHolds ==
    ASSUME Pipelining = FALSE, ServerInv, [Next]_vars
    PROVE  ServerInv'
  <1> USE DEF ServerInv, TypeOK, PCs, Messages, Foreground, Terminal, ActiveIsOwned, Tends, Places,
              StoppedHasNoCommand, flags, table, local, At, Goto, Move, Drop, Log
  <1>1. CASE UNCHANGED vars
    BY <1>1 DEF vars, TrailInv, Open, Closed
  <1>2. CASE ReplaceExecutable
    BY <1>2 DEF ReplaceExecutable, TrailInv, Open, Closed
  <1>3. ASSUME NEW c \in Conns, Accept(c) \/ ReadFails(c) \/ Stopped(c) \/ PrepareFails(c)
        PROVE  ServerInv'
    BY <1>3 DEF Accept, ReadFails, Stopped, PrepareFails, TrailInv, Open, Closed
  <1>4. ASSUME NEW c \in Conns, NEW m \in Messages, Read(c, m)
        PROVE  ServerInv'
    BY <1>4 DEF Read, TrailInv, Open, Closed
  <1>5. ASSUME NEW c \in Conns, ClientDisconnected(c)
        PROVE  ServerInv'
    <2>1. TypeOK' /\ ActiveIsOwned' /\ Places' /\ StoppedHasNoCommand'
      <3>1. trail' \in [Conns -> SUBSET ({"payload", "started"} \cup Terminal)]
        <4>1. \E e \in Terminal : trail' \in {trail, [trail EXCEPT ![c] = @ \cup {e}]}
          BY <1>5 DEF ClientDisconnected
        <4>2. QED
          BY <4>1
      <3>2. QED
        BY <1>5, <3>1 DEF ClientDisconnected
    <2>2. TrailInv'
      BY <1>5 DEF ClientDisconnected, TrailInv, Open, Closed
    <2>3. QED
      BY <2>1, <2>2
  <1>6. ASSUME NEW c \in Conns, Dispatch(c)
        PROVE  ServerInv'
    BY <1>6 DEF Dispatch, Destination, TrailInv, Open, Closed
  <1>7. ASSUME NEW c \in Conns, Activate(c)
        PROVE  ServerInv'
    BY <1>7 DEF Activate, TrailInv, Open, Closed
  <1>8. ASSUME NEW c \in Conns, WritePayload(c)
        PROVE  ServerInv'
    BY <1>8 DEF WritePayload, TrailInv, Open, Closed
  <1>9. ASSUME NEW c \in Conns, AbortBeforePayload(c)
        PROVE  ServerInv'
    BY <1>9 DEF AbortBeforePayload, TrailInv, Open, Closed
  <1>10. ASSUME NEW c \in Conns, ReportStarted(c)
         PROVE  ServerInv'
    BY <1>10 DEF ReportStarted, TrailInv, Open, Closed
  <1>11. ASSUME NEW c \in Conns, MarkStarted(c)
         PROVE  ServerInv'
    BY <1>11 DEF MarkStarted, TrailInv, Open, Closed
  <1>12. ASSUME NEW c \in Conns, ReportCompleted(c)
         PROVE  ServerInv'
    <2>1. TypeOK' /\ StoppedHasNoCommand'
      BY <1>12 DEF ReportCompleted
    <2>2. ActiveIsOwned'
      BY <1>12 DEF ReportCompleted
    <2>3. Places'
      BY <1>12 DEF ReportCompleted
    <2>4. TrailInv'
      BY <1>12 DEF ReportCompleted, TrailInv, Open, Closed
    <2>5. QED
      BY <2>1, <2>2, <2>3, <2>4
  <1>13. ASSUME NEW c \in Conns, ReportRefused(c)
         PROVE  ServerInv'
    BY <1>13 DEF ReportRefused, TrailInv, Open, Closed
  <1>14. ASSUME NEW c \in Conns, SelfCheckPasses(c) \/ SelfCheckFails(c) \/ CountActive(c)
         PROVE  ServerInv'
    <2>1. CASE SelfCheckPasses(c)
      BY <2>1 DEF SelfCheckPasses, TrailInv, Open, Closed
    <2>2. CASE SelfCheckFails(c)
      BY <2>2 DEF SelfCheckFails, TrailInv, Open, Closed
    <2>3. CASE CountActive(c)
      BY <2>3 DEF CountActive, TrailInv, Open, Closed
    <2>4. QED
      BY <1>14, <2>1, <2>2, <2>3
  <1>15. ASSUME NEW c \in Conns, CheckRetired(c) \/ CountIdle(c)
         PROVE  ServerInv'
    BY <1>15 DEF CheckRetired, CountIdle, TrailInv, Open, Closed
  <1>16. ASSUME NEW c \in Conns, StopBroker(c) \/ ClearActive(c) \/ StopServer(c)
         PROVE  ServerInv'
    <2>1. CASE StopBroker(c)
      BY <2>1 DEF StopBroker, TrailInv, Open, Closed
    <2>2. CASE ClearActive(c)
      BY <2>2 DEF ClearActive, TrailInv, Open, Closed
    <2>3. CASE StopServer(c)
      BY <2>3 DEF StopServer, TrailInv, Open, Closed
    <2>4. QED
      BY <1>16, <2>1, <2>2, <2>3
  <1>17. QED
    BY <1>1, <1>2, <1>3, <1>4, <1>5, <1>6, <1>7, <1>8, <1>9, <1>10, <1>11, <1>12, <1>13,
       <1>14, <1>15, <1>16 DEF Next, HandlerStep
-----------------------------------------------------------------------------
\* Whoever leaves a retired daemon without a command looks at the retirement next.
LEMMA StepWatches ==
    ASSUME ServerInv, RetiredIsWatched, [Next]_vars
    PROVE  RetiredIsWatched'
  <1> SUFFICES ASSUME retire', active' = {}, ~serverStop', ~aborted'
               PROVE  \E c \in Conns : Watches(c)'
    BY DEF RetiredIsWatched
  <1> USE DEF ServerInv, TypeOK, PCs, RetiredIsWatched, Watches, flags, table, local,
              At, Goto, Move, Drop
  <1>1. CASE UNCHANGED vars \/ ReplaceExecutable
    BY <1>1 DEF vars, ReplaceExecutable
  <1>2. ASSUME NEW c \in Conns, \/ Accept(c) \/ ReadFails(c) \/ Stopped(c) \/ Dispatch(c)
                                \/ PrepareFails(c) \/ WritePayload(c) \/ \E m \in Messages : Read(c, m)
        PROVE  \E d \in Conns : Watches(d)'
    BY <1>2 DEF Accept, ReadFails, Stopped, Dispatch, Destination, PrepareFails, WritePayload, Read
  <1>3. ASSUME NEW c \in Conns, ClientDisconnected(c) \/ ReportCompleted(c)
        PROVE  \E d \in Conns : Watches(d)'
    BY <1>3 DEF ClientDisconnected, ReportCompleted
  <1>4. ASSUME NEW c \in Conns, Activate(c) \/ AbortBeforePayload(c)
        PROVE  \E d \in Conns : Watches(d)'
    <2>1. AbortBeforePayload(c)
      BY <1>4 DEF Activate
    <2>2. active = {} /\ ~aborted
      BY <2>1 DEF AbortBeforePayload
    <2>3. PICK d \in Conns : Watches(d)
      BY <2>1, <2>2 DEF AbortBeforePayload
    <2>4. Watches(d)'
      BY <2>1, <2>3 DEF AbortBeforePayload
    <2>5. QED
      BY <2>4
  <1>5. ASSUME NEW c \in Conns, ReportStarted(c) \/ MarkStarted(c) \/ ReportRefused(c)
        PROVE  \E d \in Conns : Watches(d)'
    BY <1>5 DEF ReportStarted, MarkStarted, ReportRefused
  <1>6. ASSUME NEW c \in Conns, SelfCheckPasses(c) \/ SelfCheckFails(c) \/ CountActive(c)
        PROVE  \E d \in Conns : Watches(d)'
    BY <1>6 DEF SelfCheckPasses, SelfCheckFails, CountActive
  <1>7. ASSUME NEW c \in Conns, CheckRetired(c) \/ CountIdle(c)
        PROVE  \E d \in Conns : Watches(d)'
    <2>1. CASE CheckRetired(c)
      BY <2>1 DEF CheckRetired
    <2>2. CASE CountIdle(c)
      BY <2>2 DEF CountIdle
    <2>3. QED
      BY <1>7, <2>1, <2>2
  <1>8. ASSUME NEW c \in Conns, StopBroker(c) \/ ClearActive(c) \/ StopServer(c)
        PROVE  \E d \in Conns : Watches(d)'
    BY <1>8 DEF StopBroker, ClearActive, StopServer
  <1>9. QED
    BY <1>1, <1>2, <1>3, <1>4, <1>5, <1>6, <1>7, <1>8 DEF Next, HandlerStep

-----------------------------------------------------------------------------
\* The inductive invariant of the server whose clients wait for their command to end,
\* as the repository's do.
THEOREM ServerInvariant ==
    ASSUME Pipelining = FALSE
    PROVE  Spec => []ServerInv
  <1>1. Init => ServerInv
    BY InitHolds
  <1>2. ServerInv /\ [Next]_vars => ServerInv'
    BY StepHolds
  <1>3. QED
    BY <1>1, <1>2, PTL DEF Spec

\* No entry of the active map is left without a handler that will remove it.
THEOREM EntriesAreOwned ==
    ASSUME Pipelining = FALSE
    PROVE  Spec => []ActiveIsOwned
  <1>1. ServerInv => ActiveIsOwned
    BY DEF ServerInv
  <1>2. QED
    BY <1>1, ServerInvariant, PTL

\* A server that has stopped holds no command, however many handlers were stopping it.
THEOREM StopLeavesNoCommand ==
    ASSUME Pipelining = FALSE
    PROVE  Spec => []StoppedHasNoCommand
  <1>1. ServerInv => StoppedHasNoCommand
    BY DEF ServerInv
  <1>2. QED
    BY <1>1, ServerInvariant, PTL

\* Every delivered command has exactly one end on record, and the one that fits.
THEOREM CommandsAreAccounted ==
    ASSUME Pipelining = FALSE
    PROVE  Spec => []TrailIsClosed
  <1>1. ASSUME ServerInv PROVE TrailIsClosed
    <2> SUFFICES ASSUME NEW c \in Conns, At(c, "closed"), ~brokerStop, trail[c] # {}
                 PROVE  /\ Cardinality(trail[c] \cap Terminal) = 1
                        /\ "lost_after_start" \in trail[c] => "started" \in trail[c]
                        /\ "lost_after_payload" \in trail[c] => "started" \notin trail[c]
      BY DEF TrailIsClosed
    <2>1. Closed(c)
      BY <1>1 DEF ServerInv, TrailInv, ActiveIsOwned, Tends, At
    <2>2. PICK e \in Terminal : trail[c] \cap Terminal = {e}
      BY <2>1 DEF Closed
    <2>3. Cardinality({e}) = 1
      BY FS_Singleton
    <2>4. QED
      BY <2>1, <2>2, <2>3 DEF Closed
  <1>2. ServerInv => TrailIsClosed
    BY <1>1
  <1>3. QED
    BY <1>2, ServerInvariant, PTL

\* A retired daemon that the end of a command leaves idle is being stopped: while it has
\* no command and has not lost its last one to an aborted delivery, there is a handler
\* that will stop it.  After an aborted delivery nobody looks (server.go:755).
THEOREM RetirementIsWatched ==
    ASSUME Pipelining = FALSE
    PROVE  Spec => []RetiredIsWatched
  <1>1. Init => RetiredIsWatched
    BY DEF Init, RetiredIsWatched
  <1>2. ServerInv /\ RetiredIsWatched /\ [Next]_vars => RetiredIsWatched'
    BY StepWatches
  <1>3. QED
    BY <1>1, <1>2, ServerInvariant, PTL DEF Spec
=============================================================================
