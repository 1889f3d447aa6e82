------------------------ MODULE SocketApprover_proofs ------------------------
(***************************************************************************)
(* The approval queue, for any number of jobs and approver processes: it   *)
(* never stalls, no job outlives its Approve call, an approval was         *)
(* submitted by the process of its job, and nobody sleeps through the      *)
(* moment its job is ready.                                                *)
(***************************************************************************)
EXTENDS SocketApprover, SequenceTheorems, TLAPS

EndingRec == [step : {"idle", "dequeue", "clear", "send"},
              job : MaybeJob, result : Results \cup {"none"}]

LEMMA IdleType == Idle \in EndingRec /\ Idle.step = "idle"
  BY DEF Idle, EndingRec, MaybeJob

\* Removing the i-th job from the queue.
LEMMA RemovedAt ==
    ASSUME NEW S, NEW q \in Seq(S), NEW i \in 1..Len(q)
    PROVE  LET t == SubSeq(q, 1, i - 1) \o SubSeq(q, i + 1, Len(q))
           IN  /\ t \in Seq(S)
               /\ Len(t) = Len(q) - 1
               /\ \A k \in 1..(Len(q) - 1) : t[k] = IF k < i THEN q[k] ELSE q[k + 1]
  <1> DEFINE u == SubSeq(q, 1, i - 1)
             v == SubSeq(q, i + 1, Len(q))
  <1>0. Len(q) \in Nat /\ i \in Nat /\ 1 <= i /\ i <= Len(q)
    BY LenProperties
  <1>1. u \in Seq(S) /\ Len(u) = i - 1 /\ \A k \in 1..(i - 1) : u[k] = q[k]
    BY <1>0
  <1>2. v \in Seq(S) /\ Len(v) = Len(q) - i /\ \A k \in 1..(Len(q) - i) : v[k] = q[i + k]
    BY <1>0
  <1> HIDE DEF u, v
  <1>3. /\ u \o v \in Seq(S)
        /\ Len(u \o v) = Len(u) + Len(v)
        /\ \A k \in 1..(Len(u) + Len(v)) :
              (u \o v)[k] = IF k <= Len(u) THEN u[k] ELSE v[k - Len(u)]
    BY <1>1, <1>2, ConcatProperties
  <1>4. ASSUME NEW k \in 1..(Len(q) - 1)
        PROVE  (u \o v)[k] = IF k < i THEN q[k] ELSE q[k + 1]
    <2>1. CASE k < i
      BY <1>0, <1>1, <1>2, <1>3, <2>1
    <2>2. CASE ~(k < i)
      <3>1. k - Len(u) \in 1..(Len(q) - i) /\ i + (k - Len(u)) = k + 1 /\ ~(k <= Len(u))
            /\ k \in 1..(Len(u) + Len(v))
        BY <1>0, <1>1, <1>2, <2>2
      <3>2. (u \o v)[k] = v[k - Len(u)]
        BY <1>3, <3>1
      <3>3. v[k - Len(u)] = q[k + 1]
        BY <1>2, <3>1
      <3>4. QED
        BY <2>2, <3>2, <3>3
    <2>3. QED
      BY <2>1, <2>2
  <1>5. Len(u \o v) = Len(q) - 1
    BY <1>0, <1>1, <1>2, <1>3
  <1>6. QED
    BY <1>3, <1>4, <1>5, Zenon DEF u, v

-----------------------------------------------------------------------------
(***************************************************************************)
(* Queues without repetition.                                              *)
(***************************************************************************)
Members(q)  == {q[i] : i \in 1..Len(q)}
Distinct(q) == \A i, k \in 1..Len(q) : q[i] = q[k] => i = k

LEMMA AppendMembers ==
    ASSUME NEW S, NEW q \in Seq(S), NEW j \in S, Distinct(q), j \notin Members(q)
    PROVE  /\ Append(q, j) \in Seq(S)
           /\ Members(Append(q, j)) = Members(q) \cup {j}
           /\ Distinct(Append(q, j))
  <1> DEFINE t == Append(q, j)
  <1>1. /\ t \in Seq(S) /\ Len(t) = Len(q) + 1 /\ Len(q) \in Nat
        /\ \A i \in 1..Len(q) : t[i] = q[i]
        /\ t[Len(q) + 1] = j
    BY AppendProperties, LenProperties
  <1> HIDE DEF t
  <1>2. Members(t) = Members(q) \cup {j}
    BY <1>1 DEF Members
  <1>3. Distinct(t)
    BY <1>1 DEF Members, Distinct
  <1>4. QED
    BY <1>1, <1>2, <1>3 DEF t

LEMMA TailMembers ==
    ASSUME NEW S, NEW q \in Seq(S), q # <<>>, Distinct(q)
    PROVE  /\ Head(q) \in S /\ Head(q) \in Members(q)
           /\ Tail(q) \in Seq(S)
           /\ Members(Tail(q)) = Members(q) \ {Head(q)}
           /\ Distinct(Tail(q))
  <1> DEFINE t == Tail(q)
  <1>1. /\ t \in Seq(S) /\ Len(t) = Len(q) - 1 /\ Len(q) \in Nat /\ Len(q) > 0
        /\ \A i \in 1..Len(t) : t[i] = q[i + 1]
        /\ Head(q) \in S /\ Head(q) = q[1]
    BY HeadTailProperties, LenProperties
  <1> HIDE DEF t
  <1>2. Members(t) = Members(q) \ {q[1]}
    <2>1. ASSUME NEW x \in Members(t) PROVE x \in Members(q) /\ x # q[1]
      BY <1>1, <2>1 DEF Members, Distinct
    <2>2. ASSUME NEW x \in Members(q), x # q[1] PROVE x \in Members(t)
      <3>1. PICK i \in 1..Len(q) : x = q[i]
        BY <2>2 DEF Members
      <3>2. i - 1 \in 1..Len(t) /\ t[i - 1] = q[i]
        <4>1. i # 1
          BY <2>2, <3>1
        <4>2. i - 1 \in 1..Len(t) /\ (i - 1) + 1 = i
          BY <1>1, <4>1
        <4>3. QED
          BY <1>1, <4>2
      <3>3. QED
        BY <3>1, <3>2 DEF Members
    <2>3. QED
      BY <2>1, <2>2
  <1>3. Distinct(t)
    BY <1>1 DEF Distinct
  <1>4. Head(q) \in Members(q)
    BY <1>1 DEF Members
  <1>5. QED
    BY <1>1, <1>2, <1>3, <1>4 DEF t

LEMMA ShiftedMembers ==
    ASSUME NEW q, Len(q) \in Nat, NEW i \in 1..Len(q), Distinct(q), NEW t,
           Len(t) = Len(q) - 1,
           \A k \in 1..(Len(q) - 1) : t[k] = IF k < i THEN q[k] ELSE q[k + 1]
    PROVE  /\ Members(t) = Members(q) \ {q[i]}
           /\ Distinct(t)
  <1>1. /\ Len(t) = Len(q) - 1
        /\ \A k \in 1..(Len(q) - 1) : t[k] = IF k < i THEN q[k] ELSE q[k + 1]
    OBVIOUS
  <1>2. Len(q) \in Nat
    OBVIOUS
  <1>3. Members(t) = Members(q) \ {q[i]}
    <2>1. ASSUME NEW x \in Members(t) PROVE x \in Members(q) /\ x # q[i]
      <3>1. PICK k \in 1..(Len(q) - 1) : x = t[k]
        BY <1>1, <2>1 DEF Members
      <3>2. PICK m \in 1..Len(q) : x = q[m] /\ m # i
        <4>1. CASE k < i
          BY <1>1, <1>2, <3>1, <4>1
        <4>2. CASE ~(k < i)
          <5>1. x = q[k + 1] /\ k + 1 \in 1..Len(q) /\ k + 1 # i
            BY <1>1, <1>2, <3>1, <4>2
          <5>2. QED
            BY <5>1
        <4>3. QED
          BY <4>1, <4>2
      <3>3. QED
        BY <3>2 DEF Members, Distinct
    <2>2. ASSUME NEW x \in Members(q), x # q[i] PROVE x \in Members(t)
      <3>1. PICK m \in 1..Len(q) : x = q[m]
        BY <2>2 DEF Members
      <3>2. m # i
        BY <2>2, <3>1
      <3>3. CASE m < i
        <4>1. m \in 1..Len(t) /\ t[m] = x
          BY <1>1, <1>2, <3>1, <3>3
        <4>2. QED
          BY <4>1 DEF Members
      <3>4. CASE m > i
        <4>1. m - 1 \in 1..(Len(q) - 1) /\ ~(m - 1 < i) /\ (m - 1) + 1 = m
          BY <1>2, <3>4
        <4>2. t[m - 1] = x
          BY <1>1, <3>1, <4>1
        <4>3. QED
          BY <1>1, <4>1, <4>2 DEF Members
      <3>5. QED
        BY <1>2, <3>2, <3>3, <3>4
    <2>3. QED
      BY <2>1, <2>2
  <1>4. Distinct(t)
    <2> SUFFICES ASSUME NEW k \in 1..Len(t), NEW m \in 1..Len(t), t[k] = t[m]
                 PROVE  k = m
      BY DEF Distinct
    <2> DEFINE shift(n) == IF n < i THEN n ELSE n + 1
    <2>1. t[k] = q[shift(k)] /\ t[m] = q[shift(m)]
      BY <1>1
    <2>2. shift(k) \in 1..Len(q) /\ shift(m) \in 1..Len(q)
      BY <1>1, <1>2
    <2>3. shift(k) = shift(m)
      BY <2>1, <2>2 DEF Distinct
    <2>4. QED
      BY <1>1, <1>2, <2>3
  <1>5. QED
    BY <1>3, <1>4

LEMMA RemoveMembers ==
    ASSUME NEW S, NEW q \in Seq(S), NEW i \in 1..Len(q), Distinct(q)
    PROVE  LET t == SubSeq(q, 1, i - 1) \o SubSeq(q, i + 1, Len(q))
           IN  /\ t \in Seq(S)
               /\ Members(t) = Members(q) \ {q[i]}
               /\ Distinct(t)
  <1> DEFINE t == SubSeq(q, 1, i - 1) \o SubSeq(q, i + 1, Len(q))
  <1>1. /\ t \in Seq(S) /\ Len(t) = Len(q) - 1
        /\ \A k \in 1..(Len(q) - 1) : t[k] = IF k < i THEN q[k] ELSE q[k + 1]
    BY RemovedAt, Zenon
  <1>2. Len(q) \in Nat
    BY LenProperties
  <1> HIDE DEF t
  <1>3. Members(t) = Members(q) \ {q[i]} /\ Distinct(t)
    BY <1>1, <1>2, ShiftedMembers
  <1>4. QED
    BY <1>1, <1>3 DEF t

-----------------------------------------------------------------------------
(***************************************************************************)
(* The invariant, action by action.                                        *)
(***************************************************************************)
LEMMA InitInv == Init => ApproverInv
  <1> SUFFICES ASSUME Init PROVE ApproverInv
    OBVIOUS
  <1>1. TypeOK
    BY IdleType DEF Init, TypeOK, MaybeJob, Results, Asks, EndingRec
  <1>2. Queued = {}
    BY DEF Init, Queued
  <1>3. \A a \in Actors : ending[a].step = "idle"
    BY DEF Init, Idle
  <1>4. \A j \in Jobs : <<"caller", j>> \in Actors
    BY DEF Actors
  <1>5. QueueInv
    BY <1>2, JobsAssumption DEF Init, QueueInv
  <1>6. EndingInv
    BY <1>3, <1>4 DEF Init, EndingInv, At
  <1>7. NoStrandedJob
    BY DEF Init, NoStrandedJob
  <1>8. QED
    BY <1>1, <1>5, <1>6, <1>7 DEF ApproverInv

\* An actor begins to end the job j.
LEMMA EndsFacts ==
    ASSUME TypeOK, NEW a \in Actors, NEW step \in {"clear", "dequeue"}, NEW j \in Jobs,
           NEW r \in Results, Ends(a, step, j, r)
    PROVE  /\ ending' \in [Actors -> EndingRec] /\ done' \in SUBSET Jobs
           /\ ending[a].step = "idle"
           /\ ending'[a].step = step /\ ending'[a].job = j /\ ending'[a].result = r
           /\ \A b \in Actors \ {a} : ending'[b] = ending[b]
  <1>1. ending \in [Actors -> EndingRec] /\ done \in SUBSET Jobs
    BY DEF TypeOK, EndingRec
  <1>2. [step |-> step, job |-> j, result |-> r] \in EndingRec
    BY DEF EndingRec, MaybeJob
  <1>3. ending[a].step = "idle"
    BY IdleType DEF Ends
  <1>4. ending' = [ending EXCEPT ![a] = [step |-> step, job |-> j, result |-> r]]
        /\ done' = done \cup {j}
    BY DEF Ends
  <1>5. QED
    BY <1>1, <1>2, <1>3, <1>4

\* If the line is left alone and no sender goes away, the queue does not stall.
LEMMA StrandedFrame ==
    ASSUME NoStrandedJob, UNCHANGED line,
           \A a \in Actors : At(a, "send") => ending'[a].step = "send"
    PROVE  NoStrandedJob'
  BY DEF NoStrandedJob, At, line

\* Steps that leave the line and the calls alone and promote no job.
LEMMA QueueFrame ==
    ASSUME QueueInv, UNCHANGED <<line, caller>>,
           \A j \in Jobs : launch'[j] = "none" <=> launch[j] = "none", TypeOK
    PROVE  QueueInv'
  <1>1. Queued' = Queued /\ Queued \subseteq Jobs
    BY DEF Queued, line, TypeOK
  <1>2. QED
    BY <1>1 DEF QueueInv, line

\* Such a step by an actor that begins to end a promoted job, or the caller's own.
LEMMA EndingFrame ==
    ASSUME TypeOK, EndingInv, NEW a \in Actors, NEW step \in {"clear", "dequeue"},
           NEW j \in Jobs, NEW r \in Results, Ends(a, step, j, r),
           UNCHANGED <<active, result, seen>>,
           \A k \in Jobs : launch'[k] = "none" <=> launch[k] = "none",
           \A p \in Jobs : conn'[p] = "picked" => conn[p] = "picked",
           \A k \in Jobs : caller[k] = "leaving" => caller'[k] = "leaving",
           launch[j] # "none" \/ (step = "dequeue" /\ a[1] = "caller"),
           a[1] = "caller" => a = <<"caller", j>> /\ caller'[j] = "leaving"
    PROVE  EndingInv'
  <1>1. /\ ending[a].step = "idle"
        /\ ending'[a].step = step /\ ending'[a].job = j /\ ending'[a].result = r
        /\ \A b \in Actors \ {a} : ending'[b] = ending[b]
    BY EndsFacts
  <1>2. \A k \in Jobs : <<"caller", k>> \in Actors /\ <<"caller", k>>[1] = "caller"
    BY DEF Actors
  <1>3. \A k \in Jobs : \/ ending'[<<"caller", k>>].step = "idle"
                        \/ ending'[<<"caller", k>>].job = k /\ caller'[k] = "leaving"
    <2> SUFFICES ASSUME NEW k \in Jobs
                 PROVE  \/ ending'[<<"caller", k>>].step = "idle"
                        \/ ending'[<<"caller", k>>].job = k /\ caller'[k] = "leaving"
      OBVIOUS
    <2>1. CASE <<"caller", k>> = a
      BY <1>1, <1>2, <2>1
    <2>2. CASE <<"caller", k>> # a
      BY <1>1, <1>2, <2>2 DEF EndingInv, At
    <2>3. QED
      BY <2>1, <2>2
  <1>4. \A k \in Jobs : result'[k] # "none" => launch'[k] # "none" /\ active' # k
    <2>1. result' = result /\ active' = active
      OBVIOUS
    <2>2. \A k \in Jobs : result[k] # "none" => launch[k] # "none" /\ active # k
      BY DEF EndingInv
    <2>3. QED
      BY <2>1, <2>2
  <1>5. \A k \in Jobs : conn'[k] = "picked" => seen'[k] \in Jobs /\ launch'[seen'[k]] # "none"
    <2>1. seen' = seen
      OBVIOUS
    <2>2. \A k \in Jobs : conn[k] = "picked" => seen[k] \in Jobs /\ launch[seen[k]] # "none"
      BY DEF EndingInv
    <2>3. QED
      BY <2>1, <2>2
  <1>6. \A b \in Actors :
          /\ ending'[b].step # "idle" => ending'[b].job \in Jobs /\ ending'[b].result \in Results
          /\ ending'[b].step \in {"clear", "send"} => launch'[ending'[b].job] # "none"
          /\ ending'[b].step = "dequeue" => b[1] = "caller" \/ launch'[ending'[b].job] # "none"
          /\ ending'[b].step = "send" => active' # ending'[b].job
    <2> SUFFICES ASSUME NEW b \in Actors
                 PROVE
          /\ ending'[b].step # "idle" => ending'[b].job \in Jobs /\ ending'[b].result \in Results
          /\ ending'[b].step \in {"clear", "send"} => launch'[ending'[b].job] # "none"
          /\ ending'[b].step = "dequeue" => b[1] = "caller" \/ launch'[ending'[b].job] # "none"
          /\ ending'[b].step = "send" => active' # ending'[b].job
      OBVIOUS
    <2>1. CASE b = a
      BY <1>1, <2>1
    <2>2. CASE b # a
      BY <1>1, <2>2 DEF EndingInv, At
    <2>3. QED
      BY <2>1, <2>2
  <1>7. QED
    BY <1>3, <1>4, <1>5, <1>6 DEF EndingInv, At

\* Steps that touch nothing EndingInv speaks of but the launch of promoted jobs and
\* what a handler has seen.
LEMMA EndingQuiet ==
    ASSUME EndingInv, UNCHANGED <<active, result, ending>>,
           \A j \in Jobs : launch'[j] = "none" <=> launch[j] = "none",
           \A j \in Jobs : conn'[j] = "picked" =>
               seen'[j] \in Jobs /\ launch[seen'[j]] # "none",
           \A j \in Jobs : caller[j] = "leaving" => caller'[j] = "leaving"
    PROVE  EndingInv'
  BY DEF EndingInv, At

LEMMA ActorFacts ==
    ASSUME NEW j \in Jobs
    PROVE  /\ <<"caller", j>> \in Actors /\ <<"caller", j>>[1] = "caller"
           /\ <<"launcher", j>> \in Actors /\ <<"launcher", j>>[1] = "launcher"
           /\ <<"peer", j>> \in Actors /\ <<"peer", j>>[1] = "peer"
  BY DEF Actors

\* Steps that end nothing and leave the line and the calls alone.
LEMMA QuietStep ==
    ASSUME ApproverInv, TypeOK', UNCHANGED <<line, caller, result, ending>>,
           \A j \in Jobs : launch'[j] = "none" <=> launch[j] = "none",
           \A j \in Jobs : conn'[j] = "picked" =>
               \/ conn[j] = "picked" /\ seen'[j] = seen[j]
               \/ seen'[j] = active /\ active # NoJob
    PROVE  ApproverInv'
  <1>1. QueueInv'
    BY QueueFrame DEF ApproverInv, line
  <1>2. \A j \in Jobs : conn'[j] = "picked" => seen'[j] \in Jobs /\ launch[seen'[j]] # "none"
    <2> SUFFICES ASSUME NEW j \in Jobs, conn'[j] = "picked"
                 PROVE  seen'[j] \in Jobs /\ launch[seen'[j]] # "none"
      OBVIOUS
    <2>1. CASE conn[j] = "picked" /\ seen'[j] = seen[j]
      <3>1. seen[j] \in Jobs /\ launch[seen[j]] # "none"
        BY <2>1 DEF ApproverInv, EndingInv
      <3>2. QED
        BY <2>1, <3>1
    <2>2. CASE seen'[j] = active /\ active # NoJob
      <3>1. active \in Jobs
        BY <2>2 DEF ApproverInv, TypeOK, MaybeJob
      <3>2. launch[active] # "none"
        BY <3>1 DEF ApproverInv, QueueInv
      <3>3. QED
        BY <2>2, <3>1, <3>2
    <2>3. QED
      BY <2>1, <2>2
  <1>3. EndingInv'
    BY <1>2, EndingQuiet DEF ApproverInv, line
  <1>4. NoStrandedJob'
    BY StrandedFrame DEF ApproverInv, At
  <1>5. QED
    BY <1>1, <1>3, <1>4 DEF ApproverInv

\* A goroutine begins to end a promoted job.
LEMMA EndingStep ==
    ASSUME ApproverInv, TypeOK', NEW a \in Actors, a[1] # "caller",
           NEW step \in {"clear", "dequeue"}, NEW j \in Jobs, launch[j] # "none",
           NEW r \in Results, Ends(a, step, j, r),
           UNCHANGED <<line, caller, result>>,
           \A k \in Jobs : launch'[k] = "none" <=> launch[k] = "none",
           \A p \in Jobs : conn'[p] = "picked" => conn[p] = "picked" /\ seen'[p] = seen[p]
    PROVE  ApproverInv'
  <1>1. QueueInv'
    BY QueueFrame DEF ApproverInv
  <1>2. /\ ending[a].step = "idle"
        /\ ending'[a].step = step /\ ending'[a].job = j /\ ending'[a].result = r
        /\ \A b \in Actors \ {a} : ending'[b] = ending[b]
    BY EndsFacts DEF ApproverInv
  <1>3. EndingInv'
    <2>1. \A k \in Jobs : <<"caller", k>> \in Actors /\ <<"caller", k>> # a
      BY ActorFacts
    <2>2. \A k \in Jobs :
             /\ \/ ending'[<<"caller", k>>].step = "idle"
                \/ ending'[<<"caller", k>>].job = k /\ caller'[k] = "leaving"
             /\ result'[k] # "none" => launch'[k] # "none" /\ active' # k
             /\ conn'[k] = "picked" => seen'[k] \in Jobs /\ launch'[seen'[k]] # "none"
      <3>1. \A k \in Jobs : ending'[<<"caller", k>>] = ending[<<"caller", k>>]
        BY <1>2, <2>1
      <3>2. EndingInv /\ active' = active /\ result' = result /\ caller' = caller
        BY DEF ApproverInv, line
      <3> SUFFICES ASSUME NEW k \in Jobs
                   PROVE
             /\ \/ ending'[<<"caller", k>>].step = "idle"
                \/ ending'[<<"caller", k>>].job = k /\ caller'[k] = "leaving"
             /\ result'[k] # "none" => launch'[k] # "none" /\ active' # k
             /\ conn'[k] = "picked" => seen'[k] \in Jobs /\ launch'[seen'[k]] # "none"
        OBVIOUS
      <3>3. \/ ending'[<<"caller", k>>].step = "idle"
            \/ ending'[<<"caller", k>>].job = k /\ caller'[k] = "leaving"
        BY <3>1, <3>2 DEF EndingInv, At
      <3>4. result'[k] # "none" => launch'[k] # "none" /\ active' # k
        <4>1. result[k] # "none" => launch[k] # "none" /\ active # k
          BY <3>2 DEF EndingInv
        <4>2. launch[k] # "none" => launch'[k] # "none"
          OBVIOUS
        <4>3. QED
          BY <3>2, <4>1, <4>2
      <3>5. conn'[k] = "picked" => seen'[k] \in Jobs /\ launch'[seen'[k]] # "none"
        <4> SUFFICES ASSUME conn'[k] = "picked"
                     PROVE  seen'[k] \in Jobs /\ launch'[seen'[k]] # "none"
          OBVIOUS
        <4>1. conn[k] = "picked" /\ seen'[k] = seen[k]
          OBVIOUS
        <4>2. seen[k] \in Jobs /\ launch[seen[k]] # "none"
          BY <3>2, <4>1 DEF EndingInv
        <4>3. launch'[seen[k]] # "none"
          BY <4>2
        <4>4. QED
          BY <4>1, <4>2, <4>3
      <3>6. QED
        BY <3>3, <3>4, <3>5
    <2>3. \A b \in Actors :
          /\ ending'[b].step # "idle" => ending'[b].job \in Jobs /\ ending'[b].result \in Results
          /\ ending'[b].step \in {"clear", "send"} => launch'[ending'[b].job] # "none"
          /\ ending'[b].step = "dequeue" => b[1] = "caller" \/ launch'[ending'[b].job] # "none"
          /\ ending'[b].step = "send" => active' # ending'[b].job
      <3> SUFFICES ASSUME NEW b \in Actors
                   PROVE
          /\ ending'[b].step # "idle" => ending'[b].job \in Jobs /\ ending'[b].result \in Results
          /\ ending'[b].step \in {"clear", "send"} => launch'[ending'[b].job] # "none"
          /\ ending'[b].step = "dequeue" => b[1] = "caller" \/ launch'[ending'[b].job] # "none"
          /\ ending'[b].step = "send" => active' # ending'[b].job
        OBVIOUS
      <3>1. CASE b = a
        BY <1>2, <3>1
      <3>2. CASE b # a
        BY <1>2, <3>2 DEF ApproverInv, EndingInv, At, line
      <3>3. QED
        BY <3>1, <3>2
    <2>4. QED
      BY <2>2, <2>3 DEF EndingInv, At
  <1>4. NoStrandedJob'
    <2>1. \A b \in Actors : At(b, "send") => ending'[b].step = "send"
      BY <1>2 DEF At
    <2>2. QED
      BY <2>1, StrandedFrame DEF ApproverInv
  <1>5. QED
    BY <1>1, <1>3, <1>4 DEF ApproverInv

\* Approve begins to cancel its own job.
LEMMA CallerLeaves ==
    ASSUME ApproverInv, TypeOK', NEW j \in Jobs, caller[j] = "waiting",
           Cancel(<<"caller", j>>, j, "refused"),
           caller' = [caller EXCEPT ![j] = "leaving"],
           UNCHANGED <<line, result, launch, conn, seen>>
    PROVE  ApproverInv'
  <1>0. TypeOK /\ QueueInv /\ EndingInv /\ NoStrandedJob
    BY DEF ApproverInv
  <1>1. /\ caller'[j] = "leaving" /\ \A k \in Jobs \ {j} : caller'[k] = caller[k]
        /\ Queued' = Queued /\ Queued \subseteq Jobs
    BY <1>0 DEF TypeOK, Queued, line
  <1>2. QueueInv'
    BY <1>0, <1>1 DEF QueueInv, line
  <1>3. EndingInv'
    <2>1. Ends(<<"caller", j>>, "dequeue", j, "refused") /\ "refused" \in Results
      BY DEF Cancel, Results
    <2>2. \A k \in Jobs : caller[k] = "leaving" => caller'[k] = "leaving"
      BY <1>1
    <2>3. QED
      BY <1>0, <1>1, <2>1, <2>2, ActorFacts, EndingFrame DEF line
  <1>4. NoStrandedJob'
    <2>1. \A b \in Actors : At(b, "send") => ending'[b].step = "send"
      BY <1>0, EndsFacts, ActorFacts DEF At, Cancel, Results
    <2>2. QED
      BY <1>0, <2>1, StrandedFrame
  <1>5. QED
    BY <1>2, <1>3, <1>4 DEF ApproverInv

\* What the invariant says of an actor that is ending a job.
LEMMA ActorInv ==
    ASSUME ApproverInv, NEW a \in Actors, ending[a].step # "idle"
    PROVE  /\ ending[a].job \in Jobs /\ ending[a].result \in Results
           /\ a[1] = "caller" => /\ a[2] \in Jobs /\ a = <<"caller", a[2]>>
                                 /\ ending[a].job = a[2] /\ caller[a[2]] = "leaving"
           /\ ending[a].step \in {"clear", "send"} => launch[ending[a].job] # "none"
           /\ ending[a].step = "dequeue" => a[1] = "caller" \/ launch[ending[a].job] # "none"
           /\ ending[a].step = "send" => active # ending[a].job
  <1>1. EndingInv
    BY DEF ApproverInv
  <1>2. a[2] \in Jobs /\ a = <<a[1], a[2]>>
    BY DEF Actors
  <1>3. a[1] = "caller" => ending[a].job = a[2] /\ caller[a[2]] = "leaving"
    BY <1>1, <1>2 DEF EndingInv, At
  <1>4. QED
    BY <1>1, <1>2, <1>3 DEF EndingInv, At

\* An actor that has ended its job, its caller having returned if it was the caller.
LEMMA EndingDone ==
    ASSUME ApproverInv, NEW a \in Actors, ending[a].step # "idle",
           ending' = [ending EXCEPT ![a] = Idle], Returns(a, ending[a].result),
           UNCHANGED <<active, launch, conn, seen>>,
           \A j \in Jobs : result'[j] # "none" =>
               result[j] # "none" \/ (launch[j] # "none" /\ active # j)
    PROVE  EndingInv'
  <1>0. EndingInv /\ ending \in [Actors -> EndingRec] /\ caller \in [Jobs -> {"idle", "waiting", "leaving", "returned"}]
    BY DEF ApproverInv, TypeOK, EndingRec
  <1>1. ending'[a].step = "idle" /\ \A b \in Actors \ {a} : ending'[b] = ending[b]
    BY <1>0, IdleType
  <1>2. \A k \in Jobs : <<"caller", k>> # a => caller'[k] = caller[k]
    <2> SUFFICES ASSUME NEW k \in Jobs, <<"caller", k>> # a PROVE caller'[k] = caller[k]
      OBVIOUS
    <2>1. CASE a[1] = "caller"
      <3>1. a[2] # k /\ a[2] \in Jobs
        BY <2>1, ActorInv
      <3>2. QED
        BY <1>0, <2>1, <3>1 DEF Returns
    <2>2. CASE a[1] # "caller"
      BY <2>2 DEF Returns, calls
    <2>3. QED
      BY <2>1, <2>2
  <1>3. \A k \in Jobs : \/ ending'[<<"caller", k>>].step = "idle"
                        \/ ending'[<<"caller", k>>].job = k /\ caller'[k] = "leaving"
    <2> SUFFICES ASSUME NEW k \in Jobs, <<"caller", k>> # a
                 PROVE  \/ ending'[<<"caller", k>>].step = "idle"
                        \/ ending'[<<"caller", k>>].job = k /\ caller'[k] = "leaving"
      BY <1>1
    <2>1. ending'[<<"caller", k>>] = ending[<<"caller", k>>]
      BY <1>1, ActorFacts
    <2>2. QED
      BY <1>0, <1>2, <2>1 DEF EndingInv, At
  <1>4. \A b \in Actors : ending'[b].step # "idle" => b # a /\ ending'[b] = ending[b]
    BY <1>1
  <1>5. \A j \in Jobs : /\ result'[j] # "none" => launch[j] # "none" /\ active # j
                        /\ conn[j] = "picked" => seen[j] \in Jobs /\ launch[seen[j]] # "none"
    BY <1>0 DEF EndingInv
  <1>6. \A b \in Actors :
          /\ ending'[b].step # "idle" => ending'[b].job \in Jobs /\ ending'[b].result \in Results
          /\ ending'[b].step \in {"clear", "send"} => launch[ending'[b].job] # "none"
          /\ ending'[b].step = "dequeue" => b[1] = "caller" \/ launch[ending'[b].job] # "none"
          /\ ending'[b].step = "send" => active # ending'[b].job
    BY <1>0, <1>4 DEF EndingInv, At
  <1>7. QED
    BY <1>3, <1>5, <1>6 DEF EndingInv, At

LEMMA CancelQueuedStep ==
    ASSUME ApproverInv, TypeOK', NEW a \in Actors, CancelQueued(a)
    PROVE  ApproverInv'
  <1>0. TypeOK /\ QueueInv /\ NoStrandedJob /\ ending[a].step = "dequeue" /\ queue \in Seq(Jobs)
    BY DEF ApproverInv, CancelQueued, At, TypeOK
  <1> DEFINE j == ending[a].job
  <1>1. PICK i \in 1..Len(queue) :
           /\ queue[i] = j
           /\ queue' = SubSeq(queue, 1, i - 1) \o SubSeq(queue, i + 1, Len(queue))
    BY DEF CancelQueued
  <1>2. Queued = Members(queue) /\ Queued' = Members(queue') /\ Distinct(queue)
    BY <1>0 DEF Queued, Members, Distinct, QueueInv
  <1>3. Members(queue') = Members(queue) \ {j} /\ Distinct(queue')
    <2>1. /\ Members(SubSeq(queue, 1, i - 1) \o SubSeq(queue, i + 1, Len(queue)))
                = Members(queue) \ {queue[i]}
          /\ Distinct(SubSeq(queue, 1, i - 1) \o SubSeq(queue, i + 1, Len(queue)))
      BY <1>0, <1>2, RemoveMembers, Zenon
    <2>2. QED
      BY <1>1, <2>1, Zenon
  <1>4. j \in Queued /\ Queued \subseteq Jobs
    BY <1>0, <1>1 DEF Queued
  <1>5. launch[j] = "none" /\ a[1] = "caller" /\ j = a[2] /\ caller[j] = "leaving" /\ j \in Jobs
    BY <1>0, <1>4, ActorInv DEF QueueInv
  <1>6. /\ caller'[j] = "returned" /\ \A k \in Jobs \ {j} : caller'[k] = caller[k]
        /\ UNCHANGED <<active, launch, result, conn, seen, promoters>>
    <2>1. /\ caller' = [caller EXCEPT ![j] = "returned"]
          /\ UNCHANGED <<active, launch, result, conn, seen, promoters>>
      BY <1>5 DEF CancelQueued, Returns, procs, peers
    <2>2. caller \in [Jobs -> {"idle", "waiting", "leaving", "returned"}]
      BY <1>0 DEF TypeOK
    <2>3. QED
      BY <1>5, <2>1, <2>2
  <1>7. QueueInv'
    <2>1. \A i1, k1 \in 1..Len(queue') : queue'[i1] = queue'[k1] => i1 = k1
      BY <1>3 DEF Distinct
    <2>2. Queued' = Queued \ {j}
      BY <1>2, <1>3
    <2>3. \A k \in Queued' : launch'[k] = "none" /\ caller'[k] \in {"waiting", "leaving"}
      BY <1>0, <1>4, <1>6, <2>2 DEF QueueInv
    <2>4. \A k \in Jobs :
          /\ active' = k => launch'[k] # "none"
          /\ caller'[k] = "idle" => launch'[k] = "none"
          /\ caller'[k] \in {"waiting", "leaving"} => k \in Queued' \/ launch'[k] # "none"
          /\ caller'[k] = "returned" => active' # k
      BY <1>0, <1>5, <1>6, <2>2 DEF QueueInv
    <2>5. QED
      BY <2>1, <2>3, <2>4 DEF QueueInv
  <1>8. EndingInv'
    <2>1. \A k \in Jobs : result'[k] # "none" =>
              result[k] # "none" \/ (launch[k] # "none" /\ active # k)
      BY <1>6
    <2>2. /\ ending[a].step # "idle" /\ ending' = [ending EXCEPT ![a] = Idle]
          /\ Returns(a, ending[a].result)
      BY <1>0 DEF CancelQueued
    <2>3. QED
      BY <1>6, <2>1, <2>2, EndingDone
  <1>9. NoStrandedJob'
    <2>1. queue # <<>>
      BY <1>1
    <2>2. \A b \in Actors : At(b, "send") => ending'[b] = ending[b]
      <3>1. ending' = [ending EXCEPT ![a] = Idle] /\ ending \in [Actors -> EndingRec]
        BY <1>0 DEF CancelQueued, TypeOK, EndingRec
      <3>2. QED
        BY <1>0, <3>1 DEF At
    <2>3. QED
      BY <1>0, <1>6, <2>1, <2>2 DEF NoStrandedJob, At
  <1>10. QED
    BY <1>7, <1>8, <1>9 DEF ApproverInv

\* An actor goes on with the job it is ending: from dequeue to clear, or to send.
LEMMA EndingGoesOn ==
    ASSUME ApproverInv, NEW a \in Actors, ending[a].step # "idle",
           NEW step \in {"clear", "send"}, ending' = [ending EXCEPT ![a].step = step],
           launch[ending[a].job] # "none", step = "send" => active' # ending[a].job,
           active' \in {active, NoJob}, UNCHANGED <<launch, caller, result, seen>>,
           \A p \in Jobs : conn'[p] = "picked" => conn[p] = "picked"
    PROVE  EndingInv'
  <1>0. EndingInv /\ ending \in [Actors -> EndingRec] /\ NoJob \notin Jobs
    BY JobsAssumption DEF ApproverInv, TypeOK, EndingRec
  <1>1. /\ ending'[a].step = step /\ ending'[a].job = ending[a].job
        /\ ending'[a].result = ending[a].result
        /\ \A b \in Actors \ {a} : ending'[b] = ending[b]
    BY <1>0 DEF EndingRec
  <1>2. \A k \in Jobs : \/ ending'[<<"caller", k>>].step = "idle"
                        \/ ending'[<<"caller", k>>].job = k /\ caller'[k] = "leaving"
    <2> SUFFICES ASSUME NEW k \in Jobs
                 PROVE  \/ ending'[<<"caller", k>>].step = "idle"
                        \/ ending'[<<"caller", k>>].job = k /\ caller'[k] = "leaving"
      OBVIOUS
    <2>1. CASE a = <<"caller", k>>
      BY <1>0, <1>1, <2>1 DEF EndingInv, At
    <2>2. CASE a # <<"caller", k>>
      BY <1>0, <1>1, <2>2, ActorFacts DEF EndingInv, At
    <2>3. QED
      BY <2>1, <2>2
  <1>3. \A j \in Jobs :
          /\ result'[j] # "none" => launch'[j] # "none" /\ active' # j
          /\ conn'[j] = "picked" => seen'[j] \in Jobs /\ launch'[seen'[j]] # "none"
    <2>1. \A j \in Jobs : active # j => active' # j
      BY <1>0
    <2>2. \A j \in Jobs : result'[j] # "none" => launch'[j] # "none" /\ active' # j
      BY <1>0, <2>1 DEF EndingInv
    <2>3. \A j \in Jobs : conn'[j] = "picked" => seen'[j] \in Jobs /\ launch'[seen'[j]] # "none"
      BY <1>0 DEF EndingInv
    <2>4. QED
      BY <2>2, <2>3
  <1>4. ASSUME NEW b \in Actors
        PROVE
          /\ ending'[b].step # "idle" => ending'[b].job \in Jobs /\ ending'[b].result \in Results
          /\ ending'[b].step \in {"clear", "send"} => launch'[ending'[b].job] # "none"
          /\ ending'[b].step = "dequeue" => b[1] = "caller" \/ launch'[ending'[b].job] # "none"
          /\ ending'[b].step = "send" => active' # ending'[b].job
    <2>1. CASE b = a
      BY <1>1, <2>1, ActorInv
    <2>2. CASE b # a
      BY <1>0, <1>1, <2>2 DEF EndingInv, At
    <2>3. QED
      BY <2>1, <2>2
  <1>5. QED
    BY <1>2, <1>3, <1>4 DEF EndingInv, At

LEMMA CancelStartedStep ==
    ASSUME ApproverInv, TypeOK', NEW a \in Actors, CancelStarted(a)
    PROVE  ApproverInv'
  <1>0. /\ TypeOK /\ QueueInv /\ NoStrandedJob /\ ending[a].step = "dequeue"
        /\ ending[a].job \notin Queued
        /\ ending' = [ending EXCEPT ![a].step = "clear"]
        /\ UNCHANGED <<line, caller, result, launch, conn, seen>>
    BY DEF ApproverInv, CancelStarted, At, calls, procs, peers
  <1>1. launch[ending[a].job] # "none"
    BY <1>0, ActorInv DEF QueueInv
  <1>2. QueueInv'
    BY <1>0, QueueFrame
  <1>3. EndingInv'
    BY <1>0, <1>1, EndingGoesOn DEF line
  <1>4. NoStrandedJob'
    <2>1. \A b \in Actors : At(b, "send") => ending'[b].step = "send"
      BY <1>0 DEF At, TypeOK
    <2>2. QED
      BY <1>0, <2>1, StrandedFrame
  <1>5. QED
    BY <1>2, <1>3, <1>4 DEF ApproverInv

LEMMA ClearActiveStep ==
    ASSUME ApproverInv, TypeOK', NEW a \in Actors, ClearActive(a)
    PROVE  ApproverInv'
  <1>0. /\ TypeOK /\ QueueInv /\ ending[a].step = "clear"
        /\ active' = IF active = ending[a].job THEN NoJob ELSE active
        /\ conn' = Woken
        /\ ending' = [ending EXCEPT ![a].step = "send"]
        /\ UNCHANGED <<queue, promoters, caller, result, launch, seen>>
    BY DEF ApproverInv, ClearActive, At, calls, procs
  <1>1. /\ launch[ending[a].job] # "none" /\ ending[a].job \in Jobs
        /\ active' \in {active, NoJob} /\ active' # ending[a].job
    BY <1>0, ActorInv, JobsAssumption
  <1>2. QueueInv'
    <2>1. Queued' = Queued
      BY <1>0 DEF Queued
    <2>2. QED
      BY <1>0, <1>1, <2>1, JobsAssumption DEF QueueInv
  <1>3. EndingInv'
    <2>1. \A p \in Jobs : conn'[p] = "picked" => conn[p] = "picked"
      BY <1>0 DEF Woken
    <2>2. QED
      BY <1>0, <1>1, <2>1, EndingGoesOn
  <1>4. NoStrandedJob'
    <2>1. ending'[a].step = "send"
      BY <1>0 DEF TypeOK
    <2>2. QED
      BY <2>1 DEF NoStrandedJob, At
  <1>5. QED
    BY <1>2, <1>3, <1>4 DEF ApproverInv

LEMMA SendResultStep ==
    ASSUME ApproverInv, TypeOK', NEW a \in Actors, SendResult(a)
    PROVE  ApproverInv'
  <1> DEFINE j == ending[a].job
  <1>0. /\ TypeOK /\ QueueInv /\ ending[a].step = "send"
        /\ promoters' = promoters + 1 /\ promoters \in Nat
        /\ ending' = [ending EXCEPT ![a] = Idle]
        /\ Returns(a, ending[a].result)
        /\ UNCHANGED <<queue, active, launch, conn, seen>>
    BY DEF ApproverInv, TypeOK, SendResult, At, procs, peers
  <1>1. launch[j] # "none" /\ active # j /\ j \in Jobs
    BY <1>0, ActorInv
  <1>2. caller \in [Jobs -> {"idle", "waiting", "leaving", "returned"}] /\ Queued' = Queued
        /\ Queued \subseteq Jobs
    BY <1>0 DEF TypeOK, Queued
  <1>3. \/ caller' = caller
        \/ /\ caller[j] = "leaving" /\ caller'[j] = "returned"
           /\ \A k \in Jobs \ {j} : caller'[k] = caller[k]
    <2>1. CASE a[1] = "caller"
      <3>1. a[2] = j /\ caller[j] = "leaving"
        BY <1>0, <2>1, ActorInv
      <3>2. caller' = [caller EXCEPT ![j] = "returned"]
        BY <1>0, <2>1, <3>1 DEF Returns
      <3>3. QED
        BY <1>1, <1>2, <3>1, <3>2
    <2>2. CASE a[1] # "caller"
      BY <1>0, <2>2 DEF Returns, calls
    <2>3. QED
      BY <2>1, <2>2
  <1>4. QueueInv'
    <2>1. CASE caller' = caller
      BY <1>0, <1>2, <2>1 DEF QueueInv
    <2>2. CASE /\ caller[j] = "leaving" /\ caller'[j] = "returned"
               /\ \A k \in Jobs \ {j} : caller'[k] = caller[k]
      <3>1. j \notin Queued
        BY <1>0, <1>1 DEF QueueInv
      <3>2. QED
        BY <1>0, <1>1, <1>2, <2>2, <3>1 DEF QueueInv
    <2>3. QED
      BY <1>3, <2>1, <2>2
  <1>5. EndingInv'
    <2>1. \A k \in Jobs : result'[k] # "none" =>
              result[k] # "none" \/ (launch[k] # "none" /\ active # k)
      <3>1. \A k \in Jobs : k # j => result'[k] = result[k]
        BY DEF SendResult, ApproverInv, TypeOK
      <3>2. QED
        BY <1>1, <3>1
    <2>2. ending[a].step # "idle"
      BY <1>0
    <2>3. QED
      BY <1>0, <2>1, <2>2, EndingDone
  <1>6. NoStrandedJob'
    BY <1>0 DEF NoStrandedJob
  <1>7. QED
    BY <1>4, <1>5, <1>6 DEF ApproverInv

LEMMA ApproveStep ==
    ASSUME ApproverInv, TypeOK', NEW j \in Jobs, Approve(j)
    PROVE  ApproverInv'
  <1>0. /\ TypeOK /\ QueueInv /\ EndingInv /\ NoStrandedJob /\ queue \in Seq(Jobs)
        /\ caller[j] = "idle" /\ queue' = Append(queue, j)
        /\ promoters' = (IF active = NoJob /\ queue = <<>> THEN promoters + 1 ELSE promoters)
        /\ promoters \in Nat
        /\ caller' = [caller EXCEPT ![j] = "waiting"]
        /\ UNCHANGED <<active, result, launch, conn, seen, ending>>
    BY DEF ApproverInv, TypeOK, Approve, procs, peers
  <1>1. /\ caller'[j] = "waiting" /\ \A k \in Jobs \ {j} : caller'[k] = caller[k]
        /\ Queued \subseteq Jobs
    BY <1>0 DEF TypeOK, Queued
  <1>2. launch[j] = "none" /\ j \notin Queued /\ active # j
    BY <1>0 DEF QueueInv
  <1>3. Queued = Members(queue) /\ Queued' = Members(queue') /\ Distinct(queue)
    BY <1>0 DEF Queued, Members, Distinct, QueueInv
  <1>4. Members(queue') = Members(queue) \cup {j} /\ Distinct(queue')
    BY <1>0, <1>2, <1>3, AppendMembers, Zenon
  <1>5. QueueInv'
    <2>1. \A i, k \in 1..Len(queue') : queue'[i] = queue'[k] => i = k
      BY <1>4 DEF Distinct
    <2>2. Queued' = Queued \cup {j}
      BY <1>3, <1>4
    <2>3. \A k \in Queued' : launch'[k] = "none" /\ caller'[k] \in {"waiting", "leaving"}
      BY <1>0, <1>1, <1>2, <2>2 DEF QueueInv
    <2>4. \A k \in Jobs :
          /\ active' = k => launch'[k] # "none"
          /\ caller'[k] = "idle" => launch'[k] = "none"
          /\ caller'[k] \in {"waiting", "leaving"} => k \in Queued' \/ launch'[k] # "none"
          /\ caller'[k] = "returned" => active' # k
      BY <1>0, <1>1, <1>2, <2>2 DEF QueueInv
    <2>5. QED
      BY <2>1, <2>3, <2>4 DEF QueueInv
  <1>6. EndingInv'
    <2>1. \A k \in Jobs : caller[k] = "leaving" => caller'[k] = "leaving"
      BY <1>0, <1>1
    <2>2. \A k \in Jobs : conn'[k] = "picked" => seen'[k] \in Jobs /\ launch[seen'[k]] # "none"
      BY <1>0 DEF EndingInv
    <2>3. QED
      BY <1>0, <2>1, <2>2, EndingQuiet
  <1>7. NoStrandedJob'
    BY <1>0 DEF NoStrandedJob, At
  <1>8. QED
    BY <1>5, <1>6, <1>7 DEF ApproverInv

LEMMA ReceiveResultStep ==
    ASSUME ApproverInv, TypeOK', NEW j \in Jobs, ReceiveResult(j)
    PROVE  ApproverInv'
  <1>0. /\ TypeOK /\ QueueInv /\ EndingInv /\ NoStrandedJob
        /\ caller[j] = "waiting" /\ result[j] # "none"
        /\ caller' = [caller EXCEPT ![j] = "returned"]
        /\ result' = [result EXCEPT ![j] = "none"]
        /\ UNCHANGED <<line, launch, conn, seen, ending>>
    BY DEF ApproverInv, ReceiveResult, procs, peers
  <1>1. /\ caller'[j] = "returned" /\ \A k \in Jobs \ {j} : caller'[k] = caller[k]
        /\ result'[j] = "none" /\ \A k \in Jobs \ {j} : result'[k] = result[k]
        /\ Queued' = Queued /\ Queued \subseteq Jobs
    BY <1>0 DEF TypeOK, Queued, line
  <1>2. launch[j] # "none" /\ active # j /\ j \notin Queued
    BY <1>0 DEF QueueInv, EndingInv
  <1>3. QueueInv'
    BY <1>0, <1>1, <1>2 DEF QueueInv, line
  <1>4. EndingInv'
    <2>1. \A k \in Jobs :
            /\ \/ ending[<<"caller", k>>].step = "idle"
               \/ ending[<<"caller", k>>].job = k /\ caller'[k] = "leaving"
            /\ result'[k] # "none" => launch[k] # "none" /\ active # k
      <3> SUFFICES ASSUME NEW k \in Jobs
                   PROVE
            /\ \/ ending[<<"caller", k>>].step = "idle"
               \/ ending[<<"caller", k>>].job = k /\ caller'[k] = "leaving"
            /\ result'[k] # "none" => launch[k] # "none" /\ active # k
        OBVIOUS
      <3>1. /\ \/ ending[<<"caller", k>>].step = "idle"
               \/ ending[<<"caller", k>>].job = k /\ caller[k] = "leaving"
            /\ result[k] # "none" => launch[k] # "none" /\ active # k
        BY <1>0 DEF EndingInv, At
      <3>2. QED
        BY <1>0, <1>1, <3>1
    <2>2. QED
      BY <1>0, <2>1 DEF EndingInv, At, line
  <1>5. NoStrandedJob'
    BY <1>0, StrandedFrame DEF At
  <1>6. QED
    BY <1>3, <1>4, <1>5 DEF ApproverInv

LEMMA PromoteNextStep ==
    ASSUME ApproverInv, TypeOK', PromoteNext
    PROVE  ApproverInv'
  <1>0. /\ TypeOK /\ QueueInv /\ EndingInv /\ NoStrandedJob /\ queue \in Seq(Jobs)
        /\ UNCHANGED <<caller, result, conn, seen, ending>>
    BY DEF ApproverInv, TypeOK, PromoteNext, calls, peers
  <1>1. CASE active # NoJob \/ queue = <<>>
    <2>1. UNCHANGED <<queue, active, launch>>
      BY <1>1 DEF PromoteNext
    <2>2. Queued' = Queued
      BY <2>1 DEF Queued
    <2>3. QueueInv'
      BY <1>0, <2>1, <2>2 DEF QueueInv
    <2>4. EndingInv'
      BY <1>0, <2>1 DEF EndingInv, At
    <2>5. NoStrandedJob'
      BY <1>1, <2>1 DEF NoStrandedJob
    <2>6. QED
      BY <2>3, <2>4, <2>5 DEF ApproverInv
  <1>2. CASE ~(active # NoJob \/ queue = <<>>)
    <2> DEFINE h == Head(queue)
    <2>1. active' = h /\ queue' = Tail(queue) /\ launch' = [launch EXCEPT ![h] = "check"]
          /\ active = NoJob /\ queue # <<>>
      BY <1>2 DEF PromoteNext
    <2>2. Queued = Members(queue) /\ Queued' = Members(queue') /\ Distinct(queue)
      BY <1>0 DEF Queued, Members, Distinct, QueueInv
    <2>3. /\ h \in Jobs /\ h \in Queued /\ Queued' = Queued \ {h} /\ Distinct(queue')
      <3>1. /\ Head(queue) \in Jobs /\ Head(queue) \in Members(queue)
            /\ Members(Tail(queue)) = Members(queue) \ {Head(queue)}
            /\ Distinct(Tail(queue))
        BY <1>0, <2>1, <2>2, TailMembers
      <3>2. QED
        BY <2>1, <2>2, <3>1
    <2>4. /\ launch[h] = "none" /\ caller[h] \in {"waiting", "leaving"}
          /\ launch'[h] = "check" /\ \A k \in Jobs \ {h} : launch'[k] = launch[k]
          /\ Queued \subseteq Jobs
      BY <1>0, <2>1, <2>3 DEF QueueInv, TypeOK, Queued
    <2> HIDE DEF h
    <2>5. QueueInv'
      <3>1. \A i, k \in 1..Len(queue') : queue'[i] = queue'[k] => i = k
        BY <2>3 DEF Distinct
      <3>2. \A k \in Queued' : launch'[k] = "none" /\ caller'[k] \in {"waiting", "leaving"}
        BY <1>0, <2>3, <2>4 DEF QueueInv
      <3>3. \A k \in Jobs :
            /\ active' = k => launch'[k] # "none"
            /\ caller'[k] = "idle" => launch'[k] = "none"
            /\ caller'[k] \in {"waiting", "leaving"} => k \in Queued' \/ launch'[k] # "none"
            /\ caller'[k] = "returned" => active' # k
        BY <1>0, <2>1, <2>3, <2>4 DEF QueueInv
      <3>4. QED
        BY <3>1, <3>2, <3>3 DEF QueueInv
    <2>6. EndingInv'
      <3>1. \A k \in Jobs : launch[k] # "none" => launch'[k] # "none" /\ active' # k
        BY <2>1, <2>4
      <3>2. QED
        BY <1>0, <3>1 DEF EndingInv, At
    <2>7. NoStrandedJob'
      BY <2>1, <2>3, JobsAssumption DEF NoStrandedJob
    <2>8. QED
      BY <2>5, <2>6, <2>7 DEF ApproverInv
  <1>3. QED
    BY <1>1, <1>2

-----------------------------------------------------------------------------
(***************************************************************************)
(* Types.                                                                  *)
(***************************************************************************)
LEMMA EndStepType ==
    ASSUME ApproverInv, NEW a \in Actors, EndStep(a)
    PROVE  TypeOK'
  <1>0. TypeOK /\ ending \in [Actors -> EndingRec]
    BY DEF ApproverInv, TypeOK, EndingRec
  <1>1. ASSUME NEW r \in Results \cup {"none"}, Returns(a, r)
        PROVE  /\ caller' \in [Jobs -> {"idle", "waiting", "leaving", "returned"}]
               /\ answer' \in [Jobs -> Results \cup {"none"}]
    <2>1. /\ caller \in [Jobs -> {"idle", "waiting", "leaving", "returned"}]
          /\ answer \in [Jobs -> Results \cup {"none"}]
      BY <1>0 DEF TypeOK
    <2>2. CASE a[1] = "caller"
      BY <1>1, <2>1, <2>2 DEF Returns
    <2>3. CASE a[1] # "caller"
      BY <1>1, <2>1, <2>3 DEF Returns, calls
    <2>4. QED
      BY <2>2, <2>3
  <1>2. ending[a].result \in Results \cup {"none"} /\ ending[a].job \in MaybeJob
    BY <1>0 DEF EndingRec
  <1>3. CASE CancelQueued(a)
    <2>1. queue' \in Seq(Jobs)
      <3>1. PICK i \in 1..Len(queue) :
              queue' = SubSeq(queue, 1, i - 1) \o SubSeq(queue, i + 1, Len(queue))
        BY <1>3 DEF CancelQueued
      <3>2. queue \in Seq(Jobs)
        BY <1>0 DEF TypeOK
      <3>3. QED
        BY <3>1, <3>2, RemovedAt, Zenon
    <2>2. ending' \in [Actors -> EndingRec]
      BY <1>0, <1>3, IdleType DEF CancelQueued
    <2>3. QED
      BY <1>0, <1>1, <1>2, <1>3, <2>1, <2>2 DEF CancelQueued, TypeOK, EndingRec, job, procs, peers
  <1>4. CASE CancelStarted(a)
    <2>1. ending' \in [Actors -> EndingRec]
      BY <1>0, <1>4 DEF CancelStarted, EndingRec
    <2>2. QED
      BY <1>0, <1>4, <2>1 DEF CancelStarted, TypeOK, EndingRec, line, calls, job, procs, peers
  <1>5. CASE ClearActive(a)
    <2>1. ending' \in [Actors -> EndingRec]
      BY <1>0, <1>5 DEF ClearActive, EndingRec
    <2>2. active' \in MaybeJob /\ conn' \in [Jobs -> {"open", "check", "waiting", "picked"}]
      BY <1>0, <1>5 DEF ClearActive, TypeOK, MaybeJob, Woken
    <2>3. QED
      BY <1>0, <1>5, <2>1, <2>2 DEF ClearActive, TypeOK, EndingRec, calls, job, procs
  <1>6. CASE SendResult(a)
    <2>1. ending' \in [Actors -> EndingRec]
      BY <1>0, <1>6, IdleType DEF SendResult
    <2>2. result' \in [Jobs -> Results \cup {"none"}] /\ promoters' \in Nat
      <3>1. result \in [Jobs -> Results \cup {"none"}] /\ promoters \in Nat
        BY <1>0 DEF TypeOK
      <3>2. /\ promoters' = promoters + 1
            /\ result' = [result EXCEPT ![ending[a].job] =
                            IF result[ending[a].job] = "none" THEN ending[a].result
                                                              ELSE result[ending[a].job]]
        BY <1>6 DEF SendResult
      <3>3. ending[a].job \in Jobs
        BY <1>6, ActorInv DEF SendResult, At
      <3>4. QED
        BY <1>2, <3>1, <3>2, <3>3
    <2>3. Returns(a, ending[a].result)
      BY <1>6 DEF SendResult
    <2>4. QED
      BY <1>0, <1>1, <1>2, <1>6, <2>1, <2>2, <2>3
         DEF SendResult, TypeOK, EndingRec, job, procs, peers
  <1>7. QED
    BY <1>3, <1>4, <1>5, <1>6 DEF EndStep

LEMMA CallType ==
    ASSUME ApproverInv, NEW j \in Jobs,
           Approve(j) \/ ReceiveResult(j) \/ CallerTimesOut(j) \/ CallerGivesUp(j) \/ Expire(j)
    PROVE  TypeOK'
  <1>0. TypeOK /\ queue \in Seq(Jobs)
    BY DEF ApproverInv, TypeOK
  <1>1. CASE Approve(j)
    <2>1. queue' \in Seq(Jobs) /\ promoters' \in Nat
      BY <1>0, <1>1, AppendProperties DEF Approve, TypeOK
    <2>2. QED
      BY <1>0, <1>1, <2>1 DEF Approve, TypeOK, job, procs, peers
  <1>2. CASE ReceiveResult(j)
    BY <1>0, <1>2 DEF ReceiveResult, TypeOK, line, job, procs, peers
  <1>3. CASE CallerTimesOut(j) \/ CallerGivesUp(j)
    <2>1. Ends(<<"caller", j>>, "dequeue", j, "refused")
      BY <1>3 DEF CallerTimesOut, CallerGivesUp, Cancel
    <2>2. ending' \in [Actors -> EndingRec] /\ done' \in SUBSET Jobs
      BY <1>0, <2>1, ActorFacts, EndsFacts DEF Results
    <2>3. caller' \in [Jobs -> {"idle", "waiting", "leaving", "returned"}]
      BY <1>0, <1>3 DEF CallerTimesOut, CallerGivesUp, TypeOK
    <2>4. QED
      BY <1>0, <1>3, <2>2, <2>3
         DEF CallerTimesOut, CallerGivesUp, TypeOK, EndingRec, line, procs, peers
  <1>4. CASE Expire(j)
    BY <1>0, <1>4 DEF Expire, TypeOK, line, calls, procs, peers
  <1>5. QED
    BY <1>1, <1>2, <1>3, <1>4

LEMMA PromoteType ==
    ASSUME ApproverInv, PromoteNext
    PROVE  TypeOK'
  <1>0. TypeOK /\ queue \in Seq(Jobs)
    BY DEF ApproverInv, TypeOK
  <1>1. promoters' \in Nat
    BY <1>0 DEF PromoteNext, TypeOK
  <1>2. /\ queue' \in Seq(Jobs) /\ active' \in MaybeJob
        /\ launch' \in [Jobs -> {"none", "check", "launching", "launched", "watching", "over"}]
    <2>1. CASE active # NoJob \/ queue = <<>>
      BY <1>0, <2>1 DEF PromoteNext, TypeOK
    <2>2. CASE ~(active # NoJob \/ queue = <<>>)
      <3>1. Head(queue) \in Jobs /\ Tail(queue) \in Seq(Jobs)
        BY <1>0, <2>2, HeadTailProperties
      <3>2. QED
        BY <1>0, <2>2, <3>1 DEF PromoteNext, TypeOK, MaybeJob
    <2>3. QED
      BY <2>1, <2>2
  <1>3. QED
    BY <1>0, <1>1, <1>2 DEF PromoteNext, TypeOK, calls, job, peers

LEMMA LauncherType ==
    ASSUME ApproverInv, NEW j \in Jobs, LauncherStep(j) \/ MonitorStep(j) \/ ApproverExits(j)
    PROVE  TypeOK'
  <1>0. TypeOK
    BY DEF ApproverInv
  <1>1. ASSUME NEW step \in {"clear", "dequeue"}, Ends(<<"launcher", j>>, step, j, "refused")
        PROVE  ending' \in [Actors -> EndingRec] /\ done' \in SUBSET Jobs
    BY <1>0, <1>1, ActorFacts, EndsFacts DEF Results
  <1>2. CASE PromotedExpired(j)
    <2>1. ending' \in [Actors -> EndingRec] /\ done' \in SUBSET Jobs
      BY <1>1, <1>2 DEF PromotedExpired, Complete
    <2>2. QED
      BY <1>0, <1>2, <2>1 DEF PromotedExpired, TypeOK, EndingRec, line, calls, peers
  <1>3. CASE StartLaunch(j)
    BY <1>0, <1>3 DEF StartLaunch, TypeOK, line, calls, job, peers
  <1>4. CASE LaunchStarts(j)
    BY <1>0, <1>4 DEF LaunchStarts, TypeOK, line, calls, job, peers
  <1>5. CASE LaunchFails(j)
    <2>1. ending' \in [Actors -> EndingRec] /\ done' \in SUBSET Jobs
      BY <1>1, <1>5 DEF LaunchFails, Complete, Cancel
    <2>2. QED
      BY <1>0, <1>5, <2>1 DEF LaunchFails, TypeOK, EndingRec, line, calls, peers
  <1>6. CASE ExpectApprover(j)
    <2>1. ready' \in SUBSET Jobs /\ conn' \in [Jobs -> {"open", "check", "waiting", "picked"}]
      BY <1>0, <1>6 DEF ExpectApprover, TypeOK, Woken
    <2>2. QED
      BY <1>0, <1>6, <2>1 DEF ExpectApprover, TypeOK, line, calls
  <1>7. CASE MonitorExit(j)
    <2>1. ending' \in [Actors -> EndingRec] /\ done' \in SUBSET Jobs
      <3>1. CASE active = j /\ j \in ready
        BY <1>1, <1>7, <3>1 DEF MonitorExit, Complete
      <3>2. CASE ~(active = j /\ j \in ready)
        BY <1>0, <1>7, <3>2 DEF MonitorExit, TypeOK, EndingRec
      <3>3. QED
        BY <3>1, <3>2
    <2>2. QED
      BY <1>0, <1>7, <2>1 DEF MonitorExit, TypeOK, EndingRec, line, calls, peers
  <1>8. CASE MonitorDone(j)
    BY <1>0, <1>8 DEF MonitorDone, TypeOK, line, calls, job, peers
  <1>9. CASE ApproverExits(j)
    BY <1>0, <1>9 DEF ApproverExits, TypeOK, line, calls, job, peers
  <1>10. QED
    BY <1>2, <1>3, <1>4, <1>5, <1>6, <1>7, <1>8, <1>9 DEF LauncherStep, MonitorStep

LEMMA ReplyType ==
    ASSUME TypeOK, NEW p \in Jobs, Reply(p)
    PROVE  /\ conn' \in [Jobs -> {"open", "check", "waiting", "picked"}]
           /\ ask' \in [Jobs -> Asks]
           /\ seen' \in [Jobs -> MaybeJob]
           /\ \A k \in Jobs : conn'[k] = "picked" => conn[k] = "picked" /\ seen'[k] = seen[k]
  <1>1. Fetching \in Asks /\ NoJob \in MaybeJob
    BY DEF Asks, MaybeJob
  <1>2. /\ conn \in [Jobs -> {"open", "check", "waiting", "picked"}]
        /\ ask \in [Jobs -> Asks] /\ seen \in [Jobs -> MaybeJob]
    BY DEF TypeOK
  <1>3. QED
    BY <1>1, <1>2 DEF Reply

LEMMA PeerType ==
    ASSUME ApproverInv, NEW p \in Jobs,
           \/ FetchPending(p) \/ ContextEnds(p) \/ HandlerStep(p)
           \/ \E j \in Jobs, v \in Choices : SubmitDecision(p, j, v)
    PROVE  TypeOK'
  <1>0. TypeOK
    BY DEF ApproverInv
  <1>1. CASE FetchPending(p)
    <2>1. Fetching \in Asks
      BY DEF Asks
    <2>2. QED
      BY <1>0, <1>1, <2>1 DEF FetchPending, TypeOK, line, calls, job, procs
  <1>2. CASE \E j \in Jobs, v \in Choices : SubmitDecision(p, j, v)
    <2>1. PICK j \in Jobs, v \in Choices : SubmitDecision(p, j, v)
      BY <1>2
    <2>2. [op |-> "submit", claim |-> j, verdict |-> v] \in Asks
      BY JobsAssumption DEF Asks
    <2>3. ask' \in [Jobs -> Asks] /\ said' \in [Jobs -> SUBSET Approvals]
          /\ conn' \in [Jobs -> {"open", "check", "waiting", "picked"}]
      BY <1>0, <2>1, <2>2 DEF SubmitDecision, TypeOK
    <2>4. QED
      BY <1>0, <2>1, <2>3 DEF SubmitDecision, TypeOK, line, calls, job, procs
  <1>3. CASE ContextEnds(p) \/ SubmitRejected(p)
    <2>1. Reply(p)
      BY <1>3 DEF ContextEnds, SubmitRejected
    <2>2. QED
      BY <1>0, <1>3, <2>1, ReplyType
         DEF ContextEnds, SubmitRejected, TypeOK, line, calls, job, procs
  <1>4. CASE Waits(p)
    BY <1>0, <1>4 DEF Waits, TypeOK, line, calls, job, procs
  <1>5. CASE Picks(p)
    <2>1. /\ conn' \in [Jobs -> {"open", "check", "waiting", "picked"}]
          /\ ask' \in [Jobs -> Asks] /\ seen' \in [Jobs -> MaybeJob]
      <3>1. CASE active = NoJob
        BY <1>0, <1>5, <3>1, ReplyType DEF Picks
      <3>2. CASE active # NoJob
        <4>1. /\ seen' = [seen EXCEPT ![p] = active]
              /\ conn' = [conn EXCEPT ![p] = "picked"] /\ ask' = ask
          BY <1>5, <3>2 DEF Picks
        <4>2. /\ active \in MaybeJob /\ ask \in [Jobs -> Asks] /\ seen \in [Jobs -> MaybeJob]
              /\ conn \in [Jobs -> {"open", "check", "waiting", "picked"}]
          BY <1>0 DEF TypeOK
        <4>3. QED
          BY <4>1, <4>2
      <3>3. QED
        BY <3>1, <3>2
    <2>2. QED
      BY <1>0, <1>5, <2>1 DEF Picks, TypeOK, line, calls, job, procs
  <1>6. CASE FetchReplies(p) \/ SubmitAccepted(p)
    <2>1. conn[p] = "picked" /\ Reply(p)
      BY <1>6 DEF FetchReplies, SubmitAccepted
    <2>2. seen[p] \in Jobs
      BY <2>1 DEF ApproverInv, EndingInv
    <2>3. Decision(p) \in Results
      BY DEF Decision, Results
    <2>4. ending' \in [Actors -> EndingRec] /\ done' \in SUBSET Jobs
      <3>1. ASSUME NEW r \in Results, Ends(<<"peer", p>>, "clear", seen[p], r)
            PROVE  ending' \in [Actors -> EndingRec] /\ done' \in SUBSET Jobs
        BY <1>0, <2>2, <3>1, ActorFacts, EndsFacts
      <3>2. CASE FetchReplies(p) /\ seen[p] \in expired
        BY <3>1, <3>2 DEF FetchReplies, Complete, Results
      <3>3. CASE FetchReplies(p) /\ seen[p] \notin expired
        BY <1>0, <3>3 DEF FetchReplies, TypeOK, EndingRec
      <3>4. CASE SubmitAccepted(p)
        <4>1. Ends(<<"peer", p>>, "clear", seen[p], Decision(p))
          BY <3>4 DEF SubmitAccepted, Complete
        <4>2. QED
          BY <2>3, <3>1, <4>1, Zenon
      <3>5. QED
        BY <1>6, <3>2, <3>3, <3>4
    <2>5. QED
      BY <1>0, <1>6, <2>1, <2>4, ReplyType
         DEF FetchReplies, SubmitAccepted, TypeOK, EndingRec, line, calls, procs
  <1>7. QED
    BY <1>1, <1>2, <1>3, <1>4, <1>5, <1>6 DEF HandlerStep

-----------------------------------------------------------------------------
(***************************************************************************)
(* The steps of the launcher and of the handlers.                          *)
(***************************************************************************)
LEMMA LauncherInv ==
    ASSUME ApproverInv, NEW j \in Jobs, LauncherStep(j) \/ MonitorStep(j) \/ ApproverExits(j)
    PROVE  ApproverInv'
  <1>0. TypeOK' /\ TypeOK /\ "refused" \in Results
    BY LauncherType DEF ApproverInv, Results
  <1>1. \A k \in Jobs : launch'[k] = "none" <=> launch[k] = "none"
    BY <1>0 DEF LauncherStep, MonitorStep, PromotedExpired, StartLaunch, LaunchStarts, LaunchFails,
         ExpectApprover, MonitorExit, MonitorDone, ApproverExits, TypeOK, procs
  <1>2. \A k \in Jobs : conn'[k] = "picked" => conn[k] = "picked" /\ seen'[k] = seen[k]
    BY <1>0 DEF LauncherStep, MonitorStep, PromotedExpired, StartLaunch, LaunchStarts, LaunchFails,
         ExpectApprover, MonitorExit, MonitorDone, ApproverExits, Woken, peers
  <1>3. UNCHANGED <<line, caller, result>>
    BY DEF LauncherStep, MonitorStep, PromotedExpired, StartLaunch, LaunchStarts, LaunchFails,
         ExpectApprover, MonitorExit, MonitorDone, ApproverExits, calls
  <1>4. CASE UNCHANGED ending
    BY <1>0, <1>1, <1>2, <1>3, <1>4, QuietStep
  <1>5. CASE ~UNCHANGED ending
    <2>1. /\ launch[j] # "none"
          /\ \E step \in {"clear", "dequeue"} : Ends(<<"launcher", j>>, step, j, "refused")
      BY <1>5 DEF LauncherStep, MonitorStep, PromotedExpired, StartLaunch, LaunchStarts,
           LaunchFails, ExpectApprover, MonitorExit, MonitorDone, ApproverExits, Complete, Cancel
    <2>2. PICK step \in {"clear", "dequeue"} : Ends(<<"launcher", j>>, step, j, "refused")
      BY <2>1
    <2>3. <<"launcher", j>> \in Actors /\ <<"launcher", j>>[1] # "caller"
      BY ActorFacts
    <2>4. QED
      BY <1>0, <1>1, <1>2, <1>3, <2>1, <2>2, <2>3, EndingStep
  <1>6. QED
    BY <1>4, <1>5

LEMMA PeerInv ==
    ASSUME ApproverInv, NEW p \in Jobs,
           \/ FetchPending(p) \/ ContextEnds(p) \/ HandlerStep(p)
           \/ \E j \in Jobs, v \in Choices : SubmitDecision(p, j, v)
    PROVE  ApproverInv'
  <1>0. TypeOK' /\ TypeOK
    BY PeerType DEF ApproverInv
  <1>1. \A k \in Jobs : conn'[k] = "picked" =>
               \/ conn[k] = "picked" /\ seen'[k] = seen[k]
               \/ seen'[k] = active /\ active # NoJob
    <2>1. CASE Reply(p)
      BY <1>0, <2>1, ReplyType
    <2>2. CASE ~Reply(p)
      BY <1>0, <2>2 DEF FetchPending, ContextEnds, HandlerStep, SubmitDecision, Waits, Picks,
           FetchReplies, SubmitAccepted, SubmitRejected, TypeOK
    <2>3. QED
      BY <2>1, <2>2
  <1>2. UNCHANGED <<line, caller, result, launch>>
    BY DEF FetchPending, ContextEnds, HandlerStep, SubmitDecision, Waits, Picks,
         FetchReplies, SubmitAccepted, SubmitRejected, calls, procs
  <1>3. CASE UNCHANGED ending
    BY <1>0, <1>1, <1>2, <1>3, QuietStep
  <1>4. CASE ~UNCHANGED ending
    <2>1. /\ conn[p] = "picked" /\ Reply(p)
          /\ \/ Ends(<<"peer", p>>, "clear", seen[p], "refused")
             \/ Ends(<<"peer", p>>, "clear", seen[p], Decision(p))
      BY <1>4 DEF FetchPending, ContextEnds, HandlerStep, SubmitDecision, Waits, Picks,
           FetchReplies, SubmitAccepted, SubmitRejected, Complete
    <2>2. seen[p] \in Jobs /\ launch[seen[p]] # "none"
      BY <2>1 DEF ApproverInv, EndingInv
    <2>3. "refused" \in Results /\ Decision(p) \in Results
      BY DEF Decision, Results
    <2>4. <<"peer", p>> \in Actors /\ <<"peer", p>>[1] # "caller"
      BY ActorFacts
    <2>5. \A k \in Jobs : conn'[k] = "picked" => conn[k] = "picked" /\ seen'[k] = seen[k]
      BY <1>0, <2>1, ReplyType
    <2>6. PICK r \in Results : Ends(<<"peer", p>>, "clear", seen[p], r)
      BY <2>1, <2>3, Zenon
    <2>7. QED
      BY <1>0, <1>2, <2>2, <2>4, <2>5, <2>6, EndingStep
  <1>5. QED
    BY <1>3, <1>4

LEMMA CallInv ==
    ASSUME ApproverInv, NEW j \in Jobs,
           Approve(j) \/ ReceiveResult(j) \/ CallerTimesOut(j) \/ CallerGivesUp(j) \/ Expire(j)
    PROVE  ApproverInv'
  <1>0. TypeOK'
    BY CallType
  <1>1. CASE Approve(j) \/ ReceiveResult(j)
    BY <1>0, <1>1, ApproveStep, ReceiveResultStep
  <1>2. CASE CallerTimesOut(j) \/ CallerGivesUp(j)
    BY <1>0, <1>2, CallerLeaves DEF CallerTimesOut, CallerGivesUp, procs, peers
  <1>3. CASE Expire(j)
    <2>1. UNCHANGED <<line, caller, result, ending, launch, conn, seen>>
      BY <1>3 DEF Expire, calls, procs, peers
    <2>2. QED
      BY <1>0, <2>1, QuietStep
  <1>4. QED
    BY <1>1, <1>2, <1>3

LEMMA StepInv == ApproverInv /\ [Next]_vars => ApproverInv'
  <1> SUFFICES ASSUME ApproverInv, [Next]_vars PROVE ApproverInv'
    OBVIOUS
  <1>1. ASSUME NEW a \in Actors, EndStep(a) PROVE ApproverInv'
    BY <1>1, EndStepType, CancelQueuedStep, CancelStartedStep, ClearActiveStep, SendResultStep
       DEF EndStep
  <1>2. CASE PromoteNext
    BY <1>2, PromoteType, PromoteNextStep
  <1>3. ASSUME NEW j \in Jobs, LauncherStep(j) \/ MonitorStep(j) \/ ApproverExits(j)
        PROVE  ApproverInv'
    BY <1>3, LauncherInv
  <1>4. ASSUME NEW p \in Jobs,
               \/ FetchPending(p) \/ ContextEnds(p) \/ HandlerStep(p)
               \/ \E j \in Jobs, v \in Choices : SubmitDecision(p, j, v)
        PROVE  ApproverInv'
    BY <1>4, PeerInv
  <1>5. ASSUME NEW j \in Jobs,
               Approve(j) \/ CallerStep(j) \/ CallerGivesUp(j) \/ Expire(j)
        PROVE  ApproverInv'
    BY <1>5, CallInv DEF CallerStep
  <1>6. CASE UNCHANGED vars
    <2>1. TypeOK'
      BY <1>6 DEF ApproverInv, TypeOK, vars
    <2>2. UNCHANGED <<line, caller, result, ending, launch, conn, seen>>
      BY <1>6 DEF vars, line
    <2>3. QED
      BY <2>1, <2>2, QuietStep
  <1>7. CASE Environment
    BY <1>3, <1>4, <1>5, <1>7, JobsAssumption DEF Environment
  <1>8. QED
    BY <1>1, <1>2, <1>3, <1>4, <1>5, <1>6, <1>7 DEF Next

-----------------------------------------------------------------------------
\* The approval queue keeps its invariant: each job is queued once, promoted once,
\* and ended only by its caller or after it was promoted (Approve, promoteNext,
\* cancel, finish).
THEOREM ApproverInvariant == Spec => []ApproverInv
  <1>1. QED
    BY InitInv, StepInv, PTL DEF Spec

\* The variables of the approval queue keep their types.
THEOREM ApproverTypes == Spec => []TypeOK
  <1>1. ApproverInv => TypeOK
    BY DEF ApproverInv
  <1>2. QED
    BY <1>1, ApproverInvariant, PTL

\* The queue never stalls, for any number of callers, launches and processes:
\* Approve, cancel and finish between them never forget to start a promoteNext.
THEOREM QueueNeverStalls == Spec => []NoStrandedJob
  <1>1. ApproverInv => NoStrandedJob
    BY DEF ApproverInv
  <1>2. QED
    BY <1>1, ApproverInvariant, PTL

\* No job outlives its Approve call: whoever ended it, it is neither active nor
\* queued any more when Approve returns.
THEOREM NoGhostJob == Spec => []ReturnedJobIsGone
  <1>1. ApproverInv => ReturnedJobIsGone
    BY DEF ApproverInv, QueueInv, ReturnedJobIsGone
  <1>2. QED
    BY <1>1, ApproverInvariant, PTL

-----------------------------------------------------------------------------
(***************************************************************************)
(* An approval is followed from the process that submits it to the call    *)
(* that returns it.                                                        *)
(***************************************************************************)
\* j's own process has submitted what r says of j.
Backed(r, j) ==
    /\ r = "approved" => "approve_once" \in said[j]
    /\ r = "reusable" => "approve_reusable" \in said[j] /\ j \in AllowsReusable

AsksBacked ==
    \A p \in Jobs : ask[p].op = "submit" /\ ask[p].claim = p /\ ask[p].verdict \in Approvals
                       => ask[p].verdict \in said[p]

EndsBacked  == \A a \in Actors : ~At(a, "idle") => Backed(ending[a].result, ending[a].job)
CallsBacked == \A j \in Jobs : Backed(result[j], j) /\ Backed(answer[j], j)

VerdictInv == AsksBacked /\ EndsBacked /\ CallsBacked

\* Nothing that was submitted is forgotten.
LEMMA BackedStays ==
    ASSUME NEW r, NEW j, said[j] \subseteq said'[j], Backed(r, j)
    PROVE  Backed(r, j)'
  BY DEF Backed

LEMMA RefusalIsBacked == \A j \in Jobs : Backed("refused", j) /\ Backed("none", j)
  BY DEF Backed

LEMMA VerdictInit == Init => VerdictInv
  BY IdleType DEF Init, VerdictInv, AsksBacked, EndsBacked, CallsBacked, Backed, Fetching, At

\* A step that begins to end a job with a result that is backed.
LEMMA EndsKept ==
    ASSUME TypeOK, EndsBacked, UNCHANGED said,
           NEW a \in Actors, NEW step, NEW j \in Jobs, NEW r, Backed(r, j), Ends(a, step, j, r)
    PROVE  EndsBacked'
  BY DEF TypeOK, EndsBacked, Ends, Backed, At

\* An actor that is done, and what its result is given to.
LEMMA DoneKept ==
    ASSUME ApproverInv, VerdictInv, NEW a \in Actors, ~At(a, "idle"), UNCHANGED <<said, ask>>,
           ending' = [ending EXCEPT ![a] = Idle], Returns(a, ending[a].result),
           \A j \in Jobs : result'[j] = result[j] \/ (j = ending[a].job /\ result'[j] = ending[a].result)
    PROVE  VerdictInv'
  <1>1. TypeOK /\ ending[a].job \in Jobs /\ (a[1] = "caller" => ending[a].job = a[2] /\ a[2] \in Jobs)
    BY ActorInv DEF ApproverInv, At
  <1>2. AsksBacked'
    BY DEF VerdictInv, AsksBacked
  <1>3. EndsBacked'
    BY <1>1, IdleType DEF VerdictInv, EndsBacked, Backed, At, TypeOK
  <1>4. Backed(ending[a].result, ending[a].job)
    BY DEF VerdictInv, EndsBacked
  <1>5. ASSUME NEW j \in Jobs PROVE Backed(result[j], j)' /\ Backed(answer[j], j)'
    <2>1. Backed(result[j], j)'
      BY <1>4 DEF VerdictInv, CallsBacked, Backed
    <2>2. answer'[j] = answer[j] \/ (j = ending[a].job /\ answer'[j] = ending[a].result)
      BY <1>1 DEF Returns, calls, TypeOK
    <2>3. Backed(answer[j], j)'
      BY <1>4, <2>2 DEF VerdictInv, CallsBacked, Backed
    <2>4. QED
      BY <2>1, <2>3
  <1>6. QED
    BY <1>2, <1>3, <1>5 DEF VerdictInv, CallsBacked

LEMMA EndStepKept ==
    ASSUME ApproverInv, VerdictInv, NEW a \in Actors, EndStep(a)
    PROVE  VerdictInv'
  <1>1. CASE CancelQueued(a)
    BY <1>1, DoneKept DEF CancelQueued, At, peers
  <1>2. CASE SendResult(a)
    <2>1. ending[a].job \in Jobs /\ TypeOK
      BY <1>2, ActorInv DEF SendResult, At, ApproverInv
    <2>2. \A j \in Jobs : result'[j] = result[j] \/ (j = ending[a].job /\ result'[j] = ending[a].result)
      BY <1>2, <2>1 DEF SendResult, TypeOK
    <2>3. QED
      BY <1>2, <2>2, DoneKept DEF SendResult, At, peers
  <1>3. CASE CancelStarted(a) \/ ClearActive(a)
    <2>1. UNCHANGED <<said, ask, result, answer>>
      BY <1>3 DEF CancelStarted, ClearActive, peers, calls
    <2>2. \A b \in Actors : ending'[b].result = ending[b].result /\ ending'[b].job = ending[b].job
                            /\ (At(b, "idle") => At(b, "idle")')
      <3>1. ending \in [Actors -> EndingRec] /\ ending[a].step # "idle"
        BY <1>3 DEF CancelStarted, ClearActive, ApproverInv, TypeOK, EndingRec, At
      <3>2. PICK step \in {"clear", "send"} : ending' = [ending EXCEPT ![a].step = step]
        BY <1>3 DEF CancelStarted, ClearActive
      <3>3. \A b \in Actors \ {a} : ending'[b] = ending[b]
        BY <3>1, <3>2
      <3>4. ending'[a] = [ending[a] EXCEPT !.step = step] /\ ending[a] \in EndingRec
        BY <3>1, <3>2
      <3>5. ending'[a].result = ending[a].result /\ ending'[a].job = ending[a].job
        BY <3>4 DEF EndingRec
      <3>6. QED
        BY <3>1, <3>3, <3>5 DEF At
    <2>3. QED
      BY <2>1, <2>2 DEF VerdictInv, AsksBacked, EndsBacked, CallsBacked, Backed, At
  <1>4. QED
    BY <1>1, <1>2, <1>3 DEF EndStep

\* Steps that neither ask, end nor return anything.
LEMMA SilentKept ==
    ASSUME VerdictInv, UNCHANGED <<said, ask, ending, result, answer>>
    PROVE  VerdictInv'
  BY DEF VerdictInv, AsksBacked, EndsBacked, CallsBacked, Backed, At

\* Steps that end a job without an approval, or nothing, and do not ask for more.
LEMMA RefusalKept ==
    ASSUME TypeOK, VerdictInv, UNCHANGED <<said, result, answer>>,
           \A p \in Jobs : ask'[p] = ask[p] \/ ask'[p] = Fetching,
           \/ UNCHANGED ending
           \/ \E a \in Actors, j \in Jobs, step \in {"dequeue", "clear"} : Ends(a, step, j, "refused")
    PROVE  VerdictInv'
  <1>1. AsksBacked'
    BY DEF VerdictInv, AsksBacked, Fetching
  <1>2. EndsBacked'
    BY EndsKept, RefusalIsBacked DEF VerdictInv, EndsBacked, Backed, At
  <1>3. CallsBacked'
    BY DEF VerdictInv, CallsBacked, Backed
  <1>4. QED
    BY <1>1, <1>2, <1>3 DEF VerdictInv

LEMMA LauncherKept ==
    ASSUME TypeOK, VerdictInv, NEW j \in Jobs, LauncherStep(j) \/ MonitorStep(j) \/ ApproverExits(j)
    PROVE  VerdictInv'
  <1>1. UNCHANGED <<said, result, answer, ask>>
    BY DEF LauncherStep, MonitorStep, ApproverExits, PromotedExpired, StartLaunch, LaunchStarts,
           LaunchFails, ExpectApprover, MonitorExit, MonitorDone, calls, peers
  <1>2. UNCHANGED ending \/ Ends(<<"launcher", j>>, "clear", j, "refused")
                         \/ Ends(<<"launcher", j>>, "dequeue", j, "refused")
    BY DEF LauncherStep, MonitorStep, ApproverExits, PromotedExpired, StartLaunch, LaunchStarts,
           LaunchFails, ExpectApprover, MonitorExit, MonitorDone, Complete, Cancel
  <1>3. QED
    BY <1>1, <1>2, ActorFacts, RefusalKept

LEMMA CallerKept ==
    ASSUME TypeOK, VerdictInv, NEW j \in Jobs,
           Approve(j) \/ CallerStep(j) \/ CallerGivesUp(j) \/ Expire(j)
    PROVE  VerdictInv'
  <1>1. CASE Approve(j) \/ Expire(j)
    BY <1>1, SilentKept DEF Approve, Expire, peers, calls
  <1>2. CASE CallerTimesOut(j) \/ CallerGivesUp(j)
    BY <1>2, ActorFacts, RefusalKept DEF CallerTimesOut, CallerGivesUp, Cancel, peers
  <1>3. CASE ReceiveResult(j)
    <2>1. UNCHANGED <<said, ask, ending>>
      BY <1>3 DEF ReceiveResult, peers
    <2>2. CallsBacked'
      BY <1>3, <2>1, RefusalIsBacked DEF ReceiveResult, VerdictInv, CallsBacked, Backed, TypeOK
    <2>3. QED
      BY <2>1, <2>2 DEF VerdictInv, AsksBacked, EndsBacked, Backed, At
  <1>4. QED
    BY <1>1, <1>2, <1>3 DEF CallerStep

\* The decision that goes through is one the process of the job has submitted.
LEMMA AcceptedKept ==
    ASSUME TypeOK, VerdictInv, NEW p \in Jobs, SubmitAccepted(p)
    PROVE  VerdictInv'
  <1>1. seen[p] = p /\ ask[p].op = "submit" /\ ask[p].claim = p
        /\ (ask[p].verdict = "approve_reusable" => p \in AllowsReusable)
    BY DEF SubmitAccepted, Acceptable
  <1>2. ask[p].verdict \in Approvals => ask[p].verdict \in said[p]
    BY <1>1 DEF VerdictInv, AsksBacked
  <1>3. Backed(Decision(p), p)
    <2>1. ask[p].verdict \in Verdicts
      BY <1>1 DEF TypeOK, Asks, Fetching
    <2>2. QED
      BY <1>1, <1>2, <2>1 DEF Decision, Backed, Verdicts, Approvals
  <1>4. Ends(<<"peer", p>>, "clear", p, Decision(p)) /\ UNCHANGED <<said, result, answer>>
    BY <1>1 DEF SubmitAccepted, Complete, calls
  <1>5. EndsBacked'
    BY <1>3, <1>4, ActorFacts, EndsKept DEF VerdictInv
  <1>6. AsksBacked'
    BY <1>4 DEF SubmitAccepted, Reply, VerdictInv, AsksBacked, TypeOK, Fetching
  <1>7. QED
    BY <1>4, <1>5, <1>6 DEF VerdictInv, CallsBacked, Backed

LEMMA SubmitKept ==
    ASSUME TypeOK, VerdictInv, NEW p \in Jobs, NEW claim \in Jobs, NEW verdict \in Choices,
           SubmitDecision(p, claim, verdict)
    PROVE  VerdictInv'
  <1>1. \A j \in Jobs : said[j] \subseteq said'[j]
    BY DEF SubmitDecision, TypeOK
  <1>2. UNCHANGED <<ending, result, answer>>
    BY DEF SubmitDecision, calls
  <1>3. AsksBacked'
    <2>1. \A q \in Jobs \ {p} : ask'[q] = ask[q] /\ said'[q] = said[q]
      BY DEF SubmitDecision, TypeOK
    <2>2. ask'[p].claim = claim /\ ask'[p].verdict = verdict
          /\ (claim = p /\ verdict \in Approvals => verdict \in said'[p])
      BY DEF SubmitDecision, TypeOK
    <2>3. QED
      BY <2>1, <2>2 DEF VerdictInv, AsksBacked
  <1>4. EndsBacked'
    <2>1. ASSUME NEW a \in Actors, ~At(a, "idle")' PROVE Backed(ending[a].result, ending[a].job)'
      <3>1. Backed(ending[a].result, ending[a].job)
        BY <1>2, <2>1 DEF VerdictInv, EndsBacked, At
      <3>2. said[ending[a].job] \subseteq said'[ending[a].job]
        BY <1>1 DEF SubmitDecision, TypeOK
      <3>3. QED
        BY <1>2, <3>1, <3>2 DEF Backed
    <2>2. QED
      BY <2>1 DEF EndsBacked
  <1>5. CallsBacked'
    BY <1>1, <1>2 DEF VerdictInv, CallsBacked, Backed
  <1>6. QED
    BY <1>3, <1>4, <1>5 DEF VerdictInv

LEMMA PeerKept ==
    ASSUME ApproverInv, VerdictInv, NEW p \in Jobs,
           \/ FetchPending(p) \/ ContextEnds(p) \/ HandlerStep(p)
           \/ \E j \in Jobs, v \in Choices : SubmitDecision(p, j, v)
    PROVE  VerdictInv'
  <1>0. TypeOK
    BY DEF ApproverInv
  <1>1. CASE FetchPending(p) \/ ContextEnds(p) \/ Waits(p) \/ Picks(p) \/ SubmitRejected(p)
    <2>1. UNCHANGED <<said, result, answer, ending>>
      BY <1>1 DEF FetchPending, ContextEnds, Waits, Picks, SubmitRejected, calls
    <2>2. \A q \in Jobs : ask'[q] = ask[q] \/ ask'[q] = Fetching
      BY <1>0, <1>1 DEF FetchPending, ContextEnds, Waits, Picks, SubmitRejected, Reply, TypeOK
    <2>3. QED
      BY <1>0, <2>1, <2>2, RefusalKept
  <1>2. CASE FetchReplies(p)
    <2>1. UNCHANGED <<said, result, answer>>
      BY <1>2 DEF FetchReplies, calls
    <2>2. \A q \in Jobs : ask'[q] = ask[q] \/ ask'[q] = Fetching
      BY <1>0, <1>2 DEF FetchReplies, Reply, TypeOK
    <2>3. seen[p] \in Jobs
      BY <1>2 DEF FetchReplies, ApproverInv, EndingInv
    <2>4. UNCHANGED ending \/ Ends(<<"peer", p>>, "clear", seen[p], "refused")
      BY <1>2 DEF FetchReplies, Complete
    <2>5. QED
      BY <1>0, <2>1, <2>2, <2>3, <2>4, ActorFacts, RefusalKept
  <1>3. CASE SubmitAccepted(p)
    BY <1>0, <1>3, AcceptedKept
  <1>4. ASSUME NEW j \in Jobs, NEW v \in Choices, SubmitDecision(p, j, v) PROVE VerdictInv'
    BY <1>0, <1>4, SubmitKept
  <1>5. QED
    BY <1>1, <1>2, <1>3, <1>4 DEF HandlerStep

LEMMA VerdictStep == ApproverInv /\ VerdictInv /\ [Next]_vars => VerdictInv'
  <1> SUFFICES ASSUME ApproverInv, VerdictInv, [Next]_vars PROVE VerdictInv'
    OBVIOUS
  <1>0. TypeOK
    BY DEF ApproverInv
  <1>1. ASSUME NEW a \in Actors, EndStep(a) PROVE VerdictInv'
    BY <1>1, EndStepKept
  <1>2. CASE PromoteNext \/ UNCHANGED vars
    BY <1>2, SilentKept DEF PromoteNext, vars, calls, peers
  <1>3. ASSUME NEW j \in Jobs, LauncherStep(j) \/ MonitorStep(j) \/ ApproverExits(j)
        PROVE  VerdictInv'
    BY <1>0, <1>3, LauncherKept
  <1>4. ASSUME NEW p \in Jobs,
               \/ FetchPending(p) \/ ContextEnds(p) \/ HandlerStep(p)
               \/ \E j \in Jobs, v \in Choices : SubmitDecision(p, j, v)
        PROVE  VerdictInv'
    BY <1>4, PeerKept
  <1>5. ASSUME NEW j \in Jobs,
               Approve(j) \/ CallerStep(j) \/ CallerGivesUp(j) \/ Expire(j)
        PROVE  VerdictInv'
    BY <1>0, <1>5, CallerKept
  <1>6. CASE Environment
    BY <1>3, <1>4, <1>5, <1>6, JobsAssumption DEF Environment
  <1>7. QED
    BY <1>1, <1>2, <1>3, <1>4, <1>5, <1>6 DEF Next

\* Approve returns an approval only if the process launched for the job submitted it
\* for the job, whatever other processes submit and whoever else is ending the job
\* (SubmitDecision, ValidateDecision).
THEOREM ApprovalsAreSubmitted == Spec => []ApprovedByItsApprover
  <1>1. VerdictInv => ApprovedByItsApprover
    BY DEF VerdictInv, CallsBacked, Backed, ApprovedByItsApprover
  <1>2. QED
    BY <1>1, ApproverInvariant, VerdictInit, VerdictStep, PTL DEF Spec

-----------------------------------------------------------------------------
\* Only a promoted job has an approver to expect.
ReadyInv == \A j \in ready : launch[j] # "none"

LEMMA ReadyKept ==
    ASSUME ReadyInv, ready' = ready,
           \A j \in Jobs : launch[j] # "none" => launch'[j] # "none", TypeOK
    PROVE  ReadyInv'
  BY DEF ReadyInv, TypeOK

\* Who sleeps now slept before, and nothing became active or ready.
LEMMA SleepKept ==
    ASSUME SleepersMissNoJob, UNCHANGED ready, active' = active \/ active' = NoJob,
           \A p \in Jobs : conn'[p] = "waiting" => conn[p] = "waiting"
    PROVE  SleepersMissNoJob'
  BY DEF SleepersMissNoJob

LEMMA SleepStep == ApproverInv /\ ReadyInv /\ SleepersMissNoJob /\ [Next]_vars => ReadyInv' /\ SleepersMissNoJob'
  <1> SUFFICES ASSUME ApproverInv, ReadyInv, SleepersMissNoJob, [Next]_vars
               PROVE  ReadyInv' /\ SleepersMissNoJob'
    OBVIOUS
  <1>0. TypeOK /\ QueueInv
    BY DEF ApproverInv
  <1>1. ASSUME UNCHANGED <<launch, ready>>, active' = active \/ active' = NoJob,
               \A p \in Jobs : conn'[p] = "waiting" => conn[p] = "waiting"
        PROVE  ReadyInv' /\ SleepersMissNoJob'
    BY <1>0, <1>1, ReadyKept, SleepKept
  <1>2. ASSUME NEW a \in Actors, EndStep(a)
        PROVE  ReadyInv' /\ SleepersMissNoJob'
    <2>1. UNCHANGED <<launch, ready>> /\ (active' = active \/ active' = NoJob)
      BY <1>2 DEF EndStep, CancelQueued, CancelStarted, ClearActive, SendResult, line, job, procs
    <2>2. UNCHANGED conn \/ conn' = Woken
      BY <1>2 DEF EndStep, CancelQueued, CancelStarted, ClearActive, SendResult, peers
    <2>3. QED
      BY <1>1, <2>1, <2>2 DEF Woken
  <1>3. CASE PromoteNext
    <2>1. UNCHANGED <<ready, conn>>
      BY <1>3 DEF PromoteNext, job, peers
    <2>2. CASE UNCHANGED <<active, launch>>
      BY <1>1, <2>1, <2>2
    <2>3. CASE ~(active # NoJob \/ queue = <<>>)
      <3> DEFINE h == Head(queue)
      <3>1. active' = h /\ launch' = [launch EXCEPT ![h] = "check"]
        BY <1>3, <2>3 DEF PromoteNext
      <3>2. h \in Jobs /\ h \in Queued
        <4>1. queue \in Seq(Jobs) /\ queue # <<>>
          BY <1>0, <2>3 DEF TypeOK
        <4>2. Len(queue) \in Nat \ {0} /\ h = queue[1] /\ h \in Jobs
          BY <4>1
        <4>3. QED
          BY <4>2 DEF Queued
      <3>3. launch[h] = "none" /\ h \notin ready
        BY <1>0, <3>2 DEF QueueInv, ReadyInv
      <3>4. ReadyInv'
        BY <1>0, <2>1, <3>1, ReadyKept DEF TypeOK
      <3>5. SleepersMissNoJob'
        BY <2>1, <3>1, <3>3 DEF SleepersMissNoJob
      <3>6. QED
        BY <3>4, <3>5
    <2>4. QED
      BY <1>3, <2>2, <2>3 DEF PromoteNext
  <1>4. ASSUME NEW j \in Jobs, LauncherStep(j) \/ MonitorStep(j) \/ ApproverExits(j)
        PROVE  ReadyInv' /\ SleepersMissNoJob'
    <2>1. CASE ExpectApprover(j)
      <3>1. /\ launch[j] = "launched" /\ launch' = [launch EXCEPT ![j] = "watching"]
            /\ active' = active
            /\ \/ UNCHANGED <<ready, conn>>
               \/ ready' = ready \cup {j} /\ conn' = Woken
        BY <2>1 DEF ExpectApprover, line
      <3>2. \A k \in Jobs : launch[k] # "none" => launch'[k] # "none"
        BY <1>0, <3>1 DEF TypeOK
      <3>3. launch'[j] # "none"
        BY <1>0, <3>1 DEF TypeOK
      <3>4. CASE UNCHANGED <<ready, conn>>
        BY <1>0, <3>1, <3>2, <3>4, ReadyKept, SleepKept
      <3>5. CASE ready' = ready \cup {j} /\ conn' = Woken
        <4>1. ReadyInv'
          BY <1>0, <3>2, <3>3, <3>5 DEF ReadyInv, TypeOK
        <4>2. SleepersMissNoJob'
          BY <3>5 DEF SleepersMissNoJob, Woken
        <4>3. QED
          BY <4>1, <4>2
      <3>6. QED
        BY <3>1, <3>4, <3>5
    <2>2. CASE ~ExpectApprover(j)
      <3>1. UNCHANGED <<ready, active, conn>>
        BY <1>4, <2>2 DEF LauncherStep, MonitorStep, ApproverExits, PromotedExpired, StartLaunch,
           LaunchStarts, LaunchFails, MonitorExit, MonitorDone, job, line, peers
      <3>2. \E l \in {"over", "launching", "launched"} : launch' = [launch EXCEPT ![j] = l] \/ launch' = launch
        BY <1>4, <2>2 DEF LauncherStep, MonitorStep, ApproverExits, PromotedExpired, StartLaunch,
           LaunchStarts, LaunchFails, MonitorExit, MonitorDone
      <3>3. \A k \in Jobs : launch[k] # "none" => launch'[k] # "none"
        BY <1>0, <3>2 DEF TypeOK
      <3>4. QED
        BY <1>0, <3>1, <3>3, ReadyKept, SleepKept
    <2>3. QED
      BY <2>1, <2>2
  <1>5. ASSUME NEW p \in Jobs,
               \/ FetchPending(p) \/ ContextEnds(p) \/ HandlerStep(p)
               \/ \E j \in Jobs, v \in Choices : SubmitDecision(p, j, v)
        PROVE  ReadyInv' /\ SleepersMissNoJob'
    <2>1. UNCHANGED <<launch, ready, active>>
      BY <1>5 DEF FetchPending, ContextEnds, HandlerStep, SubmitDecision, Waits, Picks, FetchReplies,
         SubmitAccepted, SubmitRejected, procs, job, line
    <2>2. CASE Waits(p)
      <3>1. conn' = [conn EXCEPT ![p] = "waiting"] /\ NotReadyYet
        BY <2>2 DEF Waits
      <3>2. SleepersMissNoJob'
        BY <1>0, <2>1, <3>1 DEF SleepersMissNoJob, NotReadyYet, TypeOK
      <3>3. QED
        BY <1>0, <2>1, <3>2, ReadyKept
    <2>3. CASE ~Waits(p)
      <3>1. \E c \in {"open", "check", "picked"} : conn' = [conn EXCEPT ![p] = c]
        BY <1>5, <2>3 DEF FetchPending, ContextEnds, HandlerStep, SubmitDecision, Picks, FetchReplies,
           SubmitAccepted, SubmitRejected, Reply
      <3>2. QED
        BY <1>0, <1>1, <2>1, <3>1 DEF TypeOK
    <2>4. QED
      BY <2>2, <2>3
  <1>6. ASSUME NEW j \in Jobs, Approve(j) \/ CallerStep(j) \/ CallerGivesUp(j) \/ Expire(j)
        PROVE  ReadyInv' /\ SleepersMissNoJob'
    BY <1>1, <1>6 DEF Approve, CallerStep, ReceiveResult, CallerTimesOut, CallerGivesUp, Expire,
       line, job, procs, peers
  <1>7. CASE UNCHANGED vars
    BY <1>1, <1>7 DEF vars
  <1>8. CASE Environment
    BY <1>4, <1>5, <1>6, <1>8, JobsAssumption DEF Environment
  <1>9. QED
    BY <1>2, <1>3, <1>4, <1>5, <1>6, <1>7, <1>8 DEF Next

\* A handler asleep in cond.Wait has not missed the moment its job became ready: whoever
\* makes a job active finds it without an approver, and whoever makes it ready or ends it
\* wakes everyone (activeWhenExpectedReady against promoteNext and finish).
THEOREM NobodyOversleeps == Spec => []SleepersMissNoJob
  <1>1. Init => ReadyInv /\ SleepersMissNoJob
    BY DEF Init, ReadyInv, SleepersMissNoJob
  <1>2. QED
    BY <1>1, ApproverInvariant, SleepStep, PTL DEF Spec
=============================================================================
