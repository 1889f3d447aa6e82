---------------------------- MODULE SessionPeers ----------------------------
(***************************************************************************)
(* Which processes may use a session                                       *)
(* (internal/daemon/broker/session_peer_authorizer.go, internal/peercred). *)
(*                                                                         *)
(* A session is bound to an ancestor of the process that created it: the   *)
(* daemon walks the process tree upwards from its peer, one process at a   *)
(* time, and picks the anchor by the policy of the request.  A later       *)
(* caller is admitted if a walk from it meets the anchor.  Meanwhile       *)
(* processes are forked, replace their executable and end, and their pids  *)
(* are used again.                                                         *)
(***************************************************************************)
EXTENDS Naturals, Sequences, FiniteSets

CONSTANTS Pids,        \* bound: pids in use; 1 is launchd and not among them
          Exes, Cli,   \* executables; Cli is agent-secret itself
          Shell,       \* what a terminal runs
          Launchd,     \* an executable named launchd
          User, Root,  \* the user of the daemon, and another
          NoProcess,   \* a pid that is free; no process
          MaxWalk,     \* maxProcessAncestryDepth
          MaxStarts    \* bound: processes started

ASSUME WalkAssumption == MaxWalk \in Nat \ {0}
ASSUME PidAssumption == Pids \subseteq Nat \ {0, 1}
ASSUME ProcessAssumption ==
    NoProcess \notin [parent : Nat, exe : Exes, user : {User, Root}, start : Nat]
ASSUME ExeAssumption == {Cli, Shell, Launchd} \subseteq Exes /\ NoProcess \notin Exes

VARIABLES
    proc,      \* the process of a pid: parent, executable, user, when it was
               \* started
    lineage,   \* for the properties: its ancestors, nearest first, whether alive or not
    starts,    \* processes started
    walk,      \* the walk under way: why, from whom, where it is, what it has seen
    replaced,  \* for the properties: who has replaced its executable during the walk
    refused,   \* for the properties: who is there and could not be inspected
    anchor,    \* what the session is bound to
    verdict    \* for the properties: what became of the last walk

peerVars == <<proc, lineage, starts, walk, replaced, refused, anchor, verdict>>

Alive  == {p \in Pids : proc[p] # NoProcess}
Born(p) == [pid |-> p, start |-> proc[p].start]

NoWalk == [why |-> "none"]

\* A terminal has been started; everything else descends from it.
PeersInit ==
    /\ proc = [p \in Pids |-> IF \E q \in Pids : q < p THEN NoProcess
                              ELSE [parent |-> 1, exe |-> Shell, user |-> User, start |-> 1]]
    /\ lineage = [p \in Pids |-> <<>>]
    /\ starts = 1
    /\ walk = NoWalk /\ replaced = {} /\ refused = {} /\ anchor = NoProcess
    /\ verdict = [why |-> "none"]

-----------------------------------------------------------------------------
(***************************************************************************)
(* The processes.                                                          *)
(***************************************************************************)

\* A pid is not used again as long as a walk may still meet it: the kernel hands out
\* all the others first.
Reserved ==
    IF walk = NoWalk THEN {}
    ELSE {walk.peer, walk.at} \cup {walk.list[i].pid : i \in DOMAIN walk.list}
         \cup IF walk.info = NoProcess THEN {} ELSE {walk.info.parent}

Fork(p) ==
    /\ p \in Alive
    /\ starts < MaxStarts
    /\ \E c \in Pids \ (Alive \cup Reserved) :
          /\ proc' = [proc EXCEPT ![c] = [proc[p] EXCEPT !.parent = p, !.start = starts + 1]]
          /\ lineage' = [lineage EXCEPT ![c] = <<Born(p)>> \o lineage[p]]
    /\ starts' = starts + 1
    /\ UNCHANGED <<walk, replaced, refused, anchor, verdict>>

\* A shell becomes the command it was told to run, maybe as another user.
Exec(p) ==
    /\ p \in Alive
    /\ proc[p].exe # Cli
    /\ \E exe \in Exes \ {proc[p].exe}, user \in {proc[p].user, Root} :
          proc' = [proc EXCEPT ![p].exe = exe, ![p].user = user]
    /\ replaced' = IF walk = NoWalk THEN replaced ELSE replaced \cup {p}
    /\ UNCHANGED <<lineage, starts, walk, refused, anchor, verdict>>

\* The children of a process that ends are launchd's.
Exit(p) ==
    /\ p \in Alive
    /\ proc' = [q \in Pids |-> IF q = p \/ proc[q] = NoProcess THEN NoProcess
                               ELSE IF proc[q].parent = p THEN [proc[q] EXCEPT !.parent = 1]
                               ELSE proc[q]]
    /\ lineage' = [lineage EXCEPT ![p] = <<>>]
    /\ UNCHANGED <<starts, walk, replaced, refused, anchor, verdict>>

-----------------------------------------------------------------------------
(***************************************************************************)
(* processAncestry: the walk, a process at a time.                         *)
(***************************************************************************)

\* A connected agent-secret asks, once the last answer is out; its user is what the
\* kernel says of the socket.
Ask(p, why, policy) ==
    /\ walk = NoWalk /\ verdict.why = "none"
    /\ p \in Alive /\ proc[p].exe = Cli
    /\ walk' = [why |-> why, peer |-> p, user |-> proc[p].user, policy |-> policy,
                at |-> p, info |-> NoProcess, list |-> <<>>,
                born |-> Born(p), lineage |-> lineage[p]]
    /\ UNCHANGED <<proc, lineage, starts, replaced, refused, anchor, verdict>>

BindSessionPeer(p, policy) == anchor = NoProcess /\ Ask(p, "bind", policy)

ValidateSessionPeer(p) == anchor # NoProcess /\ Ask(p, "validate", NoProcess)

Walking == walk # NoWalk /\ walk.at # 0

\* inspectProcess: PROC_PIDTBSDINFO.
Inspect ==
    /\ Walking
    /\ walk.info = NoProcess
    /\ walk.at \in Alive
    /\ walk' = [walk EXCEPT !.info = proc[walk.at]]
    /\ UNCHANGED <<proc, lineage, starts, replaced, refused, anchor, verdict>>

\* Either of the two calls fails, as it must for a process that has ended and may for one
\* that the daemon may not look into: the walk ends, and what was seen so far is kept.
CannotInspect ==
    /\ Walking
    /\ walk' = [walk EXCEPT !.at = 0, !.info = NoProcess]
    /\ refused' = refused \cup ({walk.at} \cap Alive)
    /\ UNCHANGED <<proc, lineage, starts, replaced, anchor, verdict>>

\* Faulty: one process too few.
TooDeepEarly == Len(walk.list) + 2 = MaxWalk

\* What the limit leaves out of the walk.
TooDeep == Len(walk.list) + 1 = MaxWalk

\* inspectProcess: proc_pidpath, and on to the parent that was read before it.
InspectPath ==
    /\ Walking
    /\ walk.info # NoProcess
    /\ walk.at \in Alive
    /\ LET seen == {walk.list[i].pid : i \in DOMAIN walk.list} \cup {walk.at}
           up   == walk.info.parent
       IN  walk' = [walk EXCEPT
                       !.list = Append(@, [pid |-> walk.at, user |-> walk.info.user,
                                           start |-> walk.info.start, exe |-> proc[walk.at].exe]),
                       !.at = IF up <= 1 \/ up \in seen \/ TooDeep THEN 0 ELSE up,
                       !.info = NoProcess]
    /\ UNCHANGED <<proc, lineage, starts, replaced, refused, anchor, verdict>>

-----------------------------------------------------------------------------
(***************************************************************************)
(* sessionPeerAnchor and processAncestryContains.                          *)
(***************************************************************************)

\* isEligibleSessionPeerAnchor
Eligible(c) == c.pid > 1 /\ c.user = walk.user /\ c.exe # Launchd

\* The places in the walk, the peer left out, of those that can be bound to.
Candidates == {i \in 2..Len(walk.list) : Eligible(walk.list[i])}

Nearest(S) == {i \in S : \A j \in S : i <= j}

\* automaticSessionPeerAnchor: a subshell, run by the same executable, is passed over.
Automatic ==
    Nearest({i \in Candidates :
        \A j \in Nearest({k \in Candidates : k > i}) :
            ~(walk.list[j].exe = walk.list[i].exe /\ walk.list[j].user = walk.list[i].user)})

\* Faulty: where the process of that depth is not eligible the next one is taken.
AnchorFrom(policy) ==
    CASE policy.mode = "auto"     -> Automatic
      [] policy.mode = "ancestor" -> Nearest({i \in Candidates : i > policy.depth})
      [] policy.mode = "name"     -> Nearest({i \in Candidates : walk.list[i].exe \in policy.names})

\* sessionPeerAnchor: the place of the anchor, if there is one.
AnchorPlace(policy) ==
    CASE policy.mode = "auto"     -> Automatic
      [] policy.mode = "ancestor" -> {policy.depth + 1} \cap Candidates
      [] policy.mode = "name"     -> Nearest({i \in Candidates : walk.list[i].exe \in policy.names})

\* Faulty: a pid is taken for the process.
SamePid(a, b) == a.pid = b.pid /\ a.user = b.user /\ a.exe = b.exe

\* sameProcessIdentity
SameProcess(a, b) == a.pid = b.pid /\ a.user = b.user /\ a.exe = b.exe /\ a.start = b.start

Ended == walk # NoWalk /\ walk.at = 0

FinishBind ==
    /\ Ended
    /\ walk.why = "bind"
    /\ \/ AnchorPlace(walk.policy) = {} /\ UNCHANGED anchor
       \/ \E i \in AnchorPlace(walk.policy) : anchor' = walk.list[i]
    /\ verdict' = [why |-> "bind", ok |-> anchor' # NoProcess, policy |-> walk.policy,
                   born |-> walk.born, lineage |-> walk.lineage]
    /\ walk' = NoWalk
    /\ UNCHANGED <<proc, lineage, starts, replaced, refused>>

FinishValidate ==
    /\ Ended
    /\ walk.why = "validate"
    /\ verdict' = [why |-> "validate", peer |-> walk.peer,
                   ok |-> \E i \in DOMAIN walk.list : SameProcess(walk.list[i], anchor),
                   born |-> walk.born, lineage |-> walk.lineage]
    /\ walk' = NoWalk
    /\ UNCHANGED <<proc, lineage, starts, replaced, refused, anchor>>

\* The client is told; nothing happens in between that matters to it.
Answered ==
    /\ walk = NoWalk
    /\ verdict.why # "none"
    /\ verdict' = [why |-> "none"]
    /\ replaced' = {} /\ refused' = {}
    /\ UNCHANGED <<proc, lineage, starts, walk, anchor>>

Processes ==
    /\ verdict.why = "none"
    /\ \E p \in Pids : Fork(p) \/ Exec(p) \/ Exit(p)

Authorizer == Inspect \/ InspectPath \/ CannotInspect \/ FinishBind \/ FinishValidate \/ Answered
              \/ \E p \in Pids : ValidateSessionPeer(p)

-----------------------------------------------------------------------------
(***************************************************************************)
(* Properties.                                                             *)
(***************************************************************************)
Bound == [pid |-> anchor.pid, start |-> anchor.start]

InSeq(x, q) == \E i \in DOMAIN q : q[i] = x

\* Whoever is admitted is the process the session is bound to or descends from it: not
\* from another that came to have its pid, whatever ended or was started while the
\* daemon walked (session_peer_authorizer.go:98-116, peercred_darwin.go:127-151).
AdmittedIsDescendant ==
    verdict.why = "validate" /\ verdict.ok =>
        Bound = verdict.born \/ InSeq(Bound, verdict.lineage)

\* A session is bound to a true ancestor of its creator, never to the creator, and with
\* an explicit depth to the ancestor of exactly that depth
\* (session_peer_authorizer.go:118-225).
BoundAsAsked ==
    verdict.why = "bind" /\ verdict.ok =>
        /\ InSeq(Bound, verdict.lineage)
        /\ verdict.policy.mode = "ancestor" =>
              verdict.lineage[verdict.policy.depth] = Bound

\* Living processes lead from p up to q, as many as a walk takes in, and all of them let
\* themselves be inspected.
Connected(p, q) ==
    \E n \in 1..MaxWalk : \E c \in [1..n -> Pids \ refused] :
        /\ c[1] = p /\ c[n] = q
        /\ \A i \in 1..(n - 1) : c[i] \in Alive /\ proc[c[i]].parent = c[i + 1]

\* What a walk would see of q.
Now(q) == [pid |-> q, user |-> proc[q].user, exe |-> proc[q].exe, start |-> proc[q].start]

\* A caller that is still connected to the anchor by living processes is never turned
\* away, unless it is too far below it, one of them could not be inspected, or the anchor
\* has replaced its executable while the daemon walked.  A process above the anchor that
\* cannot be inspected does no harm (session_peer_authorizer.go:98-116,
\* peercred_darwin.go:127-151).
IntactIsAdmitted ==
    (/\ verdict.why = "validate" /\ ~verdict.ok
     /\ verdict.peer \in Alive /\ Born(verdict.peer) = verdict.born)
    => \A q \in Alive \ replaced :
          Connected(verdict.peer, q) => ~SameProcess(Now(q), anchor)
=============================================================================
