----------------------- MODULE SessionAdmission_proofs -----------------------
(***************************************************************************)
(* What is true of every request and of every session peer: proofs about   *)
(* SessionAdmission, and so about ProfileConfig, RequestBuilder and        *)
(* SessionPeers.                                                           *)
(*                                                                         *)
(* The configuration.  What the memo has for a profile is what its         *)
(* includes have there, one after another, with its own on top, and nobody *)
(* in it includes himself (Resolved); the frames on the stack have added   *)
(* the includes before the one they wait for, and no name is on it twice   *)
(* (Stacked).  What the file says without a walk is given by the functions *)
(* Reach and Parts, which recur over numbers: SetInduction, a consequence  *)
(* of the pigeonhole principle, shows that they are functions, and that at *)
(* the depth of the file everything resolved is what it says.              *)
(*                                                                         *)
(* The requests.  The invariant follows the secrets through the parser:    *)
(* what is gathered is a sequence of specs, whose aliases are those of     *)
(* --only and --secret once --only has been applied (GatheredInv); what is *)
(* sent passes the check of its kind, and overlaps the environment only    *)
(* with leave (SentInv).  That sorting, concatenating and filling in       *)
(* accounts keep the aliases are lemmas about the operators.  It holds     *)
(* whatever profile the configuration gives.                               *)
(*                                                                         *)
(* The peers.  A walk reads a tree that changes under it.  What it relies  *)
(* on is that a parent that lives is the parent that was there (TreeInv),  *)
(* so the processes seen are the first of the path from the peer up, and   *)
(* where the walk stands is the next, if it is alive at all (WalkInv).     *)
(* That it misses nobody it could have met (WatchInv): whom it has seen is *)
(* as it was but for what he did himself, it goes on to older and older    *)
(* processes and so meets none twice, and it ends only where the living    *)
(* end or at its limit.                                                    *)
(***************************************************************************)
EXTENDS SessionAdmission, FiniteSetTheorems, TLAPS

-----------------------------------------------------------------------------
(***************************************************************************)
(* The configuration: the resolver, its stack and its memo.                *)
(***************************************************************************)
OptsInv == opts.mode \in Modes

IsList(q) == q \in Seq({q[i] : i \in DOMAIN q})

IncludesOf(n) == doc.profiles[n].include

\* What a file lists.
AllLists == \A x \in DOMAIN doc.profiles : IsList(IncludesOf(x))

\* What resolve starts from.
Base(n) == [account  |-> Account(doc.account, doc.profiles[n].account),
            settings |-> Nothing, secrets |-> Nothing]

\* In f, the first k includes of n are added one after another, as m has them.
Builds(m, n, k, f) ==
    /\ DOMAIN f = 0..k
    /\ f[0] = Base(n)
    /\ \A i \in 1..k :
          /\ IncludesOf(n)[i] \in DOMAIN m
          /\ f[i] = Including(f[i - 1], m[IncludesOf(n)[i]])

BuiltTo(m, n, k, sofar) == \E f : Builds(m, n, k, f) /\ f[k] = sofar

\* What m has for n is what n's includes have in m, with n's own on top.
Solved(m, n) ==
    /\ n \in DOMAIN doc.profiles
    /\ \E sofar : /\ BuiltTo(m, n, Len(IncludesOf(n)), sofar)
                  /\ m[n] = Own(sofar, doc.profiles[n])

\* Nobody in m includes himself, however indirectly.
Acyclic(m) ==
    \A S \in SUBSET DOMAIN m : S # {} => \E n \in S : Includes(n) \cap S = {}

Resolved(m) == Acyclic(m) /\ \A n \in DOMAIN m : Solved(m, n)

\* Frames that wait for their last include, the topmost for name.
TopOf(st)   == st[Len(st)]
BelowOf(st) == SubSeq(st, 1, Len(st) - 1)

IsFrame(f) == f = [name |-> f.name, next |-> f.next, sofar |-> f.sofar]

Unresolved(m, f) == IsFrame(f) /\ f.name \in DOMAIN doc.profiles \ DOMAIN m

Awaits(m, fr, name) ==
    /\ IsList(fr)
    /\ \A i \in DOMAIN fr :
          /\ Unresolved(m, fr[i])
          /\ \A j \in DOMAIN fr : fr[j].name = fr[i].name => j = i
          /\ fr[i].next \in Nat /\ fr[i].next - 1 \in DOMAIN IncludesOf(fr[i].name)
          /\ IncludesOf(fr[i].name)[fr[i].next - 1] = IF i = Len(fr) THEN name ELSE fr[i + 1].name
          /\ BuiltTo(m, fr[i].name, fr[i].next - 2, fr[i].sofar)

Stacked(m, st) ==
    st # <<>> =>
        /\ IsList(st)
        /\ Unresolved(m, TopOf(st))
        /\ TopOf(st).next \in 1..(Len(IncludesOf(TopOf(st).name)) + 1)
        /\ BuiltTo(m, TopOf(st).name, TopOf(st).next - 1, TopOf(st).sofar)
        /\ Awaits(m, BelowOf(st), TopOf(st).name)
        /\ \A i \in DOMAIN BelowOf(st) : BelowOf(st)[i].name # TopOf(st).name

\* The caller gets what was resolved.
Given(m, r) == \A n \in DOMAIN r : n \in DOMAIN m /\ r[n] = m[n]

\* Nothing is resolved before the file is read.
ConfigInv ==
    /\ stage \in {"find", "read"} => memo = Nothing /\ stack = <<>> /\ result = Nothing
    /\ stage = "resolve" \/ DOMAIN memo # {} => doc \in Docs
    /\ Resolved(memo)
    /\ Stacked(memo, stack)
    /\ Given(memo, result)

-----------------------------------------------------------------------------
\* What is said of lists.
LEMMA SeqIsList ==
    ASSUME NEW S, NEW q \in Seq(S)
    PROVE  IsList(q)
  <1>1. Len(q) \in Nat /\ q \in [1..Len(q) -> S] /\ DOMAIN q = 1..Len(q)
    OBVIOUS
  <1>2. q \in [1..Len(q) -> {q[i] : i \in DOMAIN q}]
    BY <1>1
  <1>3. q \in Seq({q[i] : i \in DOMAIN q})
    <2> DEFINE T == {q[i] : i \in DOMAIN q}
    <2> HIDE DEF T
    <2>1. Len(q) \in Nat /\ q \in [1..Len(q) -> T]
      BY <1>1, <1>2 DEF T
    <2>2. q \in Seq(T)
      BY <2>1
    <2>3. QED
      BY <2>2 DEF T
  <1>4. QED
    BY <1>3 DEF IsList

LEMMA SameLists ==
    ASSUME NEW S, NEW p \in Seq(S), NEW q \in Seq(S), Len(p) = Len(q),
           \A i \in 1..Len(p) : p[i] = q[i]
    PROVE  p = q
  OBVIOUS

LEMMA Prefix ==
    ASSUME NEW S, NEW t \in Seq(S), NEW n \in Nat, n <= Len(t)
    PROVE  /\ SubSeq(t, 1, n) \in Seq(S) /\ Len(SubSeq(t, 1, n)) = n
           /\ \A i \in 1..n : SubSeq(t, 1, n)[i] = t[i]
  OBVIOUS

\* e on top of s is t.
IsPushed(t, s, e) ==
    /\ IsList(t) /\ t # <<>>
    /\ Len(s) \in Nat /\ Len(t) = Len(s) + 1
    /\ DOMAIN s = 1..Len(s) /\ DOMAIN t = 1..Len(t)
    /\ \A i \in 1..Len(s) : t[i] = s[i]
    /\ TopOf(t) = e
    /\ BelowOf(t) = s

LEMMA Pushed ==
    ASSUME NEW s, IsList(s), NEW e
    PROVE  IsPushed(Append(s, e), s, e)
  <1> DEFINE t == Append(s, e)
  <1> DEFINE S == {s[i] : i \in DOMAIN s} \cup {e}
  <1>1. s \in Seq(S) /\ e \in S
    BY DEF IsList
  <1> HIDE DEF S
  <1>2. /\ t \in Seq(S) /\ Len(s) \in Nat /\ Len(t) = Len(s) + 1
        /\ DOMAIN s = 1..Len(s) /\ DOMAIN t = 1..Len(t)
        /\ \A i \in 1..Len(s) : t[i] = s[i]
        /\ t[Len(t)] = e
    BY <1>1
  <1>3. IsList(t)
    BY <1>2, SeqIsList
  <1>4. t # <<>>
    BY <1>2
  <1>5. SubSeq(t, 1, Len(t) - 1) = s
    BY <1>1, <1>2
  <1> HIDE DEF t
  <1>6. IsPushed(t, s, e)
    BY <1>2, <1>3, <1>4, <1>5 DEF IsPushed, TopOf, BelowOf
  <1>7. QED
    BY <1>6 DEF t

LEMMA Popped ==
    ASSUME NEW s, IsList(s), s # <<>>, NEW b, b = SubSeq(s, 1, Len(s) - 1)
    PROVE  /\ IsList(b)
           /\ Len(s) \in Nat /\ Len(s) >= 1 /\ Len(b) = Len(s) - 1
           /\ DOMAIN s = 1..Len(s) /\ DOMAIN b = 1..Len(b)
           /\ \A i \in 1..Len(b) : b[i] = s[i]
  <1> DEFINE S == {s[i] : i \in DOMAIN s}
  <1>1. s \in Seq(S)
    BY DEF IsList
  <1> HIDE DEF S
  <1>2. Len(s) \in Nat /\ Len(s) >= 1 /\ DOMAIN s = 1..Len(s)
    BY <1>1
  <1>3. /\ b \in Seq(S) /\ Len(b) = Len(s) - 1 /\ DOMAIN b = 1..Len(b)
        /\ \A i \in 1..Len(b) : b[i] = s[i]
    BY <1>1, <1>2
  <1>4. IsList(b)
    BY <1>3, SeqIsList
  <1>5. QED
    BY <1>2, <1>3, <1>4

LEMMA TopSet ==
    ASSUME NEW s, IsList(s), s # <<>>, NEW x, NEW t, t = [s EXCEPT ![Len(s)] = x]
    PROVE  /\ IsList(t) /\ t # <<>> /\ Len(t) = Len(s) /\ t[Len(t)] = x
           /\ SubSeq(t, 1, Len(t) - 1) = SubSeq(s, 1, Len(s) - 1)
  <1> DEFINE S == {s[i] : i \in DOMAIN s} \cup {x}
  <1>1. s \in Seq(S) /\ x \in S
    BY DEF IsList
  <1> HIDE DEF S
  <1>2. Len(s) \in Nat /\ Len(s) >= 1 /\ DOMAIN s = 1..Len(s)
    BY <1>1
  <1>3. /\ t \in Seq(S) /\ Len(t) = Len(s) /\ DOMAIN t = 1..Len(t) /\ t[Len(s)] = x
        /\ \A i \in 1..(Len(s) - 1) : t[i] = s[i]
    BY <1>1, <1>2
  <1>4. IsList(t) /\ t # <<>>
    <2>1. IsList(t)
      BY <1>3, SeqIsList
    <2>2. QED
      BY <1>2, <1>3, <2>1
  <1>5. SubSeq(t, 1, Len(t) - 1) = SubSeq(s, 1, Len(s) - 1)
    <2> DEFINE u == SubSeq(t, 1, Len(s) - 1)
               v == SubSeq(s, 1, Len(s) - 1)
    <2>1. /\ u \in Seq(S) /\ Len(u) = Len(s) - 1
          /\ \A i \in 1..(Len(s) - 1) : u[i] = t[i]
      <3>1. t \in Seq(S) /\ Len(s) - 1 \in Nat /\ Len(s) - 1 <= Len(t)
        BY <1>2, <1>3
      <3>2. QED
        BY <3>1, Prefix
    <2>2. /\ v \in Seq(S) /\ Len(v) = Len(s) - 1
          /\ \A i \in 1..(Len(s) - 1) : v[i] = s[i]
      BY <1>1, <1>2
    <2> HIDE DEF u, v
    <2>3. u = v
      BY <1>3, <2>1, <2>2, SameLists
    <2>4. QED
      BY <1>3, <2>3 DEF u, v
  <1>6. QED
    BY <1>3, <1>4, <1>5

-----------------------------------------------------------------------------
\* One include more.
LEMMA BuildsNext ==
    ASSUME NEW m, NEW n, NEW k \in Nat, NEW sofar, BuiltTo(m, n, k, sofar),
           IncludesOf(n)[k + 1] \in DOMAIN m
    PROVE  BuiltTo(m, n, k + 1, Including(sofar, m[IncludesOf(n)[k + 1]]))
  <1> DEFINE next == Including(sofar, m[IncludesOf(n)[k + 1]])
  <1>1. PICK f : Builds(m, n, k, f) /\ f[k] = sofar
    BY DEF BuiltTo
  <1> DEFINE g == [i \in 0..(k + 1) |-> IF i = k + 1 THEN next ELSE f[i]]
  <1>2. g[0] = Base(n) /\ DOMAIN g = 0..(k + 1) /\ g[k + 1] = next
    BY <1>1 DEF Builds
  <1>3. ASSUME NEW i \in 1..(k + 1)
        PROVE  IncludesOf(n)[i] \in DOMAIN m /\ g[i] = Including(g[i - 1], m[IncludesOf(n)[i]])
    <2>1. CASE i = k + 1
      <3>1. g[i] = next /\ g[i - 1] = sofar
        BY <1>1, <2>1
      <3>2. QED
        BY <2>1, <3>1
    <2>2. CASE i \in 1..k
      <3>1. g[i] = f[i] /\ g[i - 1] = f[i - 1]
        BY <2>2
      <3>2. QED
        BY <1>1, <2>2, <3>1 DEF Builds
    <2>3. QED
      BY <2>1, <2>2
  <1>4. Builds(m, n, k + 1, g)
    <2> HIDE DEF g, next
    <2>1. QED
      BY <1>2, <1>3 DEF Builds
  <1>5. QED
    BY <1>2, <1>4 DEF BuiltTo

\* What is remembered besides does not matter.
Extends(m2, m) == DOMAIN m \subseteq DOMAIN m2 /\ \A n \in DOMAIN m : m2[n] = m[n]

LEMMA BuildsStay ==
    ASSUME NEW m, NEW m2, Extends(m2, m), NEW n, NEW k, NEW sofar, BuiltTo(m, n, k, sofar)
    PROVE  BuiltTo(m2, n, k, sofar)
  BY DEF BuiltTo, Builds, Extends

\* Includes of what is remembered are.
LEMMA ResolvedIncludes ==
    ASSUME NEW m, NEW n \in DOMAIN m, Solved(m, n), IsList(IncludesOf(n))
    PROVE  Includes(n) \subseteq DOMAIN m
  <1>1. DOMAIN IncludesOf(n) = 1..Len(IncludesOf(n))
    BY DEF IsList
  <1>2. QED
    BY <1>1 DEF Includes, IncludesOf, Solved, BuiltTo, Builds

Remembers(m2, m, n, resolved) ==
    Extends(m2, m) /\ DOMAIN m2 = DOMAIN m \cup {n} /\ m2[n] = resolved

\* A profile is remembered once all its includes are.
LEMMA OverRemembers ==
    ASSUME NEW m, NEW n, n \notin DOMAIN m, NEW resolved, NEW m2, m2 = Over([x \in {n} |-> resolved], m)
    PROVE  Remembers(m2, m, n, resolved)
  BY DEF Remembers, Extends, Over

LEMMA RemembersOne ==
    ASSUME AllLists,
           NEW m, Resolved(m), NEW n \in DOMAIN doc.profiles, n \notin DOMAIN m, NEW sofar,
           BuiltTo(m, n, Len(IncludesOf(n)), sofar),
           NEW m2, Remembers(m2, m, n, Own(sofar, doc.profiles[n]))
    PROVE  Resolved(m2)
  <1> DEFINE own == Own(sofar, doc.profiles[n])
  <1>1. DOMAIN m2 = DOMAIN m \cup {n} /\ m2[n] = own /\ \A x \in DOMAIN m : m2[x] = m[x]
    BY DEF Remembers, Extends
  <1>2. Extends(m2, m)
    BY DEF Remembers
  <1>3. ASSUME NEW x \in DOMAIN m2 PROVE Solved(m2, x)
    <2>1. CASE x = n
      <3>1. BuiltTo(m2, n, Len(IncludesOf(n)), sofar)
        BY <1>2, BuildsStay
      <3>2. QED
        BY <1>1, <2>1, <3>1 DEF Solved
    <2>2. CASE x \in DOMAIN m
      <3>1. PICK s : BuiltTo(m, x, Len(IncludesOf(x)), s) /\ m[x] = Own(s, doc.profiles[x])
        BY <2>2 DEF Resolved, Solved
      <3>2. BuiltTo(m2, x, Len(IncludesOf(x)), s)
        BY <1>2, <3>1, BuildsStay
      <3>3. x \in DOMAIN doc.profiles
        BY <2>2 DEF Resolved, Solved
      <3>4. m2[x] = Own(s, doc.profiles[x])
        BY <1>1, <2>2, <3>1
      <3>5. QED
        BY <3>2, <3>3, <3>4 DEF Solved
    <2>3. QED
      BY <1>1, <2>1, <2>2
  <1>4. Includes(n) \subseteq DOMAIN m /\ \A x \in DOMAIN m : n \notin Includes(x)
    <2>1. Includes(n) \subseteq DOMAIN m
      <3>1. DOMAIN IncludesOf(n) = 1..Len(IncludesOf(n))
        BY DEF IsList
      <3>2. QED
        BY <3>1 DEF Includes, IncludesOf, BuiltTo, Builds
    <2>2. ASSUME NEW x \in DOMAIN m PROVE n \notin Includes(x)
      BY ResolvedIncludes DEF Resolved, Solved, AllLists
    <2>3. QED
      BY <2>1, <2>2
  <1>5. Acyclic(m2)
    <2> SUFFICES ASSUME NEW S \in SUBSET DOMAIN m2, S # {}
                 PROVE  \E x \in S : Includes(x) \cap S = {}
      BY DEF Acyclic
    <2>1. CASE S \ {n} = {}
      BY <1>4, <2>1
    <2>2. CASE S \ {n} # {}
      <3>1. S \ {n} \in SUBSET DOMAIN m
        BY <1>1
      <3>2. PICK x \in S \ {n} : Includes(x) \cap (S \ {n}) = {}
        BY <2>2, <3>1 DEF Resolved, Acyclic
      <3>3. n \notin Includes(x)
        BY <1>4, <3>1, <3>2
      <3>4. QED
        BY <3>2, <3>3
    <2>3. QED
      BY <2>1, <2>2
  <1>6. QED
    BY <1>1, <1>2, <1>3, <1>5 DEF Resolved

-----------------------------------------------------------------------------
\* The frame on top goes on to its next include, and the frames wait for that.
LEMMA AsksNext ==
    ASSUME AllLists,
           NEW m, NEW st, st # <<>>, Stacked(m, st),
           TopOf(st).next <= Len(IncludesOf(TopOf(st).name)),
           NEW fr, IsPushed(fr, BelowOf(st), [TopOf(st) EXCEPT !.next = @ + 1])
    PROVE  /\ fr # <<>> /\ Awaits(m, fr, IncludesOf(TopOf(st).name)[TopOf(st).next])
           /\ \A i \in DOMAIN fr : \E j \in DOMAIN st : st[j].name = fr[i].name
  <1> DEFINE b == BelowOf(st)
             t == TopOf(st)
             u == [t EXCEPT !.next = @ + 1]
             incs == IncludesOf(t.name)
  <1>1. /\ IsList(st) /\ Unresolved(m, t) /\ t.next \in 1..(Len(incs) + 1)
        /\ BuiltTo(m, t.name, t.next - 1, t.sofar) /\ Awaits(m, b, t.name)
        /\ \A i \in DOMAIN b : b[i].name # t.name
    BY DEF Stacked
  <1>2. /\ IsList(b) /\ Len(st) \in Nat /\ Len(st) >= 1 /\ Len(b) = Len(st) - 1
        /\ DOMAIN st = 1..Len(st) /\ DOMAIN b = 1..Len(b)
        /\ \A i \in 1..Len(b) : b[i] = st[i]
    BY <1>1, Popped DEF BelowOf
  <1>3. u.name = t.name /\ u.next = t.next + 1 /\ u.sofar = t.sofar /\ IsFrame(u)
    BY <1>1 DEF Unresolved, IsFrame
  <1>4. IsList(incs) /\ Len(incs) \in Nat /\ DOMAIN incs = 1..Len(incs)
    <2>1. IsList(incs)
      BY <1>1 DEF Unresolved, AllLists
    <2> HIDE DEF incs
    <2>2. QED
      BY <2>1 DEF IsList
  <1>5. t.next \in 1..Len(incs)
    BY <1>1, <1>4
  <1> HIDE DEF b, u
  <1>6. IsPushed(fr, b, u)
    BY DEF b, u
  <1>7. /\ IsList(fr) /\ fr # <<>> /\ Len(b) \in Nat /\ Len(fr) = Len(b) + 1
        /\ DOMAIN b = 1..Len(b) /\ DOMAIN fr = 1..Len(fr)
        /\ \A i \in 1..Len(b) : fr[i] = b[i]
        /\ fr[Len(fr)] = u
    BY <1>6 DEF IsPushed, TopOf
  <1>8. st[Len(st)] = t
    BY DEF TopOf
  <1> HIDE DEF t
  <1>9. ASSUME NEW i \in DOMAIN fr PROVE \E j \in DOMAIN st : st[j].name = fr[i].name
    <2>1. CASE i = Len(fr)
      <3>1. Len(st) \in DOMAIN st /\ fr[i].name = t.name
        BY <1>2, <1>3, <1>7, <2>1
      <3>2. QED
        BY <1>8, <3>1
    <2>2. CASE i \in 1..Len(b)
      BY <1>2, <1>7, <2>2
    <2>3. QED
      BY <1>7, <2>1, <2>2
  <1>10. ASSUME NEW i \in DOMAIN fr
         PROVE  /\ Unresolved(m, fr[i])
                /\ \A j \in DOMAIN fr : fr[j].name = fr[i].name => j = i
                /\ fr[i].next \in Nat /\ fr[i].next - 1 \in DOMAIN IncludesOf(fr[i].name)
                /\ IncludesOf(fr[i].name)[fr[i].next - 1] =
                      IF i = Len(fr) THEN incs[t.next] ELSE fr[i + 1].name
                /\ BuiltTo(m, fr[i].name, fr[i].next - 2, fr[i].sofar)
    <2>1. CASE i = Len(fr)
      <3>1. Unresolved(m, u)
        BY <1>1, <1>3 DEF Unresolved
      <3>2. \A j \in DOMAIN fr : j # i => fr[j].name # u.name
        BY <1>1, <1>3, <1>7, <2>1
      <3>3. u.next \in Nat /\ u.next - 1 = t.next /\ u.next - 2 = t.next - 1
        BY <1>3, <1>4, <1>5
      <3>4. u.next - 1 \in DOMAIN incs /\ incs[u.next - 1] = incs[t.next]
        BY <1>4, <1>5, <3>3
      <3>5. BuiltTo(m, u.name, u.next - 2, u.sofar)
        BY <1>1, <1>3, <3>3
      <3>6. fr[i] = u /\ IncludesOf(u.name) = incs
        BY <1>3, <1>7, <2>1
      <3> HIDE DEF incs
      <3>7. QED
        BY <2>1, <3>1, <3>2, <3>3, <3>4, <3>5, <3>6
    <2>2. CASE i \in 1..Len(b)
      <3>1. fr[i] = b[i] /\ i \in DOMAIN b /\ i # Len(fr)
        BY <1>7, <2>2
      <3>2. fr[i + 1].name = IF i = Len(b) THEN t.name ELSE b[i + 1].name
        <4>1. CASE i = Len(b)
          BY <1>3, <1>7, <4>1
        <4>2. CASE i + 1 \in 1..Len(b)
          BY <1>7, <4>2
        <4>3. QED
          BY <1>7, <2>2, <4>1, <4>2
      <3>3. ASSUME NEW j \in DOMAIN fr, fr[j].name = fr[i].name PROVE j = i
        <4>1. CASE j = Len(fr)
          BY <1>1, <1>3, <1>7, <3>1, <3>3, <4>1
        <4>2. CASE j \in 1..Len(b)
          BY <1>1, <1>7, <3>1, <3>3, <4>2 DEF Awaits
        <4>3. QED
          BY <1>7, <4>1, <4>2
      <3>4. /\ Unresolved(m, b[i])
            /\ b[i].next \in Nat /\ b[i].next - 1 \in DOMAIN IncludesOf(b[i].name)
            /\ IncludesOf(b[i].name)[b[i].next - 1] = IF i = Len(b) THEN t.name ELSE b[i + 1].name
            /\ BuiltTo(m, b[i].name, b[i].next - 2, b[i].sofar)
        BY <1>1, <3>1 DEF Awaits
      <3>5. QED
        BY <3>1, <3>2, <3>3, <3>4
    <2>3. QED
      BY <1>7, <2>1, <2>2
  <1>11. Awaits(m, fr, incs[t.next])
    BY <1>7, <1>10 DEF Awaits
  <1>12. QED
    BY <1>7, <1>9, <1>11 DEF t

\* The include is there, and the frame that waited for it has it.
LEMMA GetsInclude ==
    ASSUME AllLists,
           NEW m, NEW fr, fr # <<>>, NEW name \in DOMAIN m, Awaits(m, fr, name),
           NEW st, st = [fr EXCEPT ![Len(fr)].sofar = Including(@, m[name])]
    PROVE  Stacked(m, st)
  <1> DEFINE t == fr[Len(fr)]
             u == [t EXCEPT !.sofar = Including(@, m[name])]
             b == BelowOf(fr)
             k == t.next - 2
  <1>1. IsList(fr)
    BY DEF Awaits
  <1>2. /\ IsList(b) /\ Len(fr) \in Nat /\ Len(fr) >= 1 /\ Len(b) = Len(fr) - 1
        /\ DOMAIN fr = 1..Len(fr) /\ DOMAIN b = 1..Len(b)
        /\ \A i \in 1..Len(b) : b[i] = fr[i]
    BY <1>1, Popped DEF BelowOf
  <1>3. /\ Unresolved(m, t)
        /\ t.next \in Nat /\ t.next - 1 \in DOMAIN IncludesOf(t.name)
        /\ IncludesOf(t.name)[t.next - 1] = name
        /\ BuiltTo(m, t.name, k, t.sofar)
    BY <1>2 DEF Awaits
  <1>4. u.name = t.name /\ u.next = t.next /\ u.sofar = Including(t.sofar, m[name]) /\ IsFrame(u)
    BY <1>3 DEF Unresolved, IsFrame
  <1>5. /\ Len(IncludesOf(t.name)) \in Nat
        /\ DOMAIN IncludesOf(t.name) = 1..Len(IncludesOf(t.name))
    BY <1>3 DEF Unresolved, IsList
  <1>6. ASSUME NEW i \in 1..Len(b)
        PROVE  /\ fr[i + 1].name = IF i = Len(b) THEN t.name ELSE b[i + 1].name
               /\ b[i].name # t.name
    <2>1. i \in DOMAIN fr /\ Len(fr) \in DOMAIN fr /\ i # Len(fr)
      BY <1>2
    <2>2. b[i].name # t.name
      BY <1>2, <2>1 DEF Awaits
    <2>3. fr[i + 1].name = IF i = Len(b) THEN t.name ELSE b[i + 1].name
      BY <1>2
    <2>4. QED
      BY <2>2, <2>3
  <1>7. Awaits(m, b, t.name)
    <2>1. ASSUME NEW i \in DOMAIN b
          PROVE  /\ Unresolved(m, b[i])
                 /\ \A j \in DOMAIN b : b[j].name = b[i].name => j = i
                 /\ b[i].next \in Nat /\ b[i].next - 1 \in DOMAIN IncludesOf(b[i].name)
                 /\ IncludesOf(b[i].name)[b[i].next - 1] = IF i = Len(b) THEN t.name ELSE b[i + 1].name
                 /\ BuiltTo(m, b[i].name, b[i].next - 2, b[i].sofar)
      <3>1. i \in DOMAIN fr /\ i # Len(fr) /\ b[i] = fr[i]
        BY <1>2
      <3>2. \A j \in DOMAIN b : b[j].name = b[i].name => j = i
        BY <1>2, <3>1 DEF Awaits
      <3>3. /\ Unresolved(m, fr[i])
            /\ fr[i].next \in Nat /\ fr[i].next - 1 \in DOMAIN IncludesOf(fr[i].name)
            /\ IncludesOf(fr[i].name)[fr[i].next - 1] = fr[i + 1].name
            /\ BuiltTo(m, fr[i].name, fr[i].next - 2, fr[i].sofar)
        BY <3>1 DEF Awaits
      <3>4. QED
        BY <1>2, <1>6, <3>1, <3>2, <3>3
    <2> HIDE DEF b, t
    <2>2. QED
      BY <1>2, <2>1 DEF Awaits
  <1>8. k \in Nat /\ k + 1 = t.next - 1 /\ t.next \in 1..(Len(IncludesOf(t.name)) + 1)
    <2>1. t.next - 1 \in 1..Len(IncludesOf(t.name)) /\ Len(IncludesOf(t.name)) \in Nat
      BY <1>3, <1>5
    <2>2. t.next \in Int
      BY <1>3
    <2>3. QED
      BY <2>1, <2>2
  <1>9. BuiltTo(m, t.name, t.next - 1, u.sofar)
    <2>1. k + 1 = t.next - 1
      BY <1>8
    <2> HIDE DEF k
    <2>2. BuiltTo(m, t.name, k + 1, Including(t.sofar, m[IncludesOf(t.name)[k + 1]]))
      BY <1>3, <1>8, <2>1, BuildsNext
    <2>3. QED
      BY <1>3, <1>4, <2>1, <2>2
  <1>10. st = [fr EXCEPT ![Len(fr)] = u]
    BY <1>2
  <1>11. /\ IsList(st) /\ st # <<>> /\ TopOf(st) = u /\ BelowOf(st) = b
    <2> HIDE DEF u
    <2>1. QED
      BY <1>1, <1>10, TopSet DEF TopOf, BelowOf
  <1>12. Unresolved(m, u)
    BY <1>3, <1>4 DEF Unresolved
  <1> HIDE DEF t, u, b, k
  <1>13. QED
    BY <1>2, <1>4, <1>6, <1>7, <1>8, <1>9, <1>11, <1>12 DEF Stacked

\* The include has to be resolved first.
LEMMA EntersInclude ==
    ASSUME NEW m, NEW fr, NEW name \in DOMAIN doc.profiles, name \notin DOMAIN m,
           IsList(IncludesOf(name)), Awaits(m, fr, name), \A i \in DOMAIN fr : fr[i].name # name,
           NEW st, IsPushed(st, fr, [name |-> name, next |-> 1, sofar |-> Base(name)])
    PROVE  Stacked(m, st)
  <1> DEFINE u == [name |-> name, next |-> 1, sofar |-> Base(name)]
  <1>1. /\ IsList(st) /\ st # <<>> /\ TopOf(st) = u /\ BelowOf(st) = fr
    BY DEF IsPushed
  <1>2. Unresolved(m, u) /\ u.name = name /\ u.next = 1 /\ u.sofar = Base(name)
    BY DEF Unresolved, IsFrame
  <1>3. BuiltTo(m, name, 0, Base(name))
    <2> DEFINE f == [i \in 0..0 |-> Base(name)]
    <2>1. f[0] = Base(name) /\ DOMAIN f = 0..0
      OBVIOUS
    <2> HIDE DEF f
    <2>2. Builds(m, name, 0, f)
      BY <2>1 DEF Builds
    <2>3. QED
      BY <2>1, <2>2 DEF BuiltTo
  <1>4. u.next \in 1..(Len(IncludesOf(name)) + 1) /\ u.next - 1 = 0
    <2>1. Len(IncludesOf(name)) \in Nat
      BY DEF IsList
    <2>2. QED
      BY <1>2, <2>1
  <1> HIDE DEF u
  <1>5. QED
    BY <1>1, <1>2, <1>3, <1>4 DEF Stacked

\* What is remembered besides changes nothing for those that wait.
LEMMA StillAwaits ==
    ASSUME NEW m, NEW m2, Extends(m2, m), NEW n, DOMAIN m2 = DOMAIN m \cup {n},
           NEW fr, NEW name, Awaits(m, fr, name), \A i \in DOMAIN fr : fr[i].name # n
    PROVE  Awaits(m2, fr, name)
  <1>1. ASSUME NEW i \in DOMAIN fr
        PROVE  Unresolved(m2, fr[i]) /\ BuiltTo(m2, fr[i].name, fr[i].next - 2, fr[i].sofar)
    <2>1. Unresolved(m, fr[i]) /\ BuiltTo(m, fr[i].name, fr[i].next - 2, fr[i].sofar)
      BY DEF Awaits
    <2>2. BuiltTo(m2, fr[i].name, fr[i].next - 2, fr[i].sofar)
      BY <2>1, BuildsStay
    <2>3. QED
      BY <2>1, <2>2 DEF Unresolved
  <1>2. QED
    BY <1>1 DEF Awaits

-----------------------------------------------------------------------------
\* What a file lists.
LEMMA FileLists ==
    ASSUME doc \in Docs
    PROVE  AllLists
  BY DocAssumption DEF AllLists, IncludesOf, IsList

LEMMA NobodyWaits == ASSUME NEW m, NEW name PROVE Awaits(m, <<>>, name)
  <1>1. IsList(<<>>) /\ DOMAIN <<>> = {}
    BY DEF IsList
  <1>2. QED
    BY <1>1 DEF Awaits

LEMMA NothingYet ==
    ASSUME memo = Nothing, stack = <<>>, result = Nothing
    PROVE  Resolved(memo) /\ Stacked(memo, stack) /\ Given(memo, result)
  <1>1. DOMAIN Nothing = {}
    BY DEF Nothing
  <1>2. QED
    BY <1>1 DEF Resolved, Acyclic, Stacked, Given

LEMMA NothingThen ==
    ASSUME memo' = Nothing, stack' = <<>>, result' = Nothing
    PROVE  (Resolved(memo) /\ Stacked(memo, stack) /\ Given(memo, result))'
  <1>1. DOMAIN Nothing = {}
    BY DEF Nothing
  <1>2. QED
    BY <1>1 DEF Resolved, Acyclic, Stacked, Given

\* The frame below gets what was resolved, or the caller does.
LEMMA ReturnKept ==
    ASSUME doc \in Docs, NEW m, NEW fr, NEW name \in DOMAIN m, Awaits(m, fr, name),
           Given(m, result), stage = "resolve", Return(fr, name, m[name])
    PROVE  Stacked(m, stack') /\ Given(m, result') /\ stage' \in {"resolve", "done"}
  <1>1. CASE fr = <<>>
    <2>1. /\ result' = Over([n \in {name} |-> m[name]], result)
          /\ stack' = <<>> /\ stage' \in {"resolve", "done"}
      BY <1>1 DEF Return
    <2>2. Given(m, result')
      BY <2>1 DEF Given, Over
    <2>3. Stacked(m, stack')
      BY <2>1 DEF Stacked
    <2>4. QED
      BY <2>1, <2>2, <2>3
  <1>2. CASE fr # <<>>
    <2>1. /\ stack' = [fr EXCEPT ![Len(fr)].sofar = Including(@, m[name])]
          /\ UNCHANGED <<stage, result>>
      BY <1>2 DEF Return
    <2>2. Stacked(m, stack')
      BY <1>2, <2>1, FileLists, GetsInclude
    <2>3. QED
      BY <2>1, <2>2
  <1>3. QED
    BY <1>1, <1>2

\* A call is answered from the memo, refused, or put on the stack.
LEMMA CallKept ==
    ASSUME doc \in Docs, Stacked(memo, stack), NEW fr, NEW name, Awaits(memo, fr, name),
           \A i \in DOMAIN fr : \E j \in DOMAIN stack : stack[j].name = fr[i].name,
           Given(memo, result), stage = "resolve", Call(fr, name)
    PROVE  /\ Stacked(memo, stack') /\ Given(memo, result')
           /\ stage' \in {"resolve", "done", "refused"}
  <1>1. CASE name \in DOMAIN memo
    BY <1>1, ReturnKept DEF Call
  <1>2. CASE /\ name \notin DOMAIN memo
             /\ (Len(fr) >= MaxDepth \/ name \notin DOMAIN doc.profiles \/ Started(name))
    BY <1>2 DEF Call, Refuse
  <1>3. CASE /\ name \notin DOMAIN memo
             /\ ~(Len(fr) >= MaxDepth \/ name \notin DOMAIN doc.profiles \/ Started(name))
    <2> DEFINE u == [name |-> name, next |-> 1, sofar |-> Base(name)]
    <2>1. stack' = Append(fr, u) /\ UNCHANGED <<stage, result>>
      BY <1>3 DEF Call, Base
    <2>2. IsPushed(stack', fr, u)
      <3> HIDE DEF u
      <3>1. IsList(fr)
        BY DEF Awaits
      <3>2. QED
        BY <2>1, <3>1, Pushed
    <2>3. \A i \in DOMAIN fr : fr[i].name # name
      BY <1>3 DEF Started
    <2>4. Stacked(memo, stack')
      BY <1>3, <2>2, <2>3, FileLists, EntersInclude DEF AllLists
    <2>5. QED
      BY <2>1, <2>4
  <1>4. QED
    BY <1>1, <1>2, <1>3

\* The same file says the same.
LEMMA SameFile ==
    ASSUME UNCHANGED doc, Resolved(memo'), Stacked(memo', stack'), Given(memo', result')
    PROVE  (Resolved(memo) /\ Stacked(memo, stack) /\ Given(memo, result))'
  <1>1. Given(memo, result)'
    BY DEF Given
  <1>2. Acyclic(memo)'
    <2>1. ASSUME NEW n PROVE Includes(n)' = Includes(n)
      BY DEF Includes
    <2>2. Acyclic(memo')
      BY DEF Resolved
    <2>3. QED
      BY <2>1, <2>2 DEF Acyclic
  <1>3. ASSUME NEW n, NEW k, NEW sofar, BuiltTo(memo', n, k, sofar)
        PROVE  BuiltTo(memo, n, k, sofar)'
    BY <1>3 DEF BuiltTo, Builds, Base, IncludesOf
  <1>4. ASSUME NEW n \in DOMAIN memo'
        PROVE  Solved(memo, n)'
    <2>1. PICK sofar : /\ n \in DOMAIN doc.profiles /\ BuiltTo(memo', n, Len(IncludesOf(n)), sofar)
                       /\ memo'[n] = Own(sofar, doc.profiles[n])
      BY DEF Resolved, Solved
    <2>2. BuiltTo(memo, n, Len(IncludesOf(n)), sofar)'
      BY <1>3, <2>1 DEF IncludesOf
    <2>3. Own(sofar, doc.profiles[n])' = Own(sofar, doc.profiles[n])
      <3>1. ASSUME NEW spec PROVE SourceOf(spec)' = SourceOf(spec)
        BY DEF SourceOf, SourceNamed
      <3>2. ASSUME NEW profile, NEW account PROVE OwnSecrets(profile, account)' = OwnSecrets(profile, account)
        BY <3>1 DEF OwnSecrets, Account
      <3>3. QED
        BY <3>2 DEF Own, Over
    <2>4. QED
      BY <2>1, <2>2, <2>3 DEF Solved
  <1>5. ASSUME NEW f PROVE Unresolved(memo, f)' <=> Unresolved(memo', f)
    BY DEF Unresolved, IsFrame
  <1>6. ASSUME NEW fr, NEW name, Awaits(memo', fr, name)
        PROVE  Awaits(memo, fr, name)'
    BY <1>3, <1>5, <1>6 DEF Awaits, IncludesOf
  <1>7. Stacked(memo, stack)'
    BY <1>3, <1>5, <1>6 DEF Stacked, IncludesOf, TopOf, BelowOf, IsList
  <1>8. QED
    BY <1>1, <1>2, <1>4, <1>7 DEF Resolved

\* The steps of the resolver.
LEMMA ResolverKept ==
    ASSUME ConfigInv, ResolveNext \/ Include \/ FinishProfile
    PROVE  ConfigInv'
  <1>1. /\ stage = "resolve" /\ doc \in Docs /\ doc' = doc
        /\ Resolved(memo) /\ Stacked(memo, stack) /\ Given(memo, result)
    BY DEF ConfigInv, ResolveNext, Include, FinishProfile
  <1> SUFFICES /\ Resolved(memo') /\ Stacked(memo', stack') /\ Given(memo', result')
               /\ stage' \in {"resolve", "done", "refused"}
    BY <1>1, SameFile DEF ConfigInv
  <1>2. CASE ResolveNext
    <2>1. Call(<<>>, Head(todo)) /\ memo' = memo
      BY <1>2 DEF ResolveNext
    <2>2. Awaits(memo, <<>>, Head(todo)) /\ DOMAIN <<>> = {}
      BY NobodyWaits
    <2>3. QED
      BY <1>1, <2>1, <2>2, CallKept
  <1>3. CASE Include
    <2> DEFINE fr == Append(Below, [Top EXCEPT !.next = @ + 1])
               includes == doc.profiles[Top.name].include
    <2>1. stack # <<>> /\ Top.next <= Len(includes) /\ memo' = memo
      BY <1>3 DEF Include
    <2>2. \/ stage' = "refused" /\ UNCHANGED <<stack, result>>
          \/ Call(fr, includes[Top.next])
      BY <1>3 DEF Include, Refuse
    <2>3. CASE stage' = "refused" /\ UNCHANGED <<stack, result>>
      BY <1>1, <2>1, <2>3
    <2>4. CASE Call(fr, includes[Top.next])
      <3>1. IsPushed(fr, BelowOf(stack), [TopOf(stack) EXCEPT !.next = @ + 1])
        BY <1>1, <2>1, Popped, Pushed DEF Top, Below, TopOf, BelowOf, Stacked
      <3>2. /\ Awaits(memo, fr, includes[Top.next])
            /\ \A i \in DOMAIN fr : \E j \in DOMAIN stack : stack[j].name = fr[i].name
        <4>1. AllLists
          BY <1>1, FileLists
        <4>2. /\ Top = TopOf(stack) /\ includes = IncludesOf(TopOf(stack).name)
              /\ TopOf(stack).next <= Len(IncludesOf(TopOf(stack).name))
          BY <2>1 DEF Top, TopOf, IncludesOf
        <4> HIDE DEF fr, includes
        <4>3. /\ Awaits(memo, fr, IncludesOf(TopOf(stack).name)[TopOf(stack).next])
              /\ \A i \in DOMAIN fr : \E j \in DOMAIN stack : stack[j].name = fr[i].name
          BY <1>1, <2>1, <3>1, <4>1, <4>2, AsksNext
        <4>4. QED
          BY <4>2, <4>3
      <3> HIDE DEF fr, includes
      <3>3. QED
        BY <1>1, <2>1, <2>4, <3>2, CallKept
    <2>5. QED
      BY <2>2, <2>3, <2>4
  <1>4. CASE FinishProfile
    <2> DEFINE profile  == doc.profiles[Top.name]
               resolved == Own(Top.sofar, profile)
    <2>1. /\ stack # <<>> /\ Top.next > Len(profile.include)
          /\ \/ stage' = "refused" /\ UNCHANGED <<stack, memo, result>>
             \/ /\ memo' = Over([n \in {Top.name} |-> resolved], memo)
                /\ Return(Below, Top.name, resolved)
      BY <1>4 DEF FinishProfile, Refuse
    <2>2. CASE stage' = "refused" /\ UNCHANGED <<stack, memo, result>>
      BY <1>1, <2>2
    <2>3. CASE /\ memo' = Over([n \in {Top.name} |-> resolved], memo)
               /\ Return(Below, Top.name, resolved)
      <3>1. /\ Top.name \in DOMAIN doc.profiles \ DOMAIN memo
            /\ BuiltTo(memo, Top.name, Len(IncludesOf(Top.name)), Top.sofar)
            /\ Awaits(memo, Below, Top.name)
            /\ \A i \in DOMAIN Below : Below[i].name # Top.name
        <4>1. /\ Unresolved(memo, TopOf(stack))
              /\ TopOf(stack).next \in 1..(Len(IncludesOf(TopOf(stack).name)) + 1)
              /\ BuiltTo(memo, TopOf(stack).name, TopOf(stack).next - 1, TopOf(stack).sofar)
              /\ Awaits(memo, BelowOf(stack), TopOf(stack).name)
              /\ \A i \in DOMAIN BelowOf(stack) : BelowOf(stack)[i].name # TopOf(stack).name
          BY <1>1, <2>1 DEF Stacked
        <4>2. Top = TopOf(stack) /\ Below = BelowOf(stack)
          BY DEF Top, Below, TopOf, BelowOf
        <4>3. Len(IncludesOf(Top.name)) \in Nat
          BY <1>1, <4>1, <4>2, FileLists DEF Unresolved, IsList
        <4>4. Top.next - 1 = Len(IncludesOf(Top.name))
          BY <2>1, <4>1, <4>2, <4>3 DEF IncludesOf
        <4>5. QED
          BY <4>1, <4>2, <4>4 DEF Unresolved
      <3>2. Remembers(memo', memo, Top.name, resolved) /\ Resolved(memo')
        <4>1. Remembers(memo', memo, Top.name, resolved)
          <5> HIDE DEF resolved
          <5>1. QED
            BY <2>3, <3>1, OverRemembers
        <4>2. AllLists
          BY <1>1, FileLists
        <4>3. Resolved(memo')
          BY <1>1, <3>1, <4>1, <4>2, RemembersOne
        <4>4. QED
          BY <4>1, <4>3
      <3>3. Awaits(memo', Below, Top.name) /\ Given(memo', result)
        BY <1>1, <3>1, <3>2, StillAwaits DEF Given, Extends, Remembers
      <3> HIDE DEF resolved
      <3>4. Stacked(memo', stack') /\ Given(memo', result') /\ stage' \in {"resolve", "done"}
        BY <1>1, <2>3, <3>2, <3>3, ReturnKept DEF Remembers
      <3>5. QED
        BY <3>2, <3>4
    <2>4. QED
      BY <2>1, <2>2, <2>3
  <1>5. QED
    BY <1>2, <1>3, <1>4

LEMMA ConfigKept == OptsInv /\ ConfigInv /\ ConfigNext => ConfigInv'
  <1> SUFFICES ASSUME OptsInv, ConfigInv, ConfigNext PROVE ConfigInv'
    OBVIOUS
  <1>1. CASE FindExplicit \/ FindInDirectory \/ ReadFails
    <2>1. UNCHANGED <<doc, memo, stack, result>> /\ stage' \in {"find", "read", "not found", "refused"}
      BY <1>1 DEF FindExplicit, FindInDirectory, ReadFails, Refuse
    <2>2. memo = Nothing /\ stack = <<>> /\ result = Nothing /\ DOMAIN memo = {}
      BY <1>1 DEF FindExplicit, FindInDirectory, ReadFails, ConfigInv, Nothing
    <2>3. (Resolved(memo) /\ Stacked(memo, stack) /\ Given(memo, result))'
      BY <2>1, SameFile DEF ConfigInv
    <2>4. QED
      BY <2>1, <2>2, <2>3 DEF ConfigInv
  <1>2. CASE Read
    <2>1. UNCHANGED <<memo, stack, result>> /\ doc' \in Docs
      BY <1>2 DEF Read
    <2>2. stage' \notin {"find", "read"}
      <3>1. CASE opts.mode = "metadata"
        BY <1>2, <3>1 DEF Read
      <3>2. CASE opts.mode = "inspect"
        BY <1>2, <3>2 DEF Read
      <3>3. CASE opts.mode = "load"
        BY <1>2, <3>3 DEF Read, Refuse
      <3>4. QED
        BY <3>1, <3>2, <3>3 DEF OptsInv, Modes
    <2>3. memo = Nothing /\ stack = <<>> /\ result = Nothing
      BY <1>2 DEF Read, ConfigInv
    <2>4. memo' = Nothing /\ stack' = <<>> /\ result' = Nothing
      BY <2>1, <2>3
    <2>5. (Resolved(memo) /\ Stacked(memo, stack) /\ Given(memo, result))'
      BY <2>4, NothingThen
    <2>6. QED
      BY <2>1, <2>2, <2>5 DEF ConfigInv
  <1>3. QED
    BY <1>1, <1>2, ResolverKept DEF ConfigNext

-----------------------------------------------------------------------------
(***************************************************************************)
(* What is included, however indirectly.                                   *)
(***************************************************************************)
\* Induction over the naturals, as a statement about sets.  Below a number the set
\* misses, the step back from each missed one would squeeze them into one place less.
LEMMA SetInduction ==
    ASSUME NEW S, 0 \in S, \A n \in Nat : n \in S => n + 1 \in S
    PROVE  Nat \subseteq S
  <1> SUFFICES ASSUME NEW k \in Nat, k \notin S PROVE FALSE
    OBVIOUS
  <1> DEFINE M == {n \in 0..k : n \notin S}
  <1>1. IsFiniteSet(M) /\ k \in M
    <2>1. IsFiniteSet(0..k)
      BY FS_Interval
    <2>2. QED
      BY <2>1, FS_Subset
  <1>2. /\ IsFiniteSet(M \ {k}) /\ Cardinality(M \ {k}) < Cardinality(M)
    <2>1. Cardinality(M) \in Nat /\ Cardinality(M \ {k}) = Cardinality(M) - 1 /\ IsFiniteSet(M \ {k})
      BY <1>1, FS_RemoveElement, FS_CardinalityType
    <2>2. QED
      BY <2>1
  <1> DEFINE back == [n \in M |-> n - 1]
  <1>3. back \in [M -> M \ {k}]
    <2>1. \A n \in M : n - 1 \in M \ {k}
      <3> SUFFICES ASSUME NEW n \in 0..k, n \notin S PROVE n - 1 \in 0..k /\ n - 1 \notin S /\ n - 1 # k
        OBVIOUS
      <3>1. n # 0 /\ n - 1 \in Nat
        OBVIOUS
      <3>2. n - 1 \notin S
        BY <3>1
      <3>3. QED
        BY <3>1, <3>2
    <2>2. QED
      BY <2>1
  <1>4. PICK x \in M, y \in M : x # y /\ back[x] = back[y]
    <2> HIDE DEF back, M
    <2>1. QED
      BY <1>1, <1>2, <1>3, FS_PigeonHole
  <1>5. QED
    BY <1>4

\* Reach is a function: the steps up to any number determine it.
ReachStep(r, d) ==
    [n \in DOMAIN doc.profiles |->
        IF d = 0 THEN {}
        ELSE UNION {{m} \cup r[d - 1][m] : m \in Includes(n) \cap DOMAIN doc.profiles}]

IsReach(k, r) == r = [d \in 0..k |-> ReachStep(r, d)]

LEMMA ReachExists ==
    ASSUME NEW k \in Nat
    PROVE  \E r : IsReach(k, r)
  <1> DEFINE S == {j \in Nat : \E r : IsReach(j, r)}
  <1>1. 0 \in S
    <2> DEFINE r == [d \in 0..0 |-> ReachStep(<<>>, 0)]
    <2>1. \A d \in 0..0 : ReachStep(r, d) = ReachStep(<<>>, 0)
      BY DEF ReachStep
    <2>2. r = [d \in 0..0 |-> ReachStep(r, d)]
      BY <2>1
    <2>3. QED
      BY <2>2 DEF IsReach
  <1>2. ASSUME NEW j \in Nat, j \in S PROVE j + 1 \in S
    <2>1. PICK r : IsReach(j, r)
      BY <1>2
    <2> DEFINE s == [d \in 0..(j + 1) |-> IF d = j + 1 THEN ReachStep(r, j + 1) ELSE r[d]]
    <2>2. ASSUME NEW d \in 0..(j + 1) PROVE ReachStep(s, d) = ReachStep(r, d)
      <3>1. CASE d = 0
        BY <3>1 DEF ReachStep
      <3>2. CASE d # 0
        <4>1. d - 1 \in 0..j /\ s[d - 1] = r[d - 1]
          BY <3>2
        <4> HIDE DEF s
        <4>2. QED
          BY <3>2, <4>1 DEF ReachStep
      <3>3. QED
        BY <3>1, <3>2
    <2>3. ASSUME NEW d \in 0..(j + 1) PROVE s[d] = ReachStep(s, d)
      <3>1. CASE d = j + 1
        BY <2>2, <3>1
      <3>2. CASE d \in 0..j
        BY <2>1, <2>2, <3>2 DEF IsReach
      <3>3. QED
        BY <3>1, <3>2
    <2>4. s = [d \in 0..(j + 1) |-> ReachStep(s, d)]
      <3>1. DOMAIN s = 0..(j + 1) /\ s = [d \in 0..(j + 1) |-> s[d]]
        OBVIOUS
      <3> HIDE DEF s
      <3>2. QED
        BY <2>3, <3>1
    <2> HIDE DEF s
    <2>5. QED
      BY <2>4 DEF IsReach
  <1> HIDE DEF S
  <1>3. Nat \subseteq S
    BY <1>1, <1>2, SetInduction
  <1>4. QED
    BY <1>3 DEF S

LEMMA ReachIs ==
    ASSUME doc \in Docs
    PROVE  /\ Len(doc.order) \in Nat
           /\ \A d \in 0..Len(doc.order) : Reach[d] = ReachStep(Reach, d)
  <1>1. Len(doc.order) \in Nat
    BY DocAssumption DEF IsList
  <1>2. \E r : IsReach(Len(doc.order), r)
    BY <1>1, ReachExists
  <1>3. IsReach(Len(doc.order), Reach)
    BY <1>2 DEF IsReach, ReachStep, Reach
  <1>4. QED
    BY <1>1, <1>3 DEF IsReach

\* What is included, however indirectly, by what is resolved, is resolved.
LEMMA ReachesResolved ==
    ASSUME doc \in Docs, NEW m, Resolved(m), NEW n \in DOMAIN m
    PROVE  Reach[Len(doc.order)][n] \subseteq DOMAIN m
  <1> DEFINE D == Len(doc.order)
             S == {k \in Nat : k <= D => \A x \in DOMAIN m : Reach[k][x] \subseteq DOMAIN m}
  <1>1. D \in Nat /\ \A d \in 0..D : Reach[d] = ReachStep(Reach, d)
    BY ReachIs
  <1>2. \A x \in DOMAIN m : x \in DOMAIN doc.profiles /\ Includes(x) \subseteq DOMAIN m
    BY FileLists, ResolvedIncludes DEF Resolved, Solved, AllLists
  <1> HIDE DEF D
  <1>3. 0 \in S
    <2>1. ASSUME NEW x \in DOMAIN m PROVE Reach[0][x] = {}
      <3>1. Reach[0][x] = ReachStep(Reach, 0)[x]
        BY <1>1
      <3>2. QED
        BY <1>2, <3>1 DEF ReachStep
    <2>2. QED
      BY <2>1
  <1>4. ASSUME NEW k \in Nat, k \in S PROVE k + 1 \in S
    <2> SUFFICES ASSUME k + 1 <= D, NEW x \in DOMAIN m
                 PROVE  Reach[k + 1][x] \subseteq DOMAIN m
      OBVIOUS
    <2>1. k + 1 \in 0..D /\ k <= D /\ (k + 1) - 1 = k /\ k + 1 # 0
      BY <1>1
    <2>2. Reach[k + 1][x] = UNION {{y} \cup Reach[k][y] : y \in Includes(x) \cap DOMAIN doc.profiles}
      <3>1. Reach[k + 1][x] = ReachStep(Reach, k + 1)[x]
        BY <1>1, <2>1
      <3>2. QED
        BY <1>2, <2>1, <3>1 DEF ReachStep
    <2>3. \A y \in Includes(x) : y \in DOMAIN m /\ Reach[k][y] \subseteq DOMAIN m
      BY <1>2, <1>4, <2>1
    <2>4. QED
      BY <2>2, <2>3
  <1> HIDE DEF S
  <1>5. Nat \subseteq S
    BY <1>3, <1>4, SetInduction
  <1>6. D \in S
    BY <1>1, <1>5
  <1>7. QED
    BY <1>1, <1>6 DEF S, D

\* What is resolved does not include itself, however indirectly: those that lead back
\* to it would all include one of them.
LEMMA NoneReachesItself ==
    ASSUME doc \in Docs, NEW m, Resolved(m), NEW n \in DOMAIN m
    PROVE  n \notin Reach[Len(doc.order)][n]
  <1> SUFFICES ASSUME n \in Reach[Len(doc.order)][n] PROVE FALSE
    OBVIOUS
  <1> DEFINE D == Len(doc.order)
             S == {x \in DOMAIN m : \E k \in 0..D : n \in Reach[k][x]}
             T == S \cup {n}
  <1>1. D \in Nat /\ \A d \in 0..D : Reach[d] = ReachStep(Reach, d)
    BY ReachIs
  <1>2. \A x \in DOMAIN m : x \in DOMAIN doc.profiles /\ Includes(x) \subseteq DOMAIN m
    BY FileLists, ResolvedIncludes DEF Resolved, Solved, AllLists
  <1>3. n \in S
    BY <1>1
  <1>4. ASSUME NEW x \in S PROVE Includes(x) \cap T # {}
    <2>1. PICK k \in 0..D : n \in Reach[k][x]
      OBVIOUS
    <2>2. n \in ReachStep(Reach, k)[x] /\ x \in DOMAIN doc.profiles
      BY <1>1, <1>2, <2>1
    <2>3. k # 0 /\ n \in UNION {{y} \cup Reach[k - 1][y] : y \in Includes(x) \cap DOMAIN doc.profiles}
      <3>1. k # 0
        BY <2>2 DEF ReachStep
      <3>2. QED
        BY <2>2, <3>1 DEF ReachStep
    <2>4. PICK y \in Includes(x) : y = n \/ n \in Reach[k - 1][y]
      BY <2>3
    <2>5. y \in DOMAIN m /\ k - 1 \in 0..D
      BY <1>1, <1>2, <2>3, <2>4
    <2>6. y \in T
      BY <2>4, <2>5
    <2>7. QED
      BY <2>4, <2>6
  <1>5. \E x \in T : Includes(x) \cap T = {}
    <2>1. T \in SUBSET DOMAIN m /\ T # {}
      OBVIOUS
    <2> HIDE DEF T
    <2>2. QED
      BY <2>1 DEF Resolved, Acyclic
  <1> HIDE DEF S
  <1>6. QED
    BY <1>3, <1>4, <1>5

LEMMA ResolvedHasNoCycles == ConfigInv => CyclesAreRefused
  <1> SUFFICES ASSUME ConfigInv, NEW n \in DOMAIN memo
               PROVE  /\ n \in DOMAIN doc.profiles
                      /\ n \notin Reach[Len(doc.order)][n]
                      /\ \A m \in Reach[Len(doc.order)][n] \cup {n} : Includes(m) \subseteq DOMAIN doc.profiles
    BY DEF CyclesAreRefused
  <1>1. doc \in Docs /\ Resolved(memo)
    BY DEF ConfigInv
  <1>2. \A x \in DOMAIN memo : x \in DOMAIN doc.profiles /\ Includes(x) \subseteq DOMAIN memo
    BY <1>1, FileLists, ResolvedIncludes DEF Resolved, Solved, AllLists
  <1>3. Reach[Len(doc.order)][n] \subseteq DOMAIN memo /\ n \notin Reach[Len(doc.order)][n]
    BY <1>1, ReachesResolved, NoneReachesItself
  <1>4. QED
    BY <1>2, <1>3

-----------------------------------------------------------------------------
(***************************************************************************)
(* What a sequence of parts says: for each name, the last that has it.     *)
(***************************************************************************)
\* A bounded set of numbers has a greatest.
LEMMA GreatestExists ==
    ASSUME NEW k \in Nat, NEW I \in SUBSET (1..k), I # {}
    PROVE  \E i \in I : \A j \in I : j <= i
  <1> DEFINE S == {n \in Nat : \A J \in SUBSET (1..n) : J # {} => \E i \in J : \A j \in J : j <= i}
  <1>1. 0 \in S
    <2>1. 1..0 = {}
      OBVIOUS
    <2>2. QED
      BY <2>1
  <1>2. ASSUME NEW n \in Nat, n \in S PROVE n + 1 \in S
    <2> SUFFICES ASSUME NEW J \in SUBSET (1..(n + 1)), J # {}
                 PROVE  \E i \in J : \A j \in J : j <= i
      OBVIOUS
    <2>1. CASE n + 1 \in J
      <3>1. \A j \in J : j <= n + 1
        OBVIOUS
      <3>2. QED
        BY <2>1, <3>1
    <2>2. CASE n + 1 \notin J
      <3>1. J \in SUBSET (1..n)
        BY <2>2
      <3>2. QED
        BY <1>2, <3>1
    <2>3. QED
      BY <2>1, <2>2
  <1> HIDE DEF S
  <1>3. Nat \subseteq S
    BY <1>1, <1>2, SetInduction
  <1>4. QED
    BY <1>3 DEF S

IsLast(I, i) == i \in I /\ \A j \in I : j <= i

\* What the functions that X has for the names of q say together: each the last word.
Where(q, X, s) == {i \in DOMAIN q : s \in DOMAIN X[q[i]]}

Layered(q, X) ==
    [s \in UNION {DOMAIN X[q[i]] : i \in DOMAIN q} |->
        X[q[CHOOSE i \in Where(q, X, s) : \A j \in Where(q, X, s) : j <= i]][s]]

LEMMA LayeredIs ==
    ASSUME NEW q, IsList(q), NEW X, NEW s, NEW i, IsLast(Where(q, X, s), i)
    PROVE  s \in DOMAIN Layered(q, X) /\ Layered(q, X)[s] = X[q[i]][s]
  <1>1. DOMAIN q = 1..Len(q) /\ Len(q) \in Nat
    BY DEF IsList
  <1>2. i \in DOMAIN q /\ s \in DOMAIN X[q[i]]
    BY DEF IsLast, Where
  <1> DEFINE I == Where(q, X, s)
             c == CHOOSE k \in I : \A j \in I : j <= k
  <1>3. I \subseteq 1..Len(q)
    BY <1>1 DEF Where
  <1>4. c \in I /\ \A j \in I : j <= c
    <2>1. \E k \in I : \A j \in I : j <= k
      BY DEF IsLast
    <2> HIDE DEF I
    <2>2. QED
      BY <2>1
  <1>5. c = i
    <2> HIDE DEF c
    <2>1. c \in Nat /\ i \in Nat /\ c <= i /\ i <= c
      BY <1>1, <1>2, <1>3, <1>4 DEF IsLast
    <2>2. QED
      BY <2>1
  <1>6. s \in UNION {DOMAIN X[q[k]] : k \in DOMAIN q}
    BY <1>2
  <1> HIDE DEF I
  <1>7. Layered(q, X)[s] = X[q[c]][s] /\ s \in DOMAIN Layered(q, X)
    BY <1>6 DEF Layered, I
  <1>8. QED
    BY <1>5, <1>7

LEMMA LayeredDomain ==
    ASSUME NEW q, NEW X
    PROVE  /\ Layered(q, X) = [s \in DOMAIN Layered(q, X) |-> Layered(q, X)[s]]
           /\ \A s : s \in DOMAIN Layered(q, X) <=> Where(q, X, s) # {}
  BY DEF Layered, Where

\* Each has a last.
LEMMA LastExists ==
    ASSUME NEW q, IsList(q), NEW X, NEW s \in DOMAIN Layered(q, X)
    PROVE  \E i : IsLast(Where(q, X, s), i)
  <1>1. DOMAIN q = 1..Len(q) /\ Len(q) \in Nat
    BY DEF IsList
  <1>2. Where(q, X, s) \in SUBSET (1..Len(q)) /\ Where(q, X, s) # {}
    BY <1>1, LayeredDomain DEF Where
  <1>3. QED
    BY <1>1, <1>2, GreatestExists DEF IsLast

LEMMA Concat ==
    ASSUME NEW p, IsList(p), NEW q, IsList(q)
    PROVE  /\ IsList(p \o q) /\ Len(p) \in Nat /\ Len(q) \in Nat
           /\ DOMAIN p = 1..Len(p) /\ DOMAIN q = 1..Len(q) /\ DOMAIN (p \o q) = 1..(Len(p) + Len(q))
           /\ \A i \in 1..Len(p) : (p \o q)[i] = p[i]
           /\ \A i \in 1..Len(q) : (p \o q)[Len(p) + i] = q[i]
  <1> DEFINE S == {p[i] : i \in DOMAIN p} \cup {q[i] : i \in DOMAIN q}
             t == p \o q
  <1>1. p \in Seq(S) /\ q \in Seq(S)
    BY DEF IsList
  <1> HIDE DEF S
  <1>2. /\ t \in Seq(S) /\ Len(p) \in Nat /\ Len(q) \in Nat /\ Len(t) = Len(p) + Len(q)
        /\ DOMAIN p = 1..Len(p) /\ DOMAIN q = 1..Len(q) /\ DOMAIN t = 1..Len(t)
        /\ \A i \in 1..Len(p) : t[i] = p[i]
        /\ \A i \in 1..Len(q) : t[Len(p) + i] = q[i]
    BY <1>1
  <1> HIDE DEF t
  <1>3. IsList(t)
    BY <1>2, SeqIsList
  <1>4. QED
    BY <1>2, <1>3 DEF t

\* What is put behind has the last word.
LEMMA LayeredConcat ==
    ASSUME NEW p, IsList(p), NEW q, IsList(q), NEW X
    PROVE  Layered(p \o q, X) = Over(Layered(q, X), Layered(p, X))
  <1> DEFINE t == p \o q
  <1>1. /\ IsList(t) /\ Len(p) \in Nat /\ Len(q) \in Nat
        /\ DOMAIN p = 1..Len(p) /\ DOMAIN q = 1..Len(q) /\ DOMAIN t = 1..(Len(p) + Len(q))
        /\ \A i \in 1..Len(p) : t[i] = p[i]
        /\ \A i \in 1..Len(q) : t[Len(p) + i] = q[i]
    BY Concat
  <1> HIDE DEF t
  <1>2. ASSUME NEW j \in DOMAIN t, NEW s, s \in DOMAIN X[t[j]]
        PROVE  \/ j \in Where(p, X, s)
               \/ j - Len(p) \in Where(q, X, s) /\ j > Len(p)
    <2>1. CASE j \in 1..Len(p)
      BY <1>1, <1>2, <2>1 DEF Where
    <2>2. CASE j - Len(p) \in 1..Len(q)
      <3>1. t[j] = q[j - Len(p)] /\ j > Len(p)
        BY <1>1, <2>2
      <3>2. QED
        BY <1>1, <1>2, <2>2, <3>1 DEF Where
    <2>3. QED
      BY <1>1, <2>1, <2>2
  <1>3. ASSUME NEW s, NEW i, IsLast(Where(q, X, s), i)
        PROVE  IsLast(Where(t, X, s), Len(p) + i) /\ t[Len(p) + i] = q[i]
    <2>1. i \in 1..Len(q) /\ s \in DOMAIN X[q[i]] /\ \A k \in Where(q, X, s) : k <= i
      BY <1>1, <1>3 DEF IsLast, Where
    <2>2. t[Len(p) + i] = q[i] /\ Len(p) + i \in DOMAIN t
      BY <1>1, <2>1
    <2>3. ASSUME NEW j \in Where(t, X, s) PROVE j <= Len(p) + i
      <3>1. j \in 1..(Len(p) + Len(q)) /\ (j \in 1..Len(p) \/ j - Len(p) \in Where(q, X, s))
        BY <1>1, <1>2 DEF Where
      <3>2. QED
        BY <1>1, <2>1, <3>1
    <2>4. QED
      BY <2>1, <2>2, <2>3 DEF IsLast, Where
  <1>4. ASSUME NEW s, Where(q, X, s) = {}, NEW i, IsLast(Where(p, X, s), i)
        PROVE  IsLast(Where(t, X, s), i) /\ t[i] = p[i]
    <2>1. i \in 1..Len(p) /\ s \in DOMAIN X[p[i]] /\ \A k \in Where(p, X, s) : k <= i
      BY <1>1, <1>4 DEF IsLast, Where
    <2>2. t[i] = p[i] /\ i \in DOMAIN t
      BY <1>1, <2>1
    <2>3. ASSUME NEW j \in Where(t, X, s) PROVE j <= i
      BY <1>2, <1>4, <2>1 DEF Where
    <2>4. QED
      BY <2>1, <2>2, <2>3 DEF IsLast, Where
  <1>5. ASSUME NEW s PROVE s \in DOMAIN Layered(t, X) <=> s \in DOMAIN Layered(q, X) \cup DOMAIN Layered(p, X)
    <2>1. ASSUME s \in DOMAIN Layered(t, X)
          PROVE  s \in DOMAIN Layered(q, X) \cup DOMAIN Layered(p, X)
      <3>1. PICK j \in DOMAIN t : s \in DOMAIN X[t[j]]
        BY <2>1, LayeredDomain DEF Where
      <3>2. QED
        BY <1>2, <3>1, LayeredDomain
    <2>2. ASSUME s \in DOMAIN Layered(q, X)
          PROVE  s \in DOMAIN Layered(t, X)
      BY <1>1, <1>3, <2>2, LastExists, LayeredIs
    <2>3. ASSUME s \in DOMAIN Layered(p, X), s \notin DOMAIN Layered(q, X)
          PROVE  s \in DOMAIN Layered(t, X)
      BY <1>1, <1>4, <2>3, LastExists, LayeredIs, LayeredDomain
    <2>4. QED
      BY <2>1, <2>2, <2>3
  <1>6. ASSUME NEW s \in DOMAIN Layered(t, X)
        PROVE  Layered(t, X)[s] = IF s \in DOMAIN Layered(q, X) THEN Layered(q, X)[s] ELSE Layered(p, X)[s]
    <2>1. CASE s \in DOMAIN Layered(q, X)
      <3>1. PICK i : IsLast(Where(q, X, s), i)
        BY <2>1, LastExists
      <3>2. Layered(q, X)[s] = X[q[i]][s]
        BY <3>1, LayeredIs
      <3>3. IsLast(Where(t, X, s), Len(p) + i) /\ t[Len(p) + i] = q[i]
        BY <1>3, <3>1
      <3>4. Layered(t, X)[s] = X[t[Len(p) + i]][s]
        BY <1>1, <3>3, LayeredIs
      <3>5. QED
        BY <2>1, <3>2, <3>3, <3>4
    <2>2. CASE s \notin DOMAIN Layered(q, X)
      <3>1. Where(q, X, s) = {} /\ s \in DOMAIN Layered(p, X)
        BY <1>5, <2>2, LayeredDomain
      <3>2. PICK i : IsLast(Where(p, X, s), i)
        BY <3>1, LastExists
      <3>3. Layered(p, X)[s] = X[p[i]][s]
        BY <3>2, LayeredIs
      <3>4. IsLast(Where(t, X, s), i) /\ t[i] = p[i]
        BY <1>4, <3>1, <3>2
      <3>5. Layered(t, X)[s] = X[t[i]][s]
        BY <1>1, <3>4, LayeredIs
      <3>6. QED
        BY <2>2, <3>3, <3>4, <3>5
    <2>3. QED
      BY <2>1, <2>2
  <1>7. Layered(t, X) = Over(Layered(q, X), Layered(p, X))
    <2> DEFINE a == Layered(t, X)
               b == Layered(q, X)
               c == Layered(p, X)
    <2>1. a = [s \in DOMAIN a |-> a[s]] /\ DOMAIN a = DOMAIN b \cup DOMAIN c
      BY <1>5, LayeredDomain
    <2>2. \A s \in DOMAIN a : a[s] = IF s \in DOMAIN b THEN b[s] ELSE c[s]
      BY <1>6
    <2> HIDE DEF a, b, c
    <2>3. a = Over(b, c)
      BY <2>1, <2>2 DEF Over
    <2>4. QED
      BY <2>3 DEF a, b, c
  <1>8. QED
    BY <1>7 DEF t

\* And so has the profile itself.
LEMMA LayeredAppend ==
    ASSUME NEW p, IsList(p), NEW n, NEW X
    PROVE  Layered(Append(p, n), X) = Over(X[n], Layered(p, X))
  <1> DEFINE q == <<n>>
  <1>1. IsList(q) /\ Append(p, n) = p \o q /\ DOMAIN q = {1} /\ q[1] = n
    BY DEF IsList
  <1>2. Layered(p \o q, X) = Over(Layered(q, X), Layered(p, X))
    <2> HIDE DEF q
    <2>1. QED
      BY <1>1, LayeredConcat
  <1> HIDE DEF q
  <1>3. ASSUME NEW s
        PROVE  /\ s \in DOMAIN Layered(q, X) <=> s \in DOMAIN X[n]
               /\ s \in DOMAIN X[n] => Layered(q, X)[s] = X[n][s]
    <2>1. Where(q, X, s) = IF s \in DOMAIN X[n] THEN {1} ELSE {}
      BY <1>1 DEF Where
    <2>2. s \in DOMAIN Layered(q, X) <=> s \in DOMAIN X[n]
      BY <2>1, LayeredDomain
    <2>3. s \in DOMAIN X[n] => IsLast(Where(q, X, s), 1)
      BY <2>1 DEF IsLast
    <2>4. QED
      BY <1>1, <2>2, <2>3, LayeredIs
  <1>4. DOMAIN Layered(q, X) = DOMAIN X[n]
    BY <1>3
  <1>5. Over(Layered(q, X), Layered(p, X)) = Over(X[n], Layered(p, X))
    BY <1>3, <1>4 DEF Over
  <1>6. QED
    BY <1>1, <1>2, <1>5

LEMMA LayeredNothing == ASSUME NEW X PROVE Layered(<<>>, X) = Nothing
  <1>1. DOMAIN Layered(<<>>, X) = {}
    BY DEF Layered
  <1>2. QED
    BY <1>1 DEF Layered, Nothing

-----------------------------------------------------------------------------
(***************************************************************************)
(* The parts of a profile, to any depth.                                   *)
(***************************************************************************)
\* Parts is a function too, and so are the prefixes in it.
IsPrefix(k, parts, d, n, f) ==
    f = [i \in 0..k |-> IF i = 0 \/ d = 0 THEN <<>>
                        ELSE f[i - 1] \o parts[d - 1][doc.profiles[n].include[i]]]

LEMMA PrefixExists ==
    ASSUME NEW parts, NEW d, NEW n, NEW k \in Nat
    PROVE  \E f : IsPrefix(k, parts, d, n, f)
  <1> DEFINE S == {j \in Nat : \E f : IsPrefix(j, parts, d, n, f)}
             Then(f, i) == IF i = 0 \/ d = 0 THEN <<>>
                           ELSE f[i - 1] \o parts[d - 1][doc.profiles[n].include[i]]
  <1>1. 0 \in S
    <2> DEFINE f == [i \in 0..0 |-> <<>>]
    <2>1. IsPrefix(0, parts, d, n, f)
      BY DEF IsPrefix
    <2>2. QED
      BY <2>1
  <1>2. ASSUME NEW j \in Nat, j \in S PROVE j + 1 \in S
    <2>1. PICK f : IsPrefix(j, parts, d, n, f)
      BY <1>2
    <2> HIDE DEF S
    <2> DEFINE g == [i \in 0..(j + 1) |-> IF i = j + 1 THEN Then(f, j + 1) ELSE f[i]]
    <2>2. ASSUME NEW i \in 0..(j + 1) PROVE Then(g, i) = Then(f, i)
      <3>1. CASE i = 0
        BY <3>1
      <3>2. CASE i # 0
        <4>1. i - 1 \in 0..(j + 1) /\ i - 1 # j + 1
          BY <3>2
        <4>2. g[i - 1] = f[i - 1]
          BY <4>1
        <4> HIDE DEF g
        <4>3. QED
          BY <4>2
      <3>3. QED
        BY <3>1, <3>2
    <2>3. ASSUME NEW i \in 0..(j + 1) PROVE g[i] = Then(g, i)
      <3>1. CASE i = j + 1
        <4>1. g[i] = Then(f, i)
          BY <3>1
        <4>2. QED
          BY <2>2, <4>1
      <3>2. CASE i \in 0..j
        <4>1. g[i] = f[i] /\ f[i] = Then(f, i)
          BY <2>1, <3>2 DEF IsPrefix
        <4>2. QED
          BY <2>2, <4>1
      <3>3. i = j + 1 \/ i \in 0..j
        OBVIOUS
      <3> HIDE DEF g, Then
      <3>4. QED
        BY <3>1, <3>2, <3>3
    <2>4. g = [i \in 0..(j + 1) |-> Then(g, i)]
      <3>1. DOMAIN g = 0..(j + 1) /\ g = [i \in 0..(j + 1) |-> g[i]]
        OBVIOUS
      <3> HIDE DEF g, Then
      <3>2. QED
        BY <2>3, <3>1
    <2> HIDE DEF g
    <2>5. IsPrefix(j + 1, parts, d, n, g)
      BY <2>4 DEF IsPrefix
    <2>6. QED
      BY <2>5 DEF S
  <1> HIDE DEF S
  <1>3. Nat \subseteq S
    BY <1>1, <1>2, SetInduction
  <1>4. QED
    BY <1>3 DEF S

PartsStep(parts, d) ==
    [n \in DOMAIN doc.profiles |->
        LET includes == doc.profiles[n].include
            prefix[i \in 0..Len(includes)] ==
                IF i = 0 \/ d = 0 THEN <<>>
                ELSE prefix[i - 1] \o parts[d - 1][includes[i]]
        IN  Append(prefix[Len(includes)], n)]

IsParts(k, parts) == parts = [d \in 0..k |-> PartsStep(parts, d)]

LEMMA PartsStepIs ==
    ASSUME doc \in Docs, NEW parts, NEW d, NEW n \in DOMAIN doc.profiles
    PROVE  \E f : /\ IsPrefix(Len(IncludesOf(n)), parts, d, n, f)
                  /\ PartsStep(parts, d)[n] = Append(f[Len(IncludesOf(n))], n)
  <1>1. Len(IncludesOf(n)) \in Nat
    BY FileLists DEF AllLists, IsList
  <1> DEFINE f == CHOOSE f : IsPrefix(Len(IncludesOf(n)), parts, d, n, f)
  <1>2. IsPrefix(Len(IncludesOf(n)), parts, d, n, f)
    <2>1. \E g : IsPrefix(Len(IncludesOf(n)), parts, d, n, g)
      BY <1>1, PrefixExists
    <2>2. QED
      BY <2>1
  <1>3. PartsStep(parts, d)[n] = Append(f[Len(IncludesOf(n))], n)
    BY DEF PartsStep, IsPrefix, IncludesOf
  <1> HIDE DEF f
  <1>4. QED
    BY <1>2, <1>3

\* What the step before has is all that counts.
LEMMA PartsStepSame ==
    ASSUME NEW p, NEW q, NEW d, d = 0 \/ p[d - 1] = q[d - 1]
    PROVE  PartsStep(p, d) = PartsStep(q, d)
  <1>1. CASE d = 0
    BY <1>1 DEF PartsStep
  <1>2. CASE d # 0 /\ p[d - 1] = q[d - 1]
    BY <1>2 DEF PartsStep
  <1>3. QED
    BY <1>1, <1>2

LEMMA PartsExist ==
    ASSUME NEW k \in Nat
    PROVE  \E parts : IsParts(k, parts)
  <1> DEFINE S == {j \in Nat : \E p : IsParts(j, p)}
  <1>1. 0 \in S
    <2> DEFINE p == [d \in 0..0 |-> PartsStep(<<>>, 0)]
    <2>1. \A d \in 0..0 : PartsStep(p, d) = PartsStep(<<>>, 0)
      BY PartsStepSame
    <2>2. p = [d \in 0..0 |-> PartsStep(p, d)]
      BY <2>1
    <2>3. QED
      BY <2>2 DEF IsParts
  <1>2. ASSUME NEW j \in Nat, j \in S PROVE j + 1 \in S
    <2>1. PICK p : IsParts(j, p)
      BY <1>2
    <2> DEFINE q == [d \in 0..(j + 1) |-> IF d = j + 1 THEN PartsStep(p, j + 1) ELSE p[d]]
    <2>2. ASSUME NEW d \in 0..(j + 1) PROVE PartsStep(q, d) = PartsStep(p, d)
      <3>1. d = 0 \/ q[d - 1] = p[d - 1]
        OBVIOUS
      <3> HIDE DEF q
      <3>2. QED
        BY <3>1, PartsStepSame
    <2>3. ASSUME NEW d \in 0..(j + 1) PROVE q[d] = PartsStep(q, d)
      <3>1. CASE d = j + 1
        BY <2>2, <3>1
      <3>2. CASE d \in 0..j
        BY <2>1, <2>2, <3>2 DEF IsParts
      <3>3. QED
        BY <3>1, <3>2
    <2>4. q = [d \in 0..(j + 1) |-> PartsStep(q, d)]
      <3>1. DOMAIN q = 0..(j + 1) /\ q = [d \in 0..(j + 1) |-> q[d]]
        OBVIOUS
      <3> HIDE DEF q
      <3>2. QED
        BY <2>3, <3>1
    <2> HIDE DEF q
    <2>5. QED
      BY <2>4 DEF IsParts
  <1> HIDE DEF S
  <1>3. Nat \subseteq S
    BY <1>1, <1>2, SetInduction
  <1>4. QED
    BY <1>3 DEF S

LEMMA PartsAre ==
    ASSUME doc \in Docs
    PROVE  \A d \in 0..Len(doc.order) : Parts[d] = PartsStep(Parts, d)
  <1>1. Len(doc.order) \in Nat
    BY DocAssumption DEF IsList
  <1>2. \E p : IsParts(Len(doc.order), p)
    BY <1>1, PartsExist
  <1>3. IsParts(Len(doc.order), Parts)
    BY <1>2 DEF IsParts, PartsStep, Parts
  <1>4. QED
    BY <1>3 DEF IsParts

-----------------------------------------------------------------------------
(***************************************************************************)
(* What is resolved is what the parts say.                                 *)
(***************************************************************************)
\* What the parts q of n say together.
Settings == [m \in DOMAIN doc.profiles |-> doc.profiles[m].settings]
Secrets  == [m \in DOMAIN doc.profiles |->
                OwnSecrets(doc.profiles[m], Account(doc.account, doc.profiles[m].account))]

DeclaredBy(q, n) ==
    [account  |-> Account(doc.account, doc.profiles[n].account),
     settings |-> Layered(q, Settings), secrets |-> Layered(q, Secrets)]

LEMMA RecordsMerge ==
    ASSUME NEW acc, NEW s, NEW c, NEW sofar, sofar = [account |-> acc, settings |-> s, secrets |-> c]
    PROVE  /\ \A included : Including(sofar, included) =
                 [account |-> acc, settings |-> Over(included.settings, s), secrets |-> Over(included.secrets, c)]
           /\ \A profile : Own(sofar, profile) =
                 [account |-> acc, settings |-> Over(profile.settings, s),
                  secrets |-> Over(OwnSecrets(profile, acc), c)]
  <1>1. sofar.account = acc /\ sofar.settings = s /\ sofar.secrets = c
    OBVIOUS
  <1>2. ASSUME NEW t, NEW d
        PROVE  /\ [sofar EXCEPT !.secrets = d, !.settings = t] = [account |-> acc, settings |-> t, secrets |-> d]
               /\ [sofar EXCEPT !.settings = t, !.secrets = d] = [account |-> acc, settings |-> t, secrets |-> d]
    <2>1. [sofar EXCEPT !.secrets = d, !.settings = t] = [account |-> acc, settings |-> t, secrets |-> d]
      <3>1. PICK r : r = [sofar EXCEPT !.secrets = d]
        OBVIOUS
      <3>2. r = [account |-> acc, settings |-> s, secrets |-> d]
        BY <3>1
      <3>3. [sofar EXCEPT !.secrets = d, !.settings = t] = [r EXCEPT !.settings = t]
        BY <3>1
      <3>4. [r EXCEPT !.settings = t] = [account |-> acc, settings |-> t, secrets |-> d]
        BY <3>2
      <3>5. QED
        BY <3>3, <3>4
    <2>2. [sofar EXCEPT !.settings = t, !.secrets = d] = [account |-> acc, settings |-> t, secrets |-> d]
      <3>1. PICK r : r = [sofar EXCEPT !.settings = t]
        OBVIOUS
      <3>2. r = [account |-> acc, settings |-> t, secrets |-> c]
        BY <3>1
      <3>3. [sofar EXCEPT !.settings = t, !.secrets = d] = [r EXCEPT !.secrets = d]
        BY <3>1
      <3>4. [r EXCEPT !.secrets = d] = [account |-> acc, settings |-> t, secrets |-> d]
        BY <3>2
      <3>5. QED
        BY <3>3, <3>4
    <2>3. QED
      BY <2>1, <2>2
  <1>3. ASSUME NEW included
        PROVE  Including(sofar, included) =
                 [account |-> acc, settings |-> Over(included.settings, s), secrets |-> Over(included.secrets, c)]
    BY <1>2 DEF Including
  <1>4. ASSUME NEW profile
        PROVE  Own(sofar, profile) =
                 [account |-> acc, settings |-> Over(profile.settings, s),
                  secrets |-> Over(OwnSecrets(profile, acc), c)]
    BY <1>2 DEF Own
  <1>5. QED
    BY <1>3, <1>4

LEMMA DeclaredByNone == ASSUME NEW n PROVE Base(n) = DeclaredBy(<<>>, n)
  BY LayeredNothing DEF Base, DeclaredBy

LEMMA DeclaredByIncluded ==
    ASSUME NEW p, IsList(p), NEW q, IsList(q), NEW n, NEW x
    PROVE  Including(DeclaredBy(p, n), DeclaredBy(q, x)) = DeclaredBy(p \o q, n)
  <1>1. /\ Layered(p \o q, Settings) = Over(Layered(q, Settings), Layered(p, Settings))
        /\ Layered(p \o q, Secrets) = Over(Layered(q, Secrets), Layered(p, Secrets))
    BY LayeredConcat
  <1> DEFINE acc == Account(doc.account, doc.profiles[n].account)
             a == Layered(p, Settings)
             b == Layered(p, Secrets)
  <1>2. DeclaredBy(p, n) = [account |-> acc, settings |-> a, secrets |-> b]
    BY DEF DeclaredBy
  <1>3. /\ DeclaredBy(q, x).settings = Layered(q, Settings)
        /\ DeclaredBy(q, x).secrets = Layered(q, Secrets)
    BY DEF DeclaredBy
  <1>4. DeclaredBy(p \o q, n) = [account |-> acc, settings |-> Over(Layered(q, Settings), a),
                                 secrets |-> Over(Layered(q, Secrets), b)]
    BY <1>1 DEF DeclaredBy
  <1> HIDE DEF acc, a, b
  <1>5. Including(DeclaredBy(p, n), DeclaredBy(q, x)) =
           [account |-> acc, settings |-> Over(DeclaredBy(q, x).settings, a),
            secrets |-> Over(DeclaredBy(q, x).secrets, b)]
    BY <1>2, RecordsMerge
  <1>6. QED
    BY <1>3, <1>4, <1>5

LEMMA DeclaredByItself ==
    ASSUME NEW p, IsList(p), NEW n \in DOMAIN doc.profiles
    PROVE  Own(DeclaredBy(p, n), doc.profiles[n]) = DeclaredBy(Append(p, n), n)
  <1>1. /\ Layered(Append(p, n), Settings) = Over(Settings[n], Layered(p, Settings))
        /\ Layered(Append(p, n), Secrets) = Over(Secrets[n], Layered(p, Secrets))
    BY LayeredAppend
  <1>2. /\ Settings[n] = doc.profiles[n].settings
        /\ Secrets[n] = OwnSecrets(doc.profiles[n], Account(doc.account, doc.profiles[n].account))
    BY DEF Settings, Secrets
  <1> DEFINE acc == Account(doc.account, doc.profiles[n].account)
             a == Layered(p, Settings)
             b == Layered(p, Secrets)
             profile == doc.profiles[n]
  <1>3. DeclaredBy(p, n) = [account |-> acc, settings |-> a, secrets |-> b]
    BY DEF DeclaredBy
  <1>4. DeclaredBy(Append(p, n), n) = [account |-> acc, settings |-> Over(profile.settings, a),
                                       secrets |-> Over(OwnSecrets(profile, acc), b)]
    BY <1>1, <1>2 DEF DeclaredBy
  <1> HIDE DEF acc, a, b, profile
  <1>5. Own(DeclaredBy(p, n), profile) =
           [account |-> acc, settings |-> Over(profile.settings, a),
            secrets |-> Over(OwnSecrets(profile, acc), b)]
    BY <1>3, RecordsMerge
  <1>6. QED
    BY <1>4, <1>5 DEF profile

\* The parts of what is resolved are resolved.
LEMMA PrefixListed ==
    ASSUME doc \in Docs, NEW M, NEW n, IsList(IncludesOf(n)), Includes(n) \subseteq M, NEW d,
           d = 0 \/ \A x \in M : Parts[d - 1][x] \in Seq(M),
           NEW f, IsPrefix(Len(IncludesOf(n)), Parts, d, n, f)
    PROVE  \A i \in 0..Len(IncludesOf(n)) : f[i] \in Seq(M)
  <1> DEFINE L == Len(IncludesOf(n))
             S == {i \in Nat : i <= L => f[i] \in Seq(M)}
  <1>1. L \in Nat /\ \A i \in 1..L : IncludesOf(n)[i] \in M
    <2>1. L \in Nat /\ DOMAIN IncludesOf(n) = 1..L
      BY DEF IsList
    <2>2. \A i \in DOMAIN IncludesOf(n) : IncludesOf(n)[i] \in Includes(n)
      BY DEF Includes, IncludesOf
    <2>3. QED
      BY <2>1, <2>2
  <1>2. \A i \in 0..L : f[i] = IF i = 0 \/ d = 0 THEN <<>> ELSE f[i - 1] \o Parts[d - 1][IncludesOf(n)[i]]
    BY DEF IsPrefix, IncludesOf
  <1> HIDE DEF L
  <1>3. 0 \in S
    <2>1. f[0] = <<>>
      BY <1>1, <1>2
    <2>2. f[0] \in Seq(M)
      BY <2>1
    <2> HIDE DEF L
    <2>3. QED
      BY <2>2
  <1>4. ASSUME NEW i \in Nat, i \in S PROVE i + 1 \in S
    <2> SUFFICES ASSUME i + 1 <= L PROVE f[i + 1] \in Seq(M)
      OBVIOUS
    <2>1. i + 1 \in 1..L /\ (i + 1) - 1 = i /\ i <= L /\ i + 1 # 0
      BY <1>1
    <2>2. f[i] \in Seq(M)
      BY <1>4, <2>1
    <2>3. f[i + 1] = IF d = 0 THEN <<>> ELSE f[i] \o Parts[d - 1][IncludesOf(n)[i + 1]]
      BY <1>2, <2>1
    <2>4. QED
      BY <1>1, <2>1, <2>2, <2>3
  <1> HIDE DEF S
  <1>5. Nat \subseteq S
    BY <1>3, <1>4, SetInduction
  <1>6. QED
    BY <1>1, <1>5 DEF S, L

LEMMA PartsListed ==
    ASSUME doc \in Docs, NEW m, Resolved(m), NEW d \in 0..Len(doc.order)
    PROVE  \A x \in DOMAIN m : Parts[d][x] \in Seq(DOMAIN m)
  <1> DEFINE D == Len(doc.order)
             S == {k \in Nat : k <= D => \A x \in DOMAIN m : Parts[k][x] \in Seq(DOMAIN m)}
  <1>1. D \in Nat
    BY DocAssumption DEF IsList
  <1>2. \A x \in DOMAIN m : /\ x \in DOMAIN doc.profiles /\ Includes(x) \subseteq DOMAIN m
                            /\ IsList(IncludesOf(x))
    BY FileLists, ResolvedIncludes DEF Resolved, Solved, AllLists
  <1>3. ASSUME NEW k \in 0..D, k = 0 \/ \A x \in DOMAIN m : Parts[k - 1][x] \in Seq(DOMAIN m),
               NEW x \in DOMAIN m
        PROVE  Parts[k][x] \in Seq(DOMAIN m)
    <2>1. PICK f : /\ IsPrefix(Len(IncludesOf(x)), Parts, k, x, f)
                   /\ PartsStep(Parts, k)[x] = Append(f[Len(IncludesOf(x))], x)
      BY <1>2, PartsStepIs
    <2>2. Len(IncludesOf(x)) \in Nat
      BY <1>2 DEF IsList
    <2>3. f[Len(IncludesOf(x))] \in Seq(DOMAIN m)
      <3>1. /\ IsList(IncludesOf(x)) /\ Includes(x) \subseteq DOMAIN m
            /\ k = 0 \/ \A y \in DOMAIN m : Parts[k - 1][y] \in Seq(DOMAIN m)
            /\ IsPrefix(Len(IncludesOf(x)), Parts, k, x, f)
        BY <1>2, <1>3, <2>1
      <3>2. \A i \in 0..Len(IncludesOf(x)) : f[i] \in Seq(DOMAIN m)
        BY <3>1, PrefixListed
      <3>3. QED
        BY <2>2, <3>2
    <2>4. Parts[k][x] = Append(f[Len(IncludesOf(x))], x)
      BY <2>1, PartsAre
    <2>5. QED
      BY <2>3, <2>4
  <1> HIDE DEF D
  <1>4. 0 \in S
    BY <1>1, <1>3
  <1>5. ASSUME NEW k \in Nat, k \in S PROVE k + 1 \in S
    <2> SUFFICES ASSUME k + 1 <= D, NEW x \in DOMAIN m PROVE Parts[k + 1][x] \in Seq(DOMAIN m)
      OBVIOUS
    <2>1. k + 1 \in 0..D /\ k <= D /\ (k + 1) - 1 = k
      BY <1>1
    <2>2. \A y \in DOMAIN m : Parts[k][y] \in Seq(DOMAIN m)
      BY <1>5, <2>1
    <2>3. QED
      BY <1>3, <2>1, <2>2
  <1> HIDE DEF S
  <1>6. Nat \subseteq S
    BY <1>4, <1>5, SetInduction
  <1>7. QED
    BY <1>1, <1>6 DEF S, D

LEMMA OrderIs ==
    ASSUME doc \in Docs
    PROVE  Len(doc.order) \in Nat /\ doc.order \in Surjection(1..Len(doc.order), DOMAIN doc.profiles)
  <1> DEFINE q == doc.order
  <1>1. q \in Seq({q[i] : i \in DOMAIN q}) /\ DOMAIN doc.profiles = {q[i] : i \in DOMAIN q}
    BY DocAssumption DEF IsList
  <1> HIDE DEF q
  <1>2. Len(q) \in Nat /\ DOMAIN q = 1..Len(q) /\ q \in [1..Len(q) -> DOMAIN doc.profiles]
    BY <1>1
  <1>3. q \in Surjection(1..Len(q), DOMAIN doc.profiles)
    BY <1>1, <1>2 DEF Surjection
  <1>4. QED
    BY <1>2, <1>3 DEF q

\* What is resolved is of the file, and so is what it includes.
LEMMA ResolvedIsOfFile ==
    ASSUME doc \in Docs, NEW m, Resolved(m), NEW n \in DOMAIN m
    PROVE  /\ n \in DOMAIN doc.profiles /\ Includes(n) \subseteq DOMAIN m
           /\ IsList(IncludesOf(n)) /\ Len(IncludesOf(n)) \in Nat
  <1>1. n \in DOMAIN doc.profiles /\ Solved(m, n)
    BY DEF Resolved, Solved
  <1>2. IsList(IncludesOf(n))
    BY <1>1, FileLists DEF AllLists
  <1>3. Includes(n) \subseteq DOMAIN m
    BY <1>1, <1>2, ResolvedIncludes
  <1>4. QED
    BY <1>1, <1>2, <1>3 DEF IsList

\* The loop over the includes gathers what their parts say.
LEMMA PrefixDeclared ==
    ASSUME doc \in Docs, NEW m, Resolved(m), NEW n \in DOMAIN m, NEW d \in 1..Len(doc.order),
           \A x \in Includes(n) : m[x] = DeclaredBy(Parts[d - 1][x], x),
           NEW g, Builds(m, n, Len(IncludesOf(n)), g),
           NEW f, IsPrefix(Len(IncludesOf(n)), Parts, d, n, f)
    PROVE  \A i \in 0..Len(IncludesOf(n)) : g[i] = DeclaredBy(f[i], n)
  <1> DEFINE L == Len(IncludesOf(n))
             S == {i \in Nat : i <= L => g[i] = DeclaredBy(f[i], n)}
             M == DOMAIN m
             After(i) == f[i - 1] \o Parts[d - 1][IncludesOf(n)[i]]
  <1>1. n \in DOMAIN doc.profiles /\ IsList(IncludesOf(n)) /\ Includes(n) \subseteq M /\ Len(doc.order) \in Nat
    BY ResolvedIsOfFile, OrderIs
  <1>2. L \in Nat /\ \A i \in 1..L : IncludesOf(n)[i] \in Includes(n)
    BY <1>1 DEF IsList, Includes, IncludesOf
  <1>3. \A x \in M : Parts[d - 1][x] \in Seq(M)
    <2>1. d - 1 \in 0..Len(doc.order)
      BY <1>1
    <2>2. QED
      BY <2>1, PartsListed
  <1>4. \A i \in 0..L : f[i] \in Seq(M)
    BY <1>1, <1>3, PrefixListed
  <1>5. /\ g[0] = Base(n)
        /\ \A i \in 1..L : g[i] = Including(g[i - 1], m[IncludesOf(n)[i]])
    BY DEF Builds
  <1>6. /\ f[0] = <<>>
        /\ \A i \in 1..L : f[i] = After(i)
    <2>1. \A i \in 0..L : f[i] = IF i = 0 \/ d = 0 THEN <<>> ELSE f[i - 1] \o Parts[d - 1][IncludesOf(n)[i]]
      BY DEF IsPrefix, IncludesOf
    <2> HIDE DEF L
    <2>2. f[0] = <<>>
      BY <1>2, <2>1
    <2>3. ASSUME NEW i \in 1..L PROVE f[i] = After(i)
      <3>1. i \in 0..L /\ i # 0 /\ d # 0
        BY <1>2
      <3>2. QED
        BY <2>1, <3>1
    <2>4. QED
      BY <2>2, <2>3
  <1> HIDE DEF L, M, After
  <1>7. 0 \in S
    <2>1. f[0] = <<>>
      BY <1>2, <1>6
    <2>2. g[0] = DeclaredBy(f[0], n)
      BY <1>5, <2>1, DeclaredByNone
    <2>3. QED
      BY <2>2
  <1>8. ASSUME NEW i \in Nat, i \in S PROVE i + 1 \in S
    <2> SUFFICES ASSUME i + 1 <= L PROVE g[i + 1] = DeclaredBy(f[i + 1], n)
      OBVIOUS
    <2> DEFINE x == IncludesOf(n)[i + 1]
    <2>1. i + 1 \in 1..L /\ i + 1 \in 0..L /\ (i + 1) - 1 = i /\ i \in 0..L /\ i + 1 # 0
      BY <1>2
    <2>2. g[i] = DeclaredBy(f[i], n)
      BY <1>8, <2>1
    <2>3. x \in Includes(n) /\ x \in M
      BY <1>1, <1>2, <2>1
    <2>4. g[i + 1] = Including(g[i], m[x]) /\ f[i + 1] = f[i] \o Parts[d - 1][x]
      <3>1. g[i + 1] = Including(g[(i + 1) - 1], m[x])
        BY <1>5, <2>1
      <3>2. f[i + 1] = After(i + 1)
        BY <1>6, <2>1
      <3>3. After(i + 1) = f[i] \o Parts[d - 1][x]
        BY <2>1 DEF After
      <3>4. QED
        BY <2>1, <3>1, <3>2, <3>3
    <2>5. m[x] = DeclaredBy(Parts[d - 1][x], x)
      BY <2>3
    <2>6. IsList(f[i]) /\ IsList(Parts[d - 1][x])
      BY <1>3, <1>4, <2>1, <2>3, SeqIsList
    <2> HIDE DEF x
    <2>7. Including(DeclaredBy(f[i], n), DeclaredBy(Parts[d - 1][x], x)) = DeclaredBy(f[i] \o Parts[d - 1][x], n)
      BY <2>6, DeclaredByIncluded
    <2>8. QED
      BY <2>2, <2>4, <2>5, <2>7
  <1> HIDE DEF S
  <1>9. Nat \subseteq S
    BY <1>7, <1>8, SetInduction
  <1>10. QED
    BY <1>2, <1>9 DEF S, L

LEMMA OneMoreDeclared ==
    ASSUME doc \in Docs, NEW m, Resolved(m), NEW n \in DOMAIN m, NEW d \in 1..Len(doc.order),
           \A x \in Includes(n) : m[x] = DeclaredBy(Parts[d - 1][x], x)
    PROVE  m[n] = DeclaredBy(Parts[d][n], n)
  <1> DEFINE L == Len(IncludesOf(n))
  <1>1. PICK sofar : BuiltTo(m, n, L, sofar) /\ m[n] = Own(sofar, doc.profiles[n])
    BY DEF Resolved, Solved
  <1>2. PICK g : Builds(m, n, L, g) /\ g[L] = sofar
    BY <1>1 DEF BuiltTo
  <1>3. /\ n \in DOMAIN doc.profiles /\ IsList(IncludesOf(n)) /\ Includes(n) \subseteq DOMAIN m
        /\ L \in Nat /\ Len(doc.order) \in Nat
    BY ResolvedIsOfFile, OrderIs
  <1>4. PICK f : IsPrefix(L, Parts, d, n, f) /\ PartsStep(Parts, d)[n] = Append(f[L], n)
    BY <1>3, PartsStepIs
  <1>5. Parts[d][n] = Append(f[L], n)
    BY <1>3, <1>4, PartsAre
  <1>6. g[L] = DeclaredBy(f[L], n)
    <2>1. \A i \in 0..L : g[i] = DeclaredBy(f[i], n)
      BY <1>2, <1>4, PrefixDeclared
    <2>2. QED
      BY <1>3, <2>1
  <1>7. f[L] \in Seq(DOMAIN m)
    <2>1. d - 1 \in 0..Len(doc.order)
      BY <1>3
    <2>2. \A x \in DOMAIN m : Parts[d - 1][x] \in Seq(DOMAIN m)
      BY <2>1, PartsListed
    <2>3. \A i \in 0..L : f[i] \in Seq(DOMAIN m)
      BY <1>3, <1>4, <2>2, PrefixListed
    <2>4. QED
      BY <1>3, <2>3
  <1> HIDE DEF L
  <1>8. IsList(f[L])
    BY <1>7, SeqIsList
  <1>9. QED
    BY <1>1, <1>2, <1>3, <1>5, <1>6, <1>8, DeclaredByItself

\* As deep as the file has profiles, everything that is resolved is what it says: at
\* every depth there is one more of which that is true, as long as there are any left.
LEMMA AllDeclared ==
    ASSUME doc \in Docs, NEW m, Resolved(m), NEW n \in DOMAIN m
    PROVE  m[n] = DeclaredBy(Parts[Len(doc.order)][n], n)
  <1> DEFINE D == Len(doc.order)
             M == DOMAIN m
             Right(k) == {x \in M : \A d \in k..D : m[x] = DeclaredBy(Parts[d][x], x)}
             Many(k) == Cardinality(Right(k)) >= k \/ Right(k) = M
             S == {k \in Nat : k <= D => Many(k)}
  <1>1. D \in Nat
    BY OrderIs
  <1>2. IsFiniteSet(M) /\ Cardinality(M) \in Nat /\ Cardinality(M) <= D
    <2> DEFINE P == DOMAIN doc.profiles
    <2>1. IsFiniteSet(1..D) /\ Cardinality(1..D) = D
      BY <1>1, FS_Interval
    <2>2. doc.order \in Surjection(1..D, P)
      BY OrderIs
    <2>3. IsFiniteSet(P) /\ Cardinality(P) <= D
      BY <2>1, <2>2, FS_Surjection
    <2>4. M \subseteq P
      BY DEF Resolved, Solved
    <2>5. QED
      BY <1>1, <2>3, <2>4, FS_Subset, FS_CardinalityType
  <1>3. \A x \in M : Includes(x) \subseteq M
    BY ResolvedIsOfFile
  <1> HIDE DEF M, D
  <1>4. \A k \in Nat : /\ IsFiniteSet(Right(k)) /\ Right(k) \subseteq M
                       /\ Cardinality(Right(k)) \in Nat /\ Cardinality(Right(k)) <= Cardinality(M)
                       /\ Cardinality(Right(k)) = Cardinality(M) => Right(k) = M
    BY <1>2, FS_Subset, FS_CardinalityType
  <1>5. 0 \in S
    <2> HIDE DEF Right
    <2>1. Cardinality(Right(0)) >= 0
      BY <1>4
    <2>2. QED
      BY <2>1
  <1>6. ASSUME NEW k \in Nat, k \in S PROVE k + 1 \in S
    <2> SUFFICES ASSUME k + 1 <= D, Right(k + 1) # M PROVE Cardinality(Right(k + 1)) >= k + 1
      <3> HIDE DEF Right
      <3>1. QED
        OBVIOUS
    <2>1. Right(k) \subseteq Right(k + 1)
      OBVIOUS
    <2>2. Right(k) # M
      BY <1>4, <2>1
    <2>3. PICK x \in M \ Right(k) : Includes(x) \cap (M \ Right(k)) = {}
      <3>1. M \ Right(k) \in SUBSET M /\ M \ Right(k) # {}
        BY <1>4, <2>2
      <3>2. QED
        BY <3>1 DEF Resolved, Acyclic, M
    <2>4. x \in Right(k + 1)
      <3> SUFFICES ASSUME NEW d \in (k + 1)..D PROVE m[x] = DeclaredBy(Parts[d][x], x)
        BY <2>3
      <3>1. d \in 1..D /\ d - 1 \in k..D
        BY <1>1
      <3>2. \A y \in Includes(x) : m[y] = DeclaredBy(Parts[d - 1][y], y)
        BY <1>3, <2>3, <3>1
      <3>3. QED
        BY <2>3, <3>1, <3>2, OneMoreDeclared DEF D, M
    <2> HIDE DEF Right
    <2>5. Cardinality(Right(k)) < Cardinality(Right(k + 1))
      <3>1. Right(k) # Right(k + 1)
        BY <2>3, <2>4
      <3>2. QED
        BY <1>4, <2>1, <3>1, FS_Subset
    <2>6. Cardinality(Right(k)) >= k
      <3>1. k <= D
        BY <1>1
      <3>2. QED
        BY <1>6, <2>2, <3>1
    <2>7. QED
      BY <1>4, <2>5, <2>6
  <1> HIDE DEF S
  <1>7. Nat \subseteq S
    BY <1>5, <1>6, SetInduction
  <1>8. Cardinality(Right(D)) >= D \/ Right(D) = M
    BY <1>1, <1>7 DEF S
  <1>9. Right(D) = M
    <2> HIDE DEF Right
    <2>1. CASE Cardinality(Right(D)) >= D
      <3>1. Cardinality(Right(D)) = Cardinality(M)
        BY <1>1, <1>2, <1>4, <2>1
      <3>2. QED
        BY <1>1, <1>4, <3>1
    <2>2. QED
      BY <1>8, <2>1
  <1>10. QED
    BY <1>1, <1>9 DEF M, D

LEMMA LastIsThere ==
    ASSUME NEW q, IsList(q), NEW X, NEW s \in UNION {DOMAIN X[q[i]] : i \in DOMAIN q}
    PROVE  (CHOOSE i \in Where(q, X, s) : \A j \in Where(q, X, s) : j <= i) \in DOMAIN q
  <1> DEFINE I == Where(q, X, s)
  <1>1. s \in DOMAIN Layered(q, X)
    BY DEF Layered
  <1>2. PICK i : i \in I /\ \A j \in I : j <= i
    BY <1>1, LastExists DEF IsLast
  <1>3. I \subseteq DOMAIN q
    BY DEF Where
  <1> HIDE DEF I
  <1>4. (CHOOSE k \in I : \A j \in I : j <= k) \in I
    BY <1>2
  <1>5. QED
    BY <1>3, <1>4 DEF I

\* What the file declares is what its parts say together.
LEMMA DeclaredIs ==
    ASSUME NEW n, NEW M, M \subseteq DOMAIN doc.profiles,
           Parts[Len(doc.order)][n] \in Seq(M)
    PROVE  Declared(n) = DeclaredBy(Parts[Len(doc.order)][n], n)
  <1> DEFINE q == Parts[Len(doc.order)][n]
             all == {q[i] : i \in DOMAIN q}
  <1>1. \A i \in DOMAIN q : q[i] \in DOMAIN doc.profiles
    <2>1. q \in Seq(M)
      OBVIOUS
    <2> HIDE DEF q
    <2>2. QED
      BY <2>1
  <1>2. IsList(q)
    BY SeqIsList
  <1> HIDE DEF q
  <1>3. [s \in UNION {DOMAIN doc.profiles[m].settings : m \in all} |-> DeclaredSetting(q, s)]
           = Layered(q, Settings)
    <2>1. \A i \in DOMAIN q : Settings[q[i]] = doc.profiles[q[i]].settings
      BY <1>1 DEF Settings
    <2>2. UNION {DOMAIN doc.profiles[m].settings : m \in all} = UNION {DOMAIN Settings[q[i]] : i \in DOMAIN q}
      BY <2>1
    <2>3. ASSUME NEW s \in UNION {DOMAIN Settings[q[i]] : i \in DOMAIN q}
          PROVE  DeclaredSetting(q, s) = Layered(q, Settings)[s]
      <3> DEFINE I == Where(q, Settings, s)
                 c == CHOOSE i \in I : \A j \in I : j <= i
      <3>1. I = {i \in DOMAIN q : s \in DOMAIN doc.profiles[q[i]].settings}
        BY <2>1 DEF Where
      <3>2. DeclaredSetting(q, s) = doc.profiles[q[c]].settings[s]
        BY <3>1 DEF DeclaredSetting, LastThat
      <3>3. Layered(q, Settings)[s] = Settings[q[c]][s]
        BY <2>3 DEF Layered
      <3>4. c \in DOMAIN q
        BY <1>2, <2>3, LastIsThere
      <3> HIDE DEF c
      <3>5. QED
        BY <2>1, <3>2, <3>3, <3>4
    <2>4. QED
      BY <2>2, <2>3 DEF Layered
  <1>4. [a \in UNION {DOMAIN doc.profiles[m].secrets : m \in all} |-> DeclaredSecret(q, a)]
           = Layered(q, Secrets)
    <2> DEFINE own(m) == OwnSecrets(doc.profiles[m], Account(doc.account, doc.profiles[m].account))
    <2>1. \A i \in DOMAIN q : Secrets[q[i]] = own(q[i]) /\ DOMAIN Secrets[q[i]] = DOMAIN doc.profiles[q[i]].secrets
      BY <1>1 DEF Secrets, OwnSecrets
    <2> HIDE DEF own
    <2>2. UNION {DOMAIN doc.profiles[m].secrets : m \in all} = UNION {DOMAIN Secrets[q[i]] : i \in DOMAIN q}
      BY <2>1
    <2>3. ASSUME NEW a \in UNION {DOMAIN Secrets[q[i]] : i \in DOMAIN q}
          PROVE  DeclaredSecret(q, a) = Layered(q, Secrets)[a]
      <3> DEFINE I == Where(q, Secrets, a)
                 c == CHOOSE i \in I : \A j \in I : j <= i
      <3>1. I = {i \in DOMAIN q : a \in DOMAIN doc.profiles[q[i]].secrets}
        BY <2>1 DEF Where
      <3>2. DeclaredSecret(q, a) = own(q[c])[a]
        BY <3>1 DEF DeclaredSecret, LastThat, own
      <3>3. Layered(q, Secrets)[a] = Secrets[q[c]][a]
        BY <2>3 DEF Layered
      <3>4. c \in DOMAIN q
        BY <1>2, <2>3, LastIsThere
      <3> HIDE DEF c
      <3>5. QED
        BY <2>1, <3>2, <3>3, <3>4
    <2>4. QED
      BY <2>2, <2>3 DEF Layered
  <1>5. QED
    BY <1>3, <1>4 DEF Declared, DeclaredBy, q

LEMMA ResolvedIsDeclared == ConfigInv => ResolvedAsDeclared
  <1> SUFFICES ASSUME ConfigInv, NEW n \in DOMAIN result PROVE result[n] = Declared(n)
    BY DEF ResolvedAsDeclared
  <1>1. n \in DOMAIN memo /\ result[n] = memo[n] /\ doc \in Docs /\ Resolved(memo)
    BY DEF ConfigInv, Given
  <1>2. memo[n] = DeclaredBy(Parts[Len(doc.order)][n], n)
    BY <1>1, AllDeclared
  <1>3. Parts[Len(doc.order)][n] \in Seq(DOMAIN memo)
    <2>1. Len(doc.order) \in 0..Len(doc.order)
      BY <1>1, OrderIs
    <2>2. QED
      BY <1>1, <2>1, PartsListed
  <1>4. DOMAIN memo \subseteq DOMAIN doc.profiles
    BY <1>1, ResolvedIsOfFile
  <1>5. QED
    BY <1>1, <1>2, <1>3, <1>4, DeclaredIs

-----------------------------------------------------------------------------
\* The steps of a request that leave the resolver alone, or forget what it found.
LEMMA ConfigStays ==
    ASSUME ConfigInv, UNCHANGED <<stage, doc, stack, memo, result>>
    PROVE  ConfigInv'
  <1>1. (Resolved(memo) /\ Stacked(memo, stack) /\ Given(memo, result))'
    BY SameFile DEF ConfigInv
  <1>2. QED
    BY <1>1 DEF ConfigInv

LEMMA ConfigForgotten ==
    ASSUME Forget
    PROVE  ConfigInv'
  <1>1. stage' = "find" /\ memo' = Nothing /\ stack' = <<>> /\ result' = Nothing /\ DOMAIN Nothing = {}
    BY DEF Forget, Nothing
  <1>2. (Resolved(memo) /\ Stacked(memo, stack) /\ Given(memo, result))'
    BY <1>1, NothingThen
  <1>3. QED
    BY <1>1, <1>2 DEF ConfigInv

LEMMA ConfigStarts == ConfigIdle => ConfigInv
  <1> SUFFICES ASSUME ConfigIdle PROVE ConfigInv
    OBVIOUS
  <1>1. stage = "find" /\ memo = Nothing /\ stack = <<>> /\ result = Nothing /\ DOMAIN Nothing = {}
    BY DEF ConfigIdle, Nothing
  <1>2. Resolved(memo) /\ Stacked(memo, stack) /\ Given(memo, result)
    BY <1>1, NothingYet
  <1>3. QED
    BY <1>1, <1>2 DEF ConfigInv

LEMMA RequestKeepsConfig == OptsInv /\ ConfigInv /\ RequestNext => ConfigInv'
  <1> SUFFICES ASSUME OptsInv, ConfigInv, RequestNext PROVE ConfigInv'
    OBVIOUS
  <1>1. CASE Loading
    BY <1>1, ConfigKept DEF Loading
  <1>2. CASE Loaded \/ NotLoaded
    BY <1>2, ConfigForgotten DEF Loaded, NotLoaded
  <1>3. CASE BindFlags \/ LoadEnvFails \/ ReadReason \/ Assemble \/ ResolveSources \/ BuildExec
             \/ BuildSessionCreate \/ BuildItem \/ BuildResolve \/ FileChanges \/ DaemonValidates
             \/ LoadInputs \/ ReadConfig
    <2>1. UNCHANGED <<stage, doc, stack, memo, result>>
      BY <1>3 DEF BindFlags, LoadEnvFails, ReadReason, Assemble, ResolveSources, BuildExec,
         BuildSessionCreate, BuildItem, BuildResolve, FileChanges, DaemonValidates, LoadInputs,
         ReadConfig, configVars
    <2>2. QED
      BY <2>1, ConfigStays
  <1>4. QED
    BY <1>1, <1>2, <1>3 DEF RequestNext

-----------------------------------------------------------------------------
(***************************************************************************)
(* The request: what the parser has gathered, function by function.        *)
(***************************************************************************)
\* A sequence of secrets to ask for.
Gathered(q) == q \in Seq({q[i] : i \in DOMAIN q}) /\ \A i \in DOMAIN q : IsSpec(q[i])

\* ValidateForDaemon, by the kind of the request.
DaemonFits ==
    CASE command = "exec"           -> ExecFits(req)
      [] command = "session create" -> SessionFits(req)
      [] command = "with-session"   -> ResolveFits(req)
      [] command = "item describe"  -> ItemFits(req)

\* Only exec and session create get to --only and beyond.
CommandInv ==
    /\ command \in {"exec", "session create", "with-session", "item describe", "profile"}
    /\ step = "item" => command = "item describe"
    /\ step = "sent" => command # "profile"
    /\ step \in {"flags", "files", "load", "reason", "only", "item", "shown"} => only = {}
    /\ ~conf.loaded => DOMAIN conf.secrets = {}

\* What is gathered is what --only names, and what --secret adds to it.
GatheredInv ==
    /\ Gathered(given)
    /\ step \in {"sources", "build"} /\ only # {} =>
          Gathered(secrets) /\ AliasesOf(secrets) = only \cup AliasesOf(given)

\* What is sent fits, and has room in the child's environment.
SentInv ==
    /\ step = "sent" => DaemonFits
    /\ step \in {"sent", "accepted"} /\ command = "exec"
          /\ AliasesOf(req.secrets) \cap DOMAIN env # {} => req.override

BuilderInv == CommandInv /\ GatheredInv /\ SentInv /\ SelectionIsExact

LEMMA GoodReasonTrimmed == \A x : Trimmed(Trimmed(x)) = Trimmed(x)
  BY ReasonAssumption DEF Trimmed

\* slices.Sort gives every element a place.
LEMMA SortedOnto ==
    ASSUME NEW S, IsFiniteSet(S)
    PROVE  /\ Cardinality(S) \in Nat
           /\ Sorted(S) \in [1..Cardinality(S) -> S]
           /\ \A a \in S : \E i \in DOMAIN Sorted(S) : Sorted(S)[i] = a
  <1>1. Cardinality(S) \in Nat /\ ExistsBijection(1..Cardinality(S), S)
    BY FS_CardinalityType
  <1>2. PICK f \in Bijection(1..Cardinality(S), S) : TRUE
    BY <1>1 DEF ExistsBijection
  <1>3. f \in [1..Cardinality(S) -> S] /\ \A a \in S : \E i \in DOMAIN f : f[i] = a
    BY <1>2 DEF Bijection, Surjection
  <1>4. QED
    BY <1>1, <1>3 DEF Sorted

\* What is listed by the sorted aliases of a set has these aliases.
LEMMA InFilesAliases ==
    ASSUME NEW S, IsFiniteSet(S)
    PROVE  Gathered(InFiles(S)) /\ AliasesOf(InFiles(S)) = S
  <1> DEFINE q == Sorted(S)
  <1>1. /\ Cardinality(S) \in Nat /\ q \in [1..Cardinality(S) -> S]
        /\ \A a \in S : \E i \in DOMAIN q : q[i] = a
    BY SortedOnto
  <1> HIDE DEF q
  <1>2. InFiles(S) = [i \in 1..Cardinality(S) |->
            [alias |-> q[i], ref |-> held[q[i]], account |-> None, source |-> None]]
    BY <1>1 DEF InFiles, q
  <1>3. QED
    BY <1>1, <1>2 DEF Gathered, AliasesOf, IsSpec

LEMMA InProfileAliases ==
    ASSUME NEW S, IsFiniteSet(S)
    PROVE  Gathered(InProfile(S)) /\ AliasesOf(InProfile(S)) = S
  <1> DEFINE q == Sorted(S)
  <1>1. /\ Cardinality(S) \in Nat /\ q \in [1..Cardinality(S) -> S]
        /\ \A a \in S : \E i \in DOMAIN q : q[i] = a
    BY SortedOnto
  <1> HIDE DEF q
  <1>2. InProfile(S) = [i \in 1..Cardinality(S) |->
            [alias |-> q[i], ref |-> conf.secrets[q[i]].ref, account |-> conf.secrets[q[i]].account,
             source |-> conf.secrets[q[i]].source]]
    BY <1>1 DEF InProfile, q
  <1> DEFINE t == InProfile(S)
  <1>3. /\ DOMAIN t = 1..Cardinality(S) /\ DOMAIN q = 1..Cardinality(S)
        /\ t = [i \in 1..Cardinality(S) |-> t[i]]
        /\ \A i \in DOMAIN t : IsSpec(t[i]) /\ t[i].alias = q[i]
    BY <1>1, <1>2 DEF IsSpec
  <1> HIDE DEF t
  <1>4. t \in Seq({t[i] : i \in DOMAIN t})
    BY <1>1, <1>3
  <1>5. AliasesOf(t) = S
    BY <1>1, <1>3 DEF AliasesOf
  <1>6. QED
    BY <1>3, <1>4, <1>5 DEF Gathered, t

\* Putting two of them together, and filling in accounts, keeps the aliases.
LEMMA ConcatAliases ==
    ASSUME NEW p, NEW q, Gathered(p), Gathered(q)
    PROVE  Gathered(p \o q) /\ AliasesOf(p \o q) = AliasesOf(p) \cup AliasesOf(q)
  <1> DEFINE S == {p[i] : i \in DOMAIN p} \cup {q[i] : i \in DOMAIN q}
             t == p \o q
  <1>1. p \in Seq(S) /\ q \in Seq(S)
    BY DEF Gathered
  <1>2. /\ t \in Seq(S) /\ Len(t) = Len(p) + Len(q) /\ Len(p) \in Nat /\ Len(q) \in Nat
        /\ \A i \in 1..Len(p) : t[i] = p[i]
        /\ \A i \in 1..Len(q) : t[Len(p) + i] = q[i]
        /\ \A i \in 1..Len(t) : i > Len(p) => t[i] = q[i - Len(p)] /\ i - Len(p) \in 1..Len(q)
    BY <1>1
  <1>3. DOMAIN t = 1..Len(t) /\ DOMAIN p = 1..Len(p) /\ DOMAIN q = 1..Len(q)
    BY <1>1, <1>2
  <1> HIDE DEF t
  <1>4. \A i \in DOMAIN t : \/ i \in DOMAIN p /\ t[i] = p[i]
                            \/ \E k \in DOMAIN q : t[i] = q[k]
    <2> SUFFICES ASSUME NEW i \in 1..Len(t)
                 PROVE  (i \in 1..Len(p) /\ t[i] = p[i]) \/ \E k \in 1..Len(q) : t[i] = q[k]
      BY <1>3
    <2>1. CASE i > Len(p)
      <3>1. t[i] = q[i - Len(p)] /\ i - Len(p) \in 1..Len(q)
        BY <1>2, <2>1
      <3>2. QED
        BY <3>1
    <2>2. CASE ~(i > Len(p))
      <3>1. i \in 1..Len(p)
        BY <1>2, <2>2
      <3>2. QED
        BY <1>2, <3>1
    <2>3. QED
      BY <2>1, <2>2
  <1>5. \A i \in DOMAIN p : i \in DOMAIN t /\ t[i] = p[i]
    BY <1>2, <1>3
  <1>6. \A k \in DOMAIN q : Len(p) + k \in DOMAIN t /\ t[Len(p) + k] = q[k]
    BY <1>2, <1>3
  <1>7. AliasesOf(t) = AliasesOf(p) \cup AliasesOf(q)
    BY <1>4, <1>5, <1>6 DEF AliasesOf
  <1>8. \A i \in DOMAIN t : IsSpec(t[i])
    BY <1>4 DEF Gathered
  <1>9. t \in Seq({t[i] : i \in DOMAIN t})
    BY <1>2, SeqIsList DEF IsList
  <1>10. QED
    BY <1>7, <1>8, <1>9 DEF Gathered, t

LEMMA MappedAliases ==
    ASSUME NEW q, Gathered(q), NEW t, DOMAIN t = DOMAIN q, t = [i \in DOMAIN q |-> t[i]],
           \A i \in DOMAIN q : IsSpec(t[i]) /\ t[i].alias = q[i].alias
    PROVE  Gathered(t) /\ AliasesOf(t) = AliasesOf(q)
  <1>1. Len(q) \in Nat /\ DOMAIN q = 1..Len(q)
    BY DEF Gathered
  <1>2. t \in Seq({t[i] : i \in DOMAIN t})
    BY <1>1
  <1>3. QED
    BY <1>2 DEF Gathered, AliasesOf

LEMMA WithAccountAliases ==
    ASSUME NEW q, NEW account, Gathered(q)
    PROVE  Gathered(WithAccount(q, account)) /\ AliasesOf(WithAccount(q, account)) = AliasesOf(q)
  <1> DEFINE t == WithAccount(q, account)
  <1>1. DOMAIN t = DOMAIN q /\ t = [i \in DOMAIN q |-> t[i]]
    BY DEF WithAccount
  <1>2. \A i \in DOMAIN q : IsSpec(t[i]) /\ t[i].alias = q[i].alias
    BY DEF WithAccount, Gathered, IsSpec
  <1> HIDE DEF t
  <1>3. QED
    BY <1>1, <1>2, MappedAliases DEF t

-----------------------------------------------------------------------------
\* The steps of the request that leave the variables of the builder alone.
LEMMA BuilderFrame ==
    ASSUME BuilderInv, UNCHANGED builderVars
    PROVE  BuilderInv'
  <1>1. UNCHANGED <<command, step, given, env, held, conf, only, secrets, req>>
    BY DEF builderVars
  <1>2. CommandInv' /\ GatheredInv' /\ SelectionIsExact'
    BY <1>1 DEF BuilderInv, CommandInv, GatheredInv, SelectionIsExact
  <1>3. DaemonFits' = DaemonFits
    BY <1>1 DEF DaemonFits
  <1>4. SentInv'
    BY <1>1, <1>3 DEF BuilderInv, SentInv
  <1>5. QED
    BY <1>2, <1>4 DEF BuilderInv

\* A step to a place where nothing is asked yet of what has been gathered.
LEMMA BuilderGoesOn ==
    ASSUME BuilderInv, UNCHANGED <<command, only, given>>, ~conf'.loaded => DOMAIN conf'.secrets = {},
           step' \in {"files", "load", "reason", "only", "item", "shown", "refused"},
           step' \in {"files", "load", "reason", "only", "shown"} => only = {},
           step' = "item" => only = {} /\ command = "item describe",
           (DOMAIN held \cap DOMAIN env = {})'
    PROVE  BuilderInv'
  BY DEF BuilderInv, CommandInv, GatheredInv, SentInv, SelectionIsExact, Gathered

\* What is sent, and why it fits.
LEMMA BuilderSends ==
    ASSUME BuilderInv, UNCHANGED <<command, only, given, held, env, conf>>,
           step' \in {"sent", "refused"},
           step' = "sent" => /\ command # "profile" /\ DaemonFits'
                             /\ only # {} => AliasesOf(req'.secrets) = only \cup AliasesOf(given)
                             /\ command = "exec" /\ AliasesOf(req'.secrets) \cap DOMAIN env # {}
                                    => req'.override
    PROVE  BuilderInv'
  <1>1. CommandInv'
    BY DEF BuilderInv, CommandInv
  <1>2. GatheredInv'
    BY DEF BuilderInv, GatheredInv, Gathered
  <1>3. SentInv'
    BY DEF SentInv, AliasesOf
  <1>4. SelectionIsExact'
    BY DEF BuilderInv, SelectionIsExact, AliasesOf
  <1>5. QED
    BY <1>1, <1>2, <1>3, <1>4 DEF BuilderInv

\* References are taken out of the environment.
LEMMA EnvWithoutReferences ==
    ASSUME NEW caller, NEW last
    PROVE  DOMAIN Without(last, DOMAIN last \ References(last)) \cap DOMAIN MergedEnv(caller, last) = {}
  BY DEF Without, MergedEnv, References

LEMMA InputsKept ==
    ASSUME OptsInv, BuilderInv, BindFlags \/ LoadInputs \/ LoadEnvFails \/ Loaded \/ NotLoaded \/ ReadReason \/ ReadConfig
    PROVE  BuilderInv'
  <1>1. DOMAIN held \cap DOMAIN env = {} /\ (~conf.loaded => DOMAIN conf.secrets = {})
    BY DEF BuilderInv, SelectionIsExact, CommandInv
  <1>2. CASE BindFlags \/ LoadEnvFails
    <2>1. UNCHANGED <<command, only, given, held, env, conf>> /\ step' \in {"files", "load", "refused"} /\ only = {}
      BY <1>2 DEF BindFlags, LoadEnvFails, Give, BuilderInv, CommandInv
    <2>2. QED
      BY <1>1, <2>1, BuilderGoesOn
  <1>3. CASE LoadInputs
    <2>1. PICK entries \in EnvFiles, caller \in SUBSET Aliases, specs \in FlagSecrets :
              /\ given' = specs
              /\ env' = MergedEnv(caller, LastEntries(entries))
              /\ held' = Without(LastEntries(entries),
                           DOMAIN LastEntries(entries) \ References(LastEntries(entries)))
      BY <1>3 DEF LoadInputs
    <2>2. UNCHANGED <<command, only, conf>> /\ step' = "load" /\ only = {}
      BY <1>3 DEF LoadInputs, Give, BuilderInv, CommandInv
    <2>3. Gathered(given')
      BY <2>1, FlagAssumption DEF Gathered
    <2>4. (DOMAIN held \cap DOMAIN env = {})'
      BY <2>1, EnvWithoutReferences
    <2>5. QED
      BY <2>2, <2>3, <2>4
         DEF BuilderInv, CommandInv, GatheredInv, SentInv, SelectionIsExact, Gathered
  <1>4. CASE Loaded \/ NotLoaded
    <2>1. /\ UNCHANGED <<command, only, given, held, env>> /\ only = {}
          /\ step' \in {AfterLoad, "refused"}
      BY <1>4 DEF Loaded, NotLoaded, Give, BuilderInv, CommandInv
    <2>2. /\ step' \in {"item", "shown", "reason", "refused"}
          /\ step' = "item" => command = "item describe"
      BY <2>1 DEF AfterLoad
    <2>3. ~conf'.loaded => DOMAIN conf'.secrets = {}
      <3>1. CASE NotLoaded
        BY <1>1, <3>1 DEF NotLoaded
      <3>2. CASE Loaded /\ opts.mode = "inspect"
        BY <3>2 DEF Loaded, NoConf, Nothing
      <3>3. CASE Loaded /\ opts.mode = "metadata"
        <4>1. conf' = [NoConf EXCEPT !.account = doc.account, !.sources = doc.sources]
          BY <3>3 DEF Loaded
        <4>2. QED
          BY <4>1 DEF NoConf, Nothing
      <3>4. CASE Loaded /\ opts.mode = "load"
        <4>1. PICK n \in DOMAIN result :
                 conf' = [loaded |-> TRUE, account |-> result[n].account, sources |-> doc.sources,
                          settings |-> result[n].settings, secrets |-> result[n].secrets]
          BY <3>4 DEF Loaded
        <4>2. QED
          BY <4>1
      <3>5. QED
        BY <1>4, <3>1, <3>2, <3>3, <3>4 DEF OptsInv, Modes
    <2>4. QED
      BY <1>1, <2>1, <2>2, <2>3, BuilderGoesOn
  <1>5. CASE ReadReason
    <2>1. UNCHANGED <<command, only, given, held, env, conf>> /\ step' \in {"only", "refused"} /\ only = {}
      BY <1>5 DEF ReadReason, Give, BuilderInv, CommandInv
    <2>2. QED
      BY <1>1, <2>1, BuilderGoesOn
  <1>6. CASE ReadConfig
    <2>1. /\ UNCHANGED <<command, only, given, held, env>> /\ step' \in {"item", "load"} /\ only = {}
          /\ step' = "item" => command = "item describe"
      BY <1>6 DEF ReadConfig, Give, BuilderInv, CommandInv
    <2>2. ~conf'.loaded => DOMAIN conf'.secrets = {}
      BY <1>1, <1>6 DEF ReadConfig, NoConf, Nothing
    <2>3. QED
      BY <1>1, <2>1, <2>2, BuilderGoesOn
  <1>7. QED
    BY <1>2, <1>3, <1>4, <1>5, <1>6

\* filterExecSecretsByOnly leaves what --only names, and nothing of it is missing.
LEMMA AssembleKept ==
    ASSUME BuilderInv, Assemble
    PROVE  BuilderInv'
  <1> DEFINE files   == DOMAIN held \cap only'
             profile == (DOMAIN conf.secrets \cap only') \ files
  <1>1. /\ only' \in SUBSET Aliases /\ step' \in {"sources", "refused"}
        /\ UNCHANGED <<command, given, held, env, conf>> /\ Gathered(given)
    BY DEF Assemble, Give, BuilderInv, GatheredInv
  <1>2. ASSUME step' = "sources", only' # {}
        PROVE  Gathered(secrets') /\ AliasesOf(secrets') = only' \cup AliasesOf(given)
    <2>1. only' = files \cup profile
      BY <1>2 DEF Assemble, Give
    <2>2. IsFiniteSet(files) /\ IsFiniteSet(profile)
      BY <1>1, <2>1, AliasAssumption, FS_Subset
    <2>3. PICK flag, machine : secrets' = Assembled(InProfile(profile), InFiles(files), flag, machine)
      BY <1>2 DEF Assemble
    <2>4. /\ Gathered(InFiles(files)) /\ AliasesOf(InFiles(files)) = files
          /\ Gathered(InProfile(profile)) /\ AliasesOf(InProfile(profile)) = profile
      BY <2>2, InFilesAliases, InProfileAliases
    <2> HIDE DEF files, profile
    <2>5. /\ Gathered(given \o InFiles(files))
          /\ AliasesOf(given \o InFiles(files)) = AliasesOf(given) \cup files
      BY <1>1, <2>4, ConcatAliases
    <2>6. CASE conf.loaded
      <3>1. PICK one, two : secrets' = WithAccount(InProfile(profile), one)
                                       \o WithAccount(given \o InFiles(files), two)
        BY <2>3, <2>6 DEF Assembled
      <3>2. /\ Gathered(WithAccount(InProfile(profile), one))
            /\ AliasesOf(WithAccount(InProfile(profile), one)) = profile
            /\ Gathered(WithAccount(given \o InFiles(files), two))
            /\ AliasesOf(WithAccount(given \o InFiles(files), two)) = AliasesOf(given) \cup files
        BY <2>4, <2>5, WithAccountAliases
      <3>3. Gathered(secrets') /\ AliasesOf(secrets') = profile \cup (AliasesOf(given) \cup files)
        BY <3>1, <3>2, ConcatAliases
      <3>4. QED
        BY <2>1, <3>3
    <2>7. CASE ~conf.loaded
      <3>1. PICK one : secrets' = WithAccount(given \o InFiles(files), one)
        BY <2>3, <2>7 DEF Assembled
      <3>2. profile = {}
        BY <2>7 DEF profile, BuilderInv, CommandInv
      <3>3. Gathered(secrets') /\ AliasesOf(secrets') = AliasesOf(given) \cup files
        BY <2>5, <3>1, WithAccountAliases
      <3>4. QED
        BY <2>1, <3>2, <3>3
    <2>8. QED
      BY <2>6, <2>7
  <1>3. CommandInv' /\ GatheredInv' /\ SentInv'
    BY <1>1, <1>2 DEF BuilderInv, CommandInv, GatheredInv, SentInv
  <1>4. SelectionIsExact'
    BY <1>1 DEF BuilderInv, SelectionIsExact
  <1>5. QED
    BY <1>3, <1>4 DEF BuilderInv

LEMMA ResolveSourcesKept ==
    ASSUME BuilderInv, ResolveSources
    PROVE  BuilderInv'
  <1>1. UNCHANGED <<command, only, given, held, env, conf>> /\ step' \in {"build", "refused"} /\ step = "sources"
    BY DEF ResolveSources, Give
  <1>2. ASSUME only # {}
        PROVE  Gathered(secrets') /\ AliasesOf(secrets') = only \cup AliasesOf(given)
    <2>1. Gathered(secrets) /\ AliasesOf(secrets) = only \cup AliasesOf(given)
      BY <1>1, <1>2 DEF BuilderInv, GatheredInv
    <2>2. PICK local : secrets' = [i \in DOMAIN secrets |->
                            IF Bitwarden(secrets[i])
                            THEN [secrets[i] EXCEPT !.source = SourceFor(secrets[i], local)]
                            ELSE secrets[i]]
      BY DEF ResolveSources
    <2>3. \A i \in DOMAIN secrets : IsSpec(secrets'[i]) /\ secrets'[i].alias = secrets[i].alias
      BY <2>1, <2>2 DEF Gathered, IsSpec
    <2>4. DOMAIN secrets' = DOMAIN secrets /\ secrets' = [i \in DOMAIN secrets |-> secrets'[i]]
      BY <2>2
    <2>5. QED
      BY <2>1, <2>3, <2>4, MappedAliases
  <1>3. CommandInv' /\ GatheredInv' /\ SentInv'
    BY <1>1, <1>2 DEF BuilderInv, CommandInv, GatheredInv, SentInv
  <1>4. SelectionIsExact'
    BY <1>1 DEF BuilderInv, SelectionIsExact
  <1>5. QED
    BY <1>3, <1>4 DEF BuilderInv

\* NormalizeAliases twice is NormalizeAliases once.
LEMMA InOrderFits ==
    ASSUME NEW q, GoodAliases(q)
    PROVE  GoodAliases(InOrder(q)) /\ InOrder(InOrder(q)) = InOrder(q)
  <1> DEFINE S == {q[i] : i \in DOMAIN q}
             t == Sorted(S)
  <1>1. S \subseteq Aliases /\ IsFiniteSet(S)
    BY AliasAssumption, FS_Subset DEF GoodAliases
  <1>2. /\ Cardinality(S) \in Nat /\ t \in [1..Cardinality(S) -> S]
        /\ \A a \in S : \E i \in DOMAIN t : t[i] = a
    BY <1>1, SortedOnto
  <1>3. InOrder(q) = t
    BY DEF InOrder
  <1> HIDE DEF S, t
  <1>4. {t[i] : i \in DOMAIN t} = S
    BY <1>2
  <1>5. Len(t) = Cardinality(S)
    BY <1>2
  <1>6. InOrder(t) = t
    BY <1>4 DEF InOrder, t
  <1>7. QED
    BY <1>1, <1>3, <1>4, <1>5, <1>6 DEF GoodAliases

\* NewExec, NewSessionCreate, NewItemDescribe and NewSessionResolve let through what
\* ValidateForDaemon will.
LEMMA BuildKept ==
    ASSUME BuilderInv, BuildExec \/ BuildSessionCreate \/ BuildItem \/ BuildResolve
    PROVE  BuilderInv'
  <1>0. UNCHANGED <<command, only, given, held, env, conf>> /\ step' \in {"sent", "refused"}
    BY DEF BuildExec, BuildSessionCreate, BuildItem, BuildResolve, Give
  <1>1. ASSUME BuildExec, step' = "sent"
        PROVE  /\ command = "exec" /\ ExecFits(req') /\ req'.secrets = secrets
               /\ AliasesOf(req'.secrets) \cap DOMAIN env # {} => req'.override
    <2>1. PICK found \in BOOLEAN, override \in BOOLEAN, ttl \in {None, "fine", "off"} :
              LET made == [reason |-> Trimmed(req.reason), ttl |-> OrDefault(Chosen(ttl, "ttl")),
                           secrets |-> secrets,
                           override |-> override, overridden |-> Overridden(secrets)]
              IN  (override \/ made.overridden = {}) /\ NewExec(made) /\ req' = made
      BY <1>1 DEF BuildExec, Give
    <2>2. /\ req'.reason = Trimmed(req.reason) /\ req'.secrets = secrets
          /\ req'.override = override /\ req'.overridden = Overridden(secrets)
          /\ override \/ req'.overridden = {}
          /\ GoodReason(req'.reason) /\ InRange(req'.ttl)
          /\ GoodSecrets(req'.secrets) /\ GoodOverrides(req')
      BY <2>1 DEF NewExec
    <2>3. ExecFits(req')
      BY <2>2, GoodReasonTrimmed DEF ExecFits, Normalized
    <2>4. QED
      BY <1>1, <2>2, <2>3 DEF Overridden, BuildExec
  <1>2. ASSUME BuildSessionCreate, step' = "sent"
        PROVE  command = "session create" /\ SessionFits(req') /\ req'.secrets = secrets
    <2>1. PICK policy, ttl, reads :
              LET made == [reason |-> Trimmed(req.reason), ttl |-> ttl, reads |-> reads,
                           secrets |-> secrets, bind |-> policy]
              IN  NewSessionCreate(made) /\ req' = made
      BY <1>2 DEF BuildSessionCreate, Give
    <2>2. /\ req'.reason = Trimmed(req.reason) /\ req'.secrets = secrets
          /\ GoodReason(req'.reason) /\ InRange(req'.ttl) /\ InRange(req'.reads)
          /\ GoodSecrets(req'.secrets) /\ GoodPolicy(req'.bind)
      BY <2>1 DEF NewSessionCreate
    <2>3. SessionFits(req')
      BY <2>2, GoodReasonTrimmed DEF SessionFits, Normalized
    <2>4. QED
      BY <1>2, <2>2, <2>3 DEF BuildSessionCreate
  <1>3. ASSUME BuildItem, step' = "sent"
        PROVE  command = "item describe" /\ ItemFits(req') /\ only = {}
    <2> DEFINE Made(flag, ttl, machine) ==
                  [reason  |-> IF Trimmed(flag) = None THEN "plain" ELSE Trimmed(flag),
                   ttl     |-> OrDefault(ttl),
                   account |-> Account(machine, conf.account)]
    <2>0. PICK found \in BOOLEAN, flag \in {None, "blank", "padded", "long"},
               ttl \in {None, "fine", "off"}, machine \in {None, "machine"} :
              LET made == Made(flag, ttl, machine)
              IN  /\ Give(found /\ GoodReason(made.reason) /\ made.account # None
                                /\ InRange(made.ttl), "sent")
                  /\ req' = IF step' = "sent" THEN made ELSE req
      BY <1>3 DEF BuildItem
    <2>1. LET made == Made(flag, ttl, machine)
          IN  /\ GoodReason(made.reason) /\ made.account # None /\ InRange(made.ttl)
              /\ req' = made
      <3> HIDE DEF Made
      <3>1. QED
        BY <2>0, <1>3 DEF Give
    <2>2. /\ req'.reason = IF Trimmed(flag) = None THEN "plain" ELSE Trimmed(flag)
          /\ GoodReason(req'.reason) /\ req'.account # None /\ InRange(req'.ttl)
      BY <2>1
    <2>3. Trimmed(req'.reason) = req'.reason
      BY <2>2, GoodReasonTrimmed DEF Trimmed
    <2>4. QED
      BY <1>3, <2>2, <2>3 DEF ItemFits, Normalized, BuildItem, BuilderInv, CommandInv
  <1>4. ASSUME BuildResolve, step' = "sent"
        PROVE  command = "with-session" /\ ResolveFits(req') /\ only = {}
    <2>1. PICK q \in FlagAliases : GoodAliases(q) /\ req' = WithRequestedAliases(q)
      BY <1>4 DEF BuildResolve, Give
    <2>2. req'.aliases = InOrder(q)
      BY <2>1 DEF WithRequestedAliases
    <2>3. QED
      BY <1>4, <2>1, <2>2, InOrderFits DEF ResolveFits, BuildResolve, BuilderInv, CommandInv
  <1>5. ASSUME step' = "sent"
        PROVE  command # "profile" /\ DaemonFits'
    BY <1>0, <1>1, <1>2, <1>3, <1>4, <1>5 DEF DaemonFits
  <1>6. ASSUME step' = "sent", only # {}
        PROVE  AliasesOf(req'.secrets) = only \cup AliasesOf(given)
    <2>1. step = "build" /\ req'.secrets = secrets
      BY <1>1, <1>2, <1>3, <1>4, <1>6 DEF BuildExec, BuildSessionCreate
    <2>2. QED
      BY <1>6, <2>1 DEF BuilderInv, GatheredInv
  <1>7. ASSUME step' = "sent", command = "exec", AliasesOf(req'.secrets) \cap DOMAIN env # {}
        PROVE  req'.override
    BY <1>1, <1>2, <1>3, <1>4, <1>7
  <1>8. QED
    BY <1>0, <1>5, <1>6, <1>7, BuilderSends

LEMMA DaemonKept ==
    ASSUME BuilderInv, DaemonValidates \/ FileChanges
    PROVE  BuilderInv'
  <1>1. /\ UNCHANGED <<command, given, env, held, conf, only, secrets, req>>
        /\ step = "sent" /\ step' \in {"sent", "accepted", "rejected"}
    BY DEF DaemonValidates, FileChanges
  <1>2. CommandInv' /\ GatheredInv' /\ SelectionIsExact'
    BY <1>1 DEF BuilderInv, CommandInv, GatheredInv, SelectionIsExact
  <1>3. DaemonFits' = DaemonFits
    BY <1>1 DEF DaemonFits
  <1>4. SentInv'
    BY <1>1, <1>3 DEF BuilderInv, SentInv
  <1>5. QED
    BY <1>2, <1>4 DEF BuilderInv

\* The mode of a configuration that is being read is one of the three.
LEMMA ConfigKeepsOpts == ConfigNext => opts' = opts
  BY DEF ConfigNext, FindExplicit, FindInDirectory, ReadFails, Read, ResolveNext, Include, FinishProfile

LEMMA OptsKept == OptsInv /\ RequestNext => OptsInv'
  <1> SUFFICES ASSUME OptsInv, RequestNext PROVE OptsInv'
    OBVIOUS
  <1>1. CASE Loading
    BY <1>1, ConfigKeepsOpts DEF Loading, OptsInv
  <1>2. CASE LoadInputs
    <2>1. opts'.mode \in {"metadata", "load"}
      BY <1>2 DEF LoadInputs
    <2>2. QED
      BY <2>1 DEF OptsInv, Modes
  <1>3. CASE Loaded \/ NotLoaded
    <2>1. opts' = [mode |-> "load", explicit |-> FALSE, name |-> NoName]
      BY <1>3 DEF Loaded, NotLoaded, Forget
    <2>2. QED
      BY <2>1 DEF OptsInv, Modes
  <1>4. CASE ReadConfig
    <2>1. \/ opts' = opts
          \/ \E explicit \in BOOLEAN :
                opts' = [mode |-> IF command = "profile" THEN "inspect" ELSE "metadata",
                         explicit |-> explicit, name |-> NoName]
      BY <1>4 DEF ReadConfig
    <2>2. opts' = opts \/ opts'.mode \in {"inspect", "metadata"}
      BY <2>1
    <2>3. QED
      BY <2>2 DEF OptsInv, Modes
  <1>5. CASE BindFlags \/ LoadEnvFails \/ ReadReason \/ Assemble \/ ResolveSources \/ BuildExec
             \/ BuildSessionCreate \/ BuildItem \/ BuildResolve \/ FileChanges \/ DaemonValidates
    BY <1>5 DEF BindFlags, LoadEnvFails, ReadReason, Assemble, ResolveSources, BuildExec,
       BuildSessionCreate, BuildItem, BuildResolve, FileChanges, DaemonValidates, configVars, OptsInv
  <1>6. QED
    BY <1>1, <1>2, <1>3, <1>4, <1>5 DEF RequestNext

LEMMA RequestKept == OptsInv /\ BuilderInv /\ RequestNext => BuilderInv'
  <1> SUFFICES ASSUME OptsInv, BuilderInv, RequestNext PROVE BuilderInv'
    OBVIOUS
  <1>1. CASE Loading
    BY <1>1, BuilderFrame DEF Loading
  <1>2. QED
    BY <1>1, InputsKept, AssembleKept, ResolveSourcesKept, BuildKept, DaemonKept DEF RequestNext

LEMMA RequestInitInv == RequestInit => OptsInv /\ BuilderInv
  <1> SUFFICES ASSUME RequestInit PROVE OptsInv /\ BuilderInv
    OBVIOUS
  <1>1. OptsInv
    BY DEF RequestInit, ConfigIdle, OptsInv, Modes
  <1>2. Gathered(<<>>)
    BY DEF Gathered
  <1>3. CommandInv /\ GatheredInv
    BY <1>2 DEF RequestInit, CommandInv, GatheredInv, NoConf, Nothing
  <1>4. SentInv /\ SelectionIsExact
    BY DEF RequestInit, SentInv, SelectionIsExact, Nothing
  <1>5. QED
    BY <1>1, <1>3, <1>4 DEF BuilderInv

LEMMA AcceptedKept == BuilderInv /\ RequestsAreAccepted /\ RequestNext => RequestsAreAccepted'
  <1> SUFFICES ASSUME BuilderInv, RequestsAreAccepted, RequestNext, step' = "rejected" PROVE changed'
    BY DEF RequestsAreAccepted
  <1>1. CASE DaemonValidates
    BY <1>1 DEF DaemonValidates, BuilderInv, SentInv, CommandInv, DaemonFits
  <1>2. CASE Loading
    BY <1>2 DEF Loading, builderVars, RequestsAreAccepted
  <1>3. CASE \/ BindFlags \/ LoadInputs \/ LoadEnvFails \/ Loaded \/ NotLoaded \/ ReadReason \/ Assemble
             \/ ResolveSources \/ BuildExec \/ BuildSessionCreate \/ ReadConfig \/ BuildItem \/ BuildResolve
             \/ FileChanges
    <2>1. step' \in {"files", "load", AfterLoad, "only", "sources", "build", "sent", "item", "refused"}
          \/ changed'
      BY <1>3 DEF BindFlags, LoadInputs, LoadEnvFails, Loaded, NotLoaded, ReadReason, Assemble,
         ResolveSources, BuildExec, BuildSessionCreate, ReadConfig, BuildItem, BuildResolve, FileChanges, Give
    <2>2. QED
      BY <2>1 DEF AfterLoad
  <1>4. QED
    BY <1>1, <1>2, <1>3 DEF RequestNext

-----------------------------------------------------------------------------
(***************************************************************************)
(* The processes and the walk.                                             *)
(***************************************************************************)
Process  == [parent : Pids \cup {1}, exe : Exes, user : {User, Root}, start : Nat]
Identity == [pid : Pids, start : Nat]

ProcType ==
    /\ proc \in [Pids -> Process \cup {NoProcess}]
    /\ lineage \in [Pids -> Seq(Identity)]
    /\ starts \in Nat

\* Above a process are its parent and whatever is above that, as long as the parent lives.
TreeInv ==
    \A p \in Alive : proc[p].parent \in Pids =>
        /\ proc[p].parent \in Alive
        /\ lineage[p] = <<Born(proc[p].parent)>> \o lineage[proc[p].parent]

\* The n-th of a path is p, and what follows are p's ancestors.
Stands(p, path, n) ==
    /\ n \in 1..Len(path)
    /\ path[n] = Born(p)
    /\ Len(lineage[p]) = Len(path) - n
    /\ \A k \in 1..Len(lineage[p]) : lineage[p][k] = path[n + k]

\* The peer and its ancestors, as they were when it asked.
Path(w)  == <<w.born>> \o w.lineage
Place(w) == Len(w.list) + 1
Identified(e) == [pid |-> e.pid, start |-> e.start]

WalkType ==
    walk # NoWalk =>
        /\ walk = [why |-> walk.why, peer |-> walk.peer, user |-> walk.user, policy |-> walk.policy,
                   at |-> walk.at, info |-> walk.info, list |-> walk.list, born |-> walk.born,
                   lineage |-> walk.lineage]
        /\ walk.why \in {"bind", "validate"}
        /\ walk.at \in Pids \cup {0}
        /\ walk.info \in Process \cup {NoProcess}
        /\ walk.list \in Seq({walk.list[i] : i \in 1..Len(walk.list)})
        /\ walk.born \in Identity /\ walk.lineage \in Seq(Identity)
        /\ walk.info # NoProcess => walk.at # 0

\* What the walk has seen is the beginning of the path; where it is, and where it goes
\* next, is what follows, if it is still there.
WalkInv ==
    walk # NoWalk =>
        /\ \A i \in 1..Len(walk.list) :
              i \in 1..Len(Path(walk)) /\ Identified(walk.list[i]) = Path(walk)[i]
        /\ walk.at \in Alive => Stands(walk.at, Path(walk), Place(walk))
        /\ walk.info # NoProcess =>
              /\ Place(walk) \in 1..Len(Path(walk))
              /\ Path(walk)[Place(walk)] = [pid |-> walk.at, start |-> walk.info.start]
              /\ walk.info.parent \in Alive => Stands(walk.info.parent, Path(walk), Place(walk) + 1)

PeersInv == ProcType /\ TreeInv /\ WalkType /\ WalkInv

LEMMA NoProcessIsNone == NoProcess \notin Process
  <1>1. Pids \cup {1} \subseteq Nat
    BY PidAssumption
  <1>2. QED
    BY <1>1, ProcessAssumption DEF Process

LEMMA ConsFacts ==
    ASSUME NEW S, NEW x \in S, NEW s \in Seq(S)
    PROVE  /\ <<x>> \o s \in Seq(S)
           /\ Len(<<x>> \o s) = Len(s) + 1 /\ Len(s) \in Nat
           /\ (<<x>> \o s)[1] = x
           /\ \A k \in 1..Len(s) : (<<x>> \o s)[k + 1] = s[k]
  <1>1. <<x>> \in Seq(S) /\ Len(<<x>>) = 1
    OBVIOUS
  <1>2. QED
    BY <1>1

LEMMA BornType ==
    ASSUME ProcType, NEW p \in Alive
    PROVE  p \in Pids /\ proc[p] \in Process /\ Born(p) \in Identity /\ lineage[p] \in Seq(Identity)
  BY DEF ProcType, Alive, Born, Identity, Process

\* One process further up.
LEMMA StandsUp ==
    ASSUME ProcType, TreeInv, NEW p \in Alive, NEW path \in Seq(Identity), NEW n \in Nat,
           Stands(p, path, n), proc[p].parent \in Pids
    PROVE  Stands(proc[p].parent, path, n + 1)
  <1> DEFINE a == proc[p].parent
             s == lineage[a]
             t == <<Born(a)>> \o s
  <1>1. a \in Alive /\ lineage[p] = t
    BY DEF TreeInv
  <1>2. Born(a) \in Identity /\ s \in Seq(Identity)
    BY <1>1, BornType
  <1> HIDE DEF a, s
  <1>3. /\ Len(t) = Len(s) + 1 /\ Len(s) \in Nat /\ t[1] = Born(a)
        /\ \A k \in 1..Len(s) : t[k + 1] = s[k]
    BY <1>2, ConsFacts
  <1> HIDE DEF t
  <1>4. /\ Len(path) \in Nat /\ n \in 1..Len(path) /\ Len(t) = Len(path) - n
        /\ \A k \in 1..Len(t) : t[k] = path[n + k]
    BY <1>1 DEF Stands
  <1>5. n + 1 \in 1..Len(path) /\ path[n + 1] = Born(a) /\ Len(s) = Len(path) - (n + 1)
    <2>1. n + 1 \in 1..Len(path) /\ Len(s) = Len(path) - (n + 1) /\ 1 \in 1..Len(t)
      BY <1>3, <1>4
    <2>2. t[1] = path[n + 1]
      BY <1>4, <2>1
    <2>3. QED
      BY <1>3, <2>1, <2>2
  <1>6. ASSUME NEW k \in 1..Len(s) PROVE s[k] = path[(n + 1) + k]
    <2>1. k + 1 \in 1..Len(t) /\ t[k + 1] = s[k]
      BY <1>3
    <2>2. n + (k + 1) = (n + 1) + k
      BY <1>3
    <2>3. QED
      BY <1>4, <2>1, <2>2
  <1>7. QED
    BY <1>5, <1>6 DEF Stands, a, s

\* A process the walk is at, or goes to next, is not another one by now.
LEMMA ProcessWalk ==
    ASSUME PeersInv, UNCHANGED walk, ProcType', TreeInv',
           \A p \in Alive' : walk # NoWalk /\ (p = walk.at \/ (walk.info # NoProcess /\ p = walk.info.parent))
                => p \in Alive /\ Born(p)' = Born(p) /\ lineage'[p] = lineage[p]
    PROVE  PeersInv'
  <1>1. WalkType'
    BY DEF PeersInv, WalkType
  <1>2. WalkInv'
    <2> SUFFICES ASSUME walk # NoWalk
                 PROVE
        /\ \A i \in 1..Len(walk.list) :
              i \in 1..Len(Path(walk)) /\ Identified(walk.list[i]) = Path(walk)[i]
        /\ walk.at \in Alive' => Stands(walk.at, Path(walk), Place(walk))'
        /\ walk.info # NoProcess =>
              /\ Place(walk) \in 1..Len(Path(walk))
              /\ Path(walk)[Place(walk)] = [pid |-> walk.at, start |-> walk.info.start]
              /\ walk.info.parent \in Alive' => Stands(walk.info.parent, Path(walk), Place(walk) + 1)'
      BY DEF WalkInv
    <2>1. /\ \A i \in 1..Len(walk.list) :
                i \in 1..Len(Path(walk)) /\ Identified(walk.list[i]) = Path(walk)[i]
          /\ walk.info # NoProcess =>
              /\ Place(walk) \in 1..Len(Path(walk))
              /\ Path(walk)[Place(walk)] = [pid |-> walk.at, start |-> walk.info.start]
      BY DEF PeersInv, WalkInv
    <2>2. walk.at \in Alive' => Stands(walk.at, Path(walk), Place(walk))'
      <3> SUFFICES ASSUME walk.at \in Alive' PROVE Stands(walk.at, Path(walk), Place(walk))'
        OBVIOUS
      <3>1. /\ Stands(walk.at, Path(walk), Place(walk)) /\ Born(walk.at)' = Born(walk.at)
            /\ lineage'[walk.at] = lineage[walk.at]
        BY DEF PeersInv, WalkInv
      <3>2. QED
        BY <3>1 DEF Stands
    <2>3. walk.info # NoProcess /\ walk.info.parent \in Alive'
              => Stands(walk.info.parent, Path(walk), Place(walk) + 1)'
      <3> SUFFICES ASSUME walk.info # NoProcess, walk.info.parent \in Alive'
                   PROVE  Stands(walk.info.parent, Path(walk), Place(walk) + 1)'
        OBVIOUS
      <3>1. /\ Stands(walk.info.parent, Path(walk), Place(walk) + 1)
            /\ Born(walk.info.parent)' = Born(walk.info.parent)
            /\ lineage'[walk.info.parent] = lineage[walk.info.parent]
        BY DEF PeersInv, WalkInv
      <3>2. QED
        BY <3>1 DEF Stands
    <2>4. QED
      BY <2>1, <2>2, <2>3
  <1>3. QED
    BY <1>1, <1>2 DEF PeersInv

LEMMA ForkKept == ASSUME PeersInv, NEW p \in Pids, Fork(p) PROVE PeersInv'
  <1>1. PICK c \in Pids \ (Alive \cup Reserved) :
          /\ proc' = [proc EXCEPT ![c] = [proc[p] EXCEPT !.parent = p, !.start = starts + 1]]
          /\ lineage' = [lineage EXCEPT ![c] = <<Born(p)>> \o lineage[p]]
    BY DEF Fork
  <1>2. p \in Alive /\ starts' = starts + 1 /\ walk' = walk
    BY DEF Fork
  <1>3. /\ ProcType /\ TreeInv
        /\ proc[p] \in Process /\ Born(p) \in Identity /\ lineage[p] \in Seq(Identity)
    BY <1>2, BornType DEF PeersInv
  <1>4. <<Born(p)>> \o lineage[p] \in Seq(Identity)
    BY <1>3, ConsFacts
  <1> DEFINE new == [proc[p] EXCEPT !.parent = p, !.start = starts + 1]
  <1>5. new \in Process /\ new.parent = p
    <2>1. starts + 1 \in Nat
      BY <1>3 DEF ProcType
    <2>2. QED
      BY <1>3, <2>1 DEF Process
  <1> HIDE DEF new
  <1>6. /\ proc' = [proc EXCEPT ![c] = new] /\ proc'[c] = new /\ lineage'[c] = <<Born(p)>> \o lineage[p]
        /\ \A q \in Pids \ {c} : proc'[q] = proc[q] /\ lineage'[q] = lineage[q] /\ Born(q)' = Born(q)
    BY <1>1, <1>3 DEF ProcType, new, Born
  <1>7. ProcType'
    BY <1>1, <1>2, <1>3, <1>4, <1>5, <1>6 DEF ProcType
  <1>8. Alive' = Alive \cup {c}
    BY <1>5, <1>6, NoProcessIsNone DEF Alive
  <1>9. TreeInv'
    <2> SUFFICES ASSUME NEW q \in Alive', proc'[q].parent \in Pids
                 PROVE  /\ proc'[q].parent \in Alive'
                        /\ lineage'[q] = <<Born(proc[q].parent)'>> \o lineage'[proc'[q].parent]
      BY DEF TreeInv
    <2>1. CASE q = c
      BY <1>1, <1>2, <1>5, <1>6, <1>8, <2>1 DEF Alive
    <2>2. CASE q # c
      <3>1. q \in Alive /\ proc'[q] = proc[q] /\ lineage'[q] = lineage[q]
        BY <1>6, <1>8, <2>2 DEF Alive
      <3>2. proc[q].parent \in Alive /\ lineage[q] = <<Born(proc[q].parent)>> \o lineage[proc[q].parent]
        BY <1>3, <3>1 DEF TreeInv
      <3>3. proc[q].parent \in Pids \ {c}
        BY <3>2 DEF Alive
      <3> PICK parent \in Pids \ {c} : parent = proc[q].parent
        BY <3>3
      <3>4. Born(parent)' = Born(parent) /\ lineage'[parent] = lineage[parent]
        BY <1>6
      <3>5. proc'[q].parent = parent /\ parent \in Alive'
        BY <1>8, <3>1, <3>2
      <3>6. lineage'[q] = <<Born(parent)>> \o lineage[parent]
        BY <3>1, <3>2
      <3>7. QED
        BY <3>4, <3>5, <3>6
    <2>3. QED
      BY <2>1, <2>2
  <1>10. QED
    <2> SUFFICES ASSUME walk # NoWalk, NEW q \in Alive',
                        q = walk.at \/ (walk.info # NoProcess /\ q = walk.info.parent)
                 PROVE  q \in Alive /\ Born(q)' = Born(q) /\ lineage'[q] = lineage[q]
      BY <1>2, <1>7, <1>9, ProcessWalk
    <2>1. q \in Reserved
      BY DEF Reserved
    <2>2. QED
      BY <1>6, <1>8, <2>1 DEF Alive

LEMMA ExecKept == ASSUME PeersInv, NEW p \in Pids, Exec(p) PROVE PeersInv'
  <1>1. PICK exe \in Exes, user \in {proc[p].user, Root} :
          proc' = [proc EXCEPT ![p].exe = exe, ![p].user = user]
    BY DEF Exec
  <1>2. p \in Alive /\ lineage' = lineage /\ starts' = starts /\ walk' = walk
    BY DEF Exec
  <1>3. ProcType /\ TreeInv /\ proc[p] \in Process
    BY <1>2, BornType DEF PeersInv
  <1> DEFINE new == [proc[p] EXCEPT !.exe = exe, !.user = user]
  <1>4. new \in Process /\ new.parent = proc[p].parent /\ new.start = proc[p].start
    BY <1>3 DEF Process
  <1>5. proc' = [proc EXCEPT ![p] = new]
    BY <1>1, <1>3 DEF ProcType, new
  <1> HIDE DEF new
  <1>6. ProcType'
    BY <1>2, <1>3, <1>4, <1>5 DEF ProcType
  <1>7. \A q \in Pids : proc'[q].parent = proc[q].parent /\ Born(q)' = Born(q)
    BY <1>3, <1>4, <1>5 DEF ProcType, Born
  <1>8. Alive' = Alive
    BY <1>2, <1>3, <1>4, <1>5, NoProcessIsNone DEF Alive, ProcType
  <1>9. TreeInv'
    <2> SUFFICES ASSUME NEW q \in Alive, proc'[q].parent \in Pids
                 PROVE  /\ proc'[q].parent \in Alive
                        /\ lineage[q] = <<Born(proc[q].parent)'>> \o lineage[proc'[q].parent]
      BY <1>2, <1>8 DEF TreeInv
    <2>1. proc'[q].parent = proc[q].parent
      BY <1>7 DEF Alive
    <2>2. proc[q].parent \in Alive /\ lineage[q] = <<Born(proc[q].parent)>> \o lineage[proc[q].parent]
      BY <1>3, <2>1 DEF TreeInv
    <2>3. Born(proc[q].parent)' = Born(proc[q].parent)
      BY <1>7, <2>2 DEF Alive
    <2>4. QED
      BY <2>1, <2>2, <2>3
  <1>10. QED
    BY <1>2, <1>6, <1>7, <1>8, <1>9, ProcessWalk DEF Alive

LEMMA ExitKept == ASSUME PeersInv, NEW p \in Pids, Exit(p) PROVE PeersInv'
  <1>1. /\ proc' = [q \in Pids |-> IF q = p \/ proc[q] = NoProcess THEN NoProcess
                               ELSE IF proc[q].parent = p THEN [proc[q] EXCEPT !.parent = 1]
                               ELSE proc[q]]
        /\ lineage' = [lineage EXCEPT ![p] = <<>>] /\ starts' = starts /\ walk' = walk
    BY DEF Exit
  <1>2. ProcType /\ TreeInv
    BY DEF PeersInv
  <1>3. \A q \in Alive : [proc[q] EXCEPT !.parent = 1] \in Process
    BY <1>2, BornType DEF Process
  <1>4. \A q \in Alive' : /\ q \in Alive /\ q # p /\ lineage'[q] = lineage[q] /\ Born(q)' = Born(q)
                          /\ proc'[q].parent = IF proc[q].parent = p THEN 1 ELSE proc[q].parent
    <2> SUFFICES ASSUME NEW q \in Alive'
                 PROVE /\ q \in Alive /\ q # p /\ lineage'[q] = lineage[q] /\ Born(q)' = Born(q)
                       /\ proc'[q].parent = IF proc[q].parent = p THEN 1 ELSE proc[q].parent
      OBVIOUS
    <2>1. q \in Pids /\ q \in Alive /\ q # p
      BY <1>1 DEF Alive
    <2>2. proc[q] \in Process
      BY <1>2, <2>1, BornType
    <2>3. proc'[q] = IF proc[q].parent = p THEN [proc[q] EXCEPT !.parent = 1] ELSE proc[q]
      BY <1>1, <2>1 DEF Alive
    <2>4. proc'[q].start = proc[q].start /\ proc'[q].parent = IF proc[q].parent = p THEN 1 ELSE proc[q].parent
      BY <2>2, <2>3 DEF Process
    <2>5. lineage'[q] = lineage[q]
      BY <1>1, <1>2, <2>1 DEF ProcType
    <2>6. QED
      BY <2>1, <2>4, <2>5 DEF Born
  <1>5. ProcType'
    <2>1. proc' \in [Pids -> Process \cup {NoProcess}]
      BY <1>1, <1>2, <1>3 DEF ProcType, Alive
    <2>2. lineage' \in [Pids -> Seq(Identity)]
      BY <1>1, <1>2 DEF ProcType
    <2>3. QED
      BY <1>1, <1>2, <2>1, <2>2 DEF ProcType
  <1>6. \A q \in Alive : q # p => q \in Alive'
    <2> SUFFICES ASSUME NEW q \in Alive, q # p PROVE proc'[q] # NoProcess
      BY DEF Alive
    <2>1. proc'[q] \in Process
      BY <1>1, <1>2, <1>3, BornType DEF Alive
    <2>2. QED
      BY <2>1, NoProcessIsNone
  <1>7. TreeInv'
    <2> SUFFICES ASSUME NEW q \in Alive', proc'[q].parent \in Pids
                 PROVE  /\ proc'[q].parent \in Alive'
                        /\ lineage'[q] = <<Born(proc[q].parent)'>> \o lineage'[proc'[q].parent]
      BY DEF TreeInv
    <2>1. proc'[q].parent = proc[q].parent /\ proc[q].parent # p /\ q \in Alive
          /\ lineage'[q] = lineage[q]
      BY <1>4, PidAssumption
    <2>2. proc[q].parent \in Alive /\ lineage[q] = <<Born(proc[q].parent)>> \o lineage[proc[q].parent]
      BY <1>2, <2>1 DEF TreeInv
    <2>3. QED
      BY <1>4, <1>6, <2>1, <2>2
  <1>8. QED
    BY <1>1, <1>4, <1>5, <1>7, ProcessWalk

\* The parts of a walk that is under way.
LEMMA WalkParts ==
    ASSUME PeersInv, walk # NoWalk
    PROVE  /\ Path(walk) \in Seq(Identity) /\ Len(Path(walk)) = Len(walk.lineage) + 1
           /\ Path(walk)[1] = walk.born /\ Len(walk.lineage) \in Nat
           /\ \A k \in 1..Len(walk.lineage) : Path(walk)[k + 1] = walk.lineage[k]
           /\ Len(walk.list) \in Nat /\ Place(walk) \in Nat
  <1>1. walk.born \in Identity /\ walk.lineage \in Seq(Identity)
    BY DEF PeersInv, WalkType
  <1>2. walk.list \in Seq({walk.list[i] : i \in 1..Len(walk.list)})
    BY DEF PeersInv, WalkType
  <1>3. Len(walk.list) \in Nat
    BY <1>2
  <1>4. QED
    BY <1>1, <1>3, ConsFacts DEF Path, Place

LEMMA AskKept ==
    ASSUME PeersInv, NEW p \in Pids, NEW why \in {"bind", "validate"}, NEW policy, Ask(p, why, policy)
    PROVE  PeersInv'
  <1>1. /\ p \in Alive /\ UNCHANGED <<proc, lineage, starts>>
        /\ walk' = [why |-> why, peer |-> p, user |-> proc[p].user, policy |-> policy,
                    at |-> p, info |-> NoProcess, list |-> <<>>,
                    born |-> Born(p), lineage |-> lineage[p]]
    BY DEF Ask
  <1>2. Born(p) \in Identity /\ lineage[p] \in Seq(Identity)
    BY <1>1, BornType DEF PeersInv
  <1>3. WalkType'
    BY <1>1, <1>2 DEF WalkType
  <1>4. /\ Path(walk)' = <<Born(p)>> \o lineage[p] /\ Place(walk)' = 1
        /\ walk'.at = p /\ walk'.info = NoProcess /\ Len(walk'.list) = 0
    BY <1>1 DEF Path, Place
  <1>5. /\ Len(Path(walk)') = Len(lineage[p]) + 1 /\ Path(walk)'[1] = Born(p)
        /\ Len(lineage[p]) \in Nat
        /\ \A k \in 1..Len(lineage[p]) : Path(walk)'[k + 1] = lineage[p][k]
    BY <1>2, <1>4, ConsFacts
  <1>6. Stands(p, Path(walk)', 1)
    BY <1>5 DEF Stands
  <1>7. Stands(walk.at, Path(walk), Place(walk))'
    BY <1>1, <1>4, <1>6 DEF Stands, Born
  <1>8. WalkInv'
    BY <1>4, <1>7 DEF WalkInv
  <1>9. QED
    BY <1>1, <1>3, <1>8 DEF PeersInv, ProcType, TreeInv, Alive, Born

LEMMA InspectKept == ASSUME PeersInv, Inspect PROVE PeersInv'
  <1>1. /\ walk # NoWalk /\ walk.at # 0 /\ walk.info = NoProcess /\ UNCHANGED <<proc, lineage, starts>>
        /\ walk.at \in Alive /\ walk' = [walk EXCEPT !.info = proc[walk.at]]
    BY DEF Inspect, Walking
  <1>2. walk = [why |-> walk.why, peer |-> walk.peer, user |-> walk.user, policy |-> walk.policy,
                   at |-> walk.at, info |-> walk.info, list |-> walk.list, born |-> walk.born,
                   lineage |-> walk.lineage]
    BY <1>1 DEF PeersInv, WalkType
  <1>3. /\ walk.why \in {"bind", "validate"}
        /\ walk.at \in Pids \cup {0} /\ walk.at # 0
        /\ walk.list \in Seq({walk.list[i] : i \in 1..Len(walk.list)})
        /\ walk.born \in Identity /\ walk.lineage \in Seq(Identity)
    BY <1>1 DEF PeersInv, WalkType
  <1>4. ProcType' /\ TreeInv' /\ Alive' = Alive
    BY <1>1 DEF PeersInv, ProcType, TreeInv, Alive, Born
  <1>5. walk' = [why |-> walk.why, peer |-> walk.peer, user |-> walk.user, policy |-> walk.policy,
                 at |-> walk.at, info |-> proc[walk.at], list |-> walk.list, born |-> walk.born,
                 lineage |-> walk.lineage]
    BY <1>1, <1>2
  <1>6. proc[walk.at] \in Process
    BY <1>1, BornType DEF PeersInv
  <1>7. WalkType'
    <2>1. /\ walk'.why = walk.why /\ walk'.at = walk.at /\ walk'.info = proc[walk.at]
          /\ walk'.list = walk.list /\ walk'.born = walk.born /\ walk'.lineage = walk.lineage
          /\ walk'.peer = walk.peer /\ walk'.user = walk.user /\ walk'.policy = walk.policy
      BY <1>5
    <2>2. walk' # NoWalk => /\ walk'.why \in {"bind", "validate"} /\ walk'.at \in Pids \cup {0}
                            /\ walk'.info \in Process \cup {NoProcess} /\ walk'.at # 0
      BY <1>3, <1>6, <2>1
    <2>3. QED
      BY <1>3, <1>5, <2>1, <2>2 DEF WalkType
  <1>8. /\ Path(walk)' = Path(walk) /\ Place(walk)' = Place(walk) /\ walk'.list = walk.list
        /\ walk'.at = walk.at /\ walk'.info = proc[walk.at]
    BY <1>5 DEF Path, Place
  <1>9. /\ Stands(walk.at, Path(walk), Place(walk))
        /\ \A i \in 1..Len(walk.list) :
              i \in 1..Len(Path(walk)) /\ Identified(walk.list[i]) = Path(walk)[i]
    BY <1>1 DEF PeersInv, WalkInv
  <1>10. proc[walk.at].parent \in Alive => Stands(proc[walk.at].parent, Path(walk), Place(walk) + 1)
    BY <1>1, <1>9, StandsUp, WalkParts DEF PeersInv, Alive
  <1>11. /\ Place(walk) \in 1..Len(Path(walk))
         /\ Path(walk)[Place(walk)] = [pid |-> walk.at, start |-> proc[walk.at].start]
    BY <1>9 DEF Stands, Born
  <1>12. WalkInv'
    <2>1. Stands(walk.at, Path(walk), Place(walk))'
      BY <1>1, <1>8, <1>9 DEF Stands, Born
    <2>2. proc[walk.at].parent \in Alive' => Stands(walk.info.parent, Path(walk), Place(walk) + 1)'
      BY <1>1, <1>4, <1>8, <1>10 DEF Stands, Born
    <2>3. QED
      BY <1>4, <1>8, <1>9, <1>11, <2>1, <2>2 DEF WalkInv
  <1>13. QED
    BY <1>4, <1>7, <1>12 DEF PeersInv

LEMMA CannotInspectKept == ASSUME PeersInv, CannotInspect PROVE PeersInv'
  <1>1. /\ walk # NoWalk /\ walk.at # 0 /\ UNCHANGED <<proc, lineage, starts>>
        /\ walk' = [walk EXCEPT !.at = 0, !.info = NoProcess]
    BY DEF CannotInspect, Walking
  <1>2. walk = [why |-> walk.why, peer |-> walk.peer, user |-> walk.user, policy |-> walk.policy,
                   at |-> walk.at, info |-> walk.info, list |-> walk.list, born |-> walk.born,
                   lineage |-> walk.lineage]
    BY <1>1 DEF PeersInv, WalkType
  <1>3. /\ walk.why \in {"bind", "validate"}
        /\ walk.list \in Seq({walk.list[i] : i \in 1..Len(walk.list)})
        /\ walk.born \in Identity /\ walk.lineage \in Seq(Identity)
    BY <1>1 DEF PeersInv, WalkType
  <1>4. ProcType' /\ TreeInv' /\ Alive' = Alive /\ 0 \notin Alive
    BY <1>1, PidAssumption DEF PeersInv, ProcType, TreeInv, Alive, Born
  <1>5. walk' = [why |-> walk.why, peer |-> walk.peer, user |-> walk.user, policy |-> walk.policy,
                   at |-> 0, info |-> NoProcess, list |-> walk.list, born |-> walk.born,
                   lineage |-> walk.lineage]
    BY <1>1, <1>2
  <1>6. /\ walk'.why = walk.why /\ walk'.at = 0 /\ walk'.info = NoProcess
        /\ walk'.list = walk.list /\ walk'.born = walk.born /\ walk'.lineage = walk.lineage
        /\ walk'.peer = walk.peer /\ walk'.user = walk.user /\ walk'.policy = walk.policy
    BY <1>5
  <1>7. WalkType'
    BY <1>3, <1>5, <1>6 DEF WalkType
  <1>8. Path(walk)' = Path(walk)
    BY <1>6 DEF Path
  <1>9. WalkInv'
    BY <1>1, <1>4, <1>6, <1>8 DEF WalkInv, PeersInv
  <1>10. QED
    BY <1>4, <1>7, <1>9 DEF PeersInv

LEMMA InspectPathKept == ASSUME PeersInv, InspectPath PROVE PeersInv'
  <1> DEFINE e == [pid |-> walk.at, user |-> walk.info.user, start |-> walk.info.start,
                   exe |-> proc[walk.at].exe]
  <1>1. /\ walk # NoWalk /\ walk.at # 0 /\ walk.info # NoProcess /\ UNCHANGED <<proc, lineage, starts>>
        /\ \E at \in {0, walk.info.parent} :
              /\ at # 0 => ~(walk.info.parent <= 1)
              /\ walk' = [walk EXCEPT !.list = Append(@, e), !.at = at, !.info = NoProcess]
    BY DEF InspectPath, Walking
  <1>2. walk = [why |-> walk.why, peer |-> walk.peer, user |-> walk.user, policy |-> walk.policy,
                   at |-> walk.at, info |-> walk.info, list |-> walk.list, born |-> walk.born,
                   lineage |-> walk.lineage]
    BY <1>1 DEF PeersInv, WalkType
  <1>3. /\ walk.why \in {"bind", "validate"}
        /\ walk.at \in Pids \cup {0} /\ walk.info \in Process
        /\ walk.list \in Seq({walk.list[i] : i \in 1..Len(walk.list)})
        /\ walk.born \in Identity /\ walk.lineage \in Seq(Identity)
    BY <1>1 DEF PeersInv, WalkType
  <1>4. ProcType' /\ TreeInv' /\ Alive' = Alive /\ 0 \notin Alive
    BY <1>1, PidAssumption DEF PeersInv, ProcType, TreeInv, Alive, Born
  <1>6. ASSUME NEW at \in {0, walk.info.parent}, at # 0 => ~(walk.info.parent <= 1),
               walk' = [walk EXCEPT !.list = Append(@, e), !.at = at, !.info = NoProcess]
        PROVE  PeersInv'
    <2> DEFINE list == Append(walk.list, e)
    <2>1. walk' = [why |-> walk.why, peer |-> walk.peer, user |-> walk.user, policy |-> walk.policy,
                   at |-> at, info |-> NoProcess, list |-> list, born |-> walk.born,
                   lineage |-> walk.lineage]
      BY <1>2, <1>6
    <2>2. /\ Len(list) = Len(walk.list) + 1 /\ Len(walk.list) \in Nat
          /\ list[Len(walk.list) + 1] = e
          /\ \A i \in 1..Len(walk.list) : list[i] = walk.list[i]
      BY <1>3
    <2>3. list \in Seq({list[i] : i \in 1..Len(list)})
      <3>1. list \in Seq({walk.list[i] : i \in 1..Len(walk.list)} \cup {e})
        BY <1>3
      <3>2. DOMAIN list = 1..Len(list) /\ Len(list) \in Nat
        BY <3>1
      <3> HIDE DEF list
      <3>3. QED
        BY <3>1, <3>2
    <2> HIDE DEF list
    <2>4. /\ walk'.why = walk.why /\ walk'.at = at /\ walk'.info = NoProcess
          /\ walk'.list = list /\ walk'.born = walk.born /\ walk'.lineage = walk.lineage
          /\ walk'.peer = walk.peer /\ walk'.user = walk.user /\ walk'.policy = walk.policy
      BY <2>1
    <2>5. at \in Pids \cup {0}
      BY <1>3, <1>6 DEF Process
    <2>6. WalkType'
      BY <1>3, <2>1, <2>3, <2>4, <2>5 DEF WalkType
    <2>7. Path(walk)' = Path(walk) /\ Place(walk)' = Place(walk) + 1
          /\ Place(walk) = Len(walk.list) + 1
      BY <2>2, <2>4 DEF Path, Place
    <2>8. /\ Place(walk) \in 1..Len(Path(walk))
          /\ Path(walk)[Place(walk)] = [pid |-> walk.at, start |-> walk.info.start]
          /\ walk.info.parent \in Alive => Stands(walk.info.parent, Path(walk), Place(walk) + 1)
          /\ \A i \in 1..Len(walk.list) :
                i \in 1..Len(Path(walk)) /\ Identified(walk.list[i]) = Path(walk)[i]
      BY <1>1 DEF PeersInv, WalkInv
    <2>9. Identified(e) = Path(walk)[Place(walk)]
      BY <2>8 DEF Identified
    <2> HIDE DEF e
    <2>10. \A i \in 1..Len(list) : i \in 1..Len(Path(walk)) /\ Identified(list[i]) = Path(walk)[i]
      <3> SUFFICES ASSUME NEW i \in 1..Len(list)
                   PROVE  i \in 1..Len(Path(walk)) /\ Identified(list[i]) = Path(walk)[i]
        OBVIOUS
      <3>1. CASE i = Len(walk.list) + 1
        BY <2>2, <2>7, <2>8, <2>9, <3>1
      <3>2. CASE i # Len(walk.list) + 1
        <4>1. i \in 1..Len(walk.list)
          BY <2>2, <3>2
        <4>2. QED
          BY <2>2, <2>8, <4>1
      <3>3. QED
        BY <3>1, <3>2
    <2>11. at \in Alive => Stands(walk.at, Path(walk), Place(walk))'
      <3> SUFFICES ASSUME at \in Alive PROVE Stands(walk.at, Path(walk), Place(walk))'
        OBVIOUS
      <3>1. at = walk.info.parent
        BY <1>4, <1>6
      <3>2. Stands(at, Path(walk), Place(walk) + 1)
        BY <2>8, <3>1
      <3>3. QED
        BY <1>1, <2>4, <2>7, <3>2 DEF Stands, Born
    <2>12. WalkInv'
      BY <1>4, <2>4, <2>7, <2>10, <2>11 DEF WalkInv
    <2>13. QED
      BY <1>4, <2>6, <2>12 DEF PeersInv
  <1>7. QED
    BY <1>1, <1>6

-----------------------------------------------------------------------------
(***************************************************************************)
(* What becomes of a walk.                                                 *)
(***************************************************************************)
\* A binding is the policy the daemon accepted, and there is none before it.
PolicyInv ==
    /\ verdict.why \in {"none", "bind", "validate"}
    /\ walk # NoWalk /\ walk.why = "bind" => GoodPolicy(walk.policy) /\ anchor = NoProcess

VerdictInv == BoundAsAsked /\ AdmittedIsDescendant

\* Whoever is met on the way up is the peer or above it.
LEMMA MetIsAbove ==
    ASSUME PeersInv, walk # NoWalk, NEW i \in 1..Len(walk.list)
    PROVE  LET b == [pid |-> walk.list[i].pid, start |-> walk.list[i].start]
           IN  /\ i = 1 => b = walk.born
               /\ i # 1 => i - 1 \in 1..Len(walk.lineage) /\ b = walk.lineage[i - 1]
  <1>1. i \in 1..Len(Path(walk)) /\ Identified(walk.list[i]) = Path(walk)[i]
    BY DEF PeersInv, WalkInv
  <1>2. CASE i = 1
    BY <1>1, <1>2, WalkParts DEF Identified
  <1>3. CASE i # 1
    <2>1. i - 1 \in 1..Len(walk.lineage) /\ (i - 1) + 1 = i
      BY <1>1, <1>3, WalkParts
    <2>2. Path(walk)[i] = walk.lineage[i - 1]
      BY <2>1, WalkParts
    <2>3. QED
      BY <1>1, <1>3, <2>1, <2>2 DEF Identified
  <1>4. QED
    BY <1>2, <1>3

LEMMA FinishBindKept == ASSUME PeersInv, PolicyInv, FinishBind PROVE BoundAsAsked'
  <1>1. /\ walk # NoWalk /\ walk.why = "bind"
        /\ \/ anchor' = anchor
           \/ \E i \in AnchorPlace(walk.policy) : anchor' = walk.list[i]
        /\ verdict' = [why |-> "bind", ok |-> anchor' # NoProcess, policy |-> walk.policy,
                       born |-> walk.born, lineage |-> walk.lineage]
    BY DEF FinishBind, Ended
  <1> SUFFICES ASSUME verdict'.ok
               PROVE  /\ InSeq(Bound, verdict.lineage)'
                      /\ verdict'.policy.mode = "ancestor"
                            => verdict'.lineage[verdict'.policy.depth] = Bound'
    BY DEF BoundAsAsked
  <1>2. GoodPolicy(walk.policy) /\ anchor = NoProcess
    BY <1>1 DEF PolicyInv
  <1>3. PICK i \in AnchorPlace(walk.policy) : anchor' = walk.list[i]
    BY <1>1, <1>2
  <1>4. Len(walk.list) \in Nat
    BY <1>1, WalkParts
  <1>5. i \in 2..Len(walk.list)
    BY <1>2, <1>3, <1>4 DEF AnchorPlace, Automatic, Nearest, Candidates, GoodPolicy
  <1>6. i - 1 \in 1..Len(walk.lineage) /\ Bound' = walk.lineage[i - 1]
    BY <1>1, <1>3, <1>4, <1>5, MetIsAbove DEF Bound
  <1>7. InSeq(Bound, verdict.lineage)'
    <2>1. i - 1 \in DOMAIN walk.lineage
      BY <1>1, <1>6 DEF PeersInv, WalkType
    <2>2. QED
      BY <1>1, <1>6, <2>1 DEF InSeq
  <1>8. ASSUME walk.policy.mode = "ancestor" PROVE walk.lineage[walk.policy.depth] = Bound'
    <2>1. walk.policy.depth \in Nat /\ i = walk.policy.depth + 1
      BY <1>2, <1>3, <1>8, PolicyAssumption DEF AnchorPlace, GoodPolicy
    <2>2. i - 1 = walk.policy.depth
      BY <2>1
    <2>3. QED
      BY <1>6, <2>2
  <1>9. QED
    BY <1>1, <1>7, <1>8

LEMMA FinishValidateKept == ASSUME PeersInv, FinishValidate PROVE AdmittedIsDescendant'
  <1>1. /\ walk # NoWalk /\ anchor' = anchor
        /\ verdict' = [why |-> "validate", peer |-> walk.peer,
                   ok |-> \E i \in DOMAIN walk.list : SameProcess(walk.list[i], anchor),
                   born |-> walk.born, lineage |-> walk.lineage]
    BY DEF FinishValidate, Ended
  <1> SUFFICES ASSUME verdict'.ok
               PROVE  Bound' = walk.born \/ InSeq(Bound', walk.lineage)
    BY <1>1 DEF AdmittedIsDescendant, InSeq
  <1>2. PICK i \in DOMAIN walk.list : SameProcess(walk.list[i], anchor)
    BY <1>1
  <1>3. i \in 1..Len(walk.list) /\ DOMAIN walk.lineage = 1..Len(walk.lineage)
    BY <1>1 DEF PeersInv, WalkType
  <1>4. Bound' = [pid |-> walk.list[i].pid, start |-> walk.list[i].start]
    BY <1>1, <1>2 DEF Bound, SameProcess
  <1>5. QED
    BY <1>1, <1>3, <1>4, MetIsAbove DEF InSeq

LEMMA ProcessesKept ==
    ASSUME PeersInv, PolicyInv, VerdictInv, Processes
    PROVE  PeersInv' /\ PolicyInv' /\ VerdictInv'
  <1>1. PICK p \in Pids : Fork(p) \/ Exec(p) \/ Exit(p)
    BY DEF Processes
  <1>2. PeersInv'
    BY <1>1, ForkKept, ExecKept, ExitKept
  <1>3. UNCHANGED <<walk, anchor, verdict>>
    BY <1>1 DEF Fork, Exec, Exit
  <1>4. PolicyInv' /\ VerdictInv'
    BY <1>3 DEF PolicyInv, VerdictInv, BoundAsAsked, AdmittedIsDescendant, Bound, InSeq
  <1>5. QED
    BY <1>2, <1>4

LEMMA WalkEnds ==
    ASSUME PeersInv, walk' = NoWalk, UNCHANGED <<proc, lineage, starts>>
    PROVE  PeersInv'
  BY DEF PeersInv, ProcType, TreeInv, WalkType, WalkInv, Alive, Born

LEMMA BindSessionPeerKept ==
    ASSUME PeersInv, PolicyInv, VerdictInv, NEW p \in Pids, NEW policy, GoodPolicy(policy),
           BindSessionPeer(p, policy)
    PROVE  PeersInv' /\ PolicyInv' /\ VerdictInv'
  <1>1. PeersInv'
    BY AskKept DEF BindSessionPeer
  <1>2. walk'.policy = policy /\ anchor = NoProcess /\ UNCHANGED <<anchor, verdict>>
    BY DEF BindSessionPeer, Ask
  <1>3. PolicyInv' /\ VerdictInv'
    BY <1>2 DEF PolicyInv, VerdictInv, BoundAsAsked, AdmittedIsDescendant, Bound, InSeq, GoodPolicy
  <1>4. QED
    BY <1>1, <1>3

LEMMA AuthorizerKept ==
    ASSUME PeersInv, PolicyInv, VerdictInv, Authorizer
    PROVE  PeersInv' /\ PolicyInv' /\ VerdictInv'
  <1>1. ASSUME UNCHANGED <<anchor, verdict>>
        PROVE  VerdictInv'
    BY <1>1 DEF VerdictInv, BoundAsAsked, AdmittedIsDescendant, Bound, InSeq
  <1>2. CASE Inspect \/ InspectPath \/ CannotInspect
    <2>1. PeersInv' /\ UNCHANGED <<anchor, verdict>> /\ walk # NoWalk
      BY <1>2, InspectKept, InspectPathKept, CannotInspectKept
         DEF Inspect, InspectPath, CannotInspect, Walking
    <2>2. walk = [why |-> walk.why, peer |-> walk.peer, user |-> walk.user, policy |-> walk.policy,
                   at |-> walk.at, info |-> walk.info, list |-> walk.list, born |-> walk.born,
                   lineage |-> walk.lineage]
      BY <2>1 DEF PeersInv, WalkType
    <2>3. walk'.why = walk.why /\ walk'.policy = walk.policy
      BY <1>2, <2>2 DEF Inspect, InspectPath, CannotInspect
    <2>4. PolicyInv'
      BY <2>1, <2>3 DEF PolicyInv, GoodPolicy
    <2>5. QED
      BY <1>1, <2>1, <2>4
  <1>3. CASE FinishBind
    <2>1. PeersInv' /\ walk' = NoWalk /\ verdict'.why = "bind"
      BY <1>3, WalkEnds DEF FinishBind
    <2>2. QED
      BY <1>3, <2>1, FinishBindKept DEF PolicyInv, VerdictInv, AdmittedIsDescendant
  <1>4. CASE FinishValidate
    <2>1. PeersInv' /\ walk' = NoWalk /\ verdict'.why = "validate"
      BY <1>4, WalkEnds DEF FinishValidate
    <2>2. QED
      BY <1>4, <2>1, FinishValidateKept DEF PolicyInv, VerdictInv, BoundAsAsked
  <1>5. CASE Answered
    <2>1. PeersInv' /\ walk' = NoWalk /\ verdict'.why = "none"
      BY <1>5, WalkEnds DEF Answered
    <2>2. QED
      BY <2>1 DEF PolicyInv, VerdictInv, BoundAsAsked, AdmittedIsDescendant
  <1>6. CASE \E p \in Pids : ValidateSessionPeer(p)
    <2>1. PeersInv' /\ UNCHANGED <<anchor, verdict>>
      BY <1>6, AskKept DEF ValidateSessionPeer, Ask
    <2>2. walk'.why = "validate"
      BY <1>6 DEF ValidateSessionPeer, Ask
    <2>3. QED
      BY <1>1, <2>1, <2>2 DEF PolicyInv
  <1>7. QED
    BY <1>2, <1>3, <1>4, <1>5, <1>6 DEF Authorizer

LEMMA PeersInitInv == PeersInit => PeersInv /\ PolicyInv /\ VerdictInv
  <1> SUFFICES ASSUME PeersInit PROVE PeersInv /\ PolicyInv /\ VerdictInv
    OBVIOUS
  <1> DEFINE shell == [parent |-> 1, exe |-> Shell, user |-> User, start |-> 1]
  <1>1. shell \in Process /\ shell.parent = 1
    BY ExeAssumption DEF Process
  <1>2. \A p \in Pids : proc[p] \in {NoProcess, shell}
    BY DEF PeersInit
  <1>3. ProcType
    BY <1>1 DEF PeersInit, ProcType
  <1>4. \A p \in Alive : proc[p].parent \notin Pids
    BY <1>1, <1>2, PidAssumption DEF Alive
  <1>5. TreeInv
    BY <1>4 DEF TreeInv
  <1>6. WalkType /\ WalkInv /\ PolicyInv /\ VerdictInv
    BY DEF PeersInit, WalkType, WalkInv, PolicyInv, VerdictInv, BoundAsAsked, AdmittedIsDescendant
  <1>7. QED
    BY <1>3, <1>5, <1>6 DEF PeersInv

-----------------------------------------------------------------------------
(***************************************************************************)
(* Why a walk that does not meet the anchor could not: nothing it has seen *)
(* has changed but by itself, and it ends where the living end.            *)
(***************************************************************************)
\* A parent was there before its children.
StartInv ==
    \A p \in Alive :
        /\ proc[p].start \in 0..starts
        /\ proc[p].parent \in Pids => proc[proc[p].parent].start < proc[p].start

\* Above p there is q, or nobody any more.
Leads(p, q) == p \in Alive => proc[p].parent \in {q, 1}

\* Whom the walk has seen is as it was, if he is there and has not replaced himself.
Seen(e) ==
    e.pid \in Alive =>
        /\ proc[e.pid].start = e.start
        /\ e.pid \notin replaced => proc[e.pid].user = e.user /\ proc[e.pid].exe = e.exe

\* The walk has gone from parent to parent, from the peer up.
SeenInv ==
    walk # NoWalk =>
        /\ \A i \in 1..Len(walk.list) : Seen(walk.list[i])
        /\ \A i \in 1..(Len(walk.list) - 1) : Leads(walk.list[i].pid, walk.list[i + 1].pid)
        /\ walk.at # 0 /\ Len(walk.list) > 0 => Leads(walk.list[Len(walk.list)].pid, walk.at)
        /\ walk.peer = walk.born.pid
        /\ Len(walk.list) > 0 => walk.list[1].pid = walk.peer
        /\ walk.at # 0 /\ Len(walk.list) = 0 => walk.at = walk.peer

ReadInv ==
    walk # NoWalk /\ walk.info # NoProcess =>
        /\ Leads(walk.at, walk.info.parent)
        /\ walk.at \in Alive \ replaced => proc[walk.at].user = walk.info.user

\* It meets older and older ones, and so nobody twice.
OrderInv ==
    walk # NoWalk =>
        /\ walk.at \in Alive =>
              \A i \in 1..Len(walk.list) : proc[walk.at].start < walk.list[i].start
        /\ walk.info # NoProcess =>
              /\ \A i \in 1..Len(walk.list) : walk.info.start < walk.list[i].start
              /\ walk.info.parent \in Alive => proc[walk.info.parent].start < walk.info.start

\* It ends where the peer, or whoever it has seen last, is gone or has nobody above him,
\* or somebody who cannot be inspected, or at the limit.
EndInv ==
    walk # NoWalk /\ walk.at = 0 =>
        IF Len(walk.list) = 0
        THEN ~(walk.peer \in Alive \ refused /\ Born(walk.peer) = walk.born)
        ELSE \/ Len(walk.list) = MaxWalk
             \/ \E q \in refused \cup {1} : Leads(walk.list[Len(walk.list)].pid, q)

WatchInv == StartInv /\ SeenInv /\ ReadInv /\ OrderInv /\ EndInv

\* What the processes do meanwhile to one that the walk has met or may meet next.
Ages(q) ==
    /\ q \in Alive /\ proc'[q].start = proc[q].start
    /\ proc'[q].parent \in {proc[q].parent, 1}
    /\ q \in replaced' \/ (proc'[q].user = proc[q].user /\ proc'[q].exe = proc[q].exe)

LEMMA ForkAges ==
    ASSUME PeersInv, StartInv, NEW p \in Pids, Fork(p)
    PROVE  StartInv' /\ \A q \in Alive' \cap Reserved : Ages(q)
  <1>1. PICK c \in Pids \ (Alive \cup Reserved) :
          proc' = [proc EXCEPT ![c] = [proc[p] EXCEPT !.parent = p, !.start = starts + 1]]
    BY DEF Fork
  <1>2. p \in Alive /\ starts' = starts + 1
    BY DEF Fork
  <1>3. ProcType /\ TreeInv /\ proc[p] \in Process
    BY <1>2, BornType DEF PeersInv
  <1> DEFINE new == [proc[p] EXCEPT !.parent = p, !.start = starts + 1]
  <1>4. new.parent = p /\ new.start = starts + 1
    BY <1>3 DEF Process
  <1> HIDE DEF new
  <1>5. proc'[c] = new /\ \A q \in Pids \ {c} : proc'[q] = proc[q]
    BY <1>1, <1>3 DEF ProcType, new
  <1>6. \A q \in Alive' : q \in Pids /\ (q = c \/ (q # c /\ q \in Alive /\ proc'[q] = proc[q]))
    BY <1>5 DEF Alive
  <1>7. ASSUME NEW q \in Alive' PROVE
           /\ proc'[q].start \in 0..starts'
           /\ proc'[q].parent \in Pids => proc'[proc'[q].parent].start < proc'[q].start
    <2>1. starts \in Nat
      BY <1>3 DEF ProcType
    <2>2. CASE q = c
      <3>1. p \in Pids \ {c} /\ proc[p].start \in 0..starts
        BY <1>1, <1>2 DEF StartInv
      <3>2. proc'[q].start = starts + 1 /\ proc'[q].parent = p /\ proc'[p] = proc[p]
        BY <1>4, <1>5, <2>2, <3>1
      <3>3. QED
        BY <1>2, <2>1, <3>1, <3>2
    <2>3. CASE q # c
      <3>1. q \in Alive /\ proc'[q] = proc[q]
        BY <1>6, <2>3
      <3>2. ASSUME proc[q].parent \in Pids PROVE proc[q].parent \in Pids \ {c}
        BY <1>1, <1>3, <3>1, <3>2 DEF TreeInv
      <3>3. QED
        BY <1>2, <1>5, <2>1, <3>1, <3>2 DEF StartInv
    <2>4. QED
      BY <2>2, <2>3
  <1>8. StartInv'
    BY <1>7 DEF StartInv
  <1>9. \A q \in Alive' \cap Reserved : Ages(q)
    BY <1>6 DEF Ages
  <1>10. QED
    BY <1>8, <1>9

LEMMA ExecAges ==
    ASSUME PeersInv, StartInv, NEW p \in Pids, Exec(p)
    PROVE  StartInv' /\ (walk # NoWalk => \A q \in Alive' : Ages(q))
  <1>1. PICK exe \in Exes, user \in {proc[p].user, Root} :
          proc' = [proc EXCEPT ![p].exe = exe, ![p].user = user]
    BY DEF Exec
  <1>2. /\ p \in Alive /\ starts' = starts
        /\ replaced' = IF walk = NoWalk THEN replaced ELSE replaced \cup {p}
    BY DEF Exec
  <1>3. ProcType /\ proc[p] \in Process
    BY <1>2, BornType DEF PeersInv
  <1> DEFINE new == [proc[p] EXCEPT !.exe = exe, !.user = user]
  <1>4. new.parent = proc[p].parent /\ new.start = proc[p].start
    BY <1>3 DEF Process
  <1>5. proc' = [proc EXCEPT ![p] = new]
    BY <1>1, <1>3 DEF ProcType, new
  <1> HIDE DEF new
  <1>6. /\ \A q \in Pids : proc'[q].parent = proc[q].parent /\ proc'[q].start = proc[q].start
        /\ \A q \in Pids \ {p} : proc'[q] = proc[q]
    BY <1>3, <1>4, <1>5 DEF ProcType
  <1>7. \A q \in Alive' : q \in Alive /\ q \in Pids
    BY <1>2, <1>6 DEF Alive
  <1>8. StartInv'
    BY <1>2, <1>6, <1>7 DEF StartInv
  <1>9. ASSUME walk # NoWalk, NEW q \in Alive' PROVE Ages(q)
    <2>1. q \in Alive /\ q \in Pids /\ proc'[q].start = proc[q].start /\ proc'[q].parent = proc[q].parent
      BY <1>6, <1>7
    <2>2. CASE q = p
      <3>1. q \in replaced'
        BY <1>2, <1>9, <2>2
      <3>2. QED
        BY <2>1, <3>1 DEF Ages
    <2>3. CASE q # p
      <3>1. proc'[q] = proc[q]
        BY <1>6, <2>1, <2>3
      <3>2. QED
        BY <2>1, <3>1 DEF Ages
    <2>4. QED
      BY <2>2, <2>3
  <1>10. QED
    BY <1>8, <1>9

LEMMA ExitAges ==
    ASSUME PeersInv, StartInv, NEW p \in Pids, Exit(p)
    PROVE  StartInv' /\ \A q \in Alive' : Ages(q)
  <1>1. /\ proc' = [q \in Pids |-> IF q = p \/ proc[q] = NoProcess THEN NoProcess
                               ELSE IF proc[q].parent = p THEN [proc[q] EXCEPT !.parent = 1]
                               ELSE proc[q]]
        /\ starts' = starts
    BY DEF Exit
  <1>2. ProcType
    BY DEF PeersInv
  <1>3. ASSUME NEW q \in Alive'
        PROVE  /\ q \in Alive /\ q \in Pids
               /\ proc'[q].parent = IF proc[q].parent = p THEN 1 ELSE proc[q].parent
               /\ proc'[q].start = proc[q].start /\ proc'[q].user = proc[q].user /\ proc'[q].exe = proc[q].exe
    <2>1. q \in Pids /\ q \in Alive /\ q # p
      BY <1>1 DEF Alive
    <2>2. proc[q] \in Process
      BY <1>2, <2>1, BornType
    <2>3. proc'[q] = IF proc[q].parent = p THEN [proc[q] EXCEPT !.parent = 1] ELSE proc[q]
      BY <1>1, <2>1 DEF Alive
    <2>4. QED
      BY <2>1, <2>2, <2>3 DEF Process
  <1>4. \A q \in Alive' : Ages(q)
    BY <1>3 DEF Ages
  <1>5. ASSUME NEW q \in Alive', proc'[q].parent \in Pids
        PROVE  proc'[proc'[q].parent].start < proc'[q].start
    <2>1. proc'[q].parent = proc[q].parent /\ proc[q].parent # p /\ q \in Alive
      BY <1>3, <1>5, PidAssumption
    <2>2. proc[proc[q].parent].start < proc[q].start /\ proc[q].parent \in Alive
      BY <1>5, <2>1 DEF StartInv, PeersInv, TreeInv
    <2>3. proc'[proc[q].parent].start = proc[proc[q].parent].start
      <3>1. PICK r \in Alive : r = proc[q].parent
        BY <2>2
      <3>2. r # p /\ r \in Pids /\ proc[r] # NoProcess /\ proc[r] \in Process
        BY <1>2, <2>1, <3>1, BornType DEF Alive
      <3>3. proc'[r] = IF proc[r].parent = p THEN [proc[r] EXCEPT !.parent = 1] ELSE proc[r]
        BY <1>1, <3>2
      <3>4. proc'[r].start = proc[r].start
        BY <3>2, <3>3 DEF Process
      <3>5. QED
        BY <3>1, <3>4
    <2>4. QED
      BY <1>3, <2>1, <2>2, <2>3
  <1>6. StartInv'
    BY <1>1, <1>3, <1>5 DEF StartInv
  <1>7. QED
    BY <1>4, <1>6

\* Whatever the processes do, the walk remains right about whom it has met.
LEMMA AgesWatched ==
    ASSUME PeersInv, SeenInv, ReadInv, OrderInv, EndInv, walk # NoWalk, walk' = walk,
           replaced \subseteq replaced', refused' = refused,
           \A q \in Alive' \cap Reserved : Ages(q)
    PROVE  SeenInv' /\ ReadInv' /\ OrderInv' /\ EndInv'
  <1>1. Len(walk.list) \in Nat /\ DOMAIN walk.list = 1..Len(walk.list)
    <2>1. walk.list \in Seq({walk.list[i] : i \in 1..Len(walk.list)})
      BY DEF PeersInv, WalkType
    <2>2. QED
      BY <2>1
  <1>2. /\ \A i \in 1..Len(walk.list) : walk.list[i].pid \in Reserved
        /\ walk.at \in Reserved /\ walk.peer \in Reserved
        /\ walk.info # NoProcess => walk.info.parent \in Reserved
    BY <1>1 DEF Reserved
  <1>3. \A q \in Reserved : q \in Alive' =>
           /\ q \in Alive /\ proc'[q].start = proc[q].start
           /\ proc'[q].parent \in {proc[q].parent, 1}
           /\ q \in replaced' \/ (proc'[q].user = proc[q].user /\ proc'[q].exe = proc[q].exe)
    BY DEF Ages
  <1>4. \A q \in Reserved : \A r : Leads(q, r) => Leads(q, r)'
    BY <1>3 DEF Leads
  <1>5. ASSUME NEW i \in 1..Len(walk.list) PROVE Seen(walk.list[i])'
    <2>1. Seen(walk.list[i])
      BY <1>5 DEF SeenInv
    <2> PICK e : e = walk.list[i]
      OBVIOUS
    <2>2. e.pid \in Reserved /\ Seen(e)
      BY <1>2, <2>1
    <2>3. Seen(e)'
      BY <1>3, <2>2 DEF Seen
    <2>4. QED
      BY <2>3 DEF Seen
  <1>6. SeenInv'
    <2>1. /\ \A i \in 1..(Len(walk.list) - 1) : Leads(walk.list[i].pid, walk.list[i + 1].pid)'
          /\ walk.at # 0 /\ Len(walk.list) > 0 => Leads(walk.list[Len(walk.list)].pid, walk.at)'
      <3>1. ASSUME NEW i \in 1..(Len(walk.list) - 1)
            PROVE  Leads(walk.list[i].pid, walk.list[i + 1].pid)'
        <4>1. walk.list[i].pid \in Reserved /\ Leads(walk.list[i].pid, walk.list[i + 1].pid)
          BY <1>1, <1>2 DEF SeenInv
        <4>2. QED
          BY <1>4, <4>1 DEF Leads
      <3>2. ASSUME walk.at # 0, Len(walk.list) > 0
            PROVE  Leads(walk.list[Len(walk.list)].pid, walk.at)'
        <4>1. walk.list[Len(walk.list)].pid \in Reserved /\ Leads(walk.list[Len(walk.list)].pid, walk.at)
          BY <1>1, <1>2, <3>2 DEF SeenInv
        <4>2. QED
          BY <1>4, <4>1 DEF Leads
      <3>3. QED
        BY <3>1, <3>2
    <2>2. QED
      BY <1>5, <2>1 DEF SeenInv, Seen, Leads
  <1>7. ReadInv'
    <2> SUFFICES ASSUME walk.info # NoProcess
                 PROVE  /\ Leads(walk.at, walk.info.parent)'
                        /\ walk.at \in Alive' \ replaced' => proc'[walk.at].user = walk.info.user
      BY DEF ReadInv, Leads
    <2>1. Leads(walk.at, walk.info.parent)'
      BY <1>2, <1>4 DEF ReadInv, Leads
    <2>2. walk.at \in Alive' \ replaced' => proc'[walk.at].user = walk.info.user
      BY <1>2, <1>3 DEF ReadInv
    <2>3. QED
      BY <2>1, <2>2
  <1>8. OrderInv'
    <2>1. walk.at \in Alive' => walk.at \in Alive /\ proc'[walk.at].start = proc[walk.at].start
      BY <1>2, <1>3
    <2>2. walk.info # NoProcess /\ walk.info.parent \in Alive'
             => walk.info.parent \in Alive /\ proc'[walk.info.parent].start = proc[walk.info.parent].start
      BY <1>2, <1>3
    <2>3. QED
      BY <2>1, <2>2 DEF OrderInv
  <1>9. EndInv'
    <2> SUFFICES ASSUME walk.at = 0
                 PROVE  IF Len(walk.list) = 0
                        THEN ~(walk.peer \in Alive' \ refused /\ Born(walk.peer)' = walk.born)
                        ELSE \/ Len(walk.list) = MaxWalk
                             \/ \E q \in refused \cup {1} : Leads(walk.list[Len(walk.list)].pid, q)'
      BY DEF EndInv, Leads, Born
    <2>1. CASE Len(walk.list) = 0
      BY <1>2, <1>3, <2>1 DEF EndInv, Born
    <2>2. CASE Len(walk.list) # 0
      <3>1. walk.list[Len(walk.list)].pid \in Reserved
        BY <1>1, <1>2, <2>2
      <3>2. QED
        BY <1>4, <2>2, <3>1 DEF EndInv, Leads
    <2>3. QED
      BY <2>1, <2>2
  <1>10. QED
    BY <1>6, <1>7, <1>8, <1>9

\* Without a walk there is nothing to be right about.
LEMMA NobodyWatched ==
    ASSUME walk' = NoWalk
    PROVE  SeenInv' /\ ReadInv' /\ OrderInv' /\ EndInv'
  BY DEF SeenInv, ReadInv, OrderInv, EndInv

LEMMA ProcessesWatched ==
    ASSUME PeersInv, WatchInv, Processes
    PROVE  WatchInv'
  <1>1. PICK p \in Pids : Fork(p) \/ Exec(p) \/ Exit(p)
    BY DEF Processes
  <1>2. walk' = walk /\ replaced \subseteq replaced' /\ refused' = refused
    BY <1>1 DEF Fork, Exec, Exit
  <1>3. StartInv'
    BY <1>1, ForkAges, ExecAges, ExitAges DEF WatchInv
  <1>4. CASE walk = NoWalk
    BY <1>2, <1>3, <1>4, NobodyWatched DEF WatchInv
  <1>5. CASE walk # NoWalk
    <2>1. \A q \in Alive' \cap Reserved : Ages(q)
      BY <1>1, <1>5, ForkAges, ExecAges, ExitAges DEF WatchInv
    <2>2. QED
      BY <1>2, <1>3, <1>5, <2>1, AgesWatched DEF WatchInv
  <1>6. QED
    BY <1>4, <1>5

LEMMA AskWatched ==
    ASSUME PeersInv, WatchInv, NEW p \in Pids, NEW why, NEW policy, Ask(p, why, policy)
    PROVE  WatchInv'
  <1>1. /\ UNCHANGED <<proc, starts>>
        /\ walk' = [why |-> why, peer |-> p, user |-> proc[p].user, policy |-> policy,
                    at |-> p, info |-> NoProcess, list |-> <<>>,
                    born |-> Born(p), lineage |-> lineage[p]]
    BY DEF Ask
  <1>2. /\ walk'.peer = p /\ walk'.at = p /\ walk'.info = NoProcess /\ walk'.born.pid = p
        /\ walk'.list = <<>> /\ Len(walk'.list) = 0
    BY <1>1 DEF Born
  <1>3. p # 0
    BY PidAssumption
  <1>4. StartInv'
    BY <1>1 DEF WatchInv, StartInv, Alive
  <1>5. SeenInv' /\ ReadInv' /\ OrderInv' /\ EndInv'
    BY <1>2, <1>3 DEF SeenInv, ReadInv, OrderInv, EndInv
  <1>6. QED
    BY <1>4, <1>5 DEF WatchInv

\* The list of a walk by its name.
LEMMA AllSeen ==
    ASSUME NEW list, walk'.list = list, \A i \in 1..Len(list) : Seen(list[i])'
    PROVE  (\A i \in 1..Len(walk.list) : Seen(walk.list[i]))'
  BY DEF Seen

\* What a walk has seen stays seen while it only reads, or gives up.
LEMMA SeenStays ==
    ASSUME SeenInv, walk # NoWalk, walk'.list = walk.list, walk'.peer = walk.peer,
           walk'.born = walk.born, walk'.at \in {0, walk.at}, UNCHANGED <<proc, replaced>>
    PROVE  SeenInv'
  <1>1. (\A i \in 1..Len(walk.list) : Seen(walk.list[i]))'
    <2>1. ASSUME NEW x, Seen(x) PROVE Seen(x)'
      BY <2>1 DEF Seen, Alive
    <2>2. \A i \in 1..Len(walk.list) : Seen(walk.list[i])
      BY DEF SeenInv
    <2>3. PICK list : list = walk.list
      OBVIOUS
    <2>4. \A i \in 1..Len(list) : Seen(list[i])'
      BY <2>1, <2>2, <2>3
    <2>5. QED
      BY <2>3, <2>4, AllSeen
  <1>2. (\A i \in 1..(Len(walk.list) - 1) : Leads(walk.list[i].pid, walk.list[i + 1].pid))'
    BY DEF SeenInv, Leads, Alive
  <1>3. (walk.at # 0 /\ Len(walk.list) > 0 => Leads(walk.list[Len(walk.list)].pid, walk.at))'
    BY DEF SeenInv, Leads, Alive
  <1>4. (/\ walk.peer = walk.born.pid
         /\ Len(walk.list) > 0 => walk.list[1].pid = walk.peer
         /\ walk.at # 0 /\ Len(walk.list) = 0 => walk.at = walk.peer)'
    BY DEF SeenInv
  <1>5. QED
    BY <1>1, <1>2, <1>3, <1>4 DEF SeenInv

LEMMA CannotInspectWatched == ASSUME PeersInv, WatchInv, CannotInspect PROVE WatchInv'
  <1>1. /\ walk # NoWalk /\ walk.at # 0 /\ UNCHANGED <<proc, starts, replaced>>
        /\ walk' = [walk EXCEPT !.at = 0, !.info = NoProcess]
        /\ refused' = refused \cup ({walk.at} \cap Alive)
    BY DEF CannotInspect, Walking
  <1>2. walk = [why |-> walk.why, peer |-> walk.peer, user |-> walk.user, policy |-> walk.policy,
                   at |-> walk.at, info |-> walk.info, list |-> walk.list, born |-> walk.born,
                   lineage |-> walk.lineage]
    BY <1>1 DEF PeersInv, WalkType
  <1>3. /\ walk'.at = 0 /\ walk'.info = NoProcess /\ walk'.list = walk.list
        /\ walk'.peer = walk.peer /\ walk'.born = walk.born
    BY <1>1, <1>2
  <1>4. StartInv' /\ Alive' = Alive
    BY <1>1 DEF WatchInv, StartInv, Alive
  <1>5. SeenInv'
    BY <1>1, <1>3, SeenStays DEF WatchInv
  <1>6. ReadInv' /\ OrderInv'
    BY <1>3, <1>4, PidAssumption DEF ReadInv, OrderInv, Alive
  <1>7. EndInv'
    <2>1. CASE Len(walk.list) = 0
      <3>1. walk.peer = walk.at
        BY <1>1, <2>1 DEF WatchInv, SeenInv
      <3>2. ~(walk.peer \in Alive' \ refused')
        BY <1>1, <1>4, <3>1
      <3>3. QED
        BY <1>3, <2>1, <3>2 DEF EndInv
    <2>2. CASE Len(walk.list) # 0
      <3>1. Leads(walk.list[Len(walk.list)].pid, walk.at)
        BY <1>1, <2>2, WalkParts DEF WatchInv, SeenInv
      <3>2. PICK last : last = walk.list[Len(walk.list)].pid
        OBVIOUS
      <3>3. last \in Alive => proc[last].parent \in refused' \cup {1}
        BY <1>1, <3>1, <3>2, BornType DEF Leads, PeersInv, TreeInv, WalkType
      <3>4. \E q \in refused' \cup {1} : last \in Alive => proc[last].parent \in {q, 1}
        BY <3>3
      <3>5. QED
        BY <1>1, <1>3, <1>4, <2>2, <3>2, <3>4 DEF EndInv, Leads
    <2>3. QED
      BY <2>1, <2>2
  <1>8. QED
    BY <1>4, <1>5, <1>6, <1>7 DEF WatchInv

LEMMA InspectWatched == ASSUME PeersInv, WatchInv, Inspect PROVE WatchInv'
  <1>1. /\ walk # NoWalk /\ walk.at # 0 /\ walk.info = NoProcess /\ UNCHANGED <<proc, starts, replaced>>
        /\ walk.at \in Alive /\ walk' = [walk EXCEPT !.info = proc[walk.at]]
    BY DEF Inspect, Walking
  <1>2. walk = [why |-> walk.why, peer |-> walk.peer, user |-> walk.user, policy |-> walk.policy,
                   at |-> walk.at, info |-> walk.info, list |-> walk.list, born |-> walk.born,
                   lineage |-> walk.lineage]
    BY <1>1 DEF PeersInv, WalkType
  <1>3. StartInv' /\ Alive' = Alive
    BY <1>1 DEF WatchInv, StartInv, Alive
  <1>4. /\ walk'.list = walk.list /\ walk'.peer = walk.peer /\ walk'.born = walk.born
        /\ walk'.at = walk.at /\ walk'.info = proc[walk.at]
    BY <1>1, <1>2
  <1>5. DOMAIN walk' # DOMAIN NoWalk
    BY <1>1, <1>2 DEF NoWalk
  <1>6. SeenInv'
    BY <1>1, <1>4, SeenStays DEF WatchInv
  <1>7. ReadInv'
    BY <1>1, <1>4 DEF ReadInv, Leads
  <1>8. OrderInv'
    <2>1. \A i \in 1..Len(walk.list) : proc[walk.at].start < walk.list[i].start
      BY <1>1 DEF WatchInv, OrderInv
    <2>2. proc[walk.at].parent \in Alive => proc[proc[walk.at].parent].start < proc[walk.at].start
      BY <1>1 DEF WatchInv, StartInv, Alive
    <2>3. QED
      BY <1>1, <1>3, <1>4, <2>1, <2>2 DEF OrderInv
  <1>9. EndInv'
    BY <1>1, <1>4 DEF EndInv
  <1>10. QED
    BY <1>3, <1>6, <1>7, <1>8, <1>9 DEF WatchInv

\* The end of InspectPath where the process is there: it is added to what was seen.
LEMMA MetWatched ==
    ASSUME PeersInv, WatchInv, walk # NoWalk, walk.info # NoProcess, walk.at \in Alive,
           UNCHANGED <<proc, starts, replaced>>, NEW at \in {0, walk.info.parent},
           at = 0 => \/ walk.info.parent <= 1
                     \/ walk.info.parent \in {walk.list[i].pid : i \in 1..Len(walk.list)} \cup {walk.at}
                     \/ TooDeep,
           walk' = [walk EXCEPT !.list = Append(@, [pid |-> walk.at, user |-> walk.info.user,
                                           start |-> walk.info.start, exe |-> proc[walk.at].exe]),
                                !.at = at, !.info = NoProcess]
    PROVE  WatchInv'
  <1> PICK e : e = [pid |-> walk.at, user |-> walk.info.user, start |-> walk.info.start,
                    exe |-> proc[walk.at].exe]
    OBVIOUS
  <1> DEFINE n == Len(walk.list)
             up == walk.info.parent
  <1>1. walk = [why |-> walk.why, peer |-> walk.peer, user |-> walk.user, policy |-> walk.policy,
                   at |-> walk.at, info |-> walk.info, list |-> walk.list, born |-> walk.born,
                   lineage |-> walk.lineage]
    BY DEF PeersInv, WalkType
  <1>2. /\ walk.list \in Seq({walk.list[i] : i \in 1..Len(walk.list)})
        /\ walk.info \in Process /\ ProcType /\ TreeInv
    BY DEF PeersInv, WalkType
  <1> PICK list : list = Append(walk.list, e)
    OBVIOUS
  <1>3. /\ walk'.list = list /\ walk'.at = at /\ walk'.info = NoProcess
        /\ walk'.peer = walk.peer /\ walk'.born = walk.born
    BY <1>1
  <1>4. /\ Len(list) = n + 1 /\ n \in Nat /\ list[n + 1] = e
        /\ \A i \in 1..n : list[i] = walk.list[i]
    BY <1>2
  <1>5. /\ walk.at \in Pids /\ proc[walk.at] \in Process /\ proc[walk.at].start = walk.info.start
        /\ walk.info.start \in Nat /\ up \in Pids \cup {1}
    <2>1. walk.at \in Pids /\ proc[walk.at] \in Process
      BY <1>2, BornType
    <2>2. Path(walk)[Place(walk)] = Born(walk.at)
          /\ Path(walk)[Place(walk)] = [pid |-> walk.at, start |-> walk.info.start]
      BY DEF PeersInv, WalkInv, Stands
    <2>3. proc[walk.at].start = walk.info.start
      BY <2>2 DEF Born
    <2>4. QED
      BY <1>2, <2>1, <2>3 DEF Process
  <1>6. e.pid = walk.at /\ e.start = walk.info.start /\ e.user = walk.info.user /\ e.exe = proc[walk.at].exe
    OBVIOUS
  <1>7. Seen(e)
    BY <1>5, <1>6 DEF WatchInv, ReadInv, Seen
  <1>8. Leads(walk.at, up) /\ proc[walk.at].parent \in {up, 1}
    BY DEF WatchInv, ReadInv, Leads
  <1>9. Alive' = Alive /\ StartInv'
    BY DEF WatchInv, StartInv, Alive
  <1>10. SeenInv'
    <2>1. ASSUME NEW i \in 1..(n + 1) PROVE Seen(list[i])
      <3>1. CASE i = n + 1
        BY <1>4, <1>7, <3>1
      <3>2. CASE i # n + 1
        <4>1. i \in 1..n
          BY <1>4, <3>2
        <4>2. QED
          BY <1>4, <4>1 DEF WatchInv, SeenInv
      <3>3. QED
        BY <3>1, <3>2
    <2>2. ASSUME NEW i \in 1..n PROVE Leads(list[i].pid, list[i + 1].pid)
      <3>1. CASE i = n
        <4>1. n > 0 /\ walk.at # 0
          BY <1>4, <1>5, <3>1, PidAssumption
        <4>2. Leads(walk.list[n].pid, walk.at)
          BY <4>1 DEF WatchInv, SeenInv
        <4>3. list[n] = walk.list[n] /\ list[n + 1].pid = walk.at
          BY <1>4, <1>6, <4>1
        <4>4. QED
          BY <3>1, <4>2, <4>3
      <3>2. CASE i # n
        <4>1. i \in 1..(n - 1) /\ i + 1 \in 1..n
          BY <1>4, <3>2
        <4>2. list[i] = walk.list[i] /\ list[i + 1] = walk.list[i + 1]
          BY <1>4, <4>1
        <4>3. QED
          BY <4>1, <4>2 DEF WatchInv, SeenInv
      <3>3. QED
        BY <3>1, <3>2
    <2>3. at # 0 => Leads(list[n + 1].pid, at)
      BY <1>4, <1>6, <1>8
    <2>4. walk.peer = walk.born.pid /\ list[1].pid = walk.peer
      <3>1. CASE n = 0
        <4>1. walk.at = walk.peer /\ walk.peer = walk.born.pid
          BY <1>5, <3>1, PidAssumption DEF WatchInv, SeenInv
        <4>2. QED
          BY <1>4, <1>6, <3>1, <4>1
      <3>2. CASE n # 0
        <4>1. n > 0 /\ list[1] = walk.list[1]
          BY <1>4, <3>2
        <4>2. QED
          BY <4>1 DEF WatchInv, SeenInv
      <3>3. QED
        BY <3>1, <3>2
    <2>5. /\ \A i \in 1..Len(list) : Seen(list[i])'
          /\ \A i \in 1..(Len(list) - 1) : Leads(list[i].pid, list[i + 1].pid)'
          /\ at # 0 => Leads(list[Len(list)].pid, at)'
      <3>1. ASSUME NEW x, Seen(x) PROVE Seen(x)'
        BY <1>9, <3>1 DEF Seen
      <3>2. ASSUME NEW p, NEW q, Leads(p, q) PROVE Leads(p, q)'
        BY <1>9, <3>2 DEF Leads
      <3>3. Len(list) - 1 = n
        BY <1>4
      <3>4. QED
        BY <1>4, <2>1, <2>2, <2>3, <3>1, <3>2, <3>3
    <2>6. Len(list) # 0
      BY <1>4
    <2>7. (\A i \in 1..Len(walk.list) : Seen(walk.list[i]))'
      <3>1. walk'.list = list
        BY <1>3
      <3>2. \A i \in 1..Len(list) : Seen(list[i])'
        BY <2>5
      <3>3. QED
        BY <3>1, <3>2, AllSeen
    <2>8. (\A i \in 1..(Len(walk.list) - 1) : Leads(walk.list[i].pid, walk.list[i + 1].pid))'
      BY <1>3, <2>5 DEF Leads
    <2>9. (walk.at # 0 /\ Len(walk.list) > 0 => Leads(walk.list[Len(walk.list)].pid, walk.at))'
      BY <1>3, <2>5 DEF Leads
    <2>10. QED
      BY <1>3, <2>4, <2>6, <2>7, <2>8, <2>9 DEF SeenInv
  <1>11. ReadInv'
    BY <1>3 DEF ReadInv
  <1>12. \A i \in 1..n : walk.list[i].start \in Nat /\ walk.info.start < walk.list[i].start
    <2> SUFFICES ASSUME NEW i \in 1..n
                 PROVE  walk.list[i].start \in Nat /\ walk.info.start < walk.list[i].start
      OBVIOUS
    <2>1. i \in 1..Len(Path(walk)) /\ Identified(walk.list[i]) = Path(walk)[i]
          /\ Path(walk) \in Seq(Identity)
      BY WalkParts DEF PeersInv, WalkInv
    <2>2. Identified(walk.list[i]) \in Identity
      BY <2>1
    <2>3. QED
      BY <2>2 DEF Identity, Identified, WatchInv, OrderInv
  <1>13. up \in Alive => proc[up].start < walk.info.start /\ proc[up].start \in Nat
    BY <1>2, BornType DEF WatchInv, OrderInv, Process
  <1>14. OrderInv'
    <2> SUFFICES ASSUME at \in Alive, NEW i \in 1..(n + 1) PROVE proc[at].start < list[i].start
      BY <1>3, <1>4, <1>9 DEF OrderInv
    <2>1. at = up /\ proc[at].start < walk.info.start /\ proc[at].start \in Nat
      BY <1>13, PidAssumption DEF Alive
    <2>2. CASE i = n + 1
      BY <1>4, <1>6, <2>1, <2>2
    <2>3. CASE i # n + 1
      <3>1. i \in 1..n
        BY <1>4, <2>3
      <3>2. walk.info.start < list[i].start /\ list[i].start \in Nat
        BY <1>4, <1>12, <3>1
      <3>3. QED
        BY <1>5, <2>1, <3>2
    <2>4. QED
      BY <2>2, <2>3
  <1>15. EndInv'
    <2> SUFFICES ASSUME at = 0 PROVE n + 1 = MaxWalk \/ Leads(walk.at, 1)
      <3>1. CASE at # 0
        BY <1>3, <3>1 DEF EndInv
      <3>2. CASE n + 1 = MaxWalk
        BY <1>3, <1>4, <3>2 DEF EndInv
      <3>3. CASE Leads(walk.at, 1)
        <4>1. PICK last : last = walk.at
          OBVIOUS
        <4>2. walk'.list[Len(walk'.list)].pid = last /\ Len(walk'.list) # 0
          BY <1>3, <1>4, <1>6, <4>1
        <4>3. last \in Alive' => proc'[last].parent = 1
          BY <1>9, <3>3, <4>1 DEF Leads
        <4>4. \E q \in refused' \cup {1} : last \in Alive' => proc'[last].parent \in {q, 1}
          BY <4>3
        <4>5. QED
          BY <4>2, <4>4 DEF EndInv, Leads
      <3>4. QED
        BY <3>1, <3>2, <3>3
    <2> SUFFICES ASSUME n + 1 # MaxWalk, proc[walk.at].parent # 1 PROVE FALSE
      BY DEF Leads
    <2>1. proc[walk.at].parent = up /\ up \in Pids /\ ~(up <= 1)
      BY <1>5, <1>8, PidAssumption
    <2>2. up \in Alive /\ proc[up].start < proc[walk.at].start
      BY <1>2, <2>1 DEF TreeInv, WatchInv, StartInv
    <2>3. up \in {walk.list[i].pid : i \in 1..n} \cup {walk.at}
      BY <2>1 DEF TooDeep
    <2>4. up # walk.at
      BY <1>13, <1>5, <2>2
    <2>5. PICK i \in 1..n : up = walk.list[i].pid
      BY <2>3, <2>4
    <2>6. proc[up].start = walk.list[i].start
      BY <2>2, <2>5 DEF WatchInv, SeenInv, Seen
    <2>7. QED
      BY <1>5, <1>12, <1>13, <2>2, <2>5, <2>6
  <1>16. QED
    BY <1>9, <1>10, <1>11, <1>14, <1>15 DEF WatchInv

LEMMA InspectPathWatched == ASSUME PeersInv, WatchInv, InspectPath PROVE WatchInv'
  <1>1. /\ walk # NoWalk /\ walk.info # NoProcess /\ walk.at \in Alive
        /\ UNCHANGED <<proc, starts, replaced>>
    BY DEF InspectPath, Walking
  <1>2. DOMAIN walk.list = 1..Len(walk.list)
    <2>1. walk.list \in Seq({walk.list[i] : i \in 1..Len(walk.list)})
      BY <1>1 DEF PeersInv, WalkType
    <2>2. QED
      BY <2>1
  <1>3. PICK at \in {0, walk.info.parent} :
          /\ at = 0 => \/ walk.info.parent <= 1
                       \/ walk.info.parent \in {walk.list[i].pid : i \in 1..Len(walk.list)} \cup {walk.at}
                       \/ TooDeep
          /\ walk' = [walk EXCEPT !.list = Append(@, [pid |-> walk.at, user |-> walk.info.user,
                                         start |-> walk.info.start, exe |-> proc[walk.at].exe]),
                                  !.at = at, !.info = NoProcess]
    <2> DEFINE stops == \/ walk.info.parent <= 1
                        \/ walk.info.parent \in {walk.list[i].pid : i \in 1..Len(walk.list)} \cup {walk.at}
                        \/ TooDeep
               at == IF stops THEN 0 ELSE walk.info.parent
    <2>1. walk' = [walk EXCEPT !.list = Append(@, [pid |-> walk.at, user |-> walk.info.user,
                                         start |-> walk.info.start, exe |-> proc[walk.at].exe]),
                               !.at = at, !.info = NoProcess]
      BY <1>2 DEF InspectPath
    <2>2. at \in {0, walk.info.parent} /\ (at = 0 => stops \/ walk.info.parent <= 1)
      OBVIOUS
    <2> HIDE DEF at
    <2>3. QED
      BY <2>1, <2>2
  <1>4. QED
    BY <1>1, <1>3, MetWatched

\* Living processes that lead up from the peer are those the walk has seen.
LEMMA ConnectedAreSeen ==
    ASSUME PeersInv, WatchInv, walk # NoWalk, walk.at = 0,
           walk.peer \in Alive, Born(walk.peer) = walk.born,
           NEW n \in 1..MaxWalk, NEW c \in [1..n -> Pids \ refused], c[1] = walk.peer,
           \A i \in 1..(n - 1) : c[i] \in Alive /\ proc[c[i]].parent = c[i + 1]
    PROVE  n \in 1..Len(walk.list) /\ walk.list[n].pid = c[n]
  <1> DEFINE Met(i) == i \in 1..Len(walk.list) /\ walk.list[i].pid = c[i]
             S == {k \in Nat : k + 1 <= n => Met(k + 1)}
  <1>1. Len(walk.list) \in Nat /\ n \in Nat /\ MaxWalk \in Nat
    BY WalkParts, WalkAssumption
  <1>2. Len(walk.list) # 0 /\ walk.list[1].pid = walk.peer
    <2>1. walk.peer \notin refused
      BY <1>1
    <2>2. QED
      BY <1>1, <2>1 DEF WatchInv, EndInv, SeenInv
  <1>3. 0 \in S
    BY <1>1, <1>2
  <1>4. ASSUME NEW k \in Nat, k \in S PROVE k + 1 \in S
    <2> SUFFICES ASSUME (k + 1) + 1 <= n PROVE Met((k + 1) + 1)
      OBVIOUS
    <2> PICK i \in Nat : i = k + 1
      OBVIOUS
    <2>1. i \in 1..(n - 1) /\ i + 1 \in 1..n /\ Met(i)
      BY <1>1, <1>4
    <2>2. /\ c[i] \in Alive /\ proc[c[i]].parent = c[i + 1]
          /\ c[i + 1] \in Pids \ refused /\ c[i + 1] # 1
      BY <2>1, PidAssumption
    <2>3. CASE i = Len(walk.list)
      <3>1. Len(walk.list) # MaxWalk
        BY <1>1, <2>1, <2>3
      <3>2. \E q \in refused \cup {1} : Leads(c[i], q)
        BY <1>2, <2>1, <2>3, <3>1 DEF WatchInv, EndInv
      <3>3. QED
        BY <2>2, <3>2 DEF Leads
    <2>4. CASE i # Len(walk.list)
      <3>1. i \in 1..(Len(walk.list) - 1) /\ i + 1 \in 1..Len(walk.list)
        BY <1>1, <2>1, <2>4
      <3>2. Leads(c[i], walk.list[i + 1].pid)
        BY <2>1, <3>1 DEF WatchInv, SeenInv
      <3>3. walk.list[i + 1].pid = c[i + 1]
        BY <2>2, <3>2 DEF Leads
      <3>4. QED
        BY <3>1, <3>3
    <2>5. QED
      BY <2>3, <2>4
  <1> HIDE DEF S
  <1>5. n - 1 \in S
    <2>1. Nat \subseteq S
      BY <1>3, <1>4, SetInduction
    <2>2. n - 1 \in Nat
      BY <1>1
    <2>3. QED
      BY <2>1, <2>2
  <1>6. (n - 1) + 1 = n
    BY <1>1
  <1>7. QED
    BY <1>1, <1>5, <1>6 DEF S

LEMMA FinishIntact == ASSUME PeersInv, WatchInv, FinishValidate PROVE IntactIsAdmitted'
  <1>1. /\ walk # NoWalk /\ walk.at = 0 /\ UNCHANGED <<proc, anchor, replaced, refused>>
        /\ verdict' = [why |-> "validate", peer |-> walk.peer,
                   ok |-> \E i \in DOMAIN walk.list : SameProcess(walk.list[i], anchor),
                   born |-> walk.born, lineage |-> walk.lineage]
    BY DEF FinishValidate, Ended
  <1>2. DOMAIN walk.list = 1..Len(walk.list)
    <2>1. walk.list \in Seq({walk.list[i] : i \in 1..Len(walk.list)})
      BY <1>1 DEF PeersInv, WalkType
    <2>2. QED
      BY <2>1
  <1>3. ASSUME walk.peer \in Alive, Born(walk.peer) = walk.born,
               NEW q \in Alive \ replaced, Connected(walk.peer, q), SameProcess(Now(q), anchor)
        PROVE  \E i \in DOMAIN walk.list : SameProcess(walk.list[i], anchor)
    <2> PICK n \in 1..MaxWalk : \E c \in [1..n -> Pids \ refused] :
             /\ c[1] = walk.peer /\ c[n] = q
             /\ \A i \in 1..(n - 1) : c[i] \in Alive /\ proc[c[i]].parent = c[i + 1]
      BY <1>3 DEF Connected
    <2>1. PICK c \in [1..n -> Pids \ refused] :
             /\ c[1] = walk.peer /\ c[n] = q
             /\ \A i \in 1..(n - 1) : c[i] \in Alive /\ proc[c[i]].parent = c[i + 1]
      OBVIOUS
    <2>2. n \in 1..Len(walk.list) /\ walk.list[n].pid = q
      BY <1>1, <1>3, <2>1, ConnectedAreSeen
    <2>3. Seen(walk.list[n])
      BY <1>1, <2>2 DEF WatchInv, SeenInv
    <2>4. /\ walk.list[n].start = proc[q].start /\ walk.list[n].user = proc[q].user
          /\ walk.list[n].exe = proc[q].exe
      BY <2>2, <2>3 DEF Seen
    <2>5. SameProcess(walk.list[n], anchor)
      BY <1>3, <2>2, <2>4 DEF SameProcess, Now
    <2>6. QED
      BY <1>2, <2>2, <2>5
  <1>4. ASSUME ~verdict'.ok, verdict'.peer \in Alive, Born(verdict'.peer) = verdict'.born,
               NEW q \in Alive \ replaced, Connected(verdict'.peer, q), SameProcess(Now(q), anchor)
        PROVE  FALSE
    BY <1>1, <1>3, <1>4
  <1>5. ~verdict'.ok /\ verdict'.peer \in Alive /\ Born(verdict'.peer) = verdict'.born
        => \A q \in Alive \ replaced : Connected(verdict'.peer, q) => ~SameProcess(Now(q), anchor)
    BY <1>4
  <1>6. /\ Alive' = Alive /\ \A q : Now(q)' = Now(q) /\ Born(verdict.peer)' = Born(verdict'.peer)
        /\ \A q : Connected(verdict.peer, q)' = Connected(verdict'.peer, q)
    BY <1>1 DEF Alive, Born, Now, Connected
  <1>7. QED
    BY <1>1, <1>5, <1>6 DEF IntactIsAdmitted, SameProcess

\* Of what IntactIsAdmitted speaks of nothing has changed, unless one more could not be
\* inspected.
LEMMA IntactStays ==
    ASSUME IntactIsAdmitted, refused \subseteq refused', UNCHANGED <<proc, replaced, anchor, verdict>>
    PROVE  IntactIsAdmitted'
  <1>1. ASSUME NEW p, NEW q, Connected(p, q)' PROVE Connected(p, q)
    <2>1. PICK n \in 1..MaxWalk : \E c \in [1..n -> Pids \ refused'] :
             /\ c[1] = p /\ c[n] = q
             /\ \A i \in 1..(n - 1) : c[i] \in Alive /\ proc[c[i]].parent = c[i + 1]
      BY <1>1 DEF Connected, Alive
    <2>2. PICK c \in [1..n -> Pids \ refused'] :
             /\ c[1] = p /\ c[n] = q
             /\ \A i \in 1..(n - 1) : c[i] \in Alive /\ proc[c[i]].parent = c[i + 1]
      BY <2>1
    <2>3. c \in [1..n -> Pids \ refused]
      OBVIOUS
    <2>4. QED
      BY <2>2, <2>3 DEF Connected
  <1>2. ASSUME NEW q PROVE Now(q)' = Now(q) /\ Born(q)' = Born(q)
    BY DEF Now, Born
  <1>3. Alive' = Alive
    BY DEF Alive
  <1>4. ASSUME verdict.why = "validate", ~verdict.ok, verdict.peer \in Alive,
               Born(verdict.peer) = verdict.born,
               NEW q \in Alive \ replaced, Connected(verdict.peer, q)'
        PROVE  ~SameProcess(Now(q), anchor)
    BY <1>1, <1>4 DEF IntactIsAdmitted
  <1>5. QED
    BY <1>1, <1>2, <1>3, <1>4 DEF IntactIsAdmitted, SameProcess

LEMMA ProcessesIntact ==
    ASSUME PeersInv, WatchInv, IntactIsAdmitted, Processes
    PROVE  WatchInv' /\ IntactIsAdmitted'
  <1>1. verdict'.why = "none"
    BY DEF Processes, Fork, Exec, Exit
  <1>2. QED
    BY <1>1, ProcessesWatched DEF IntactIsAdmitted

LEMMA BindIntact ==
    ASSUME PeersInv, WatchInv, IntactIsAdmitted, NEW p \in Pids, NEW policy, BindSessionPeer(p, policy)
    PROVE  WatchInv' /\ IntactIsAdmitted'
  <1>1. WatchInv'
    BY AskWatched DEF BindSessionPeer
  <1>2. QED
    BY <1>1, IntactStays DEF BindSessionPeer, Ask

LEMMA WalkEndsWatched ==
    ASSUME WatchInv, walk' = NoWalk, UNCHANGED <<proc, starts>>
    PROVE  WatchInv'
  <1>1. StartInv'
    BY DEF WatchInv, StartInv, Alive
  <1>2. QED
    BY <1>1, NobodyWatched DEF WatchInv

LEMMA AuthorizerIntact ==
    ASSUME PeersInv, WatchInv, IntactIsAdmitted, Authorizer
    PROVE  WatchInv' /\ IntactIsAdmitted'
  <1>1. CASE Inspect
    BY <1>1, InspectWatched, IntactStays DEF Inspect
  <1>2. CASE InspectPath
    BY <1>2, InspectPathWatched, IntactStays DEF InspectPath
  <1>3. CASE FinishBind
    <2>1. walk' = NoWalk /\ UNCHANGED <<proc, starts>> /\ verdict'.why = "bind"
      BY <1>3 DEF FinishBind
    <2>2. QED
      BY <2>1, WalkEndsWatched DEF IntactIsAdmitted
  <1>4. CASE FinishValidate
    BY <1>4, FinishIntact, WalkEndsWatched DEF FinishValidate
  <1>5. CASE Answered
    <2>1. walk' = NoWalk /\ UNCHANGED <<proc, starts>> /\ verdict'.why = "none"
      BY <1>5 DEF Answered
    <2>2. QED
      BY <2>1, WalkEndsWatched DEF IntactIsAdmitted
  <1>6. CASE \E p \in Pids : ValidateSessionPeer(p)
    <2>1. WatchInv'
      BY <1>6, AskWatched DEF ValidateSessionPeer
    <2>2. QED
      BY <1>6, <2>1, IntactStays DEF ValidateSessionPeer, Ask
  <1>7. CASE CannotInspect
    BY <1>7, CannotInspectWatched, IntactStays DEF CannotInspect
  <1>8. QED
    BY <1>1, <1>2, <1>3, <1>4, <1>5, <1>6, <1>7 DEF Authorizer

LEMMA WatchInitInv == PeersInit => WatchInv /\ IntactIsAdmitted
  <1> SUFFICES ASSUME PeersInit PROVE WatchInv /\ IntactIsAdmitted
    OBVIOUS
  <1>1. \A p \in Alive : proc[p].start = 1 /\ proc[p].parent \notin Pids
    BY PidAssumption DEF PeersInit, Alive
  <1>2. StartInv
    BY <1>1 DEF PeersInit, StartInv
  <1>3. SeenInv /\ ReadInv /\ OrderInv /\ EndInv /\ IntactIsAdmitted
    BY DEF PeersInit, SeenInv, ReadInv, OrderInv, EndInv, IntactIsAdmitted
  <1>4. QED
    BY <1>2, <1>3 DEF WatchInv

LEMMA UntouchedWatch ==
    ASSUME WatchInv, IntactIsAdmitted, UNCHANGED peerVars
    PROVE  WatchInv' /\ IntactIsAdmitted'
  <1>1. UNCHANGED <<proc, lineage, starts, walk, replaced, refused, anchor, verdict>>
    BY DEF peerVars
  <1>2. StartInv' /\ SeenInv' /\ ReadInv'
    BY <1>1 DEF WatchInv, StartInv, SeenInv, ReadInv, Seen, Leads, Alive
  <1>3. OrderInv' /\ EndInv'
    BY <1>1 DEF WatchInv, OrderInv, EndInv, Leads, Alive, Born
  <1>4. QED
    BY <1>1, <1>2, <1>3, IntactStays DEF WatchInv

-----------------------------------------------------------------------------
(***************************************************************************)
(* From the one to the other.                                              *)
(***************************************************************************)
\* What a session is to be bound by is well-formed from the moment it is accepted.
AskedInv ==
    /\ step = "accepted" /\ command = "session create" => GoodPolicy(req.bind)
    /\ asked # None => GoodPolicy(asked)

RequestsInv  == OptsInv /\ ConfigInv /\ BuilderInv /\ RequestsAreAccepted
AdmissionInv == /\ RequestsInv /\ AskedInv
                /\ PeersInv /\ PolicyInv /\ VerdictInv
                /\ WatchInv /\ IntactIsAdmitted

LEMMA AcceptedFits ==
    ASSUME RequestNext, step' = "accepted", command' = "session create"
    PROVE  GoodPolicy(req'.bind)
  <1>1. CASE DaemonValidates
    BY <1>1 DEF DaemonValidates, SessionFits, GoodPolicy
  <1>2. CASE Loading
    BY <1>2 DEF Loading, builderVars
  <1>3. CASE \/ BindFlags \/ LoadInputs \/ LoadEnvFails \/ Loaded \/ NotLoaded \/ ReadReason \/ Assemble
             \/ ResolveSources \/ BuildExec \/ BuildSessionCreate \/ ReadConfig \/ BuildItem \/ BuildResolve
             \/ FileChanges
    <2>1. step' \in {"files", "load", AfterLoad, "only", "sources", "build", "sent", "item", "refused"}
      BY <1>3 DEF BindFlags, LoadInputs, LoadEnvFails, Loaded, NotLoaded, ReadReason, Assemble,
         ResolveSources, BuildExec, BuildSessionCreate, ReadConfig, BuildItem, BuildResolve, FileChanges, Give
    <2>2. QED
      BY <2>1 DEF AfterLoad
  <1>4. QED
    BY <1>1, <1>2, <1>3 DEF RequestNext

LEMMA UntouchedPeers ==
    ASSUME PeersInv, PolicyInv, VerdictInv, UNCHANGED peerVars
    PROVE  PeersInv' /\ PolicyInv' /\ VerdictInv'
  <1>1. UNCHANGED <<proc, lineage, starts, walk, anchor, verdict>>
    BY DEF peerVars
  <1>2. PeersInv'
    <2>1. ProcType' /\ TreeInv'
      BY <1>1 DEF PeersInv, ProcType, TreeInv, Alive, Born
    <2>2. WalkType'
      BY <1>1 DEF PeersInv, WalkType
    <2>3. WalkInv'
      BY <1>1 DEF PeersInv, WalkInv, Alive, Stands, Born
    <2>4. QED
      BY <2>1, <2>2, <2>3 DEF PeersInv
  <1>3. PolicyInv' /\ VerdictInv'
    BY <1>1 DEF PolicyInv, VerdictInv, BoundAsAsked, AdmittedIsDescendant, Bound, InSeq
  <1>4. QED
    BY <1>2, <1>3

LEMMA UntouchedRequest ==
    ASSUME RequestsInv, UNCHANGED requestVars
    PROVE  RequestsInv'
  <1>1. OptsInv' /\ BuilderInv' /\ RequestsAreAccepted'
    BY DEF RequestsInv, requestVars, configVars, builderVars, OptsInv, BuilderInv, CommandInv, GatheredInv,
       SentInv, SelectionIsExact, DaemonFits, RequestsAreAccepted
  <1>2. ConfigInv'
    BY ConfigStays DEF RequestsInv, requestVars, configVars
  <1>3. QED
    BY <1>1, <1>2 DEF RequestsInv

LEMMA ReceiveKept ==
    ASSUME AdmissionInv, Receive
    PROVE  AdmissionInv'
  <1>1. PeersInv' /\ PolicyInv' /\ VerdictInv' /\ WatchInv' /\ IntactIsAdmitted'
    BY UntouchedPeers, UntouchedWatch DEF AdmissionInv, Receive
  <1>2. OptsInv' /\ ConfigInv'
    BY ConfigStays DEF AdmissionInv, RequestsInv, OptsInv, Receive, configVars
  <1>3. Gathered(<<>>)
    BY DEF Gathered
  <1>4. BuilderInv' /\ RequestsAreAccepted' /\ AskedInv'
    BY <1>3 DEF AdmissionInv, RequestsInv, AskedInv, BuilderInv, Receive, CommandInv, GatheredInv, SentInv,
       SelectionIsExact, RequestsAreAccepted, NoConf, Nothing
  <1>5. QED
    BY <1>1, <1>2, <1>4 DEF AdmissionInv, RequestsInv

LEMMA AdmissionStep == AdmissionInv /\ [AdmissionNext]_admissionVars => AdmissionInv'
  <1> SUFFICES ASSUME AdmissionInv, [AdmissionNext]_admissionVars PROVE AdmissionInv'
    OBVIOUS
  <1>1. CASE Parse
    <2>1. PeersInv' /\ PolicyInv' /\ VerdictInv' /\ WatchInv' /\ IntactIsAdmitted'
      BY <1>1, UntouchedPeers, UntouchedWatch DEF AdmissionInv, Parse
    <2>2. RequestsInv'
      BY <1>1, OptsKept, RequestKeepsConfig, RequestKept, AcceptedKept DEF AdmissionInv, RequestsInv, Parse
    <2>3. AskedInv'
      BY <1>1, AcceptedFits DEF AdmissionInv, AskedInv, Parse
    <2>4. QED
      BY <2>1, <2>2, <2>3 DEF AdmissionInv
  <1>2. CASE Receive
    BY <1>2, ReceiveKept
  <1>3. CASE Bind
    <2>1. PeersInv' /\ PolicyInv' /\ VerdictInv' /\ WatchInv' /\ IntactIsAdmitted'
      BY <1>3, BindSessionPeerKept, BindIntact DEF AdmissionInv, AskedInv, Bind
    <2>2. RequestsInv'
      BY <1>3, UntouchedRequest DEF AdmissionInv, Bind
    <2>3. AskedInv'
      BY <1>3 DEF AdmissionInv, AskedInv, Bind, requestVars, builderVars
    <2>4. QED
      BY <2>1, <2>2, <2>3 DEF AdmissionInv
  <1>4. CASE Admit
    <2>1. PeersInv' /\ PolicyInv' /\ VerdictInv' /\ WatchInv' /\ IntactIsAdmitted'
      BY <1>4, ProcessesKept, AuthorizerKept, ProcessesIntact, AuthorizerIntact DEF AdmissionInv, Admit
    <2>2. RequestsInv'
      BY <1>4, UntouchedRequest DEF AdmissionInv, Admit
    <2>3. AskedInv'
      BY <1>4 DEF AdmissionInv, AskedInv, Admit, requestVars, builderVars
    <2>4. QED
      BY <2>1, <2>2, <2>3 DEF AdmissionInv
  <1>5. CASE UNCHANGED admissionVars
    <2>1. UNCHANGED requestVars /\ UNCHANGED peerVars /\ UNCHANGED asked
      BY <1>5 DEF admissionVars
    <2>2. AskedInv'
      BY <2>1 DEF AdmissionInv, AskedInv, requestVars, builderVars
    <2>3. QED
      BY <2>1, <2>2, UntouchedPeers, UntouchedWatch, UntouchedRequest DEF AdmissionInv
  <1>6. QED
    BY <1>1, <1>2, <1>3, <1>4, <1>5 DEF AdmissionNext

\* The inductive invariant of a request and of the sessions it makes, from the command
\* line to the processes that are let in.
THEOREM AdmissionInvariant == AdmissionSpec => []AdmissionInv
  <1>1. AdmissionInit => AdmissionInv
    <2> SUFFICES ASSUME AdmissionInit PROVE AdmissionInv
      OBVIOUS
    <2>1. RequestsInv
      BY RequestInitInv, ConfigStarts DEF AdmissionInit, RequestsInv, RequestInit, RequestsAreAccepted
    <2>2. AskedInv
      BY DEF AdmissionInit, AskedInv, RequestInit
    <2>3. QED
      BY <2>1, <2>2, PeersInitInv, WatchInitInv DEF AdmissionInit, AdmissionInv
  <1>2. QED
    BY <1>1, AdmissionStep, PTL DEF AdmissionSpec

\* Whatever a file says and whichever way the walk goes, a profile that includes itself
\* or one that is not there is never resolved (profileconfig.go:479-486).
THEOREM NoCycleIsResolved == AdmissionSpec => []CyclesAreRefused
  <1>1. AdmissionInv => CyclesAreRefused
    BY ResolvedHasNoCycles DEF AdmissionInv, RequestsInv
  <1>2. QED
    BY <1>1, AdmissionInvariant, PTL

\* The walk with its stack and its memo gives what the file says: every setting and
\* every secret is the one that the last of the parts that define it defines
\* (profileconfig.go:465-544).
THEOREM WalkGivesDeclared == AdmissionSpec => []ResolvedAsDeclared
  <1>1. AdmissionInv => ResolvedAsDeclared
    BY ResolvedIsDeclared DEF AdmissionInv, RequestsInv
  <1>2. QED
    BY <1>1, AdmissionInvariant, PTL

\* Nothing the command line has built is turned down by the daemon that looks at it
\* again, lifetimes and read counts included, unless a file has changed: for whatever
\* flags, files and profiles, and whatever is in the environment.
THEOREM NothingIsTurnedDown == AdmissionSpec => []RequestsAreAccepted
  <1>1. AdmissionInv => RequestsAreAccepted
    BY DEF AdmissionInv, RequestsInv
  <1>2. QED
    BY <1>1, AdmissionInvariant, PTL

\* A command whose secrets were approved is not stopped by a variable that is there
\* already (request_builder.go detectOverrides against execwrap's environment).
THEOREM StartMeetsNoConflict == AdmissionSpec => []StartFindsNoConflict
  <1>1. AdmissionInv => StartFindsNoConflict
    BY DEF AdmissionInv, RequestsInv, BuilderInv, SentInv, StartFindsNoConflict
  <1>2. QED
    BY <1>1, AdmissionInvariant, PTL

\* What is sent after --only is what was named and nothing else, wherever the aliases
\* come from: filterExecSecretsByOnly and assembleExecSecrets agree.
THEOREM OnlyWhatWasNamed == AdmissionSpec => []SelectionIsExact
  <1>1. AdmissionInv => SelectionIsExact
    BY DEF AdmissionInv, RequestsInv, BuilderInv
  <1>2. QED
    BY <1>1, AdmissionInvariant, PTL

\* However the processes fork, replace themselves, end and have their pids used again
\* while ValidateSessionPeer walks, whom it admits descends from the anchor.
THEOREM OnlyDescendants == AdmissionSpec => []AdmittedIsDescendant
  <1>1. AdmissionInv => AdmittedIsDescendant
    BY DEF AdmissionInv, VerdictInv
  <1>2. QED
    BY <1>1, AdmissionInvariant, PTL

\* And BindSessionPeer binds to an ancestor, at the depth the command line asked for.
THEOREM BoundToAncestor == AdmissionSpec => []BoundAsAsked
  <1>1. AdmissionInv => BoundAsAsked
    BY DEF AdmissionInv, VerdictInv
  <1>2. QED
    BY <1>1, AdmissionInvariant, PTL

\* And whoever ValidateSessionPeer turns away, while living processes lead from it to the
\* anchor, is too far below it, or one on the way could not be inspected, or the anchor
\* replaced its executable during the walk.
THEOREM IntactAreAdmitted == AdmissionSpec => []IntactIsAdmitted
  <1>1. AdmissionInv => IntactIsAdmitted
    BY DEF AdmissionInv
  <1>2. QED
    BY <1>1, AdmissionInvariant, PTL
=============================================================================
