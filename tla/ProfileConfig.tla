--------------------------- MODULE ProfileConfig ---------------------------
(***************************************************************************)
(* The project configuration (internal/profileconfig): where its file is   *)
(* looked for, and how a profile and the profiles it includes become the   *)
(* one profile a command uses.                                             *)
(*                                                                         *)
(* The resolver is a depth-first walk with a stack, a memo of the profiles *)
(* it has resolved, a depth limit and a count of includes.  One resolver   *)
(* serves one profile (Load) or all of them in alphabetical order          *)
(* (Inspect), with the same memo and the same count.                       *)
(***************************************************************************)
EXTENDS Naturals, Sequences

CONSTANTS Names,        \* names a profile may be asked for or included by
          NoName,       \* no name, an empty include
          None,         \* a field that is not set
          Docs,         \* bound: the files explored
          Levels,       \* bound: directories up to the root
          MaxDepth,     \* maxProfileIncludeDepth
          MaxIncludes   \* maxProfileIncludeCount

ASSUME NameAssumption == NoName \notin Names
ASSUME LimitAssumption == Levels \in Nat /\ MaxDepth \in Nat /\ MaxIncludes \in Nat

(***************************************************************************)
(* A file: its account, the Bitwarden sources it configures, its default   *)
(* profile, its profiles and their order.  A profile: its account,         *)
(* includes, settings (reason, ttl, session binding: those that are set)   *)
(* and secrets.  A secret: the provider and the source its reference       *)
(* names, and the account and source of its entry.                         *)
(***************************************************************************)
ASSUME DocAssumption ==
    \A d \in Docs :
        LET Listed(q) == q \in Seq({q[i] : i \in DOMAIN q})
        IN  /\ Listed(d.order)
            /\ DOMAIN d.profiles = {d.order[i] : i \in DOMAIN d.order}
            /\ \A n \in DOMAIN d.profiles : Listed(d.profiles[n].include)

VARIABLES
    opts,     \* mode, explicit path or search, name asked for
    stage,    \* "find", "read", "resolve", "done", "refused", "not found"
    level,    \* directory the search is in
    doc,      \* the file
    todo,     \* names still to be resolved
    stack,    \* resolve calls: name, next include, what is resolved so far
    memo,     \* resolved profiles
    count,    \* includes followed
    result    \* what the caller gets

configVars == <<opts, stage, level, doc, todo, stack, memo, count, result>>

\* The functions of Go: new definitions replace old ones.
Over(new, old) ==
    [f \in DOMAIN new \cup DOMAIN old |-> IF f \in DOMAIN new THEN new[f] ELSE old[f]]

Nothing == [f \in {} |-> None]

\* effectiveAccount
Account(default, override) == IF override # None THEN override ELSE default

Modes == {"load", "inspect", "metadata"}

ConfigInit ==
    /\ opts \in [mode : Modes, explicit : BOOLEAN, name : Names \cup {NoName}]
    /\ stage = "find"
    /\ level = 0
    /\ doc = None
    /\ todo = <<>> /\ stack = <<>>
    /\ memo = Nothing /\ count = 0
    /\ result = Nothing

Refuse == stage' = "refused"

-----------------------------------------------------------------------------
(***************************************************************************)
(* Find and readConfigFile.                                                *)
(***************************************************************************)

\* What os.Stat says of a path.
Kinds == {"regular", "directory", "other", "absent", "error"}

\* A path that was given must be a regular file.
FindExplicit ==
    /\ stage = "find"
    /\ opts.explicit
    /\ \E kind \in Kinds :
          stage' = CASE kind = "regular" -> "read"
                     [] kind = "absent"  -> "not found"
                     [] OTHER            -> "refused"
    /\ UNCHANGED <<opts, level, doc, todo, stack, memo, count, result>>

\* Both names are looked at in a directory: a regular file is taken, a directory of
\* that name skipped, anything else ends the search.
FindInDirectory ==
    /\ stage = "find"
    /\ ~opts.explicit
    /\ \E first, second \in Kinds :
          LET met == IF first \in {"directory", "absent"} THEN second ELSE first
          IN  CASE met = "regular" -> stage' = "read" /\ UNCHANGED level
                [] met \in {"other", "error"} -> Refuse /\ UNCHANGED level
                [] OTHER -> IF level < Levels
                            THEN level' = level + 1 /\ UNCHANGED stage
                            ELSE stage' = "not found" /\ UNCHANGED level
    /\ UNCHANGED <<opts, doc, todo, stack, memo, count, result>>

\* The file may be unreadable, too large, no configuration of this version or name
\* a source that cannot be.
ReadFails ==
    /\ stage = "read"
    /\ Refuse
    /\ UNCHANGED <<opts, level, doc, todo, stack, memo, count, result>>

\* loadConfigFile, normalizeSources and the start of Load, LoadMetadata and Inspect.
Read ==
    /\ stage = "read"
    /\ doc' \in Docs
    /\ LET name == IF opts.name = NoName THEN doc'.default ELSE opts.name
       IN  CASE opts.mode = "metadata" ->
                   stage' = "done" /\ todo' = <<>>
             [] opts.mode = "inspect" ->
                   /\ stage' = IF doc'.order = <<>> THEN "done" ELSE "resolve"
                   /\ todo' = doc'.order
             [] opts.mode = "load" ->
                   IF doc'.order = <<>> \/ name = NoName
                   THEN Refuse /\ todo' = <<>>
                   ELSE stage' = "resolve" /\ todo' = <<name>>
    /\ UNCHANGED <<opts, level, stack, memo, count, result>>

-----------------------------------------------------------------------------
(***************************************************************************)
(* The secrets of one profile.                                             *)
(***************************************************************************)

\* resolveSecretSource cannot tell which source is meant, the entry and the
\* reference disagree, or the source is not one of the configured ones.
SourceNamed(spec) ==
    CASE spec.ref.source # None -> spec.ref.source
      [] spec.source # None     -> spec.source
      [] OTHER -> LET only == {s \in doc.sources : doc.sources = {s}}
                  IN  IF only = {} THEN None ELSE CHOOSE s \in only : TRUE

SourceOf(spec) == IF spec.ref.provider = "bws" THEN SourceNamed(spec) ELSE None

SecretFits(spec) ==
    /\ spec.ref.provider # "badbws"
    /\ spec.ref.provider # "bws" => spec.source = None
    /\ spec.ref.provider = "bws" =>
          /\ spec.source # None /\ spec.ref.source # None => spec.source = spec.ref.source
          /\ doc.sources # {} => SourceNamed(spec) \in doc.sources

\* mergeSecrets: what a profile says of its own secrets.  A Bitwarden secret inherits
\* the account like any other.
OwnSecrets(profile, account) ==
    [a \in DOMAIN profile.secrets |->
        LET spec == profile.secrets[a]
        IN  [ref |-> spec.ref, account |-> Account(account, spec.account), source |-> SourceOf(spec)]]

-----------------------------------------------------------------------------
(***************************************************************************)
(* The resolver.                                                           *)
(***************************************************************************)
Top     == stack[Len(stack)]
Below   == SubSeq(stack, 1, Len(stack) - 1)
Started(name) == {i \in DOMAIN stack : stack[i].name = name} # {}

\* What an include adds to the profile that includes it.
Including(sofar, included) ==
    [sofar EXCEPT !.secrets  = Over(included.secrets, @),
                  !.settings = Over(included.settings, @)]

\* The frame below is given what it included; the outermost call answers.
Return(frames, name, resolved) ==
    IF frames = <<>>
    THEN /\ result' = Over([n \in {name} |-> resolved], result)
         /\ stack' = <<>>
         /\ todo' = Tail(todo)
         /\ stage' = IF Tail(todo) = <<>> THEN "done" ELSE "resolve"
    ELSE /\ stack' = [frames EXCEPT ![Len(frames)].sofar = Including(@, resolved)]
         /\ UNCHANGED <<stage, todo, result>>

\* The head of resolve, called for a name with these frames below it.
Call(frames, name) ==
    CASE name \in DOMAIN memo -> Return(frames, name, memo[name])
      [] name \notin DOMAIN memo
         /\ (\/ Len(frames) >= MaxDepth
             \/ name \notin DOMAIN doc.profiles
             \/ Started(name)) ->
              Refuse /\ UNCHANGED <<todo, stack, result>>
      [] OTHER ->
              /\ stack' = Append(frames, [name |-> name, next |-> 1,
                     sofar |-> [account |-> Account(doc.account, doc.profiles[name].account),
                                settings |-> Nothing, secrets |-> Nothing]])
              /\ UNCHANGED <<stage, todo, result>>

ResolveNext ==
    /\ stage = "resolve"
    /\ stack = <<>>
    /\ Call(<<>>, Head(todo))
    /\ UNCHANGED <<opts, level, doc, memo, count>>

\* Faulty: a profile is remembered as soon as it is met.
IncludeRemembers ==
    /\ stage = "resolve"
    /\ stack # <<>>
    /\ LET includes == doc.profiles[Top.name].include
       IN  /\ Top.next <= Len(includes)
           /\ IF includes[Top.next] = NoName \/ count = MaxIncludes
              THEN Refuse /\ UNCHANGED <<todo, stack, result>>
              ELSE Call(Append(Below, [Top EXCEPT !.next = @ + 1]), includes[Top.next])
    /\ memo' = Over([n \in {Top.name} |-> Top.sofar], memo)
    /\ count' = IF stage' = "refused" THEN count ELSE count + 1
    /\ UNCHANGED <<opts, level, doc>>

\* The loop over the includes.
Include ==
    /\ stage = "resolve"
    /\ stack # <<>>
    /\ LET includes == doc.profiles[Top.name].include
       IN  /\ Top.next <= Len(includes)
           /\ IF includes[Top.next] = NoName \/ count = MaxIncludes
              THEN Refuse /\ UNCHANGED <<todo, stack, result>>
              ELSE Call(Append(Below, [Top EXCEPT !.next = @ + 1]), includes[Top.next])
    /\ count' = IF stage' = "refused" THEN count ELSE count + 1
    /\ UNCHANGED <<opts, level, doc, memo>>

\* Faulty: what is included last has the last word.
OwnUnder(sofar, profile) ==
    [sofar EXCEPT !.settings = Over(@, profile.settings),
                  !.secrets  = Over(@, OwnSecrets(profile, sofar.account))]

\* The settings and secrets of the profile itself.
Own(sofar, profile) ==
    [sofar EXCEPT !.settings = Over(profile.settings, @),
                  !.secrets  = Over(OwnSecrets(profile, sofar.account), @)]

\* A ttl that is no duration, a secret that names no source, or no secret at all.
Fits(profile, resolved) ==
    /\ "ttl" \in DOMAIN profile.settings => profile.settings["ttl"] # "bad"
    /\ \A a \in DOMAIN profile.secrets : SecretFits(profile.secrets[a])
    /\ resolved.secrets # Nothing

FinishProfile ==
    /\ stage = "resolve"
    /\ stack # <<>>
    /\ LET profile  == doc.profiles[Top.name]
           resolved == Own(Top.sofar, profile)
       IN  /\ Top.next > Len(profile.include)
           /\ IF Fits(profile, resolved)
              THEN /\ memo' = Over([n \in {Top.name} |-> resolved], memo)
                   /\ Return(Below, Top.name, resolved)
              ELSE Refuse /\ UNCHANGED <<todo, stack, memo, result>>
    /\ UNCHANGED <<opts, level, doc, count>>

-----------------------------------------------------------------------------
ConfigNext ==
    \/ FindExplicit \/ FindInDirectory
    \/ ReadFails \/ Read
    \/ ResolveNext \/ Include \/ FinishProfile

ConfigSpec == ConfigInit /\ [][ConfigNext]_configVars

-----------------------------------------------------------------------------
(***************************************************************************)
(* What the file says, without a walk: the profiles a profile is made of,  *)
(* in the order of docs/configuration.md ("Includes are resolved in order. *)
(* Later included profiles override earlier secrets with the same alias,   *)
(* and the selected profile overrides all included profiles").             *)
(***************************************************************************)
Includes(n) == {doc.profiles[n].include[i] : i \in DOMAIN doc.profiles[n].include}

\* Everything that n includes, however indirectly, in at most d steps.
Reach[d \in 0..Len(doc.order)] ==
    [n \in DOMAIN doc.profiles |->
        IF d = 0 THEN {}
        ELSE UNION {{m} \cup Reach[d - 1][m] : m \in Includes(n) \cap DOMAIN doc.profiles}]

\* Parts[d][n][i]: the profiles the first i includes of n are made of; with n itself
\* at i = Len + 1.
Parts[d \in 0..Len(doc.order)] ==
    [n \in DOMAIN doc.profiles |->
        LET includes == doc.profiles[n].include
            prefix[i \in 0..Len(includes)] ==
                IF i = 0 \/ d = 0 THEN <<>>
                ELSE prefix[i - 1] \o Parts[d - 1][includes[i]]
        IN  Append(prefix[Len(includes)], n)]

LastThat(parts, Defines(_)) ==
    LET those == {i \in DOMAIN parts : Defines(parts[i])}
    IN  parts[CHOOSE i \in those : \A j \in those : j <= i]

DeclaredSetting(parts, s) ==
    doc.profiles[LastThat(parts, LAMBDA n : s \in DOMAIN doc.profiles[n].settings)].settings[s]

\* Each secret keeps the account of the profile that defines it.
DeclaredSecret(parts, a) ==
    LET n == LastThat(parts, LAMBDA m : a \in DOMAIN doc.profiles[m].secrets)
    IN  OwnSecrets(doc.profiles[n], Account(doc.account, doc.profiles[n].account))[a]

Declared(n) ==
    LET parts == Parts[Len(doc.order)][n]
        all   == {parts[i] : i \in DOMAIN parts}
    IN  [account  |-> Account(doc.account, doc.profiles[n].account),
         settings |-> [s \in UNION {DOMAIN doc.profiles[m].settings : m \in all} |->
                          DeclaredSetting(parts, s)],
         secrets  |-> [a \in UNION {DOMAIN doc.profiles[m].secrets : m \in all} |->
                          DeclaredSecret(parts, a)]]

(***************************************************************************)
(* Properties.                                                             *)
(***************************************************************************)

\* What profileconfig_test.go:365 ("account = %q, want empty for Bitwarden") and
\* docs/bitwarden-v1-plan.md:225 say of a Bitwarden secret whose own entry names no
\* account.  It does not hold: mergeSecrets gives it the account of its profile or of
\* the file (profileconfig.go:663-668), and ParseSecrets then refuses the request.
BitwardenHasNoAccount ==
    \A n \in DOMAIN result : \A a \in DOMAIN result[n].secrets :
        /\ result[n].secrets[a].ref.provider = "bws"
        /\ \A m \in DOMAIN doc.profiles :
              a \in DOMAIN doc.profiles[m].secrets => doc.profiles[m].secrets[a].account = None
        => result[n].secrets[a].account = None

\* No profile that includes itself, however indirectly, is ever resolved, and none
\* that includes one that is not there (profileconfig.go:479-486).
CyclesAreRefused ==
    \A n \in DOMAIN memo :
        /\ n \in DOMAIN doc.profiles
        /\ n \notin Reach[Len(doc.order)][n]
        /\ \A m \in Reach[Len(doc.order)][n] \cup {n} : Includes(m) \subseteq DOMAIN doc.profiles

\* Whichever way the walk goes and whatever it has met before, a profile is what the
\* file says, for a command and for whoever inspects it (profileconfig.go:465-544).
ResolvedAsDeclared == \A n \in DOMAIN result : result[n] = Declared(n)
=============================================================================
