--------------------------- MODULE RequestBuilder ---------------------------
(***************************************************************************)
(* How the CLI makes a request of its arguments, the environment, env      *)
(* files and the project configuration (internal/cli/exec_parse.go,        *)
(* session_parse.go, item_parse.go, request_builder.go, internal/request), *)
(* and how the daemon validates what it receives.                          *)
(*                                                                         *)
(* One goroutine; its step is the function it is in.  What the user wrote  *)
(* and what the machine says is chosen where the code first looks at it.   *)
(* Values are not modelled: of an environment entry only who put it there, *)
(* of a secret only what identifies it.                                    *)
(***************************************************************************)
EXTENDS ProfileConfig, FiniteSets

CONSTANTS Aliases,       \* well-formed aliases
          Sources,       \* Bitwarden source aliases
          Policies,      \* bound: session bindings a flag may ask for
          MaxBindAncestor, \* MaxSessionBindAncestor
          AutoBinding,   \* the binding without either
          FlagSecrets,   \* bound: sequences of --secret explored
          FlagAliases,   \* bound: sequences of --only of with-session explored
          EnvFiles       \* bound: sequences of env file entries explored

ASSUME PolicyAssumption == None \notin Policies /\ MaxBindAncestor \in Nat

ASSUME AliasAssumption == IsFiniteSet(Aliases)

\* No reason at all is not a blank one.
ASSUME ReasonAssumption == None \notin {"blank", "padded"}

\* A secret that is asked for.
IsSpec(s) == s = [alias |-> s.alias, ref |-> s.ref, account |-> s.account, source |-> s.source]

ASSUME FlagAssumption ==
    \A specs \in FlagSecrets :
        specs \in Seq({specs[i] : i \in DOMAIN specs}) /\ \A i \in DOMAIN specs : IsSpec(specs[i])

VARIABLES
    command,   \* which command line it is
    step,      \* the function the parser is in, or what became of it
    bind,      \* the binding flag
    given,     \* secrets of --secret
    env,       \* the child's environment: who set an alias, "caller" or "file"
    held,      \* env file entries that are references
    conf,      \* what the configuration says
    only,      \* aliases of --only
    secrets,   \* the secrets gathered so far
    req,       \* the request
    changed    \* the executable or the directory is no longer what was looked at

builderVars == <<command, step, bind, given, env, held, conf, only, secrets, req, changed>>
requestVars == <<configVars, builderVars>>

\* Without a profile there are only the account and the sources of the file, if any.
NoConf == [loaded |-> FALSE, account |-> None, sources |-> {}, settings |-> Nothing,
           secrets |-> Nothing]

ConfigIdle ==
    /\ opts = [mode |-> "load", explicit |-> FALSE, name |-> NoName]
    /\ stage = "find" /\ level = 0 /\ doc = None
    /\ todo = <<>> /\ stack = <<>> /\ memo = Nothing /\ count = 0 /\ result = Nothing

RequestInit ==
    /\ command \in {"exec", "session create", "with-session", "item describe", "profile"}
    /\ step = "flags" /\ bind = None
    /\ given = <<>> /\ env = Nothing /\ held = Nothing
    /\ conf = NoConf /\ only = {} /\ secrets = <<>>
    /\ req = None /\ changed = FALSE
    /\ ConfigIdle

\* The next function, or an error.
Give(ok, next) == step' = IF ok THEN next ELSE "refused"

-----------------------------------------------------------------------------
(***************************************************************************)
(* sessionCreateBinding and loadExecInputSources.                          *)
(***************************************************************************)

\* NormalizeSessionBindingPolicy: a depth or a set of executable names, none malformed.
GoodPolicy(policy) ==
    \/ policy.mode = "auto"
    \/ policy.mode = "ancestor" /\ policy.depth \in 1..MaxBindAncestor
    \/ policy.mode = "name" /\ policy.names # {} /\ None \notin policy.names

\* At most one binding flag may be given.
BindFlags ==
    /\ step = "flags"
    /\ command \in {"exec", "session create"}
    /\ bind' \in IF command = "exec" THEN {None} ELSE Policies \cup {None}
    /\ \E several \in BOOLEAN :
          Give(~(several /\ bind' # None) /\ (bind' # None => GoodPolicy(bind')), "files")
    /\ UNCHANGED <<command, given, env, held, conf, only, secrets, req, changed, configVars>>

\* The last entry of a key decides whether it is a reference or a plain value.
LastEntries(entries) ==
    [k \in {entries[i].key : i \in DOMAIN entries} |->
        LET those == {i \in DOMAIN entries : entries[i].key = k}
        IN  entries[CHOOSE i \in those : \A j \in those : j <= i].ref]

Plain == [provider |-> "plain", source |-> None]

References(last) == {k \in DOMAIN last : last[k] # Plain}

Without(f, S) == [x \in DOMAIN f \ S |-> f[x]]

\* Faulty: what the environment or an earlier file says of a reference's key stays.
KeptEnv(caller, last) ==
    Over([k \in DOMAIN last \ References(last) |-> "file"], [a \in caller |-> "caller"])

\* mergeEnv and removeEnvKeys.
MergedEnv(caller, last) ==
    Without(Over([k \in DOMAIN last \ References(last) |-> "file"], [a \in caller |-> "caller"]),
            References(last))

\* A name asked for, or no other source of secrets, needs a profile.  Otherwise only
\* the account and the sources of the file are read.  A file counts even if it has no
\* entries.
LoadInputs ==
    /\ step = "files"
    /\ \E entries \in EnvFiles, caller \in SUBSET Aliases, specs \in FlagSecrets, files \in BOOLEAN,
          name \in Names \cup {NoName}, explicit \in BOOLEAN :
          LET last     == LastEntries(entries)
              explicitSource == specs # <<>> \/ files
          IN  /\ entries # <<>> => files
              /\ given' = specs
              /\ env' = MergedEnv(caller, last)
              /\ held' = Without(last, DOMAIN last \ References(last))
              /\ opts' = [mode |-> IF name = NoName /\ explicitSource THEN "metadata" ELSE "load",
                          explicit |-> explicit, name |-> name]
    /\ Give(TRUE, "load")
    /\ UNCHANGED <<command, bind, conf, only, secrets, req, changed, stage, level, doc, todo,
                   stack, memo, count, result>>

\* An env file is missing or malformed.
LoadEnvFails ==
    /\ step = "files"
    /\ Give(FALSE, "load")
    /\ UNCHANGED <<command, bind, given, env, held, conf, only, secrets, req, changed, configVars>>

\* profileconfig.Load or LoadMetadata is under way.
Loading == step = "load" /\ ConfigNext /\ UNCHANGED builderVars

\* The configuration is forgotten but for what the caller gets.
Forget ==
    /\ opts' = [mode |-> "load", explicit |-> FALSE, name |-> NoName]
    /\ stage' = "find" /\ level' = 0 /\ doc' = None
    /\ todo' = <<>> /\ stack' = <<>> /\ memo' = Nothing /\ count' = 0 /\ result' = Nothing

AfterLoad == CASE command = "item describe" -> "item"
               [] command = "profile"       -> "shown"
               [] OTHER                     -> "reason"

\* loadExecProfile, or loadExecConfigAccount and loadExecConfigSources, which read the
\* file once each: here it does not change in between.
Loaded ==
    /\ step = "load"
    /\ stage = "done"
    /\ conf' \in CASE opts.mode = "inspect" -> {NoConf}
                   [] opts.mode = "metadata" ->
                        {[NoConf EXCEPT !.account = doc.account, !.sources = doc.sources]}
                   [] opts.mode = "load" ->
                       {[loaded |-> TRUE, account |-> result[n].account, sources |-> doc.sources,
                        settings |-> result[n].settings, secrets |-> result[n].secrets] :
                           n \in DOMAIN result}
    /\ Give(TRUE, AfterLoad)
    /\ Forget
    /\ UNCHANGED <<command, bind, given, env, held, only, secrets, req, changed>>

\* No configuration is an error only if a profile or a path was asked for.
NotLoaded ==
    /\ step = "load"
    /\ stage \in {"refused", "not found"}
    /\ Give(/\ stage = "not found" /\ opts.name = NoName /\ ~opts.explicit
            /\ command # "profile", AfterLoad)
    /\ Forget
    /\ UNCHANGED <<command, bind, given, env, held, conf, only, secrets, req, changed>>

-----------------------------------------------------------------------------
(***************************************************************************)
(* resolveExecInputs and resolveExecSecrets.                               *)
(***************************************************************************)

\* A flag that is there replaces what the profile says, even if it is blank.
Chosen(flag, setting) ==
    IF flag # None THEN flag
    ELSE IF setting \in DOMAIN conf.settings THEN conf.settings[setting] ELSE None

\* strings.TrimSpace
Trimmed(reason) == CASE reason = "padded" -> "plain" [] reason = "blank" -> None [] OTHER -> reason

\* validateReason
GoodReason(reason) == Trimmed(reason) \notin {None, "long"}

\* ValidateReason looks at the reason and leaves it as it is.
ReadReason ==
    /\ step = "reason"
    /\ \E flag \in {None, "blank", "padded", "long"} :
          /\ Give(GoodReason(Chosen(flag, "reason")), "only")
          /\ req' = [reason |-> Chosen(flag, "reason")]
    /\ UNCHANGED <<command, bind, given, env, held, conf, only, secrets, changed, configVars>>

\* A sequence of the elements of a set, in some fixed order (slices.Sort).
Sorted(S) == CHOOSE q \in [1..Cardinality(S) -> S] : \A a \in S : \E i \in DOMAIN q : q[i] = a

InFiles(S) ==
    LET q == Sorted(S)
    IN  [i \in DOMAIN q |-> [alias |-> q[i], ref |-> held[q[i]], account |-> None, source |-> None]]

InProfile(S) ==
    LET q == Sorted(S)
    IN  [i \in DOMAIN q |-> [alias |-> q[i], ref |-> conf.secrets[q[i]].ref,
                             account |-> conf.secrets[q[i]].account,
                             source |-> conf.secrets[q[i]].source]]

Bitwarden(spec) == spec.ref.provider \in {"bws", "badbws"}

\* applyDefaultAccount
WithAccount(specs, account) ==
    [i \in DOMAIN specs |->
        IF Bitwarden(specs[i]) THEN specs[i] ELSE [specs[i] EXCEPT !.account = Account(account, @)]]

\* needsOnePasswordAccountFallback
NeedsAccount(specs) ==
    \E i \in DOMAIN specs : specs[i].account = None /\ specs[i].ref.provider \in {"op", "badop"}

\* assembleExecSecrets, for --account and what the machine says.
Assembled(fromProfile, fromFiles, flag, machine) ==
    LET needed(specs) == IF NeedsAccount(specs)
                         THEN Account(Account(machine, IF conf.loaded THEN None ELSE conf.account), flag)
                         ELSE None
        fallback == IF flag # None THEN flag
                    ELSE Account(needed(fromProfile \o given \o fromFiles), conf.account)
    IN  IF conf.loaded
        THEN WithAccount(fromProfile, fallback)
             \o WithAccount(given \o fromFiles, Account(fallback, conf.account))
        ELSE WithAccount(given \o fromFiles, needed(given \o fromFiles))

\* filterExecSecretsByOnly and assembleExecSecrets: an alias of --only that the env
\* files have is not looked for in the profile.
Assemble ==
    /\ step = "only"
    /\ only' \in SUBSET Aliases
    /\ LET some(S) == IF only' = {} THEN S ELSE S \cap only'
           files   == some(DOMAIN held)
           profile == some(DOMAIN conf.secrets) \ (IF only' = {} THEN {} ELSE files)
       IN  /\ Give(only' \subseteq files \cup profile, "sources")
           /\ \E flag \in {None, "cli"}, machine \in {None, "machine"} :
                 secrets' = Assembled(InProfile(profile), InFiles(files), flag, machine)
    /\ UNCHANGED <<command, bind, given, env, held, conf, req, changed, configVars>>

\* resolveImplicitBitwardenSource: the only one that is configured, or else the only
\* token alias in the keychain.
Implicit(local) ==
    CASE Cardinality(conf.sources) = 1 -> CHOOSE s \in conf.sources : TRUE
      [] conf.sources = {} /\ Cardinality(local) = 1 -> CHOOSE s \in local : TRUE
      [] OTHER -> None

SourceFor(spec, local) ==
    CASE spec.ref.source # None -> spec.ref.source
      [] spec.source # None     -> spec.source
      [] OTHER                  -> Implicit(local)

SourceKnown(spec, local) ==
    /\ spec.ref.provider = "bws"
    /\ spec.ref.source # None /\ spec.source # None => spec.source = spec.ref.source
    /\ SourceFor(spec, local) # None
    /\ conf.sources # {} => SourceFor(spec, local) \in conf.sources

\* resolveBitwardenSecretSources.  The keychain may fail to list its aliases, which
\* counts as an error only if they are needed: here as if there were none.
ResolveSources ==
    /\ step = "sources"
    /\ \E local \in SUBSET Sources :
          /\ Give(\A i \in DOMAIN secrets : Bitwarden(secrets[i]) => SourceKnown(secrets[i], local),
                  "build")
          /\ secrets' = [i \in DOMAIN secrets |->
                            IF Bitwarden(secrets[i])
                            THEN [secrets[i] EXCEPT !.source = SourceFor(secrets[i], local)]
                            ELSE secrets[i]]
    /\ UNCHANGED <<command, bind, given, env, held, conf, only, req, changed, configVars>>

-----------------------------------------------------------------------------
(***************************************************************************)
(* The requests.                                                           *)
(***************************************************************************)
AliasesOf(specs) == {specs[i].alias : i \in DOMAIN specs}

\* ParseSecrets
GoodSecrets(specs) ==
    /\ specs # <<>>
    /\ AliasesOf(specs) \subseteq Aliases
    /\ Cardinality(AliasesOf(specs)) = Len(specs)
    /\ \A i \in DOMAIN specs :
          LET s == specs[i]
          IN  \/ s.ref.provider = "op" /\ s.account # None /\ s.source = None
              \/ s.ref.provider = "bws" /\ s.account = None /\ s.source # None
                 /\ (s.ref.source # None => s.source = s.ref.source)

\* Faulty: the environment of the caller is looked at, not what the files make of it.
OverriddenInCaller(specs) == AliasesOf(specs) \cap {a \in DOMAIN env : env[a] = "caller"}

\* detectOverrides
Overridden(specs) == AliasesOf(specs) \cap DOMAIN env

\* A duration or a number that was not asked for is the default, which is in range.
OrDefault(v) == IF v = None THEN "default" ELSE v

InRange(v) == v \notin {None, "off"}

\* validateOverriddenAliases
GoodOverrides(r) ==
    r.overridden # {} => r.override /\ r.overridden \subseteq AliasesOf(r.secrets)

NewExec(r) ==
    GoodReason(r.reason) /\ InRange(r.ttl) /\ GoodSecrets(r.secrets) /\ GoodOverrides(r)

\* Faulty: the number of reads is left to the daemon.
NewSessionUncounted(r) ==
    GoodReason(r.reason) /\ InRange(r.ttl) /\ GoodSecrets(r.secrets) /\ GoodPolicy(r.bind)

NewSessionCreate(r) ==
    /\ GoodReason(r.reason) /\ InRange(r.ttl) /\ InRange(r.reads)
    /\ GoodSecrets(r.secrets) /\ GoodPolicy(r.bind)

\* The directory is there and the command is an executable file found in PATH, not
\* mutable unless allowed, whose identity could be taken; then the secrets, the
\* overrides and NewExec.
BuildExec ==
    /\ step = "build"
    /\ command = "exec"
    /\ \E found, override \in BOOLEAN, ttl \in {None, "fine", "off"} :
       LET made == [reason |-> Trimmed(req.reason), ttl |-> OrDefault(Chosen(ttl, "ttl")),
                    secrets |-> secrets, override |-> override, overridden |-> Overridden(secrets)]
       IN  /\ Give(/\ found
                   /\ override \/ made.overridden = {}
                   /\ NewExec(made), "sent")
           /\ req' = IF step' = "sent" THEN made ELSE req
    /\ UNCHANGED <<command, bind, given, env, held, conf, only, secrets, changed, configVars>>

\* A binding flag goes before the profile's binding.
BuildSessionCreate ==
    /\ step = "build"
    /\ command = "session create"
    /\ \E found \in BOOLEAN, ttl, reads \in {None, "fine", "off"} :
       LET made == [reason |-> Trimmed(req.reason), ttl |-> OrDefault(Chosen(ttl, "ttl")),
                    reads |-> OrDefault(reads), secrets |-> secrets,
                    bind   |-> CASE bind # None -> bind
                                 [] bind = None /\ "bind" \in DOMAIN conf.settings -> conf.settings["bind"]
                                 [] OTHER -> AutoBinding]
       IN  /\ Give(found /\ NewSessionCreate(made), "sent")
           /\ req' = IF step' = "sent" THEN made ELSE req
    /\ UNCHANGED <<command, bind, given, env, held, conf, only, secrets, changed, configVars>>

\* parseItemDescribe, up to the configuration: --account makes it unnecessary.
\* runProfileList and runProfileShow read all of it.
ReadConfig ==
    /\ step = "flags"
    /\ command \in {"item describe", "profile"}
    /\ \/ /\ command = "item describe"
          /\ conf' = [NoConf EXCEPT !.account = "cli"]
          /\ Give(TRUE, "item")
          /\ UNCHANGED opts
       \/ /\ \E explicit \in BOOLEAN :
                opts' = [mode |-> IF command = "profile" THEN "inspect" ELSE "metadata",
                         explicit |-> explicit, name |-> NoName]
          /\ Give(TRUE, "load")
          /\ UNCHANGED conf
    /\ UNCHANGED <<command, bind, given, env, held, only, secrets, req, changed, stage, level, doc,
                   todo, stack, memo, count, result>>

\* resolveItemDescribeAccount, buildItemDescribeRequest and NewItemDescribe: without a
\* reason there is one that always fits.
BuildItem ==
    /\ step = "item"
    /\ \E found \in BOOLEAN, flag \in {None, "blank", "padded", "long"}, ttl \in {None, "fine", "off"},
          machine \in {None, "machine"} :
       LET made == [reason  |-> IF Trimmed(flag) = None THEN "plain" ELSE Trimmed(flag),
                    ttl     |-> OrDefault(ttl),
                    account |-> Account(machine, conf.account)]
       IN  /\ Give(found /\ GoodReason(made.reason) /\ made.account # None /\ InRange(made.ttl), "sent")
           /\ req' = IF step' = "sent" THEN made ELSE req
    /\ UNCHANGED <<command, bind, given, env, held, conf, only, secrets, changed, configVars>>

\* NormalizeAliases
GoodAliases(q) ==
    /\ {q[i] : i \in DOMAIN q} \subseteq Aliases
    /\ Cardinality({q[i] : i \in DOMAIN q}) = Len(q)

InOrder(q) == Sorted({q[i] : i \in DOMAIN q})

WithRequestedAliases(q) == [aliases |-> InOrder(q)]

\* parseWithSession, buildSessionResolveRequest and NewSessionResolve.
BuildResolve ==
    /\ step = "flags"
    /\ command = "with-session"
    /\ \E found \in BOOLEAN, asked \in FlagAliases :
          /\ Give(found /\ GoodAliases(asked), "sent")
          /\ req' = IF step' = "sent" THEN WithRequestedAliases(asked) ELSE req
    /\ UNCHANGED <<command, bind, given, env, held, conf, only, secrets, changed, configVars>>

\* Somebody replaces the executable or removes the directory before the daemon looks.
FileChanges ==
    /\ step = "sent"
    /\ ~changed
    /\ changed' = TRUE
    /\ UNCHANGED <<command, step, bind, given, env, held, conf, only, secrets, req, configVars>>

\* validateDaemonLifecycle: the daemon stamps the times itself.
Normalized(r) == GoodReason(r.reason) /\ Trimmed(r.reason) = r.reason /\ InRange(r.ttl)

\* ValidateForDaemon of the four requests.
ExecFits(r)    == Normalized(r) /\ GoodSecrets(r.secrets) /\ GoodOverrides(r)

SessionFits(r) ==
    Normalized(r) /\ InRange(r.reads) /\ GoodSecrets(r.secrets) /\ GoodPolicy(r.bind)

ResolveFits(r) == GoodAliases(r.aliases) /\ InOrder(r.aliases) = r.aliases

ItemFits(r)    == Normalized(r) /\ r.account # None

\* The daemon looks at everything again, the files included.
DaemonValidates ==
    /\ step = "sent"
    /\ LET fits == CASE command = "exec"           -> ExecFits(req)
                     [] command = "session create" -> SessionFits(req)
                     [] command = "with-session"   -> ResolveFits(req)
                     [] command = "item describe"  -> ItemFits(req)
       IN  step' = IF fits /\ ~changed THEN "accepted" ELSE "rejected"
    /\ UNCHANGED <<command, bind, given, env, held, conf, only, secrets, req, changed, configVars>>

-----------------------------------------------------------------------------
RequestNext ==
    \/ BindFlags \/ LoadInputs \/ LoadEnvFails \/ Loading \/ Loaded \/ NotLoaded
    \/ ReadReason \/ Assemble \/ ResolveSources
    \/ BuildExec \/ BuildSessionCreate
    \/ ReadConfig \/ BuildItem \/ BuildResolve
    \/ FileChanges \/ DaemonValidates

RequestSpec == RequestInit /\ [][RequestNext]_requestVars

(***************************************************************************)
(* Properties.                                                             *)
(***************************************************************************)

\* The daemon turns down nothing the CLI has built, unless a file has changed in
\* between: what one side normalizes the other takes as it is (request.go:135-177,
\* session.go:317-351 and 403-433, item_describe.go:102-140).
RequestsAreAccepted == step = "rejected" => changed

\* An accepted exec never fails for a variable that is already there when its child is
\* started, after the approval was spent (request_builder.go:298-323 and
\* execwrap.go:121-157).
StartFindsNoConflict ==
    step = "accepted" /\ command = "exec" /\ AliasesOf(req.secrets) \cap DOMAIN env # {}
        => req.override

\* With --only, what is asked for is exactly what it names and what --secret adds, and
\* no reference of an env file is left in the child's environment
\* (exec_parse.go:176-217, 228-259, 595-632).
SelectionIsExact ==
    /\ step \in {"sent", "accepted"} /\ only # {} =>
          AliasesOf(req.secrets) = only \cup AliasesOf(given)
    /\ DOMAIN held \cap DOMAIN env = {}
=============================================================================
