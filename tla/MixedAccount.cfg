SPECIFICATION AdmissionSpec
CONSTANTS
    Names = {"p", "q"}
    NoName = NoName
    None = None
    Docs <- MCDocs
    Levels = 1
    MaxDepth = 2
    MaxIncludes = 3
    Aliases = {"A", "B"}
    Sources = {"s", "t"}
    Policies <- MCPolicies
    MaxBindAncestor = 3
    AutoBinding <- MCAuto
    FlagSecrets <- MCFlagSecrets
    EnvFiles <- MCEnvFiles
    FlagAliases <- MCFlagAliases
    Pids = {2, 3, 4}
    Exes = {"shell", "cli", "launchd"}
    Cli = "cli"
    Shell = "shell"
    Launchd = "launchd"
    User = "me"
    Root = "root"
    NoProcess = NoProcess
    MaxWalk = 3
    MaxStarts = 4
INVARIANT BitwardenHasNoAccount
CHECK_DEADLOCK FALSE
