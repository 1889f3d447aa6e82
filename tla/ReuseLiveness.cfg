SPECIFICATION FairSpec
CONSTANTS
    Requests = {r1, r2}
    Approvals = {x1}
    NoApproval = NoApproval
    Keys = {k, m}
    UsesOf <- MixedUses
    TTLOf <- MCTTL
    Refs = {a}
    Modes = {"plain"}
    MaxTime = 2
INVARIANTS CachedValuesHaveTimer
PROPERTIES RequestsSettle CachedValuesAreCleared
CHECK_DEADLOCK FALSE
