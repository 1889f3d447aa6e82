SPECIFICATION Spec
CONSTANTS
    Requests = {r1, r2}
    Approvals = {x1, x2}
    NoApproval = NoApproval
    Keys = {k}
    UsesOf <- MCUses
    TTLOf <- MCTTL
    Refs = {a, b}
    Modes = {"plain", "force_refresh", "reuse_only"}
    MaxTime = 3
SYMMETRY Symmetric
INVARIANTS CountersMatchDeliveries LiveApprovalsAreCached StopLeavesNothing
PROPERTY ImplementsLedger
CHECK_DEADLOCK FALSE
