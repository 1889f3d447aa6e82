SPECIFICATION Spec
CONSTANTS
    r1 = r1
    r2 = r2
    r1a = r1a
    r1b = r1b
    r2a = r2a
    Calls <- MCCalls
    Requests = {r1, r2}
    Accounts = {acc}
    AccountOf <- MCAccountOf
    RequestOf <- MCRequestOf
    NoClient = NoClient
    FetchLimit = 1
INVARIANTS OneCreatorPerAccount ResolvedIsComplete NobodyIsStuck
PROPERTY OnlyStaleClientsLeave
CHECK_DEADLOCK FALSE
