SPECIFICATION Spec
CONSTANTS
    Sessions = {s1, s2}
    Resolves = {r1, r2, r3}
    NoSession = NoSession
    MaxReads <- MCReads
    TTL = 1
    MaxTime = 2
SYMMETRY Symmetric
INVARIANTS ReadCountersMatch ExhaustedValuesClear
PROPERTY SessionImplementsLedger
CHECK_DEADLOCK FALSE
