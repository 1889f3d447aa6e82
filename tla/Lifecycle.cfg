SPECIFICATION FairSpec
CONSTANTS
    Managers = {m1, m2}
    Daemons = {d0, d1, d2}
    Former = d0
    NoDaemon = NoDaemon
    NotAsked = NotAsked
INVARIANTS
    LoneRepairSucceeds
    StartKeepsDaemons
    ColdStartServes
PROPERTY CommandsReturn
CHECK_DEADLOCK FALSE
