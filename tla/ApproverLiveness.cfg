SPECIFICATION FairSpec
CONSTANTS
    Jobs = {j1, j2}
    NoJob = NoJob
    AllowsReusable = {}
    Peers = {j1}
    Choices = {}
PROPERTIES ApproveReturns SleepersWake
CHECK_DEADLOCK FALSE
