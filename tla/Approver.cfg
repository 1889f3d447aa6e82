SPECIFICATION Spec
CONSTANTS
    Jobs = {j1, j2}
    NoJob = NoJob
    AllowsReusable = {j1}
    Peers = {j1}
    Choices = {"approve_once", "approve_reusable"}
INVARIANTS SleepersMissNoJob ApprovedByItsApprover NoStrandedJob
CHECK_DEADLOCK FALSE
