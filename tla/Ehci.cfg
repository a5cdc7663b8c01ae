SPECIFICATION FairSpec
CONSTANTS
    MAX_QH = 2
    MAX_QTD = 7
    MaxReq = 3
INVARIANTS ScheduleIntact SuccessIsOwnAnswer RefusedOnlyAfterFailures
PROPERTY CallsReturn
