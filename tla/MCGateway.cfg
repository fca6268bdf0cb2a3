CONSTANTS
    r1 = r1
    r2 = r2
    r3 = r3
    Requests = {r1, r2, r3}
    Scenarios <- Scenarios0
    Cfg <- Cfg0
SPECIFICATION FairSpec
INVARIANTS TypeOK SuccessIsDoneAndRecorded RefusalsLeaveNoTrace OneAnswer AnalysisIsTrue
PROPERTIES RequestsEnd
