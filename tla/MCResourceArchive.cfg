SPECIFICATION FairSpec
CONSTANTS
    o1 = o1
    NoRequest = NoRequest
    Objects = {o1}
    Threads = {t1, t2}
    Requests <- MCRequests
    Size <- MCSize
    DamagedSize <- MCDamagedSize
    Retries = 1
    InitialFiles <- AllFiles
    FetchMissing = TRUE
    MaxKills = 1
INVARIANTS
    TypeOK
    ServedObjectsAreExact
    ReportIsTrue
PROPERTIES
    GoodStaysGood
    RequestsEnd
    ArchiverEnds
