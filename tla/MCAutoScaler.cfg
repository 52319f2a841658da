SPECIFICATION FairSpec
CONSTANTS
    t1 = t1
    t2 = t2
    t3 = t3
    t4 = t4
    w1 = w1
    w2 = w2
    Workers = {w1, w2}
    Tasks = {t1, t2}
    None = None
    Benchmark <- MCBenchmark
    Listing <- MCListing
    StorageMayFail = FALSE
    MaxReports = 1
    MaxHanded = 2
    WINDOW_SIZE = 1
    MIN_JOBS_PER_WORKER = 1
    MAX_JOBS_PER_WORKER = 2
INVARIANTS PoolTypeOK TypeOK KeysAgree NoTaskDropped AssignedAreTimed CounterLaw
PROPERTIES RetiredOrHidden
