SPECIFICATION Spec
CONSTANTS
    t1 = t1
    t2 = t2
    t3 = t3
    t4 = t4
    w1 = w1
    w2 = w2
    Workers = {w1, w2}
    Tasks = {t1}
    None = None
    Benchmark <- MCBenchmark
    Listing <- MCListing
    StorageMayFail = FALSE
    MaxReports = 2
    MaxHanded = 2
    WINDOW_SIZE = 2
    MIN_JOBS_PER_WORKER = 1
    MAX_JOBS_PER_WORKER = 2
PROPERTY StartsForWork
