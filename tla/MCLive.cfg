SPECIFICATION FairSpec
CONSTANTS
    t1 = t1
    t2 = t2
    Workers = {w1}
    Procs = {w1}
    Tasks = {t1, t2}
    None = None
    Benchmark <- MCBenchmark
    instance_id <- MCInstanceId
    StorageMayFail = FALSE
    NetMayFail = FALSE
    MaxBuffer = 1
    MaxKills = 2
    ImMayFail = FALSE
    MayMissStop = FALSE
PROPERTIES EventuallyExecuted
