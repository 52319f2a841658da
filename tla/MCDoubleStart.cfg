SPECIFICATION Spec
CONSTANTS
    t1 = t1
    t2 = t2
    Workers = {w1}
    Procs = {p1, p2}
    Tasks = {t1, t2}
    None = None
    Benchmark <- MCBenchmark
    instance_id <- MCInstanceId
    StorageMayFail = FALSE
    NetMayFail = FALSE
    MaxBuffer = 1
    MaxKills = 1
    ImMayFail = FALSE
    MayMissStop = FALSE
INVARIANT RemainingGoBack
