SPECIFICATION Spec
CONSTANTS
    t1 = t1
    t2 = t2
    Workers = {w1}
    Procs = {w1}
    Tasks = {t1, t2}
    None = None
    Benchmark <- MCBenchmark
    instance_id <- MCInstanceId
    StorageMayFail = TRUE
    NetMayFail = TRUE
    MaxBuffer = 2
    MaxKills = 2
    ImMayFail = TRUE
    MayMissStop = FALSE
INVARIANTS NoTaskLost InSync DonePopsItsTask
PROPERTIES ImplementsService
