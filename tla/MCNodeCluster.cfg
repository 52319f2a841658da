SPECIFICATION Spec
CONSTANTS
    t1 = t1
    t2 = t2
    Workers = {w1, w2}
    Procs = {w1, w2}
    Tasks = {t1, t2}
    None = None
    Benchmark <- MCBenchmark
    instance_id <- MCInstanceId
    StorageMayFail = FALSE
    NetMayFail = FALSE
    MaxBuffer = 1
    MaxKills = 1
    ImMayFail = FALSE
    MayMissStop = FALSE
SYMMETRY Symmetry
INVARIANTS TypeOK NoTaskLost InSync DonePopsItsTask
PROPERTIES ImplementsService
