SPECIFICATION FairSpec
CONSTANTS
    Workers = {w1}
    NodeManagers = {nm}
    AtStart = {"pending", "running", "stopping", "stopped"}
    Timely = {}
    MayDie = {w1, nm}
    ElasticIP = FALSE
CHECK_DEADLOCK FALSE
INVARIANTS TypeOK RecordedStopped OnAreWatched BeatsAreCharged
PROPERTIES OnlyWorkersEndIt WorkerComesUp
