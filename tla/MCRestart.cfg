SPECIFICATION FairSpec
CONSTANTS
    Workers = {w1}
    NodeManagers = {nm}
    AtStart = {"stopped"}
    Timely = {w1, nm}
    MayDie = {nm}
    ElasticIP = TRUE
CHECK_DEADLOCK FALSE
PROPERTIES NodeManagerRestarts
