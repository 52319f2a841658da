SPECIFICATION Spec
CONSTANTS
    Workers = {w1}
    NodeManagers = {nm}
    AtStart = {"stopped"}
    Timely = {w1, nm}
    MayDie = {}
    ElasticIP = TRUE
CHECK_DEADLOCK FALSE
PROPERTIES SchedulerSurvives
