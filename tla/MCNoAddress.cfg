SPECIFICATION Spec
CONSTANTS
    Workers = {w1}
    NodeManagers = {nm}
    AtStart = {"stopped"}
    Timely = {w1, nm}
    MayDie = {}
    ElasticIP = FALSE
CHECK_DEADLOCK FALSE
INVARIANTS WorkersHaveAddress
