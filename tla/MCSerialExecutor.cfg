SPECIFICATION FairSpec
CONSTANTS
    Worker = {w1, w2}
    Client = {c1, c2}
    Task = {a, b, c}
    NoTask = NoTask
    Capacity = 0
    Reentrant = TRUE
INVARIANTS NoStrandedTask
PROPERTIES RefinesSerialQueue AcceptedTasksRun
CHECK_DEADLOCK FALSE
