SPECIFICATION MCSpec
CONSTANTS
    Worker = {w1, w2}
    Client = {c1, c2}
    Controller = {k1, k2}
    Task = {a, b, c, d}
    NoTask = NoTask
    Capacity = 1
    Reentrant = TRUE
    Thread = {t1, t2}
    QueueCapacity = 1
    Policy = "DiscardNewest"
    MaxSeq = 3
INVARIANTS ExactlyOnce StopDrains LoggerDrains
PROPERTIES  FlushCovers
