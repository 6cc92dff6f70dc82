SPECIFICATION Spec
CONSTANTS
    Thread = {t1, t2, t3, t4}
    Item = {a, b, c}
    NoItem = NoItem
    Capacity = 2
INVARIANTS StopMeansDrained NoLostWakeup
PROPERTIES RefinesBoundedQueue
