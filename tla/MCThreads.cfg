SPECIFICATION MCSpec
CONSTANTS
    Thread = {t1, t2}
    MaxIdle = 2
    Reserves = {1, 2}
    MaxObjects = 3
    Loop = {l1, l2}
    Caller = {c1, c2}
    Delays = {1}
    MaxTimers = 2
    MaxGeneration = 1
    MaxTime = 2
INVARIANTS ObjectsConserved LoopsAlive
PROPERTIES LateStopReturns CancelledNeverStarts WorkerNeverStuck
\* A pool that is gone, loops that are stopped and an empty timer queue rest.
CHECK_DEADLOCK FALSE
