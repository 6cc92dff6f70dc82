SPECIFICATION TimedSpec
CONSTANTS
    Thread = {t1, t2}
    Functor = {f1}
    MaxTimer = 1
    Delay = {1}
    Interval = {}
    MaxTime = 1
    IdlePoll = 2
    MayQuit = TRUE
    WakeRoom = 1
    WakeChunk = 1
INVARIANTS FunctorsInOrder NoSleepOnWork
PROPERTIES QuitEndsLoop DueTimersFire
