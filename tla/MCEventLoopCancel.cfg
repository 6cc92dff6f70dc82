SPECIFICATION Spec
CONSTANTS
    Thread = {t1}
    Functor = {}
    MaxTimer = 1
    Delay <- MCDelay
    Interval = {1}
    MaxTime = 1
    IdlePoll = 1
    MayQuit = FALSE
    WakeRoom = 1
    WakeChunk = 1
PROPERTY CancelPreventsFiring
