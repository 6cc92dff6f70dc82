SPECIFICATION Spec
CONSTANTS
    Thread = {t1}
    Functor = {}
    MaxTimer = 2
    Delay <- MCDelay
    Interval = {1}
    MaxTime = 2
    IdlePoll = 3
    MayQuit = FALSE
    WakeRoom = 1
    WakeChunk = 1
INVARIANTS TimerBooksAgree
PROPERTY CancelledStaysQuiet
