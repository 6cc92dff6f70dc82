SPECIFICATION MCSpec
CONSTANTS
    MaxCall = 6
    Reconnect = TRUE
    Timer = {a}
    Timeouts = {0, 4, 8, 11}
    MaxLag = 2
    MaxNow = 16
    MaxMessages = 4
    MaxLines = 6
INVARIANTS SocketsOwned StopIsQuiet RequestIsPursued
           FramesIntact FiresOnTick RotationKeepsNewest FractionExact
\* A client that gave up, and a bounded environment that has ended, rest.
CHECK_DEADLOCK FALSE
