SPECIFICATION MCSpec
CONSTANTS
    Thread = {t1}
    m1 = m1
    m2 = m2
    Message = {m1, m2}
    Size <- MCSize
    MaxOutput = 2
    Policy = "CloseConnection"
    PauseMark = 1
    ResumeMark = 0
    MaxInput = 1
    Remote = {"shutdown", "startRead", "stopRead"}
    MaxQueue = 1
    kCheapPrepend = 2
    InitialSize = 2
    Extra = 2
    MaxCall = 3
    MaxBytes = 5
INVARIANTS StreamIntact PauseHasEnd  PeerCloseDeliversAll BufferIsStream
PROPERTIES ShutdownCompletes
CHECK_DEADLOCK FALSE
