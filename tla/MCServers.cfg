SPECIFICATION MCSpec
CONSTANTS
    Conn = {c1, c2}
    IoLoop = {l1, l2}
    Main = main
    IdleTimeout = 2
    HeartbeatInterval = 1
    IdleCallback = FALSE
    MaxQueue = 2
    Key = {k1, k2}
    KcpLoop = {io}
    MaxSessions = 2
    MaxSnd = 1
    MaxDatagrams = 2
    MaxCalls = 1
INVARIANTS  SessionsTracked
  
