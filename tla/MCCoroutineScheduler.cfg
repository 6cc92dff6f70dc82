SPECIFICATION Spec
CONSTANTS
    MaxIds = 2
    MaxFrames = 3
    MaxReady = 2
INVARIANTS CurrentIsSuspended
CHECK_DEADLOCK FALSE
