SPECIFICATION Spec
CONSTANTS
    MaxInitiated = 0
    MaxAccepted = 1
    MaxSends = 0
    MaxData = 0
    MaxBacklog = 2
    ConnectMayFail = FALSE
    ListenerMayFail = FALSE
CHECK_DEADLOCK FALSE
INVARIANT StopEndsThreads
