SPECIFICATION FairSpec
CONSTANTS
    MaxInitiated = 1
    MaxAccepted = 0
    MaxSends = 1
    MaxData = 0
    MaxBacklog = 2
    ConnectMayFail = TRUE
    ListenerMayFail = FALSE
CHECK_DEADLOCK FALSE
PROPERTY StopWaitEnds
