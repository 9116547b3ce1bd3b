SPECIFICATION FairSpec
CONSTANTS
    MaxInitiated = 1
    MaxAccepted = 1
    MaxSends = 1
    MaxData = 0
    MaxBacklog = 2
    ConnectMayFail = FALSE
    ListenerMayFail = FALSE
CHECK_DEADLOCK FALSE
INVARIANTS CleanStop
PROPERTIES StopTerminates EndedSessionsDeleted
