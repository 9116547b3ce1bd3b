SPECIFICATION Spec
CONSTANTS
    MaxInitiated = 1
    MaxAccepted = 1
    MaxSends = 1
    MaxData = 1
    MaxBacklog = 3
    ConnectMayFail = TRUE
    ListenerMayFail = TRUE
CHECK_DEADLOCK FALSE
INVARIANTS TypeOK PeerLifecycle DeletedSessionsQuiet SendTargetsLive
