SPECIFICATION FairSpec
CONSTANTS
    Clients = {c1, c2}
    Ops = {"work", "spawn", "flush"}
    Looping = TRUE
    Garbage = {FALSE}
    MaxCalls = 3
CHECK_DEADLOCK FALSE
INVARIANTS ExactlyOnce SentinelsAlive
PROPERTIES FlushReturns DestructorReturns
