SPECIFICATION FairSpec
CONSTANTS
    Clients = {c1, c2}
    Ops = {"work", "spawn"}
    Looping = FALSE
    Garbage = {FALSE}
    MaxCalls = 3
PROPERTIES WaitReturns FlushReturns
