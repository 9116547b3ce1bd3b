SPECIFICATION FairSpec
CONSTANTS
    Clients = {c1, c2}
    Ops = {"work", "spawn"}
    Looping = TRUE
    Garbage = {FALSE}
    MaxCalls = 3
CHECK_DEADLOCK FALSE
INVARIANTS TypeOK InOrder FlushKeepsPromise NoMissedNotify
PROPERTIES CallsRun WaitReturns MailboxSpec
