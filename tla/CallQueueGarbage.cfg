SPECIFICATION Spec
CONSTANTS
    Clients = {c1}
    Ops = {"work"}
    Looping = FALSE
    Garbage = {FALSE, TRUE}
    MaxCalls = 2
INVARIANT FlushKeepsPromise
