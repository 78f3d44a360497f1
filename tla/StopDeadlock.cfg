\* Stopping at once while another caller stops and waits for the tasks.
CONSTANTS
    c1 = c1
    c2 = c2
    Callers = {c1, c2}
    Creator = c1
    MaxSize = 2
    MaxWorkers = 2
    QueueCapacity = 1
    MaxCalls = 3
    Calls <- PushAndStop
    ThreadThrows = FALSE
    NoOwner = NoOwner
SPECIFICATION FairSpec
PROPERTY StopReturns
CHECK_DEADLOCK FALSE
