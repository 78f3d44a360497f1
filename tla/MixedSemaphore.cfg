\* Requests for one and for two tokens on one semaphore.
CONSTANTS
    Threads = {t1, t2, t3}
    MaxCount = 2
    InitCount = 0
    Requests <- MixedRequests
    Amounts = {1}
SPECIFICATION FairSpec
PROPERTY BlocksOnlyUntilEnough
CHECK_DEADLOCK FALSE
