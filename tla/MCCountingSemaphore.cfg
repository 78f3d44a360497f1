\* One-token requests: the semaphore is safe, loses no wakeup and implements
\* the abstract one.
CONSTANTS
    Threads = {t1, t2, t3}
    MaxCount = 2
    InitCount = 0
    Requests <- UnitRequests
    Amounts = {1, 2}
SPECIFICATION FairSpec
INVARIANTS TypeOK WaitingExact NoLostWakeup WakeupsSuffice
PROPERTY ImplementsSemaphore
