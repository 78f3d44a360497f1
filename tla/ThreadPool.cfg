\* Two callers resize, push, clear and stop a pool of up to two workers, whose
\* start may fail, and one of them destroys it.
CONSTANTS
    c1 = c1
    c2 = c2
    Callers = {c1, c2}
    Creator = c1
    MaxSize = 2
    MaxWorkers = 6
    QueueCapacity = 2
    MaxCalls = 2
    Calls <- EveryCall
    ThreadThrows = TRUE
    NoOwner = NoOwner
SPECIFICATION FairSpec
INVARIANTS TypeOK RunningExact VerifyExpected OneHandle
PROPERTIES ListsFrozen ShrinkCompletes GrowCompletes DestructorEnds
CHECK_DEADLOCK FALSE
