\* Two callers of wait(), wait_for() and stop(), and so of run(); the last one
\* destroys the batch.  Two workers, up to three jobs, threads that fail to start.
CONSTANTS
    Callers = {c1, c2}
    Calls <- WaitAndStop
    MaxThreads = 2
    JobsPerThread = 1
    MaxJobs = 3
    ThreadThrows = TRUE
    NoOwner = NoOwner
SPECIFICATION FairSpec
INVARIANTS TypeOK EachJobOnce PendingExact FinishedMeansSettled
    NoSleeperStranded DestroyedClean
PROPERTIES BatchEnds DestructorEnds
CHECK_DEADLOCK FALSE
