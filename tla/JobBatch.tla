------------------------------- MODULE JobBatch -------------------------------
(***************************************************************************)
(* pcomn::job_batch (pcommon/pcomn_threadpool.{h,cpp}): a batch of jobs    *)
(* that run() hands out to worker threads, once.                           *)
(*                                                                         *)
(* The next job is a counter that every worker decrements without a lock   *)
(* and that stop() exchanges for -1; the last job to end, or the stop()    *)
(* that drops the last ones, opens the promise lock _finished, on which    *)
(* wait() and the destructor sleep.  Worker 0 joins the others, holding    *)
(* _pool_mutex, and the destructor joins worker 0.                         *)
(*                                                                         *)
(* A step is one access to an atomic, to the promise lock or to the mutex; *)
(* taking a mutex is one step with the first access under it, and so is    *)
(* what run() stores before there are workers.  The jobs are in the batch  *)
(* from the beginning.  A job that throws ends like any other.             *)
(***************************************************************************)
EXTENDS Integers, FiniteSets, FiniteSetsExt

CONSTANTS Callers,        \* the threads that use the batch
          Calls,          \* the member functions they call
          MaxThreads,     \* _max_threadcount
          JobsPerThread,  \* _jobs_per_thread
          MaxJobs,        \* the batch has at most so many jobs
          ThreadThrows,   \* whether starting a thread may throw
          NoOwner         \* nobody owns _pool_mutex

Workers == 0..MaxThreads - 1
Jobs == 0..MaxJobs - 1
LockThreads == Callers \cup Workers

ASSUME CallersAssumption == /\ IsFiniteSet(Callers)
                            /\ Callers \cap Workers = {}
                            /\ NoOwner \notin LockThreads
ASSUME CallsAssumption ==
    Calls \subseteq {"run", "wait", "try_wait", "wait_for", "stop"}
ASSUME SizesAssumption == /\ MaxThreads \in Nat \ {0}
                          /\ JobsPerThread \in Nat \ {0}
                          /\ MaxJobs \in Nat
ASSUME ThrowsAssumption == ThreadThrows \in BOOLEAN

VARIABLES mutex,      \* the owner of _pool_mutex, or NoOwner
          jobndx,     \* _jobndx: the jobs not started, none if <= 0
          pending,    \* _pending: the jobs not completed or dropped
          threads,    \* size(): the workers created, 0..threads - 1
          jobs,       \* jobcount()
          pc,         \* pc[t]: where caller or worker t is
          call,       \* call[c]: what caller c is executing
          index,      \* index[w]: the job_index of worker w
          left,       \* left[t]: the local `pending` of a worker, the
                      \* unstarted_count of a caller in stop()
          phase,      \* "alive", "destroying" or "destroyed"
          started,    \* started[j]: how many times job j has been started,
          finished,   \* ... and has ended
          dropped     \* the jobs stop() threw away

\* The word of _finished, and where each thread is inside it.
VARIABLES locked, at, timed

Finished == INSTANCE PromiseLock

batchvars == <<mutex, jobndx, pending, threads, jobs, pc, call, index, left,
               phase, started, finished, dropped>>
lockvars == <<locked, at, timed>>
vars == <<batchvars, lockvars>>

Init == /\ mutex = NoOwner
        /\ jobndx = 0
        /\ pending = 0
        /\ threads = 0
        /\ jobs \in 0..MaxJobs
        /\ pc = [t \in LockThreads |-> IF t \in Callers THEN "idle" ELSE "none"]
        /\ call = [c \in Callers |-> "none"]
        /\ index = [w \in Workers |-> 0]
        /\ left = [t \in LockThreads |-> 0]
        /\ phase = "alive"
        /\ started = [j \in Jobs |-> 0]
        /\ finished = [j \in Jobs |-> 0]
        /\ dropped = {}
        /\ Finished!LockInit

Goto(t, label) == pc' = [pc EXCEPT ![t] = label]

\* Caller c leaves the batch, with or without an exception.
Finish(c) == Goto(c, "idle") /\ call' = [call EXCEPT ![c] = "none"]

\* A slip: the batch starts as many threads as its jobs ask for.
ThreadCountUncapped == (jobs + JobsPerThread - 1) \div JobsPerThread

\* min(_max_threadcount, jobs/_jobs_per_thread rounded up)
ThreadCount == Min({MaxThreads, (jobs + JobsPerThread - 1) \div JobsPerThread})

-----------------------------------------------------------------------------
(* The calls *)

StartCall(c, f) ==
    /\ phase = "alive"
    /\ pc[c] = "idle"
    /\ Goto(c, IF f = "stop" THEN "stop_lock" ELSE "run_lock")
    /\ call' = [call EXCEPT ![c] = f]
    /\ UNCHANGED <<mutex, jobndx, pending, threads, jobs, index, left, phase,
                   started, finished, dropped, lockvars>>

\* ~job_batch(), when nobody else is inside.
StartDestroy(c) ==
    /\ phase = "alive"
    /\ \A d \in Callers : pc[d] = "idle"
    /\ IF jobs = 0
       THEN phase' = "destroyed" /\ UNCHANGED <<pc, call>>
       ELSE /\ phase' = "destroying"
            /\ Goto(c, "stop_lock")
            /\ call' = [call EXCEPT ![c] = "destroy"]
    /\ UNCHANGED <<mutex, jobndx, pending, threads, jobs, index, left, started,
                   finished, dropped, lockvars>>

\* run() has returned ok, to its caller or to one of the waits.
RunReturn(c, ok) == IF call[c] = "run" \/ ok
                    THEN Finish(c)
                    ELSE Goto(c, "wait") /\ UNCHANGED call

\* run() of an empty batch opens the lock, once.
RunEmpty(c) ==
    /\ pc[c] = "run_lock" /\ mutex = NoOwner
    /\ jobs = 0
    /\ jobndx' = -1
    /\ IF jobndx >= 0
       THEN mutex' = c /\ Goto(c, "run_open") /\ UNCHANGED call
       ELSE RunReturn(c, TRUE) /\ UNCHANGED mutex
    /\ UNCHANGED <<pending, threads, jobs, index, left, phase, started, finished,
                   dropped, lockvars>>

RunOpen(c) == /\ pc[c] = "run_open"
              /\ Finished!UnlockLoad(c)
              /\ Goto(c, "run_opening")
              /\ UNCHANGED <<mutex, jobndx, pending, threads, jobs, call, index,
                             left, phase, started, finished, dropped>>

RunOpened(c) == /\ pc[c] = "run_opening" /\ Finished!Out(c)
                /\ mutex' = NoOwner
                /\ RunReturn(c, TRUE)
                /\ UNCHANGED <<jobndx, pending, threads, jobs, index, left, phase,
                               started, finished, dropped, lockvars>>

\* run() of a batch that is running.
RunRunning(c) == /\ pc[c] = "run_lock" /\ mutex = NoOwner
                 /\ jobs > 0 /\ pending # 0
                 /\ RunReturn(c, FALSE)
                 /\ UNCHANGED <<mutex, jobndx, pending, threads, jobs, index,
                                left, phase, started, finished, dropped, lockvars>>

\* run() of a batch that has no jobs pending: completed, or not started yet.
RunStart(c) ==
    /\ pc[c] = "run_lock" /\ mutex = NoOwner
    /\ jobs > 0 /\ pending = 0
    /\ IF threads > 0
       THEN Goto(c, "run_try") /\ UNCHANGED <<mutex, jobndx, pending>>
       ELSE /\ mutex' = c
            /\ jobndx' = jobs
            /\ pending' = jobs
            /\ Goto(c, "run_spawn")
    /\ UNCHANGED <<threads, jobs, call, index, left, phase, started, finished,
                   dropped, lockvars>>

\* The next worker; after the last one the mutex is released.
RunSpawn(c) ==
    /\ pc[c] = "run_spawn"
    /\ threads' = threads + 1
    /\ left' = [left EXCEPT ![threads] = 1]
    /\ IF threads' = ThreadCount
       THEN /\ mutex' = NoOwner
            /\ pc' = [pc EXCEPT ![threads] = "fetch", ![c] = "run_try"]
       ELSE Goto(threads, "fetch") /\ UNCHANGED mutex
    /\ UNCHANGED <<jobndx, pending, jobs, call, index, phase, started, finished,
                   dropped, lockvars>>

\* No thread could be started: run() throws and the counters stay as they are.
RunSpawnThrows(c) == /\ ThreadThrows
                     /\ pc[c] = "run_spawn"
                     /\ mutex' = NoOwner
                     /\ Finish(c)
                     /\ UNCHANGED <<jobndx, pending, threads, jobs, index, left,
                                    phase, started, finished, dropped, lockvars>>

\* _finished.try_wait(), after the mutex.
RunTry(c) == /\ pc[c] = "run_try"
             /\ Finished!TimedWait(c, "zero")
             /\ Goto(c, "run_trying")
             /\ UNCHANGED <<mutex, jobndx, pending, threads, jobs, call, index,
                            left, phase, started, finished, dropped>>

RunTried(c) == /\ pc[c] = "run_trying"
               /\ Finished!Leave(c)
               /\ RunReturn(c, at[c] = "opened")
               /\ UNCHANGED <<mutex, jobndx, pending, threads, jobs, index, left,
                              phase, started, finished, dropped>>

\* wait(), wait_with_timeout() and the destructor, after run() or stop().
Wait(c) == /\ pc[c] = "wait"
           /\ CASE call[c] = "try_wait" -> Finished!TimedWait(c, "zero")
                [] call[c] = "wait_for" -> Finished!TimedWait(c, "positive")
                [] OTHER -> Finished!Wait(c)
           /\ Goto(c, "waiting")
           /\ UNCHANGED <<mutex, jobndx, pending, threads, jobs, call, index,
                          left, phase, started, finished, dropped>>

Waited(c) ==
    /\ pc[c] = "waiting"
    /\ Finished!Leave(c)
    /\ IF call[c] = "destroy" THEN Goto(c, "join") /\ UNCHANGED call ELSE Finish(c)
    /\ UNCHANGED <<mutex, jobndx, pending, threads, jobs, index, left, phase,
                   started, finished, dropped>>

\* The destructor ends: _threads.front().join(), if there is any.
Join(c) == /\ pc[c] = "join"
           /\ threads = 0 \/ pc[0] = "exit"
           /\ phase' = "destroyed"
           /\ Finish(c)
           /\ UNCHANGED <<mutex, jobndx, pending, threads, jobs, index, left,
                          started, finished, dropped, lockvars>>

-----------------------------------------------------------------------------
(* stop() *)

StopReturn(c) == IF call[c] = "destroy"
                 THEN Goto(c, "wait") /\ UNCHANGED call
                 ELSE Finish(c)

\* All the jobs have been started: nothing to stop.
StopLate(c) == /\ pc[c] = "stop_lock" /\ mutex = NoOwner
               /\ threads > 0 /\ jobndx <= 0
               /\ StopReturn(c)
               /\ UNCHANGED <<mutex, jobndx, pending, threads, jobs, index, left,
                              phase, started, finished, dropped, lockvars>>

\* A slip: a batch that has not been started is cleared, but stays closed.
StopLockSilent(c) ==
    /\ pc[c] = "stop_lock" /\ mutex = NoOwner
    /\ \/ threads = 0 /\ jobs' = 0 /\ StopReturn(c) /\ UNCHANGED mutex
       \/ /\ threads > 0 /\ jobndx > 0
          /\ mutex' = c
          /\ Goto(c, "stop_exchange")
          /\ UNCHANGED <<jobs, call>>
    /\ UNCHANGED <<jobndx, pending, threads, index, left, phase, started, finished,
                   dropped, lockvars>>

StopLock(c) ==
    /\ pc[c] = "stop_lock" /\ mutex = NoOwner
    /\ mutex' = c
    /\ \/ threads = 0 /\ jobs' = 0 /\ Goto(c, "stop_open")
       \/ threads > 0 /\ jobndx > 0 /\ Goto(c, "stop_exchange") /\ UNCHANGED jobs
    /\ UNCHANGED <<jobndx, pending, threads, call, index, left, phase, started,
                   finished, dropped, lockvars>>

\* A slip: the counter is read and not exchanged.
StopLoad(c) ==
    /\ pc[c] = "stop_exchange"
    /\ IF jobndx > 0
       THEN /\ dropped' = (jobs - jobndx)..(jobs - 1)
            /\ left' = [left EXCEPT ![c] = jobndx]
            /\ Goto(c, "stop_sub")
            /\ UNCHANGED <<mutex, call>>
       ELSE /\ mutex' = NoOwner
            /\ StopReturn(c)
            /\ UNCHANGED <<dropped, left>>
    /\ UNCHANGED <<jobndx, pending, threads, jobs, index, phase, started, finished,
                   lockvars>>

\* unstarted_count = _jobndx.exchange(-1)
StopExchange(c) ==
    /\ pc[c] = "stop_exchange"
    /\ jobndx' = -1
    /\ IF jobndx > 0
       THEN /\ dropped' = (jobs - jobndx)..(jobs - 1)
            /\ left' = [left EXCEPT ![c] = jobndx]
            /\ Goto(c, "stop_sub")
            /\ UNCHANGED <<mutex, call>>
       ELSE /\ mutex' = NoOwner
            /\ StopReturn(c)
            /\ UNCHANGED <<dropped, left>>
    /\ UNCHANGED <<pending, threads, jobs, index, phase, started, finished,
                   lockvars>>

\* A slip: the jobs dropped stay pending.
StopSubNothing(c) ==
    /\ pc[c] = "stop_sub"
    /\ left' = [left EXCEPT ![c] = 0]
    /\ mutex' = NoOwner
    /\ StopReturn(c)
    /\ UNCHANGED <<jobndx, pending, threads, jobs, index, phase, started, finished,
                   dropped, lockvars>>

\* A slip: the lock is opened although some jobs are still running.
StopSubOpen(c) ==
    /\ pc[c] = "stop_sub"
    /\ pending' = pending - left[c]
    /\ left' = [left EXCEPT ![c] = 0]
    /\ Goto(c, "stop_open")
    /\ UNCHANGED <<mutex, jobndx, threads, jobs, call, index, phase, started,
                   finished, dropped, lockvars>>

\* The jobs dropped are not pending any more.
StopSub(c) ==
    /\ pc[c] = "stop_sub"
    /\ pending' = pending - left[c]
    /\ left' = [left EXCEPT ![c] = 0]
    /\ IF pending' <= 0
       THEN Goto(c, "stop_open") /\ UNCHANGED <<mutex, call>>
       ELSE mutex' = NoOwner /\ StopReturn(c)
    /\ UNCHANGED <<jobndx, threads, jobs, index, phase, started, finished,
                   dropped, lockvars>>

StopOpen(c) == /\ pc[c] = "stop_open"
               /\ Finished!UnlockLoad(c)
               /\ Goto(c, "stop_opening")
               /\ UNCHANGED <<mutex, jobndx, pending, threads, jobs, call, index,
                              left, phase, started, finished, dropped>>

StopOpened(c) == /\ pc[c] = "stop_opening" /\ Finished!Out(c)
                 /\ mutex' = NoOwner
                 /\ StopReturn(c)
                 /\ UNCHANGED <<jobndx, pending, threads, jobs, index, left,
                                phase, started, finished, dropped, lockvars>>

-----------------------------------------------------------------------------
(* The workers *)

\* job_index = _jobndx.fetch_sub(1), and the job if there is one.
Fetch(w) ==
    /\ pc[w] = "fetch"
    /\ jobndx' = jobndx - 1
    /\ IF jobndx > 0
       THEN /\ index' = [index EXCEPT ![w] = jobndx]
            /\ started' = [started EXCEPT ![jobs - jobndx] = @ + 1]
            /\ Goto(w, "exec")
            /\ UNCHANGED left
       ELSE /\ Goto(w, IF left[w] = 0 THEN "last" ELSE "after")
            /\ left' = [left EXCEPT ![w] = 0]
            /\ UNCHANGED <<index, started>>
    /\ UNCHANGED <<mutex, pending, threads, jobs, call, phase, finished, dropped,
                   lockvars>>

\* The job ends.
Exec(w) == /\ pc[w] = "exec"
           /\ finished' = [finished EXCEPT ![jobs - index[w]] = @ + 1]
           /\ index' = [index EXCEPT ![w] = 0]
           /\ Goto(w, "sub")
           /\ UNCHANGED <<mutex, jobndx, pending, threads, jobs, call, left, phase,
                          started, dropped, lockvars>>

\* pending = sub(&_pending, 1)
Sub(w) == /\ pc[w] = "sub"
          /\ pending' = pending - 1
          /\ left' = [left EXCEPT ![w] = pending']
          /\ Goto(w, "fetch")
          /\ UNCHANGED <<mutex, jobndx, threads, jobs, call, index, phase,
                         started, finished, dropped, lockvars>>

\* The worker that completed the last job.
Last(w) == /\ pc[w] = "last"
           /\ jobndx' = -1
           /\ Goto(w, "open")
           /\ UNCHANGED <<mutex, pending, threads, jobs, call, index, left, phase,
                          started, finished, dropped, lockvars>>

Open(w) == /\ pc[w] = "open"
           /\ Finished!UnlockLoad(w)
           /\ Goto(w, "after")
           /\ UNCHANGED <<mutex, jobndx, pending, threads, jobs, call, index, left,
                          phase, started, finished, dropped>>

\* Worker 0 takes the mutex to join the others, another one is done.
After(w) ==
    /\ pc[w] = "after" /\ Finished!Out(w)
    /\ IF w = 0
       THEN mutex = NoOwner /\ mutex' = w /\ Goto(w, "joining")
       ELSE Goto(w, "exit") /\ UNCHANGED mutex
    /\ UNCHANGED <<jobndx, pending, threads, jobs, call, index, left, phase,
                   started, finished, dropped, lockvars>>

\* A slip: worker 0 does not wait for the others.
NotJoining(w) ==
    /\ pc[w] = "joining"
    /\ mutex' = NoOwner
    /\ Goto(w, "exit")
    /\ UNCHANGED <<jobndx, pending, threads, jobs, call, index, left, phase,
                   started, finished, dropped, lockvars>>

\* Worker 0 has joined workers threads - 1 to 1.
Joining(w) == /\ pc[w] = "joining"
              /\ \A v \in 1..threads - 1 : pc[v] = "exit"
              /\ mutex' = NoOwner
              /\ Goto(w, "exit")
              /\ UNCHANGED <<jobndx, pending, threads, jobs, call, index, left,
                             phase, started, finished, dropped, lockvars>>

-----------------------------------------------------------------------------
(* The specification *)

InLock(t) == Finished!LockContinue(t) /\ UNCHANGED batchvars
Disturb(t) == Finished!LockDisturb(t) /\ UNCHANGED batchvars

RunStep(c) == \/ RunEmpty(c) \/ RunOpen(c) \/ RunOpened(c) \/ RunRunning(c)
              \/ RunStart(c) \/ RunSpawn(c) \/ RunTry(c) \/ RunTried(c)
              \/ Wait(c) \/ Waited(c) \/ Join(c)
StopStep(c) == \/ StopLate(c) \/ StopLock(c) \/ StopExchange(c) \/ StopSub(c)
               \/ StopOpen(c) \/ StopOpened(c)
WorkerStep(w) == \/ Fetch(w) \/ Exec(w) \/ Sub(w) \/ Last(w) \/ Open(w)
                 \/ After(w) \/ Joining(w)

\* What a thread inside the batch does next by itself.
Continue(t) == \/ t \in Callers /\ (RunStep(t) \/ StopStep(t))
               \/ t \in Workers /\ WorkerStep(t)
               \/ InLock(t)

Next == \/ \E c \in Callers, f \in Calls : StartCall(c, f)
        \/ \E c \in Callers : StartDestroy(c) \/ RunSpawnThrows(c)
        \/ \E t \in LockThreads : Continue(t) \/ Disturb(t)

Spec == Init /\ [][Next]_vars

\* Every thread that can run is scheduled in the end, and every job ends.
FairSpec == Spec /\ \A t \in LockThreads : WF_vars(Continue(t))

-----------------------------------------------------------------------------
(* Properties *)

Busy == {w \in Workers : pc[w] \in {"exec", "sub"}}
Dropping == {c \in Callers : pc[c] = "stop_sub"}

\* The jobs that a stop() has taken from _jobndx and not yet from _pending.
Taken == UNION {{c} \X (1..left[c]) : c \in Dropping}

\* The variables have their types.
TypeOK ==
    /\ mutex \in LockThreads \cup {NoOwner}
    /\ jobndx \in Int /\ pending \in Int
    /\ threads \in 0..MaxThreads
    /\ jobs \in 0..MaxJobs
    /\ pc \in [LockThreads -> {"idle", "run_lock", "run_open", "run_opening",
                "run_spawn", "run_try", "run_trying", "wait", "waiting", "join",
                "stop_lock", "stop_exchange", "stop_sub", "stop_open",
                "stop_opening", "none", "fetch", "exec", "sub", "last", "open",
                "after", "joining", "exit"}]
    /\ call \in [Callers -> Calls \cup {"none", "destroy"}]
    /\ index \in [Workers -> 0..MaxJobs]
    /\ left \in [LockThreads -> Int]
    /\ phase \in {"alive", "destroying", "destroyed"}
    /\ started \in [Jobs -> Nat] /\ finished \in [Jobs -> Nat]
    /\ dropped \subseteq Jobs
    /\ Finished!LockTypeOK

\* The class comment's one-off batch: workers and stop() racing for the counter,
\* run() called again and again, no job is executed twice, or executed and
\* dropped (worker_thread_function, stop, run).
EachJobOnce == \A j \in Jobs : /\ started[j] <= 1
                               /\ j \in dropped => started[j] = 0

\* The two counters, written without a common lock, agree: what is pending is
\* what has not been started, what runs, and what a stop() in progress has
\* taken and not subtracted yet.
PendingExact ==
    threads > 0 =>
        pending = Max({jobndx, 0}) + Cardinality(Busy) + Cardinality(Taken)

\* _finished opens only when it is all over: no job runs, none can start, and
\* each one has ended or has been dropped.  A wait() that returns may rely on
\* it.
FinishedMeansSettled ==
    locked = 0 /\ jobs > 0 =>
        /\ Busy = {}
        /\ jobndx <= 0
        /\ \A j \in 0..jobs - 1 : finished[j] = 1 \/ j \in dropped

\* Once the lock is open, whoever still sleeps on it is about to be woken
\* (promise_lock::unlock against a wait that has just turned 1 into 2).
NoSleeperStranded ==
    locked = 0 /\ Finished!Sleepers # {} => \E t \in LockThreads : at[t] = "wake"

\* When the destructor has ended no thread uses the object any more, and
\* promise_lock's own destructor finds nobody waiting.
DestroyedClean ==
    phase = "destroyed" => /\ \A w \in Workers : pc[w] \in {"none", "exit"}
                           /\ mutex = NoOwner
                           /\ locked < 2

\* A batch with at least one worker completes, whether or not starting the
\* others has thrown.
BatchEnds == (threads > 0) ~> (locked = 0)

\* The destructor returns, with jobs running, unstarted or never started:
\* worker 0 joins the others, the destructor joins worker 0.
DestructorEnds == (phase = "destroying") ~> (phase = "destroyed")
==============================================================================
