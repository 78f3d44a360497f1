---------------------------- MODULE JobBatchProofs ----------------------------
(***************************************************************************)
(* Proofs about JobBatch for any callers and calls, any number of workers  *)
(* and of jobs, whether or not starting a thread may throw.                *)
(*                                                                         *)
(* The counter says which jobs have been started, and the started ones,    *)
(* those that run and the dropped ones make up the pending ones.  The lock *)
(* is opened only by somebody who has seen nothing pending; what makes it  *)
(* safe to see it without the mutex is that such a batch stays settled.    *)
(***************************************************************************)
EXTENDS JobBatch, FiniteSetTheorems, TLAPS

-----------------------------------------------------------------------------
(* The inductive invariant *)

RunLabels == {"run_lock", "run_open", "run_opening", "run_spawn", "run_try",
              "run_trying"}
StopLabels == {"stop_lock", "stop_exchange", "stop_sub", "stop_open", "stop_opening"}
WaitLabels == {"wait", "waiting"}
CallerLabels == {"idle", "join"} \cup RunLabels \cup StopLabels \cup WaitLabels
WorkerLabels == {"none", "fetch", "exec", "sub", "last", "open", "after", "joining",
                 "exit"}

\* The labels of a caller that holds the mutex.
Owning == {"run_open", "run_opening", "run_spawn", "stop_exchange", "stop_sub",
           "stop_open", "stop_opening"}

\* Who may be where.
PlacesOK ==
    /\ \A c \in Callers :
           /\ pc[c] \in CallerLabels
           /\ pc[c] = "idle" <=> call[c] = "none"
           /\ pc[c] \in RunLabels => call[c] # "destroy"
           /\ pc[c] = "join" => call[c] = "destroy"
           /\ pc[c] = "run_spawn" => pc[0] # "exit"
    /\ \A w \in Workers :
           /\ pc[w] \in WorkerLabels
           /\ pc[w] = "none" <=> w >= threads
           /\ pc[w] = "joining" => w = 0
           /\ pc[0] = "exit" /\ pc[w] # "none" => pc[w] = "exit"

\* The mutex.
MutexOK == /\ \A c \in Callers : mutex = c <=> pc[c] \in Owning
           /\ \A w \in Workers : mutex = w <=> pc[w] = "joining"

\* Where a thread is in the promise lock, where it is in the batch, and what the
\* word of the lock is then.
GateOK ==
    /\ \A t \in LockThreads :
           /\ at[t] \in {"presleep", "asleep", "opened", "expired"}
              => pc[t] \in {"run_trying", "waiting"}
           /\ at[t] \in {"unlock1", "unlock2", "wake"}
              => pc[t] \in {"run_opening", "stop_opening", "after"}
           /\ at[t] \in {"presleep", "asleep"} => locked # 1
           /\ at[t] \in {"opened", "wake"} => locked = 0
           /\ pc[t] = "stop_opening" /\ at[t] = "out" => locked = 0
           /\ pc[t] = "join" => locked = 0
    /\ \A c \in Callers :
           pc[c] = "waiting" /\ (timed[c] \/ at[c] = "expired") => call[c] # "destroy"

\* Who sleeps will be woken.
SleepOK == Finished!Sleepers # {} => locked = 2 \/ \E t \in LockThreads : at[t] = "wake"

\* The counters.
CountOK ==
    /\ jobs = 0 => threads = 0
    /\ threads = 0 => /\ dropped = {}
                      /\ jobs > 0 => pending = jobndx /\ jobndx \in {0, jobs}
    /\ threads > 0 => jobndx <= jobs
    /\ \A c \in Callers :
           /\ pc[c] = "run_spawn" => /\ jobs > 0 /\ threads < ThreadCount
                                     /\ threads = 0 => jobndx = jobs
           /\ pc[c] \in {"stop_exchange", "stop_sub"} => threads > 0
           /\ pc[c] = "stop_sub" => left[c] >= 1 /\ jobndx <= 0

\* Nothing is left to do, and nothing will be.
Done == jobs = 0 \/ (threads > 0 /\ pending = 0)

\* The lock is open, or is going to be, only when all is done.
DoneOK ==
    /\ locked = 0 => Done
    /\ \A t \in LockThreads :
           \/ at[t] \in {"unlock1", "unlock2", "wake"}
           \/ pc[t] \in {"run_open", "stop_open", "last", "open"}
           => Done
    /\ \A w \in Workers : pc[w] = "fetch" /\ left[w] = 0 => pending = 0

\* Which jobs have been started, which have ended.
JobsOK ==
    /\ dropped # {} => jobndx <= 0
    /\ dropped \subseteq 0..jobs - 1
    /\ \A j \in Jobs :
           /\ started[j] = IF threads > 0 /\ j < jobs /\ j < jobs - jobndx /\ j \notin dropped
                           THEN 1 ELSE 0
           /\ finished[j] <= started[j]
           /\ started[j] = 1 /\ finished[j] = 0
              => \E w \in Workers : pc[w] = "exec" /\ index[w] = jobs - j
    /\ \A w \in Workers :
           pc[w] = "exec" => /\ index[w] \in 1..jobs /\ index[w] > jobndx
                             /\ jobs - index[w] \notin dropped
                             /\ finished[jobs - index[w]] = 0
    /\ \A v, w \in Workers :
           pc[v] = "exec" /\ pc[w] = "exec" /\ index[v] = index[w] => v = w

\* The destructor runs alone.
PhaseOK ==
    /\ phase = "alive" => \A c \in Callers : call[c] # "destroy"
    /\ phase = "destroying" => \E d \in Callers : /\ call[d] = "destroy"
                                                  /\ \A c \in Callers \ {d} : pc[c] = "idle"
    /\ phase = "destroyed" => /\ \A c \in Callers : pc[c] = "idle"
                              /\ \A w \in Workers : pc[w] \in {"none", "exit"}
                              /\ locked < 2

\* The lock of an empty batch is open, or is being opened, or nobody has been
\* waiting for it.
EmptyOK ==
    jobs = 0 =>
        \/ locked = 0
        \/ \E c \in Callers : \/ pc[c] = "stop_open"
                              \/ pc[c] = "stop_opening" /\ at[c] \in {"unlock1", "unlock2"}
        \/ /\ locked = 1
           /\ \A c \in Callers : pc[c] \notin {"run_try", "run_trying", "wait", "waiting"}

IInv == /\ TypeOK /\ PlacesOK /\ MutexOK /\ GateOK /\ SleepOK /\ CountOK
        /\ PendingExact /\ DoneOK /\ JobsOK /\ PhaseOK /\ EmptyOK

-----------------------------------------------------------------------------
(* Helpers *)

USE CallersAssumption, SizesAssumption, ThrowsAssumption

\* The two ends of a comparison.
LEMMA MaxZero ==
  ASSUME NEW n \in Int
  PROVE  Max({n, 0}) = IF n >= 0 THEN n ELSE 0
  BY DEF Max

\* A batch with a job starts at least one thread.
LEMMA ThreadCountRange ==
  ASSUME jobs \in 1..MaxJobs
  PROVE  ThreadCount \in 1..MaxThreads
  <1> DEFINE wanted == (jobs + JobsPerThread - 1) \div JobsPerThread
  <1>1. wanted \in Int /\ wanted >= 1
    OBVIOUS
  <1>2. ThreadCount \in {MaxThreads, wanted} /\ ThreadCount <= MaxThreads
    <2> HIDE DEF wanted
    <2>1. Min({MaxThreads, wanted}) = IF MaxThreads <= wanted THEN MaxThreads ELSE wanted
      BY <1>1 DEF Min
    <2>2. ThreadCount = Min({MaxThreads, wanted})
      BY DEF ThreadCount, wanted
    <2> QED BY <1>1, <2>1, <2>2
  <1> HIDE DEF wanted
  <1> QED BY <1>1, <1>2

\* The workers can be counted, and so can those that run a job.
LEMMA BusyFinite == IsFiniteSet(Busy) /\ Cardinality(Busy) \in Nat
  <1>1. IsFiniteSet(Workers)
    BY FS_Interval DEF Workers
  <1>2. Busy \subseteq Workers
    BY DEF Busy
  <1> QED BY <1>1, <1>2, FS_Subset, FS_CardinalityType

\* What one thread has taken.
LEMMA OneTakes ==
  ASSUME NEW c, NEW n \in Nat
  PROVE  Cardinality({c} \X (1..n)) = n
  <1>1. IsFiniteSet({c}) /\ Cardinality({c}) = 1
    BY FS_Singleton
  <1>2. IsFiniteSet(1..n) /\ Cardinality(1..n) = n
    <2>1. n \in Int /\ n >= 0 /\ 1 \in Int
      OBVIOUS
    <2> QED BY <2>1, FS_Interval
  <1>3. Cardinality({c} \X (1..n)) = Cardinality({c}) * Cardinality(1..n)
    BY <1>1, <1>2, FS_Product
  <1> QED BY <1>1, <1>2, <1>3

\* A caller that drops jobs is the only one: it holds the mutex.
LEMMA TakenByOne ==
  ASSUME MutexOK, NEW c \in Callers, pc[c] = "stop_sub", left[c] \in Nat
  PROVE  Taken = {c} \X (1..left[c]) /\ Cardinality(Taken) = left[c]
  <1>1. Dropping = {c}
    BY DEF Dropping, MutexOK, Owning
  <1>2. Taken = {c} \X (1..left[c])
    BY <1>1 DEF Taken
  <1>3. Cardinality({c} \X (1..left[c])) = left[c]
    BY OneTakes
  <1> QED BY <1>2, <1>3, Zenon

\* Nobody drops any jobs.
LEMMA TakenByNone ==
  ASSUME \A c \in Callers : pc[c] # "stop_sub"
  PROVE  Taken = {} /\ Cardinality(Taken) = 0
  <1>1. Taken = {}
    BY DEF Taken, Dropping
  <1> QED BY <1>1, FS_EmptySet, Zenon

\* Whatever is being dropped can be counted.
LEMMA TakenInt ==
  ASSUME IInv
  PROVE  Cardinality(Taken) \in Nat
  <1>1. CASE \E c \in Callers : pc[c] = "stop_sub"
    <2>1. PICK c \in Callers : pc[c] = "stop_sub"
      BY <1>1
    <2>2. left[c] \in Nat
      BY <2>1 DEF IInv, CountOK, TypeOK, LockThreads
    <2> QED BY <2>1, <2>2, TakenByOne DEF IInv
  <1>2. CASE \A c \in Callers : pc[c] # "stop_sub"
    BY <1>2, TakenByNone
  <1> QED BY <1>1, <1>2

\* The labels at which a thread is counted on.
Counting == {"run_spawn", "stop_exchange", "stop_sub", "exec", "sub"}

\* The jobs and the counters do not change, nor does who works on them.
LEMMA CountersKept ==
  ASSUME IInv, TypeOK',
         UNCHANGED <<jobndx, pending, threads, jobs, left, index, dropped, started,
                     finished>>,
         \A t \in LockThreads :
             /\ pc'[t] \in Counting => pc'[t] = pc[t]
             /\ pc[t] \in {"stop_sub", "exec", "sub"} => pc'[t] = pc[t]
  PROVE  CountOK' /\ PendingExact' /\ JobsOK'
  <1> USE DEF Counting, LockThreads
  <1>1. CountOK'
    <2>1. ThreadCount' = ThreadCount
      BY DEF ThreadCount
    <2> QED BY <2>1 DEF IInv, CountOK
  <1>2. PendingExact'
    <2>1. Busy' = Busy /\ Dropping' = Dropping
      BY DEF Busy, Dropping
    <2>2. Taken' = Taken
      BY <2>1 DEF Taken
    <2> QED BY <2>1, <2>2, Zenon DEF IInv, PendingExact
  <1>3. JobsOK'
    BY DEF IInv, JobsOK
  <1> QED BY <1>1, <1>2, <1>3

\* When all is done it stays so: the pending jobs are counted, and nobody starts
\* the batch again.
LEMMA DoneMeansSettled ==
  ASSUME IInv, threads > 0, pending = 0
  PROVE  /\ jobndx <= 0 /\ Busy = {}
         /\ \A c \in Callers : pc[c] # "stop_sub"
  <1>1. /\ jobndx \in Int /\ left \in [LockThreads -> Int]
        /\ pending = Max({jobndx, 0}) + Cardinality(Busy) + Cardinality(Taken)
    BY DEF IInv, TypeOK, PendingExact
  <1>2. Max({jobndx, 0}) = IF jobndx >= 0 THEN jobndx ELSE 0
    BY <1>1, MaxZero
  <1>3. IsFiniteSet(Busy) /\ Cardinality(Busy) \in Nat
    BY BusyFinite
  <1>4. ASSUME NEW c \in Callers, pc[c] = "stop_sub"
        PROVE  Cardinality(Taken) = left[c] /\ left[c] \in Nat /\ left[c] >= 1
    <2>1. left[c] \in Nat /\ left[c] >= 1
      BY <1>1, <1>4 DEF IInv, CountOK, LockThreads
    <2> QED BY <1>4, <2>1, TakenByOne DEF IInv
  <1>5. \A c \in Callers : pc[c] # "stop_sub"
    BY <1>1, <1>2, <1>3, <1>4
  <1>6. Cardinality(Taken) = 0
    BY <1>5, TakenByNone
  <1>7. jobndx <= 0 /\ Cardinality(Busy) = 0
    BY <1>1, <1>2, <1>3, <1>6
  <1> QED BY <1>3, <1>5, <1>7, FS_EmptySet

-----------------------------------------------------------------------------
(* Every step keeps the invariant *)

USE DEF LockThreads, Goto, Finish, RunReturn, StopReturn, CallerLabels, WorkerLabels,
        RunLabels, StopLabels, WaitLabels, Owning

\* A thread is in the lock only where it has called it.
LEMMA OutOfLock ==
  ASSUME TypeOK, GateOK, NEW t \in LockThreads,
         pc[t] \notin {"run_trying", "waiting", "run_opening", "stop_opening", "after"}
  PROVE  at[t] = "out"
  BY DEF TypeOK, GateOK, Finished!LockTypeOK, Finished!Places, Finished!Results

\* A caller comes in, goes on without a look at the lock, or leaves.
LEMMA FlowStep ==
  ASSUME IInv, NEW c \in Callers,
         \/ (\E f \in Calls : StartCall(c, f)) \/ StartDestroy(c)
         \/ RunRunning(c) \/ RunOpened(c) \/ RunSpawnThrows(c)
         \/ StopLate(c) \/ StopOpened(c) \/ Join(c)
  PROVE  IInv'
  <1> USE DEF StartCall, StartDestroy, RunRunning, RunOpened, RunSpawnThrows, StopLate,
              StopOpened, Join
  <1>1. TypeOK' /\ TypeOK
    BY CallsAssumption DEF IInv, TypeOK, lockvars, Finished!LockTypeOK
  <1>2. /\ UNCHANGED <<jobndx, pending, threads, jobs, left, index, dropped, started,
                       finished, locked, at, timed>>
        /\ \A t \in LockThreads \ {c} : pc'[t] = pc[t]
        /\ \A d \in Callers \ {c} : call'[d] = call[d]
        /\ pc[c] # "stop_sub" /\ pc'[c] \notin Counting
    BY <1>1 DEF lockvars, TypeOK, Counting
  <1>3. CountOK' /\ PendingExact' /\ JobsOK'
    <2>1. pc[c] \notin {"stop_sub", "exec", "sub"}
      BY <1>1 DEF TypeOK
    <2> QED BY <1>1, <1>2, <2>1, CountersKept
  <1>4. PlacesOK'
    <2>1. /\ pc'[c] \in CallerLabels
          /\ pc'[c] = "idle" <=> call'[c] = "none"
          /\ pc'[c] \in RunLabels => call'[c] # "destroy"
          /\ pc'[c] \notin {"join", "run_spawn"}
      BY <1>1, CallsAssumption DEF IInv, PlacesOK, TypeOK
    <2> QED BY <1>1, <1>2, <2>1 DEF IInv, PlacesOK, Workers
  <1>5. MutexOK'
    BY <1>1 DEF IInv, MutexOK, TypeOK
  <1>6. at[c] = "out" /\ (pc[c] = "stop_opening" => locked = 0)
    <2>1. CASE pc[c] \in {"run_opening", "stop_opening"}
      BY <1>1, <2>1 DEF IInv, GateOK, Finished!Out
    <2>2. CASE pc[c] \notin {"run_opening", "stop_opening"}
      <3>1. pc[c] \in {"idle", "run_lock", "run_spawn", "stop_lock", "join"}
        BY <1>1, <2>2
      <3> QED BY <3>1, OutOfLock DEF IInv
    <2> QED BY <2>1, <2>2
  <1>7. GateOK'
    <2>1. pc'[c] \notin {"waiting", "stop_opening", "join"}
      BY <1>1 DEF TypeOK
    <2> QED BY <1>1, <1>2, <1>6, <2>1 DEF IInv, GateOK
  <1>8. SleepOK'
    BY <1>2 DEF IInv, SleepOK, Finished!Sleepers
  <1>9. DoneOK'
    BY <1>1, <1>2 DEF IInv, DoneOK, Done, TypeOK
  <1>10. PhaseOK'
    <2>1. CASE \E f \in Calls : StartCall(c, f)
      BY <1>1, <1>2, <2>1, CallsAssumption DEF IInv, PhaseOK, TypeOK
    <2>2. CASE StartDestroy(c)
      <3>1. CASE jobs = 0
        <4>1. /\ \A d \in Callers : pc[d] = "idle"
              /\ threads = 0
          BY <2>2, <3>1 DEF IInv, CountOK
        <4>2. locked < 2
          BY <1>1, <3>1, <4>1 DEF IInv, EmptyOK, TypeOK, Finished!LockTypeOK
        <4>3. \A w \in Workers : pc[w] = "none"
          BY <4>1 DEF IInv, PlacesOK, Workers
        <4> QED BY <1>2, <2>2, <3>1, <4>1, <4>2, <4>3 DEF PhaseOK
      <3>2. CASE jobs # 0
        BY <1>1, <1>2, <2>2, <3>2 DEF PhaseOK, TypeOK
      <3> QED BY <3>1, <3>2
    <2>3. CASE RunRunning(c) \/ RunOpened(c) \/ RunSpawnThrows(c) \/ StopLate(c) \/ StopOpened(c)
      <3>1. phase' = phase /\ (call'[c] = "destroy" => call[c] = "destroy")
            /\ pc[c] # "idle" /\ (call[c] = "destroy" => call'[c] = "destroy")
        BY <1>1, <2>3 DEF TypeOK, IInv, PlacesOK
      <3> QED BY <1>2, <3>1 DEF IInv, PhaseOK
    <2>4. CASE Join(c)
      <3>1. call[c] = "destroy" /\ locked = 0
        BY <1>1, <2>4 DEF IInv, PlacesOK, GateOK
      <3>2. \A d \in Callers : pc'[d] = "idle"
        BY <1>1, <1>2, <2>4, <3>1 DEF IInv, PhaseOK, TypeOK
      <3>3. \A w \in Workers : pc[w] \in {"none", "exit"}
        BY <2>4 DEF IInv, PlacesOK, Workers
      <3> QED BY <1>1, <1>2, <2>4, <3>1, <3>2, <3>3 DEF PhaseOK
    <2> QED BY <2>1, <2>2, <2>3, <2>4
  <1>11. EmptyOK'
    <2> SUFFICES ASSUME jobs = 0, locked # 0 PROVE EmptyOK'
      BY <1>2 DEF EmptyOK
    <2>1. pc[c] # "stop_opening" /\ pc[c] # "stop_open"
      BY <1>1, <1>6
    <2>2. pc'[c] \notin {"run_try", "run_trying", "wait", "waiting"}
      BY <1>1, <2>1 DEF IInv, CountOK, TypeOK
    <2> QED BY <1>2, <2>1, <2>2 DEF IInv, EmptyOK
  <1> QED BY <1>1, <1>3, <1>4, <1>5, <1>7, <1>8, <1>9, <1>10, <1>11 DEF IInv

\* run() takes the counters up, or starts a worker.
LEMMA CountersStep ==
  ASSUME IInv, NEW c \in Callers, RunEmpty(c) \/ RunStart(c)
  PROVE  IInv'
  <1> USE DEF RunEmpty, RunStart
  <1>1. TypeOK' /\ TypeOK
    BY DEF IInv, TypeOK, lockvars, Finished!LockTypeOK
  <1>2. /\ UNCHANGED <<threads, jobs, left, index, dropped, started, finished, phase,
                       locked, at, timed>>
        /\ \A t \in LockThreads \ {c} : pc'[t] = pc[t]
        /\ \A d \in Callers \ {c} : call'[d] = call[d]
        /\ pc[c] = "run_lock" /\ mutex = NoOwner
        /\ pc'[c] \in {"run_open", "idle", "run_try", "run_spawn"}
        /\ jobs = 0 => pc'[c] \in {"run_open", "idle"}
        /\ pc'[c] = "run_open" => jobs = 0
        /\ pc'[c] = "run_spawn" => threads = 0
        /\ call[c] # "destroy" /\ call'[c] # "destroy"
    BY <1>1 DEF lockvars, TypeOK, IInv, PlacesOK
  <1>3. at[c] = "out"
    BY <1>1, <1>2, OutOfLock DEF IInv
  <1>4. PlacesOK'
    <2>1. pc'[c] = "idle" <=> call'[c] = "none"
      BY <1>1, <1>2 DEF IInv, PlacesOK, TypeOK
    <2>2. pc'[c] = "run_spawn" => pc'[0] = "none"
      BY <1>1, <1>2 DEF IInv, PlacesOK, Workers
    <2> QED BY <1>1, <1>2, <2>1, <2>2 DEF IInv, PlacesOK, Workers
  <1>5. MutexOK'
    BY <1>1 DEF IInv, MutexOK, TypeOK
  <1>6. GateOK' /\ SleepOK'
    BY <1>1, <1>2, <1>3 DEF IInv, GateOK, SleepOK, Finished!Sleepers
  <1>7. PhaseOK'
    BY <1>1, <1>2 DEF IInv, PhaseOK
  <1>8. EmptyOK'
    BY <1>1, <1>2 DEF IInv, EmptyOK
  <1>9. CountOK'
    <2>1. ThreadCount' = ThreadCount
      BY <1>2 DEF ThreadCount
    <2>2. pc'[c] = "run_spawn" => /\ jobs > 0 /\ threads < ThreadCount
                                  /\ jobndx' = jobs
      <3> SUFFICES ASSUME pc'[c] = "run_spawn"
                   PROVE  jobs > 0 /\ threads < ThreadCount /\ jobndx' = jobs
        OBVIOUS
      <3>1. jobs > 0 /\ threads = 0 /\ jobndx' = jobs /\ jobs \in 1..MaxJobs
        BY <1>1, <1>2 DEF TypeOK
      <3>2. ThreadCount \in 1..MaxThreads
        BY <3>1, ThreadCountRange
      <3> QED BY <3>1, <3>2
    <2>3. \A d \in Callers \ {c} : pc[d] \notin Owning
      BY <1>2 DEF IInv, MutexOK
    <2> QED BY <1>1, <1>2, <2>1, <2>2, <2>3 DEF IInv, CountOK, TypeOK
  <1>10. PendingExact'
    <2>1. CASE threads = 0
      BY <1>2, <2>1 DEF PendingExact
    <2>2. CASE threads # 0
      <3>1. jobs # 0 /\ UNCHANGED <<pending, jobndx>>
        BY <1>1, <1>2, <2>2 DEF IInv, CountOK, TypeOK
      <3>2. Busy' = Busy /\ Dropping' = Dropping
        BY <1>2 DEF Busy, Dropping
      <3>3. Taken' = Taken
        BY <1>2, <3>2 DEF Taken
      <3> QED BY <1>2, <3>1, <3>2, <3>3, Zenon DEF IInv, PendingExact
    <2> QED BY <2>1, <2>2
  <1>11. DoneOK'
    <2>1. Done => Done'
      BY <1>1, <1>2 DEF Done, TypeOK
    <2>2. pending = 0 /\ threads > 0 => pending' = 0
      BY <1>1, <1>2 DEF TypeOK
    <2>3. \A w \in Workers : pc[w] = "fetch" => threads > 0
      BY <1>1 DEF IInv, PlacesOK, Workers, TypeOK
    <2>4. pc'[c] = "run_open" => Done'
      BY <1>2 DEF Done
    <2> QED BY <1>2, <2>1, <2>2, <2>3, <2>4 DEF IInv, DoneOK
  <1>12. JobsOK'
    <2>1. CASE threads = 0
      <3>1. dropped = {} /\ \A w \in Workers : pc[w] # "exec"
        BY <1>1, <2>1 DEF IInv, CountOK, PlacesOK, Workers
      <3> QED BY <1>1, <1>2, <2>1, <3>1 DEF IInv, JobsOK, TypeOK
    <2>2. CASE threads # 0
      <3>1. jobs # 0 /\ UNCHANGED jobndx
        BY <1>1, <1>2, <2>2 DEF IInv, CountOK, TypeOK
      <3> QED BY <1>1, <1>2, <3>1 DEF IInv, JobsOK
    <2> QED BY <2>1, <2>2
  <1> QED BY <1>1, <1>4, <1>5, <1>6, <1>7, <1>8, <1>9, <1>10, <1>11, <1>12 DEF IInv

LEMMA SpawnStep ==
  ASSUME IInv, NEW c \in Callers, RunSpawn(c)
  PROVE  IInv'
  <1> USE DEF RunSpawn
  <1>1. /\ TypeOK /\ pc[c] = "run_spawn" /\ jobs > 0 /\ jobs \in 1..MaxJobs
        /\ threads < ThreadCount /\ ThreadCount \in 1..MaxThreads
        /\ threads \in Workers /\ threads \in 0..MaxThreads /\ pc[threads] = "none"
        /\ mutex = c
    <2>1. /\ TypeOK /\ pc[c] = "run_spawn" /\ jobs > 0 /\ threads < ThreadCount /\ mutex = c
      BY DEF IInv, CountOK, MutexOK
    <2>2. jobs \in 1..MaxJobs
      BY <2>1 DEF TypeOK
    <2>3. ThreadCount \in 1..MaxThreads
      BY <2>2, ThreadCountRange
    <2>4. threads \in Workers
      BY <2>1, <2>3 DEF TypeOK, Workers
    <2> QED BY <2>1, <2>2, <2>3, <2>4 DEF IInv, PlacesOK, TypeOK
  <1> DEFINE w == threads
  <1>2. TypeOK'
    <2>1. threads' \in 0..MaxThreads /\ mutex' \in LockThreads \cup {NoOwner}
      BY <1>1 DEF TypeOK
    <2>2. pc' \in [LockThreads -> CallerLabels \cup WorkerLabels]
      BY <1>1 DEF TypeOK
    <2>3. left' \in [LockThreads -> Int]
      BY <1>1 DEF TypeOK
    <2> QED BY <1>1, <2>1, <2>2, <2>3 DEF TypeOK, lockvars, Finished!LockTypeOK
  <1>3. /\ UNCHANGED <<jobndx, pending, jobs, call, index, dropped, started, finished, phase,
                       locked, at, timed>>
        /\ \A t \in LockThreads \ {c, w} : pc'[t] = pc[t]
        /\ \A t \in LockThreads \ {w} : left'[t] = left[t]
        /\ pc'[w] = "fetch" /\ pc'[c] \in {"run_spawn", "run_try"} /\ left'[w] = 1
        /\ threads' = threads + 1
        /\ pc'[c] = "run_try" <=> threads' = ThreadCount
        /\ mutex' = IF threads' = ThreadCount THEN NoOwner ELSE mutex
    BY <1>1 DEF TypeOK, lockvars
  <1>4. at[c] = "out" /\ at[w] = "out"
    BY <1>1, OutOfLock DEF IInv
  <1>5. PlacesOK'
    <2>1. pc[0] # "exit"
      BY <1>1 DEF IInv, PlacesOK
    <2>2. pc'[0] # "exit"
      BY <1>1, <1>3, <2>1 DEF Workers
    <2> QED BY <1>1, <1>3, <2>1, <2>2 DEF IInv, PlacesOK, Workers
  <1>6. MutexOK'
    BY <1>1, <1>3 DEF IInv, MutexOK, TypeOK
  <1>7. GateOK' /\ SleepOK'
    BY <1>1, <1>3, <1>4 DEF IInv, GateOK, SleepOK, Finished!Sleepers
  <1>8. PhaseOK'
    <2>1. phase # "destroyed"
      BY <1>1 DEF IInv, PhaseOK
    <2> QED BY <1>1, <1>3, <2>1 DEF IInv, PhaseOK
  <1>9. EmptyOK'
    BY <1>1, <1>3 DEF EmptyOK
  <1>10. jobndx <= jobs
    BY <1>1 DEF IInv, CountOK, TypeOK
  <1>11. CountOK'
    <2>1. ThreadCount' = ThreadCount
      BY <1>3 DEF ThreadCount
    <2>2. \A d \in Callers \ {c} : pc[d] \notin Owning
      BY <1>1 DEF IInv, MutexOK
    <2> QED BY <1>1, <1>2, <1>3, <1>10, <2>1, <2>2 DEF IInv, CountOK, TypeOK
  <1>12. PendingExact'
    <2>1. CASE threads = 0
      <3>1. pending = jobndx /\ jobndx = jobs
        BY <1>1, <2>1 DEF IInv, CountOK
      <3>2. Busy' = {}
        BY <1>1, <1>3, <2>1 DEF Busy, IInv, PlacesOK, Workers
      <3>3. Cardinality(Busy') = 0
        BY <3>2, FS_EmptySet, Zenon
      <3>4. Dropping' = {}
        BY <1>1, <1>3 DEF Dropping, IInv, MutexOK
      <3>5. Taken' = {}
        BY <3>4 DEF Taken
      <3>6. Cardinality(Taken') = 0
        BY <3>5, FS_EmptySet, Zenon
      <3>7. Max({jobndx, 0}) = jobs
        BY <1>1, <3>1, MaxZero
      <3> QED BY <1>1, <1>3, <3>1, <3>3, <3>6, <3>7 DEF PendingExact
    <2>2. CASE threads # 0
      <3>1. Busy' = Busy /\ Dropping' = Dropping
        BY <1>1, <1>3 DEF Busy, Dropping
      <3>2. Taken' = Taken
        BY <1>1, <1>3, <3>1 DEF Taken, Dropping
      <3>3. threads > 0
        BY <1>1, <2>2
      <3> QED BY <1>3, <3>1, <3>2, <3>3, Zenon DEF IInv, PendingExact
    <2> QED BY <2>1, <2>2
  <1>13. DoneOK'
    <2>1. Done => Done'
      BY <1>1, <1>3 DEF Done
    <2> QED BY <1>1, <1>3, <1>4, <2>1 DEF IInv, DoneOK
  <1>14. JobsOK'
    <2>1. CASE threads = 0
      <3>1. dropped = {} /\ \A v \in Workers : pc[v] # "exec"
        BY <1>1, <2>1 DEF IInv, CountOK, PlacesOK, Workers
      <3>2. jobndx = jobs
        BY <1>1, <2>1 DEF IInv, CountOK
      <3>3. \A v \in Workers : pc'[v] # "exec"
        BY <1>1, <1>3, <3>1
      <3> QED BY <1>1, <1>3, <2>1, <3>1, <3>2, <3>3 DEF IInv, JobsOK, TypeOK, Jobs
    <2>2. CASE threads # 0
      <3>1. threads > 0 /\ threads' > 0
        BY <1>1, <1>3, <2>2
      <3>2. \A v \in Workers : pc'[v] = "exec" <=> pc[v] = "exec"
        BY <1>1, <1>3
      <3> QED BY <1>1, <1>3, <3>1, <3>2 DEF IInv, JobsOK
    <2> QED BY <2>1, <2>2
  <1> QED BY <1>2, <1>5, <1>6, <1>7, <1>8, <1>9, <1>11, <1>12, <1>13, <1>14 DEF IInv

\* Somebody who has seen all done calls unlock().
LEMMA UnlockStep ==
  ASSUME IInv, NEW t \in LockThreads,
         \/ t \in Callers /\ (RunOpen(t) \/ StopOpen(t))
         \/ t \in Workers /\ Open(t)
  PROVE  IInv'
  <1> USE DEF RunOpen, StopOpen, Open, Finished!UnlockLoad, Finished!Out, Finished!Move
  <1>1. TypeOK' /\ TypeOK
    BY DEF IInv, TypeOK, Finished!LockTypeOK, Finished!Places, Finished!Results
  <1>2. /\ UNCHANGED <<mutex, jobndx, pending, threads, jobs, call, left, index, dropped,
                       started, finished, phase, locked, timed>>
        /\ \A u \in LockThreads \ {t} : pc'[u] = pc[u] /\ at'[u] = at[u]
        /\ \/ pc[t] = "run_open" /\ pc'[t] = "run_opening" /\ t \in Callers
           \/ pc[t] = "stop_open" /\ pc'[t] = "stop_opening" /\ t \in Callers
           \/ pc[t] = "open" /\ pc'[t] = "after" /\ t \in Workers
        /\ at[t] = "out" /\ at'[t] \in {"out", "unlock1", "unlock2"}
        /\ at'[t] = "out" <=> locked = 0
    <2>1. locked \in 0..2
      BY <1>1 DEF TypeOK, Finished!LockTypeOK
    <2>2. locked = 0 \/ locked = 1 \/ locked = 2
      BY <2>1
    <2> QED BY <1>1, <2>2 DEF TypeOK, Finished!LockTypeOK
  <1>3. CountOK' /\ PendingExact' /\ JobsOK'
    BY <1>1, <1>2, CountersKept DEF Counting
  <1>4. PlacesOK'
    BY <1>1, <1>2 DEF IInv, PlacesOK, Workers
  <1>5. MutexOK'
    BY <1>2 DEF IInv, MutexOK
  <1>6. GateOK'
    BY <1>1, <1>2 DEF IInv, GateOK
  <1>7. SleepOK'
    BY <1>2 DEF IInv, SleepOK, Finished!Sleepers
  <1>8. DoneOK'
    BY <1>2 DEF IInv, DoneOK, Done
  <1>9. PhaseOK'
    BY <1>2 DEF IInv, PhaseOK
  <1>10. EmptyOK'
    BY <1>2 DEF IInv, EmptyOK
  <1> QED BY <1>1, <1>3, <1>4, <1>5, <1>6, <1>7, <1>8, <1>9, <1>10 DEF IInv

\* A caller waits, or returns from waiting.
LEMMA WaitStep ==
  ASSUME IInv, NEW c \in Callers, RunTry(c) \/ RunTried(c) \/ Wait(c) \/ Waited(c)
  PROVE  IInv'
  <1> USE DEF RunTry, RunTried, Wait, Waited, Finished!Wait, Finished!TimedWait,
              Finished!Leave, Finished!Out, Finished!Move, Finished!Return,
              Finished!GoToSleep
  <1>1. TypeOK' /\ TypeOK
    <2>1. TypeOK
      BY DEF IInv
    <2>2. locked' \in 0..2 /\ timed' \in [LockThreads -> BOOLEAN]
      <3>1. locked' \in {locked, 2}
        OBVIOUS
      <3>2. \/ timed' = timed
            \/ timed' = [timed EXCEPT ![c] = FALSE]
            \/ timed' = [timed EXCEPT ![c] = TRUE]
        OBVIOUS
      <3>3. locked' \in 0..2
        BY <2>1, <3>1 DEF TypeOK, Finished!LockTypeOK
      <3>4. timed' \in [LockThreads -> BOOLEAN]
        BY <2>1, <3>2 DEF TypeOK, Finished!LockTypeOK
      <3> QED BY <3>3, <3>4
    <2>3. at' \in [LockThreads -> Finished!Places]
      BY <2>1 DEF TypeOK, Finished!LockTypeOK, Finished!Places, Finished!Results
    <2>4. /\ pc' \in [LockThreads -> CallerLabels \cup WorkerLabels]
          /\ call' \in [Callers -> Calls \cup {"none", "destroy"}]
      BY <2>1 DEF TypeOK
    <2>5. UNCHANGED <<mutex, jobndx, pending, threads, jobs, left, index, dropped, started,
                      finished, phase>>
      OBVIOUS
    <2> QED BY <2>1, <2>2, <2>3, <2>4, <2>5 DEF TypeOK, Finished!LockTypeOK
  <1>2. /\ UNCHANGED <<mutex, jobndx, pending, threads, jobs, left, index, dropped, started,
                       finished, phase>>
        /\ \A u \in LockThreads \ {c} : pc'[u] = pc[u] /\ at'[u] = at[u] /\ timed'[u] = timed[u]
        /\ \A d \in Callers \ {c} : call'[d] = call[d]
    BY <1>1 DEF TypeOK, Finished!LockTypeOK
  <1>3. \/ /\ pc[c] \in {"run_try", "wait"} /\ pc'[c] \in {"run_trying", "waiting"}
           /\ at[c] = "out" /\ call' = call
           /\ \/ locked' = locked /\ at'[c] \in {"opened", "expired"}
                 /\ (at'[c] = "opened" => locked = 0)
              \/ locked # 0 /\ locked' = 2 /\ at'[c] = "presleep"
        \/ /\ pc[c] \in {"run_trying", "waiting"} /\ pc'[c] \in {"wait", "idle", "join"}
           /\ at[c] \in {"opened", "expired"} /\ at'[c] = "out"
           /\ locked' = locked /\ timed' = timed
    BY <1>1 DEF TypeOK, Finished!LockTypeOK, Finished!Results
  <1>4. /\ pc'[c] = "idle" <=> call'[c] = "none"
        /\ call'[c] = "destroy" <=> call[c] = "destroy"
        /\ pc'[c] = "run_trying" => pc[c] = "run_try"
        /\ pc'[c] = "join" => call[c] = "destroy" /\ pc[c] = "waiting"
        /\ pc'[c] = "waiting" /\ call[c] = "destroy" => ~timed'[c] /\ at'[c] # "expired"
    BY <1>1 DEF TypeOK, Finished!LockTypeOK, IInv, PlacesOK
  <1>5. CountOK' /\ PendingExact' /\ JobsOK'
    BY <1>1, <1>2, <1>3, CountersKept DEF Counting
  <1>6. PlacesOK'
    BY <1>1, <1>2, <1>3, <1>4 DEF IInv, PlacesOK, Workers
  <1>7. MutexOK'
    BY <1>2, <1>3 DEF IInv, MutexOK
  <1>8. GateOK'
    <2>1. pc'[c] = "join" => locked' = 0
      BY <1>1, <1>3, <1>4 DEF IInv, GateOK
    <2>2. \A t \in LockThreads : at[t] \in {"opened", "wake"} => locked' = 0
      BY <1>3 DEF IInv, GateOK
    <2> QED BY <1>1, <1>2, <1>3, <1>4, <2>1 DEF IInv, GateOK
  <1>9. SleepOK'
    BY <1>2, <1>3 DEF IInv, SleepOK, Finished!Sleepers
  <1>10. DoneOK'
    BY <1>2, <1>3 DEF IInv, DoneOK, Done
  <1>11. PhaseOK'
    <2>1. pc[c] # "idle"
      BY <1>3
    <2> QED BY <1>2, <1>4, <2>1 DEF IInv, PhaseOK
  <1>12. EmptyOK'
    BY <1>2, <1>3 DEF IInv, EmptyOK
  <1> QED BY <1>1, <1>5, <1>6, <1>7, <1>8, <1>9, <1>10, <1>11, <1>12 DEF IInv

\* stop() takes the mutex, then the jobs that nobody has started, then what they
\* were counted as.
LEMMA StopLockStep ==
  ASSUME IInv, NEW c \in Callers, StopLock(c)
  PROVE  IInv'
  <1> USE DEF StopLock
  <1>1. TypeOK' /\ TypeOK
    BY DEF IInv, TypeOK, lockvars, Finished!LockTypeOK
  <1>2. /\ UNCHANGED <<jobndx, pending, threads, call, left, index, dropped, started,
                       finished, phase, locked, at, timed>>
        /\ \A t \in LockThreads \ {c} : pc'[t] = pc[t]
        /\ pc[c] = "stop_lock" /\ mutex = NoOwner /\ mutex' = c
        /\ \/ threads = 0 /\ jobs' = 0 /\ pc'[c] = "stop_open"
           \/ threads > 0 /\ jobs' = jobs /\ pc'[c] = "stop_exchange"
    BY <1>1 DEF lockvars, TypeOK
  <1>3. at[c] = "out"
    BY <1>1, <1>2, OutOfLock DEF IInv
  <1>4. PlacesOK'
    BY <1>1, <1>2 DEF IInv, PlacesOK, Workers
  <1>5. MutexOK'
    BY <1>1, <1>2 DEF IInv, MutexOK
  <1>6. GateOK' /\ SleepOK'
    BY <1>1, <1>2, <1>3 DEF IInv, GateOK, SleepOK, Finished!Sleepers
  <1>7. PhaseOK'
    BY <1>2 DEF IInv, PhaseOK
  <1>8. EmptyOK'
    BY <1>2 DEF IInv, EmptyOK
  <1>9. \A d \in Callers \ {c} : pc'[d] \notin Owning
    BY <1>2 DEF IInv, MutexOK
  <1>10. CountOK'
    BY <1>1, <1>2, <1>9 DEF IInv, CountOK, TypeOK
  <1>11. PendingExact'
    <2>1. Busy' = Busy /\ Dropping' = Dropping
      BY <1>2 DEF Busy, Dropping
    <2>2. Taken' = Taken
      BY <1>2, <2>1 DEF Taken
    <2> QED BY <1>2, <2>1, <2>2, Zenon DEF IInv, PendingExact
  <1>12. DoneOK'
    BY <1>2 DEF IInv, DoneOK, Done
  <1>13. JobsOK'
    <2>1. CASE threads = 0
      <3>1. dropped = {} /\ \A v \in Workers : pc[v] # "exec"
        BY <1>1, <2>1 DEF IInv, CountOK, PlacesOK, Workers
      <3> QED BY <1>1, <1>2, <2>1, <3>1 DEF IInv, JobsOK, TypeOK
    <2>2. CASE threads # 0
      <3>1. jobs' = jobs /\ \A v \in Workers : pc'[v] = pc[v]
        BY <1>2, <2>2
      <3> QED BY <1>2, <3>1 DEF IInv, JobsOK
    <2> QED BY <2>1, <2>2
  <1> QED BY <1>1, <1>4, <1>5, <1>6, <1>7, <1>8, <1>10, <1>11, <1>12, <1>13 DEF IInv

LEMMA StopExchangeStep ==
  ASSUME IInv, NEW c \in Callers, StopExchange(c)
  PROVE  IInv'
  <1> USE DEF StopExchange
  <1>1. TypeOK /\ pc[c] = "stop_exchange" /\ threads > 0 /\ jobndx <= jobs /\ mutex = c
    BY DEF IInv, CountOK, MutexOK
  <1>2. jobndx > 0 => (jobs - jobndx)..(jobs - 1) \subseteq Jobs
    BY <1>1 DEF TypeOK, Jobs
  <1>3. TypeOK'
    <2>1. mutex' \in LockThreads \cup {NoOwner} /\ jobndx' \in Int /\ dropped' \subseteq Jobs
      BY <1>1, <1>2 DEF TypeOK
    <2>2. /\ pc' \in [LockThreads -> CallerLabels \cup WorkerLabels]
          /\ call' \in [Callers -> Calls \cup {"none", "destroy"}]
      <3>1. \E l \in {"stop_sub", "wait", "idle"} : pc' = [pc EXCEPT ![c] = l]
        OBVIOUS
      <3>2. call' = call \/ call' = [call EXCEPT ![c] = "none"]
        OBVIOUS
      <3>3. call' \in [Callers -> Calls \cup {"none", "destroy"}]
        BY <1>1, <3>2 DEF TypeOK
      <3>4. pc' \in [LockThreads -> CallerLabels \cup WorkerLabels]
        BY <1>1, <3>1 DEF TypeOK
      <3> QED BY <3>3, <3>4
    <2>3. left' \in [LockThreads -> Int]
      <3>1. left' = left \/ left' = [left EXCEPT ![c] = jobndx]
        OBVIOUS
      <3> QED BY <1>1, <3>1 DEF TypeOK
    <2> QED BY <1>1, <2>1, <2>2, <2>3 DEF TypeOK, lockvars, Finished!LockTypeOK
  <1>4. /\ UNCHANGED <<pending, threads, jobs, index, started, finished, phase, locked, at,
                       timed>>
        /\ \A t \in LockThreads \ {c} : pc'[t] = pc[t] /\ left'[t] = left[t]
        /\ \A d \in Callers \ {c} : call'[d] = call[d]
        /\ call'[c] = "destroy" <=> call[c] = "destroy"
        /\ pc'[c] = "idle" <=> call'[c] = "none"
        /\ jobndx' = -1
        /\ \/ /\ jobndx > 0 /\ pc'[c] = "stop_sub" /\ mutex' = mutex /\ left'[c] = jobndx
              /\ dropped' = (jobs - jobndx)..(jobs - 1)
           \/ /\ jobndx <= 0 /\ pc'[c] \in {"idle", "wait"} /\ mutex' = NoOwner
              /\ UNCHANGED <<left, dropped>>
    BY <1>1 DEF lockvars, TypeOK, IInv, PlacesOK
  <1>5. at[c] = "out" /\ jobs > 0
    <2>1. at[c] = "out"
      BY <1>1, OutOfLock DEF IInv
    <2> QED BY <1>1, <2>1 DEF IInv, CountOK, TypeOK
  <1>6. PlacesOK'
    BY <1>1, <1>4 DEF IInv, PlacesOK, Workers
  <1>7. MutexOK'
    BY <1>1, <1>4 DEF IInv, MutexOK
  <1>8. GateOK' /\ SleepOK'
    BY <1>1, <1>4, <1>5 DEF IInv, GateOK, SleepOK, Finished!Sleepers
  <1>9. PhaseOK'
    BY <1>1, <1>4 DEF IInv, PhaseOK
  <1>10. EmptyOK'
    BY <1>4, <1>5 DEF EmptyOK
  <1>11. \A d \in Callers \ {c} : pc'[d] \notin Owning
    BY <1>1, <1>4 DEF IInv, MutexOK
  <1>12. CountOK'
    BY <1>1, <1>4, <1>5, <1>11 DEF IInv, CountOK, TypeOK
  <1>13. PendingExact'
    <2>1. Busy' = Busy
      BY <1>1, <1>4 DEF Busy
    <2>2. Taken = {} /\ Cardinality(Taken) = 0
      <3>1. \A d \in Callers : pc[d] # "stop_sub"
        BY <1>1, <1>4, <1>11
      <3> QED BY <3>1, TakenByNone
    <2>3. Cardinality(Taken') = IF jobndx > 0 THEN jobndx ELSE 0
      <3>1. CASE jobndx > 0
        <4>1. MutexOK' /\ pc'[c] = "stop_sub" /\ left'[c] \in Nat /\ left'[c] = jobndx
          BY <1>1, <1>4, <1>7, <3>1 DEF TypeOK
        <4>2. Dropping' = {c}
          BY <1>11, <4>1 DEF Dropping
        <4>3. Taken' = {c} \X (1..jobndx)
          BY <4>1, <4>2 DEF Taken
        <4>4. Cardinality({c} \X (1..jobndx)) = jobndx
          BY <4>1, OneTakes
        <4> QED BY <3>1, <4>3, <4>4, Zenon
      <3>2. CASE ~(jobndx > 0)
        <4>1. Dropping' = {}
          BY <1>1, <1>4, <1>11, <3>2 DEF Dropping, TypeOK
        <4>2. Taken' = {}
          BY <4>1 DEF Taken
        <4> QED BY <3>2, <4>2, FS_EmptySet, Zenon
      <3> QED BY <3>1, <3>2
    <2>4. /\ Max({jobndx, 0}) = IF jobndx >= 0 THEN jobndx ELSE 0
          /\ Max({-1, 0}) = 0
      <3>1. jobndx \in Int /\ -1 \in Int
        BY <1>1 DEF TypeOK
      <3>2. Max({-1, 0}) = IF -1 >= 0 THEN -1 ELSE 0
        BY <3>1, MaxZero
      <3> QED BY <3>1, <3>2, MaxZero
    <2>5. Cardinality(Busy) \in Nat /\ pending = Max({jobndx, 0}) + Cardinality(Busy) + 0
      BY <1>1, <2>2, BusyFinite DEF IInv, PendingExact
    <2>6. pending' = 0 + Cardinality(Busy') + Cardinality(Taken')
      BY <1>1, <1>4, <2>1, <2>3, <2>4, <2>5 DEF TypeOK
    <2> QED BY <1>4, <2>4, <2>6 DEF PendingExact
  <1>14. DoneOK'
    BY <1>4 DEF IInv, DoneOK, Done
  <1>15. JobsOK'
    <2>1. CASE jobndx > 0
      <3>1. dropped = {}
        BY <1>1, <2>1 DEF IInv, JobsOK, TypeOK
      <3>2. dropped' \subseteq 0..jobs - 1
        BY <1>1, <1>4, <2>1 DEF TypeOK
      <3>3. \A j \in Jobs : j < jobs => (j \notin dropped' <=> j < jobs - jobndx)
        BY <1>1, <1>4, <2>1 DEF TypeOK, Jobs
      <3>4. \A j \in Jobs : started[j] = IF threads > 0 /\ j < jobs /\ j < jobs - jobndx'
                                             /\ j \notin dropped' THEN 1 ELSE 0
        BY <1>1, <1>4, <2>1, <3>1, <3>3 DEF IInv, JobsOK, Jobs, TypeOK
      <3>5. \A w \in Workers :
              pc'[w] = "exec" => index[w] > -1 /\ jobs - index[w] \notin dropped'
        BY <1>1, <1>4, <2>1 DEF IInv, JobsOK, TypeOK
      <3> QED BY <1>1, <1>4, <2>1, <3>2, <3>4, <3>5 DEF IInv, JobsOK
    <2>2. CASE jobndx <= 0
      <3>1. dropped' = dropped /\ \A w \in Workers : pc'[w] = pc[w]
        BY <1>1, <1>4, <2>2 DEF TypeOK
      <3>2. \A j \in Jobs : j < jobs => j < jobs - jobndx /\ j < jobs - jobndx'
        BY <1>1, <1>4, <2>2 DEF TypeOK, Jobs
      <3>3. \A w \in Workers : pc[w] = "exec" => index[w] > jobndx'
        BY <1>4 DEF IInv, JobsOK
      <3> QED BY <1>4, <3>1, <3>2, <3>3 DEF IInv, JobsOK
    <2> QED BY <1>1, <2>1, <2>2 DEF TypeOK
  <1> QED BY <1>3, <1>6, <1>7, <1>8, <1>9, <1>10, <1>12, <1>13, <1>14, <1>15 DEF IInv

LEMMA StopSubStep ==
  ASSUME IInv, NEW c \in Callers, StopSub(c)
  PROVE  IInv'
  <1> USE DEF StopSub
  <1>1. /\ TypeOK /\ pc[c] = "stop_sub" /\ threads > 0 /\ mutex = c
        /\ left[c] \in Nat /\ left[c] >= 1 /\ jobndx \in Int /\ jobndx <= 0 /\ pending \in Int
    <2>1. /\ TypeOK /\ pc[c] = "stop_sub" /\ threads > 0 /\ mutex = c
          /\ left[c] >= 1 /\ jobndx <= 0
      BY DEF IInv, CountOK, MutexOK
    <2> QED BY <2>1 DEF TypeOK
  <1>2. /\ Cardinality(Busy) \in Nat
        /\ pending = Cardinality(Busy) + left[c]
    <2>1. Cardinality(Taken) = left[c]
      BY <1>1, TakenByOne DEF IInv
    <2>2. Max({jobndx, 0}) = 0
      BY <1>1, MaxZero
    <2>3. pending = Max({jobndx, 0}) + Cardinality(Busy) + Cardinality(Taken)
      BY <1>1 DEF IInv, PendingExact
    <2> QED BY <1>1, <2>1, <2>2, <2>3, BusyFinite
  <1>3. TypeOK'
    <2>1. /\ \E l \in {"stop_open", "wait", "idle"} : pc' = [pc EXCEPT ![c] = l]
          /\ call' = call \/ call' = [call EXCEPT ![c] = "none"]
      OBVIOUS
    <2>2. /\ pc' \in [LockThreads -> CallerLabels \cup WorkerLabels]
          /\ call' \in [Callers -> Calls \cup {"none", "destroy"}]
      BY <1>1, <2>1 DEF TypeOK
    <2>3. pending' \in Int /\ left' \in [LockThreads -> Int]
      BY <1>1 DEF TypeOK
    <2> QED BY <1>1, <2>2, <2>3 DEF TypeOK, lockvars, Finished!LockTypeOK
  <1>4. /\ UNCHANGED <<jobndx, threads, jobs, index, started, finished, dropped, phase, locked,
                       at, timed>>
        /\ \A t \in LockThreads \ {c} : pc'[t] = pc[t] /\ left'[t] = left[t]
        /\ \A d \in Callers \ {c} : call'[d] = call[d]
        /\ call'[c] = "destroy" <=> call[c] = "destroy"
        /\ pc'[c] = "idle" <=> call'[c] = "none"
        /\ pending' = Cardinality(Busy)
        /\ \/ pending' = 0 /\ pc'[c] = "stop_open" /\ mutex' = mutex
           \/ pending' # 0 /\ pc'[c] \in {"idle", "wait"} /\ mutex' = NoOwner
    BY <1>1, <1>2 DEF lockvars, TypeOK, IInv, PlacesOK
  <1>5. at[c] = "out" /\ jobs > 0
    <2>1. at[c] = "out"
      BY <1>1, OutOfLock DEF IInv
    <2> QED BY <1>1, <2>1 DEF IInv, CountOK, TypeOK
  <1>6. PlacesOK'
    BY <1>1, <1>4 DEF IInv, PlacesOK, Workers
  <1>7. MutexOK'
    BY <1>1, <1>4 DEF IInv, MutexOK
  <1>8. GateOK' /\ SleepOK'
    BY <1>1, <1>4, <1>5 DEF IInv, GateOK, SleepOK, Finished!Sleepers
  <1>9. PhaseOK'
    BY <1>1, <1>4 DEF IInv, PhaseOK
  <1>10. EmptyOK'
    BY <1>4, <1>5 DEF EmptyOK
  <1>11. \A d \in Callers \ {c} : pc'[d] \notin Owning
    BY <1>1, <1>4 DEF IInv, MutexOK
  <1>12. CountOK'
    BY <1>1, <1>4, <1>5, <1>11 DEF IInv, CountOK, TypeOK
  <1>13. PendingExact'
    <2>1. Busy' = Busy
      BY <1>1, <1>4 DEF Busy
    <2>2. Dropping' = {}
      BY <1>4, <1>11 DEF Dropping
    <2>3. Taken' = {}
      BY <2>2 DEF Taken
    <2>4. Cardinality(Taken') = 0
      BY <2>3, FS_EmptySet, Zenon
    <2>5. Max({jobndx, 0}) = 0
      BY <1>1, MaxZero
    <2> QED BY <1>2, <1>4, <2>1, <2>4, <2>5 DEF PendingExact
  <1>14. DoneOK'
    <2>1. ~Done
      <3>1. pending # 0
        BY <1>1, <1>2
      <3> QED BY <1>5, <3>1 DEF Done
    <2>2. pc'[c] = "stop_open" => Done'
      BY <1>1, <1>4 DEF Done
    <2>3. \A w \in Workers : pc[w] = "fetch" => left[w] # 0
      <3>1. pending # 0
        BY <1>1, <1>2
      <3> QED BY <3>1 DEF IInv, DoneOK
    <2> QED BY <1>4, <1>5, <2>1, <2>2, <2>3 DEF IInv, DoneOK
  <1>15. JobsOK'
    BY <1>4 DEF IInv, JobsOK
  <1> QED BY <1>3, <1>6, <1>7, <1>8, <1>9, <1>10, <1>12, <1>13, <1>14, <1>15 DEF IInv

\* A worker takes the next job, or finds that there is none.
LEMMA FetchStep ==
  ASSUME IInv, NEW w \in Workers, Fetch(w)
  PROVE  IInv'
  <1> USE DEF Fetch
  <1>1. /\ TypeOK /\ pc[w] = "fetch" /\ threads > 0 /\ jobndx <= jobs /\ jobndx \in Int
        /\ threads \in Nat /\ jobs \in 0..MaxJobs /\ w \in 0..MaxThreads-1
        /\ jobs > 0 /\ at[w] = "out"
    <2>1. /\ TypeOK /\ pc[w] = "fetch" /\ threads > 0 /\ jobs # 0 /\ jobndx <= jobs
      <3>1. TypeOK /\ pc[w] = "fetch" /\ w < threads
        BY DEF IInv, PlacesOK, TypeOK, Workers
      <3>2. threads > 0
        BY <3>1 DEF TypeOK, Workers
      <3> QED BY <3>1, <3>2 DEF IInv, CountOK
    <2>2. at[w] = "out"
      BY <2>1, OutOfLock DEF IInv
    <2> QED BY <2>1, <2>2 DEF TypeOK, Workers
  <1>2. TypeOK'
    <2>1. /\ \E l \in {"exec", "last", "after"} : pc' = [pc EXCEPT ![w] = l]
          /\ left' = left \/ left' = [left EXCEPT ![w] = 0]
          /\ index' = index \/ (index' = [index EXCEPT ![w] = jobndx] /\ jobndx > 0)
          /\ started' = started \/ started' = [started EXCEPT ![jobs - jobndx] = @ + 1]
      OBVIOUS
    <2>2. /\ pc' \in [LockThreads -> CallerLabels \cup WorkerLabels]
          /\ left' \in [LockThreads -> Int]
      BY <1>1, <2>1 DEF TypeOK
    <2>3. index' \in [Workers -> 0..MaxJobs] /\ jobndx' \in Int
      BY <1>1, <2>1 DEF TypeOK
    <2>4. started' \in [Jobs -> Nat]
      BY <1>1, <2>1 DEF TypeOK
    <2> QED BY <1>1, <2>2, <2>3, <2>4 DEF TypeOK, lockvars, Finished!LockTypeOK
  <1>3. /\ UNCHANGED <<mutex, pending, threads, jobs, call, phase, finished, dropped,
                       locked, at, timed>>
        /\ \A t \in LockThreads \ {w} : pc'[t] = pc[t] /\ left'[t] = left[t]
        /\ \A v \in Workers \ {w} : index'[v] = index[v]
        /\ jobndx' = jobndx - 1
        /\ \/ /\ jobndx > 0 /\ pc'[w] = "exec" /\ index'[w] = jobndx
              /\ started' = [started EXCEPT ![jobs - jobndx] = @ + 1]
           \/ /\ jobndx <= 0 /\ started' = started
              /\ pc'[w] = IF left[w] = 0 THEN "last" ELSE "after"
    BY <1>1 DEF lockvars, TypeOK
  <1>4. PlacesOK'
    BY <1>1, <1>3 DEF IInv, PlacesOK, Workers
  <1>5. MutexOK'
    BY <1>1, <1>3 DEF IInv, MutexOK
  <1>6. GateOK' /\ SleepOK'
    BY <1>1, <1>3 DEF IInv, GateOK, SleepOK, Finished!Sleepers
  <1>7. PhaseOK'
    BY <1>1, <1>3 DEF IInv, PhaseOK
  <1>8. EmptyOK'
    BY <1>1, <1>3 DEF EmptyOK
  <1>9. CountOK'
    <2>1. ThreadCount' = ThreadCount
      BY <1>3 DEF ThreadCount
    <2>2. \A c \in Callers : pc'[c] = pc[c] /\ left'[c] = left[c]
      BY <1>3
    <2> QED BY <1>1, <1>3, <2>1, <2>2 DEF IInv, CountOK
  <1>10. PendingExact'
    <2>1. Taken' = Taken
      BY <1>3 DEF Taken, Dropping
    <2>2. /\ Max({jobndx, 0}) = IF jobndx >= 0 THEN jobndx ELSE 0
          /\ Max({jobndx - 1, 0}) = IF jobndx - 1 >= 0 THEN jobndx - 1 ELSE 0
      <3>1. jobndx - 1 \in Int
        BY <1>1
      <3> QED BY <1>1, <3>1, MaxZero
    <2>3. /\ IsFiniteSet(Busy) /\ Cardinality(Busy) \in Nat
          /\ pending = Max({jobndx, 0}) + Cardinality(Busy) + Cardinality(Taken)
      BY <1>1, BusyFinite DEF IInv, PendingExact
    <2>4. CASE jobndx > 0
      <3>1. Busy' = Busy \cup {w} /\ w \notin Busy
        BY <1>1, <1>3, <2>4 DEF Busy
      <3>2. Cardinality(Busy \cup {w}) = Cardinality(Busy) + 1
        BY <2>3, <3>1, FS_AddElement
      <3>3. Cardinality(Busy') = Cardinality(Busy) + 1
        BY <3>1, <3>2, Zenon
      <3>4. Max({jobndx', 0}) = jobndx - 1 /\ Max({jobndx, 0}) = jobndx
        BY <1>1, <1>3, <2>2, <2>4
      <3>5. Cardinality(Taken) \in Int
        BY TakenInt DEF IInv
      <3>6. pending = Max({jobndx', 0}) + Cardinality(Busy') + Cardinality(Taken)
        BY <1>1, <2>3, <3>3, <3>4, <3>5
      <3> QED BY <1>3, <2>1, <3>6, Zenon DEF PendingExact
    <2>5. CASE jobndx <= 0
      <3>1. Busy' = Busy
        BY <1>1, <1>3, <2>5 DEF Busy
      <3>2. Max({jobndx', 0}) = 0 /\ Max({jobndx, 0}) = 0
        BY <1>1, <1>3, <2>2, <2>5
      <3> QED BY <1>3, <2>1, <2>3, <3>1, <3>2, Zenon DEF PendingExact
    <2> QED BY <1>1, <2>4, <2>5
  <1>11. DoneOK'
    <2>1. Done' <=> Done
      BY <1>3 DEF Done
    <2>2. pc'[w] = "last" => Done
      BY <1>1, <1>3 DEF IInv, DoneOK, Done
    <2> QED BY <1>1, <1>3, <2>1, <2>2 DEF IInv, DoneOK
  <1>12. JobsOK'
    <2>1. CASE jobndx > 0
      <3>1. dropped = {}
        BY <1>1, <2>1 DEF IInv, JobsOK
      <3> DEFINE k == jobs - jobndx
      <3>2. k \in Jobs /\ k \in Int /\ k < jobs /\ jobndx = jobs - k
        BY <1>1, <2>1 DEF Jobs
      <3>3. started[k] = 0 /\ started'[k] = 1 /\ finished[k] = 0
            /\ \A j \in Jobs \ {k} : started'[j] = started[j]
        <4>1. started[k] = 0
          BY <1>1, <2>1, <3>2 DEF IInv, JobsOK
        <4>2. finished[k] = 0
          BY <1>1, <3>2, <4>1 DEF IInv, JobsOK, TypeOK
        <4>3. started'[k] = started[k] + 1 /\ \A j \in Jobs \ {k} : started'[j] = started[j]
          BY <1>1, <1>3, <2>1, <3>2 DEF TypeOK
        <4> QED BY <4>1, <4>2, <4>3
      <3>4. \A j \in Jobs : j < jobs =>
                (j < jobs - jobndx' <=> j < jobs - jobndx \/ j = k)
        BY <1>1, <1>3, <3>2 DEF Jobs
      <3>5. \A j \in Jobs : started'[j] =
                IF threads > 0 /\ j < jobs /\ j < jobs - jobndx' /\ j \notin dropped THEN 1 ELSE 0
        BY <1>1, <3>1, <3>2, <3>3, <3>4 DEF IInv, JobsOK
      <3>6. \A j \in Jobs : finished[j] <= started'[j]
        BY <1>1, <3>3 DEF IInv, JobsOK
      <3>7. \A j \in Jobs : started'[j] = 1 /\ finished[j] = 0
                => \E v \in Workers : pc'[v] = "exec" /\ index'[v] = jobs - j
        BY <1>1, <1>3, <2>1, <3>2, <3>3 DEF IInv, JobsOK
      <3>8. \A v \in Workers \ {w} : pc'[v] = "exec" =>
                /\ index'[v] \in 1..jobs /\ index'[v] > jobndx
                /\ jobs - index'[v] \notin dropped
                /\ finished[jobs - index'[v]] = 0
        BY <1>3 DEF IInv, JobsOK
      <3>9. pc'[w] = "exec" /\ index'[w] = jobndx /\ jobndx \in 1..jobs
        BY <1>1, <1>3, <2>1
      <3>10. \A v \in Workers :
                pc'[v] = "exec" => /\ index'[v] \in 1..jobs /\ index'[v] > jobndx'
                                   /\ jobs - index'[v] \notin dropped
                                   /\ finished[jobs - index'[v]] = 0
        BY <1>1, <1>3, <3>1, <3>3, <3>8, <3>9
      <3>11. \A u, v \in Workers :
                pc'[u] = "exec" /\ pc'[v] = "exec" /\ index'[u] = index'[v] => u = v
        BY <1>1, <1>3, <3>8, <3>9 DEF IInv, JobsOK
      <3> HIDE DEF k
      <3> QED BY <1>3, <3>1, <3>5, <3>6, <3>7, <3>10, <3>11 DEF JobsOK
    <2>2. CASE jobndx <= 0
      <3>1. /\ started' = started /\ pc'[w] # "exec" /\ pc[w] # "exec" /\ jobndx' < jobndx
        BY <1>1, <1>3, <2>2
      <3>2. \A j \in Jobs : j < jobs => j < jobs - jobndx /\ j < jobs - jobndx'
        BY <1>1, <1>3, <2>2 DEF Jobs
      <3>3. \A v \in Workers : /\ pc'[v] = "exec" <=> pc[v] = "exec"
                               /\ pc[v] = "exec" => index'[v] = index[v] /\ index[v] > jobndx'
        BY <1>1, <1>2, <1>3, <2>2, <3>1 DEF IInv, JobsOK, TypeOK
      <3>4. jobndx' <= 0
        BY <1>1, <1>3, <2>2
      <3> QED BY <1>3, <3>1, <3>2, <3>3, <3>4 DEF IInv, JobsOK
    <2> QED BY <1>1, <2>1, <2>2
  <1> QED BY <1>2, <1>4, <1>5, <1>6, <1>7, <1>8, <1>9, <1>10, <1>11, <1>12 DEF IInv

\* The job ends.
LEMMA ExecStep ==
  ASSUME IInv, NEW w \in Workers, Exec(w)
  PROVE  IInv'
  <1> USE DEF Exec
  <1> DEFINE k == jobs - index[w]
  <1>1. /\ TypeOK /\ pc[w] = "exec" /\ at[w] = "out"
        /\ index[w] \in 1..jobs /\ jobs \in 0..MaxJobs /\ jobs > 0
        /\ k \in Jobs /\ k \in Int /\ k < jobs /\ index[w] = jobs - k
        /\ finished[k] = 0 /\ k \notin dropped /\ index[w] > jobndx
    <2>1. /\ TypeOK /\ pc[w] = "exec" /\ index[w] \in 1..jobs /\ index[w] > jobndx
          /\ k \notin dropped /\ finished[k] = 0
      BY DEF IInv, JobsOK
    <2>2. at[w] = "out"
      BY <2>1, OutOfLock DEF IInv
    <2>3. jobs \in 0..MaxJobs /\ index[w] \in Int /\ jobs > 0
      BY <2>1 DEF TypeOK
    <2>4. k \in Jobs /\ k \in Int /\ k < jobs /\ index[w] = jobs - k
      BY <2>1, <2>3 DEF Jobs
    <2> HIDE DEF k
    <2> QED BY <2>1, <2>2, <2>3, <2>4
  <1>2. TypeOK'
    <2>1. pc' \in [LockThreads -> CallerLabels \cup WorkerLabels]
      BY <1>1 DEF TypeOK
    <2>2. index' \in [Workers -> 0..MaxJobs]
      BY <1>1 DEF TypeOK
    <2>3. finished' \in [Jobs -> Nat]
      BY <1>1 DEF TypeOK
    <2> QED BY <1>1, <2>1, <2>2, <2>3 DEF TypeOK, lockvars, Finished!LockTypeOK
  <1>3. /\ UNCHANGED <<mutex, jobndx, pending, threads, jobs, call, left, phase, started,
                       dropped, locked, at, timed>>
        /\ \A t \in LockThreads \ {w} : pc'[t] = pc[t]
        /\ \A v \in Workers \ {w} : index'[v] = index[v]
        /\ pc'[w] = "sub"
        /\ finished'[k] = 1 /\ \A j \in Jobs \ {k} : finished'[j] = finished[j]
    BY <1>1 DEF lockvars, TypeOK
  <1> HIDE DEF k
  <1>4. PlacesOK'
    BY <1>1, <1>3 DEF IInv, PlacesOK, Workers
  <1>5. MutexOK'
    BY <1>1, <1>3 DEF IInv, MutexOK
  <1>6. GateOK' /\ SleepOK'
    BY <1>1, <1>3 DEF IInv, GateOK, SleepOK, Finished!Sleepers
  <1>7. PhaseOK'
    BY <1>1, <1>3 DEF IInv, PhaseOK
  <1>8. EmptyOK'
    BY <1>1, <1>3 DEF EmptyOK
  <1>9. CountOK'
    <2>1. ThreadCount' = ThreadCount
      BY <1>3 DEF ThreadCount
    <2>2. \A c \in Callers : pc'[c] = pc[c]
      BY <1>3
    <2> QED BY <1>3, <2>1, <2>2 DEF IInv, CountOK
  <1>10. PendingExact'
    <2>1. Taken' = Taken /\ Busy' = Busy
      BY <1>1, <1>3 DEF Taken, Dropping, Busy
    <2> QED BY <1>3, <2>1, Zenon DEF IInv, PendingExact
  <1>11. DoneOK'
    BY <1>1, <1>3 DEF IInv, DoneOK, Done
  <1>12. JobsOK'
    <2>1. started[k] = 1
      BY <1>1 DEF IInv, JobsOK, PlacesOK, TypeOK, Workers
    <2>2. \A v \in Workers \ {w} : pc[v] = "exec" => index[v] # index[w]
      BY <1>1 DEF IInv, JobsOK
    <2>3. \A v \in Workers : pc'[v] = "exec" => v # w /\ pc[v] = "exec" /\ index'[v] = index[v]
                                                /\ jobs - index[v] # k
      BY <1>1, <1>3, <2>2 DEF TypeOK
    <2>4. \A j \in Jobs : finished'[j] <= started[j]
      BY <1>3, <2>1 DEF IInv, JobsOK
    <2>5. \A j \in Jobs : started[j] = 1 /\ finished'[j] = 0
                => \E v \in Workers : pc'[v] = "exec" /\ index'[v] = jobs - j
      <3> TAKE j \in Jobs
      <3> HAVE started[j] = 1 /\ finished'[j] = 0
      <3>1. j # k
        BY <1>3
      <3>2. PICK v \in Workers : pc[v] = "exec" /\ index[v] = jobs - j
        BY <1>3, <3>1 DEF IInv, JobsOK
      <3>3. v # w
        BY <1>1, <3>1, <3>2 DEF Jobs
      <3> QED BY <1>3, <3>2, <3>3
    <2>6. \A v \in Workers : pc'[v] = "exec" => finished'[jobs - index'[v]] = 0
      <3> SUFFICES ASSUME NEW v \in Workers, pc'[v] = "exec"
                   PROVE  finished'[jobs - index'[v]] = 0
        OBVIOUS
      <3>1. /\ pc[v] = "exec" /\ index'[v] = index[v] /\ jobs - index[v] # k
            /\ finished[jobs - index[v]] = 0 /\ index[v] \in 1..jobs
        BY <2>3 DEF IInv, JobsOK
      <3>2. jobs - index[v] \in Jobs
        BY <1>1, <3>1 DEF Jobs
      <3> QED BY <1>3, <3>1, <3>2
    <2>7. \A v \in Workers :
            pc'[v] = "exec" => /\ index'[v] \in 1..jobs /\ index'[v] > jobndx
                               /\ jobs - index'[v] \notin dropped
      BY <2>3 DEF IInv, JobsOK
    <2>8. \A u, v \in Workers :
            pc'[u] = "exec" /\ pc'[v] = "exec" /\ index'[u] = index'[v] => u = v
      BY <2>3 DEF IInv, JobsOK
    <2>9. \A j \in Jobs : started[j] = IF threads > 0 /\ j < jobs /\ j < jobs - jobndx
                                           /\ j \notin dropped THEN 1 ELSE 0
      BY DEF IInv, JobsOK
    <2>10. (dropped # {} => jobndx <= 0) /\ dropped \subseteq 0..jobs - 1
      BY DEF IInv, JobsOK
    <2> QED BY <1>3, <2>4, <2>5, <2>6, <2>7, <2>8, <2>9, <2>10 DEF JobsOK
  <1> QED BY <1>2, <1>4, <1>5, <1>6, <1>7, <1>8, <1>9, <1>10, <1>11, <1>12 DEF IInv

\* The job is not pending any more; the worker knows whether it was the last one.
LEMMA SubStep ==
  ASSUME IInv, NEW w \in Workers, Sub(w)
  PROVE  IInv'
  <1> USE DEF Sub
  <1>1. /\ TypeOK /\ pc[w] = "sub" /\ at[w] = "out" /\ pending \in Int
        /\ threads > 0 /\ jobs > 0
    <2>1. TypeOK /\ pc[w] = "sub" /\ w < threads
      BY DEF IInv, PlacesOK, TypeOK, Workers
    <2>2. threads > 0
      BY <2>1 DEF TypeOK, Workers
    <2>3. at[w] = "out"
      BY <2>1, OutOfLock DEF IInv
    <2> QED BY <2>1, <2>2, <2>3 DEF IInv, CountOK, TypeOK
  <1>2. TypeOK'
    <2>1. /\ pc' \in [LockThreads -> CallerLabels \cup WorkerLabels]
          /\ left' \in [LockThreads -> Int] /\ pending' \in Int
      BY <1>1 DEF TypeOK
    <2> QED BY <1>1, <2>1 DEF TypeOK, lockvars, Finished!LockTypeOK
  <1>3. /\ UNCHANGED <<mutex, jobndx, threads, jobs, call, index, phase, started, finished,
                       dropped, locked, at, timed>>
        /\ \A t \in LockThreads \ {w} : pc'[t] = pc[t] /\ left'[t] = left[t]
        /\ pc'[w] = "fetch" /\ left'[w] = pending' /\ pending' = pending - 1
    BY <1>1 DEF lockvars, TypeOK
  <1>4. PlacesOK'
    BY <1>1, <1>3 DEF IInv, PlacesOK, Workers
  <1>5. MutexOK'
    BY <1>1, <1>3 DEF IInv, MutexOK
  <1>6. GateOK' /\ SleepOK'
    BY <1>1, <1>3 DEF IInv, GateOK, SleepOK, Finished!Sleepers
  <1>7. PhaseOK'
    BY <1>1, <1>3 DEF IInv, PhaseOK
  <1>8. EmptyOK'
    BY <1>1, <1>3 DEF EmptyOK
  <1>9. CountOK'
    <2>1. ThreadCount' = ThreadCount
      BY <1>3 DEF ThreadCount
    <2>2. \A c \in Callers : pc'[c] = pc[c] /\ left'[c] = left[c]
      BY <1>3
    <2> QED BY <1>1, <1>3, <2>1, <2>2 DEF IInv, CountOK
  <1>10. Cardinality(Busy') = Cardinality(Busy) - 1
    <2>1. Busy' = Busy \ {w} /\ w \in Busy
      BY <1>1, <1>3 DEF Busy
    <2>2. Cardinality(Busy \ {w}) = Cardinality(Busy) - 1
      BY <2>1, BusyFinite, FS_RemoveElement
    <2> QED BY <2>1, <2>2, Zenon
  <1>11. PendingExact'
    <2>1. Taken' = Taken
      BY <1>3 DEF Taken, Dropping
    <2>2. pending = Max({jobndx, 0}) + Cardinality(Busy) + Cardinality(Taken)
      BY <1>1 DEF IInv, PendingExact
    <2>3. Max({jobndx, 0}) \in Int
      BY <1>1, MaxZero DEF TypeOK
    <2>4. pending - 1 = Max({jobndx, 0}) + Cardinality(Busy') + Cardinality(Taken)
      BY <1>10, <2>2, <2>3, BusyFinite, TakenInt
    <2> QED BY <1>3, <2>1, <2>4, Zenon DEF PendingExact
  <1>12. DoneOK'
    <2>1. ~Done
      <3>1. w \in Busy
        BY <1>1 DEF Busy
      <3>2. pending # 0
        BY <1>1, <3>1, DoneMeansSettled
      <3> QED BY <1>1, <3>2 DEF Done
    <2>2. pending # 0
      BY <1>1, <2>1 DEF Done
    <2>3. \A v \in Workers \ {w} : ~(pc[v] = "fetch" /\ left[v] = 0)
      BY <2>2 DEF IInv, DoneOK
    <2> QED BY <1>1, <1>3, <2>1, <2>3 DEF IInv, DoneOK
  <1>13. JobsOK'
    <2>1. \A v \in Workers : pc'[v] = "exec" <=> pc[v] = "exec"
      BY <1>1, <1>3
    <2> QED BY <1>3, <2>1 DEF IInv, JobsOK
  <1> QED BY <1>2, <1>4, <1>5, <1>6, <1>7, <1>8, <1>9, <1>11, <1>12, <1>13 DEF IInv

\* A worker has found nothing left.
LEMMA EndStep ==
  ASSUME IInv, NEW w \in Workers, Last(w) \/ After(w) \/ Joining(w)
  PROVE  IInv'
  <1> USE DEF Last, After, Joining
  <1>1. /\ TypeOK /\ TypeOK' /\ pc[w] \in {"last", "after", "joining"} /\ threads > 0
        /\ jobs > 0
    <2>1. TypeOK /\ pc[w] \in {"last", "after", "joining"} /\ w < threads
      BY DEF IInv, PlacesOK, TypeOK, Workers
    <2>2. threads > 0
      BY <2>1 DEF TypeOK, Workers
    <2>3. TypeOK'
      BY <2>1 DEF TypeOK, lockvars, Finished!LockTypeOK
    <2> QED BY <2>1, <2>2, <2>3 DEF IInv, CountOK, TypeOK
  <1>2. /\ UNCHANGED <<pending, threads, jobs, call, left, index, phase, started, finished,
                       dropped, locked, at, timed>>
        /\ \A t \in LockThreads \ {w} : pc'[t] = pc[t]
        /\ \/ pc[w] = "last" /\ pc'[w] = "open" /\ jobndx' = -1 /\ mutex' = mutex
           \/ /\ pc[w] = "after" /\ pc'[w] = "joining" /\ w = 0 /\ mutex = NoOwner /\ mutex' = w
              /\ jobndx' = jobndx
           \/ /\ pc[w] = "after" /\ pc'[w] = "exit" /\ w # 0 /\ mutex' = mutex
              /\ jobndx' = jobndx
           \/ /\ pc[w] = "joining" /\ pc'[w] = "exit" /\ mutex' = NoOwner
              /\ jobndx' = jobndx
              /\ \A v \in 1..threads - 1 : pc[v] = "exit"
    BY <1>1 DEF lockvars, TypeOK
  <1>3. at[w] = "out"
    <2>1. CASE pc[w] = "after"
      BY <2>1 DEF Finished!Out
    <2>2. CASE pc[w] # "after"
      BY <1>1, <2>2, OutOfLock DEF IInv
    <2> QED BY <2>1, <2>2
  <1>4. (jobndx <= 0 /\ jobndx \in Int) \/ jobndx' = jobndx
    <2>1. CASE pc[w] = "last"
      <3>1. pending = 0
        BY <1>1, <2>1 DEF IInv, DoneOK, Done
      <3> QED BY <1>1, <3>1, DoneMeansSettled DEF TypeOK
    <2>2. CASE pc[w] # "last"
      BY <1>2, <2>2
    <2> QED BY <2>1, <2>2
  <1>5. PlacesOK'
    <2>1. pc'[w] \in WorkerLabels /\ pc'[w] # "none" /\ pc[w] # "none"
          /\ (pc'[w] = "joining" => w = 0)
      BY <1>2
    <2>2. pc'[0] = "exit" => \A v \in Workers : pc'[v] # "none" => pc'[v] = "exit"
      <3>1. CASE w = 0 /\ pc'[0] = "exit"
        <4>1. \A v \in 1..threads - 1 : pc[v] = "exit"
          BY <1>2, <3>1
        <4>2. \A v \in Workers \ {w} : pc[v] # "none" => v \in 1..threads - 1
          BY <1>1, <3>1 DEF IInv, PlacesOK, Workers, TypeOK
        <4> QED BY <1>1, <1>2, <3>1, <4>1, <4>2
      <3>2. CASE w # 0
        <4>1. 0 \in Workers \ {w}
          BY <3>2 DEF Workers
        <4>2. pc'[0] = pc[0] /\ pc[w] # "exit"
          BY <1>2, <4>1
        <4> QED BY <1>1, <1>2, <2>1, <4>2 DEF IInv, PlacesOK
      <3> QED BY <3>1, <3>2
    <2>3. \A c \in Callers : pc'[c] = "run_spawn" => pc'[0] # "exit"
      <3>1. pc[w] = "joining" => mutex = w
        BY DEF IInv, MutexOK
      <3>2. 0 \in Workers
        BY DEF Workers
      <3> QED BY <1>1, <1>2, <3>1, <3>2 DEF IInv, PlacesOK, MutexOK
    <2> QED BY <1>1, <1>2, <2>1, <2>2, <2>3 DEF IInv, PlacesOK
  <1>6. MutexOK'
    BY <1>1, <1>2 DEF IInv, MutexOK
  <1>7. GateOK' /\ SleepOK'
    BY <1>1, <1>2, <1>3 DEF IInv, GateOK, SleepOK, Finished!Sleepers
  <1>8. PhaseOK'
    BY <1>1, <1>2 DEF IInv, PhaseOK
  <1>9. EmptyOK'
    BY <1>1, <1>2 DEF EmptyOK
  <1>10. CountOK'
    <2>1. ThreadCount' = ThreadCount
      BY <1>2 DEF ThreadCount
    <2>2. \A c \in Callers : pc'[c] = pc[c] /\ left'[c] = left[c]
      BY <1>2
    <2>3. jobndx' <= jobs /\ (jobndx <= 0 => jobndx' <= 0)
      BY <1>1, <1>2, <1>4 DEF IInv, CountOK, TypeOK
    <2> QED BY <1>1, <1>2, <2>1, <2>2, <2>3 DEF IInv, CountOK
  <1>11. PendingExact'
    <2>1. Taken' = Taken /\ Busy' = Busy
      BY <1>1, <1>2 DEF Taken, Dropping, Busy
    <2>2. Max({jobndx, 0}) = Max({jobndx', 0})
      <3>1. CASE jobndx' = jobndx
        BY <3>1
      <3>2. CASE jobndx' # jobndx
        <4>1. jobndx \in Int /\ jobndx <= 0 /\ jobndx' \in Int /\ jobndx' <= 0
          BY <1>1, <1>2, <1>4, <3>2
        <4>2. Max({jobndx, 0}) = 0
          BY <4>1, MaxZero
        <4>3. Max({jobndx', 0}) = 0
          BY <4>1, MaxZero
        <4> QED BY <4>2, <4>3
      <3> QED BY <3>1, <3>2
    <2> QED BY <1>2, <2>1, <2>2, Zenon DEF IInv, PendingExact
  <1>12. DoneOK'
    BY <1>1, <1>2 DEF IInv, DoneOK, Done
  <1>13. JobsOK'
    <2>1. \A v \in Workers : pc'[v] = "exec" <=> pc[v] = "exec"
      BY <1>1, <1>2
    <2>2. \A j \in Jobs : j < jobs => (j < jobs - jobndx' <=> j < jobs - jobndx)
      <3>1. \A j \in Jobs : j \in Int
        BY DEF Jobs
      <3> QED BY <1>1, <1>2, <1>4, <3>1 DEF TypeOK
    <2>3. \A v \in Workers : pc[v] = "exec" => index[v] > jobndx'
      <3>1. \A v \in Workers : pc[v] = "exec" => index[v] \in 1..jobs /\ index[v] > jobndx
        BY DEF IInv, JobsOK
      <3> QED BY <1>1, <1>2, <3>1 DEF TypeOK
    <2>4. dropped # {} => jobndx' <= 0
      BY <1>2 DEF IInv, JobsOK
    <2> QED BY <1>2, <2>1, <2>2, <2>3, <2>4 DEF IInv, JobsOK
  <1> QED BY <1>1, <1>5, <1>6, <1>7, <1>8, <1>9, <1>10, <1>11, <1>12, <1>13 DEF IInv

\* A thread goes on inside the promise lock, is interrupted or times out.
LEMMA LockStep ==
  ASSUME IInv, NEW t \in LockThreads, InLock(t) \/ Disturb(t)
  PROVE  IInv'
  <1> USE DEF InLock, Disturb, Finished!LockContinue, Finished!LockDisturb,
              Finished!FutexWait, Finished!UnlockOne, Finished!UnlockTwo, Finished!WakeAll,
              Finished!Interrupt, Finished!Timeout, Finished!Move, Finished!Return,
              batchvars
  <1>1. TypeOK /\ GateOK
    BY DEF IInv
  <1>2. UNCHANGED <<mutex, jobndx, pending, threads, jobs, pc, call, left, index, dropped,
                    started, finished, phase>>
    OBVIOUS
  <1>3. TypeOK'
    <2>1. locked' \in 0..2
      <3>1. locked' \in {0, locked}
        OBVIOUS
      <3> QED BY <1>1, <3>1 DEF TypeOK, Finished!LockTypeOK
    <2>2. at' \in [LockThreads -> Finished!Places]
      <3>1. \/ \E place \in {"asleep", "opened", "unlock2", "out", "wake", "presleep", "expired"} :
                  at' = [at EXCEPT ![t] = place]
            \/ at' = [u \in LockThreads |-> IF at[u] = "asleep" THEN "opened"
                                            ELSE IF u = t THEN "out" ELSE at[u]]
        OBVIOUS
      <3> QED BY <1>1, <3>1 DEF TypeOK, Finished!LockTypeOK, Finished!Places, Finished!Results
    <2>3. timed' \in [LockThreads -> BOOLEAN]
      <3>1. \/ timed' = timed \/ timed' = [timed EXCEPT ![t] = FALSE]
            \/ timed' = [u \in LockThreads |-> timed[u] /\ at[u] # "asleep"]
        OBVIOUS
      <3> QED BY <1>1, <3>1 DEF TypeOK, Finished!LockTypeOK
    <2> QED BY <1>1, <1>2, <2>1, <2>2, <2>3 DEF TypeOK, Finished!LockTypeOK
  <1>4. CountOK' /\ PendingExact' /\ JobsOK'
    BY <1>2, <1>3, CountersKept
  <1>5. PlacesOK' /\ MutexOK'
    BY <1>2 DEF IInv, PlacesOK, MutexOK
  <1>6. /\ locked \in 0..2 /\ at \in [LockThreads -> Finished!Places]
        /\ timed \in [LockThreads -> BOOLEAN]
    BY <1>1 DEF TypeOK, Finished!LockTypeOK
  \* Who may have gone where.
  <1>7. \/ /\ at[t] \in {"presleep", "asleep"} /\ locked' = locked
           /\ at'[t] \in {"presleep", "asleep", "opened", "expired"}
           /\ at'[t] = "opened" => locked = 0
           /\ at'[t] = "asleep" => locked = 2
           /\ at'[t] = "expired" => timed[t]
           /\ timed'[t] => timed[t]
           /\ \A u \in LockThreads \ {t} : at'[u] = at[u] /\ timed'[u] = timed[u]
        \/ /\ at[t] \in {"unlock1", "unlock2"} /\ timed' = timed
           /\ \/ locked # 2 /\ locked' = 0 /\ at'[t] = "out"
              \/ locked = 2 /\ locked' = 0 /\ at'[t] = "wake"
              \/ locked = 2 /\ locked' = 2 /\ at'[t] = "unlock2"
           /\ \A u \in LockThreads \ {t} : at'[u] = at[u]
        \/ /\ at[t] = "wake" /\ at'[t] = "out" /\ locked' = locked /\ locked = 0
           /\ \A u \in LockThreads \ {t} : \/ at[u] = "asleep" /\ at'[u] = "opened"
                                           \/ at[u] # "asleep" /\ at'[u] = at[u]
           /\ \A u \in LockThreads : timed'[u] => timed[u]
    <2>1. locked \in {0, 1, 2}
      BY <1>6
    <2>2. CASE Finished!FutexWait(t)
      BY <1>1, <1>6, <2>1, <2>2 DEF GateOK
    <2>3. CASE Finished!Interrupt(t) \/ Finished!Timeout(t)
      BY <1>1, <1>6, <2>3
    <2>4. CASE Finished!UnlockOne(t) \/ Finished!UnlockTwo(t)
      BY <1>1, <1>6, <2>1, <2>4
    <2>5. CASE Finished!WakeAll(t)
      <3>1. at[t] = "wake" /\ locked' = locked /\ locked = 0
        BY <1>1, <2>5 DEF GateOK
      <3>2. /\ at'[t] = "out"
            /\ \A u \in LockThreads \ {t} : \/ at[u] = "asleep" /\ at'[u] = "opened"
                                            \/ at[u] # "asleep" /\ at'[u] = at[u]
        BY <1>6, <2>5
      <3>3. \A u \in LockThreads : timed'[u] => timed[u]
        BY <2>5, Zenon
      <3> QED BY <3>1, <3>2, <3>3, Zenon
    <2> QED BY <2>2, <2>3, <2>4, <2>5
  <1>8. GateOK'
    BY <1>1, <1>2, <1>6, <1>7 DEF GateOK
  <1>9. SleepOK'
    BY <1>6, <1>7 DEF IInv, SleepOK, Finished!Sleepers
  <1>10. DoneOK'
    BY <1>2, <1>6, <1>7 DEF IInv, DoneOK, Done
  <1>11. PhaseOK'
    BY <1>2, <1>6, <1>7 DEF IInv, PhaseOK
  <1>12. EmptyOK'
    BY <1>2, <1>6, <1>7 DEF IInv, EmptyOK
  <1> QED BY <1>3, <1>4, <1>5, <1>8, <1>9, <1>10, <1>11, <1>12 DEF IInv

LEMMA InitIInv == Init => IInv
  <1> SUFFICES ASSUME Init PROVE IInv
    OBVIOUS
  <1> USE DEF Init, Finished!LockInit
  <1>1. \A c \in Callers : c \notin Workers
    OBVIOUS
  <1>2. TypeOK
    BY DEF TypeOK, Finished!LockTypeOK, Finished!Places
  <1>3. PlacesOK /\ MutexOK
    BY <1>1 DEF PlacesOK, MutexOK, Workers
  <1>4. GateOK /\ SleepOK /\ PhaseOK /\ EmptyOK
    BY <1>1 DEF GateOK, SleepOK, PhaseOK, EmptyOK, Finished!Sleepers
  <1>5. CountOK /\ PendingExact /\ DoneOK
    BY <1>1, <1>2 DEF CountOK, PendingExact, DoneOK, TypeOK
  <1>6. JobsOK
    BY <1>1 DEF JobsOK
  <1> QED BY <1>2, <1>3, <1>4, <1>5, <1>6 DEF IInv

LEMMA NextIInv == IInv /\ [Next]_vars => IInv'
  <1> SUFFICES ASSUME IInv, [Next]_vars PROVE IInv'
    OBVIOUS
  <1>1. CASE UNCHANGED vars
    <2> USE <1>1 DEF vars, batchvars, lockvars
    <2>1. TypeOK' /\ PlacesOK' /\ MutexOK'
      BY DEF IInv, TypeOK, PlacesOK, MutexOK, Finished!LockTypeOK
    <2>2. CountOK' /\ PendingExact' /\ JobsOK'
      BY <2>1, CountersKept
    <2>3. GateOK' /\ SleepOK' /\ DoneOK' /\ PhaseOK' /\ EmptyOK'
      BY DEF IInv, GateOK, SleepOK, DoneOK, Done, PhaseOK, EmptyOK, Finished!Sleepers
    <2> QED BY <2>1, <2>2, <2>3 DEF IInv
  <1>2. CASE Next
    <2>1. ASSUME NEW c \in Callers, NEW f \in Calls, StartCall(c, f) PROVE IInv'
      BY <2>1, FlowStep
    <2>2. ASSUME NEW c \in Callers, StartDestroy(c) \/ RunSpawnThrows(c) PROVE IInv'
      BY <2>2, FlowStep
    <2>3. ASSUME NEW c \in Callers, RunStep(c) PROVE IInv'
      BY <2>3, FlowStep, CountersStep, SpawnStep, UnlockStep, WaitStep DEF RunStep
    <2>4. ASSUME NEW c \in Callers, StopStep(c) PROVE IInv'
      BY <2>4, FlowStep, StopLockStep, StopExchangeStep, StopSubStep, UnlockStep
      DEF StopStep
    <2>5. ASSUME NEW w \in Workers, WorkerStep(w) PROVE IInv'
      BY <2>5, FetchStep, ExecStep, SubStep, EndStep, UnlockStep DEF WorkerStep
    <2>6. ASSUME NEW t \in LockThreads, InLock(t) \/ Disturb(t) PROVE IInv'
      BY <2>6, LockStep
    <2> QED BY <1>2, <2>1, <2>2, <2>3, <2>4, <2>5, <2>6 DEF Next, Continue
  <1> QED BY <1>1, <1>2

LEMMA Invariance == Spec => []IInv
  BY InitIInv, NextIInv, PTL DEF Spec

-----------------------------------------------------------------------------
(* The theorems *)

\* The variables keep their types whatever the threads do.
THEOREM TypeCorrect == Spec => []TypeOK
  <1>1. IInv => TypeOK
    BY DEF IInv
  <1> QED BY Invariance, <1>1, PTL

\* No interleaving of the workers, of stop() and of calls of run() starts a job
\* twice, or a job that stop() has dropped.
THEOREM NoJobTwice == Spec => []EachJobOnce
  <1>1. IInv => EachJobOnce
    BY DEF IInv, JobsOK, EachJobOnce
  <1> QED BY Invariance, <1>1, PTL

\* The two counters agree.
THEOREM CountersAgree == Spec => []PendingExact
  <1>1. IInv => PendingExact
    BY DEF IInv
  <1> QED BY Invariance, <1>1, PTL

\* The lock opens only when no job runs or can start and each one has ended or
\* has been dropped.
THEOREM OpenMeansSettled == Spec => []FinishedMeansSettled
  <1>1. IInv => FinishedMeansSettled
    <2> SUFFICES ASSUME IInv, locked = 0, jobs > 0
                 PROVE  /\ Busy = {} /\ jobndx <= 0
                        /\ \A j \in 0..jobs - 1 : finished[j] = 1 \/ j \in dropped
      BY DEF FinishedMeansSettled
    <2>1. TypeOK /\ threads > 0 /\ pending = 0
      BY DEF IInv, DoneOK, Done
    <2>2. jobndx <= 0 /\ Busy = {}
      BY <2>1, DoneMeansSettled
    <2>3. ASSUME NEW j \in 0..jobs - 1, j \notin dropped
          PROVE  finished[j] = 1
      <3>1. j \in Jobs /\ j < jobs /\ j < jobs - jobndx
        BY <2>1, <2>2 DEF TypeOK, Jobs
      <3>2. started[j] = 1
        BY <2>1, <2>3, <3>1 DEF IInv, JobsOK
      <3>3. \A w \in Workers : pc[w] # "exec"
        BY <2>2 DEF Busy
      <3>4. finished[j] # 0 /\ finished[j] <= 1 /\ finished[j] \in Nat
        BY <2>1, <3>1, <3>2, <3>3 DEF IInv, JobsOK, TypeOK
      <3> QED BY <3>4
    <2> QED BY <2>2, <2>3
  <1> QED BY Invariance, <1>1, PTL

\* Nobody sleeps on an open lock unless he is about to be woken.
THEOREM SleepersWoken == Spec => []NoSleeperStranded
  <1>1. IInv => NoSleeperStranded
    BY DEF IInv, SleepOK, NoSleeperStranded
  <1> QED BY Invariance, <1>1, PTL

\* The destructor leaves no thread behind that uses the batch.
THEOREM DestructorClean == Spec => []DestroyedClean
  <1>1. IInv => DestroyedClean
    <2> SUFFICES ASSUME IInv, phase = "destroyed"
                 PROVE  /\ \A w \in Workers : pc[w] \in {"none", "exit"}
                        /\ mutex = NoOwner /\ locked < 2
      BY DEF DestroyedClean
    <2>1. /\ \A w \in Workers : pc[w] \in {"none", "exit"}
          /\ \A c \in Callers : pc[c] = "idle" /\ locked < 2
      BY DEF IInv, PhaseOK
    <2>2. mutex = NoOwner
      BY <2>1 DEF IInv, TypeOK, MutexOK
    <2> QED BY <2>1, <2>2 DEF IInv, PhaseOK
  <1> QED BY Invariance, <1>1, PTL
==============================================================================
