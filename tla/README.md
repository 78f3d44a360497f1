# A verification of libpcomn's concurrency and of its journal

libpcomn is a C++17 library: `pcommon` (containers, streams, synchronisation, threads),
`pcomn_journal` (a journalling engine), and smaller libraries for sockets, shells, TLS and
network prefixes.  This directory holds TLA+ models of the parts that tests reach least, the
code that several threads run at once and the files a journal leaves when its process dies, the
TLC configurations that check the models on small instances, and proofs that TLAPS checks for
instances of any size.

## Inventory

| Part | State it keeps | Operations | What is hard | What makes it correct |
| --- | --- | --- | --- | --- |
| `counting_semaphore` (`pcommon/pcomn_semaphore.{h,cpp}`) | one 64-bit word: tokens (a futex), number of waiters | acquire with or without a timeout, release, borrow | the word and the kernel's queue of sleepers change in separate steps; one futex for requests of different sizes | no token lost, no wakeup lost, waiters counted exactly |
| `binary_semaphore` (same files) | one 64-bit word: locked, number of waiters | lock, try_lock, timed lock, unlock | as above | one holder, no wakeup lost |
| `promise_lock` (`pcomn_syncobj.{h,cpp}`) | a word 0/1/2 | wait, timed wait, unlock | the transition 1 to 2 against 1 to 0; clocks | every waiter leaves after unlock |
| `ident_dispenser` (`pcomn_syncobj.h`) | next id, range | allocate_id | range replaced under readers | no id twice |
| `blocqueue_controller`, `blocking_queue` (`pcomn_blocqueue.{h,cpp}`) | state OPEN/FINALIZING/CLOSED, capacity, a recursive mutex, two semaphores | push, pop (one or some, timed or not), close, close_push, close_push_wait_empty, change_capacity | tokens, state and container change in separate steps; closing opens both ends artificially | slots conserved, container never over- or underflows, closing happens, when drained, and lets everybody out |
| `list_cbqueue`, `ring_cbqueue` (`pcomn_blocqueue.h`) | a list under a mutex; raw slots and two positions | push, pop, pop_many | ring: pops run without a lock | an item is popped by the thread that claimed it |
| `job_batch`, `threadpool` (`pcomn_threadpool.{h,cpp}`) | jobs, next and pending counts; thread counts, list of threads, a ring queue | run, wait, stop; enqueue, resize, stop | creation, dismissal and joining of threads against stop and resize | every job once; the wanted number of threads; stop ends |
| `cacher` (`pcomn_cacher.h`) | hash table, LRU list, limit | get, put, replace, erase, set_size_limit | order of eviction, limit | size within the limit |
| `Journallable`, `Port` (`pcomn_journal/journal.*`) | state, journal, change count | apply, set_journal, take_checkpoint, restore | checkpoint against apply, exceptions | the restored state is the applied one |
| `MMapStorage` (`pcomn_journal/journmmap.*`, `journfile.cpp`) | files: checkpoint, segments | create, open, replay, append, checkpoint | crashes between file operations | what has been stored is replayed |
| the rest | | | sequential code, I/O, vendored code | left to its unit tests |

How the parts interact: `blocking_queue` calls two `counting_semaphore`s and a container;
`threadpool` keeps its tasks in a `blocking_ring_queue` that many workers pop;
`job_batch` signals its end by a `promise_lock`; a `Journallable` writes through a `Port`
to a storage.  PROJECT.json lists every component with its status and every hazard with
its line in the source and the properties that watch it.

## The modules

    Semaphore              what a counting semaphore promises
      ^ refinement mapping
    CountingSemaphore      the word and the futex
      ^ EXTENDS            MCCountingSemaphore (TLC), CountingSemaphoreProofs (TLAPS)
    ClosableQueue          what a blocking queue promises
      ^ refinement mapping
    BlockingQueue          the queue between its two semaphores, closing and resizing
      ^ EXTENDS            MCBlockingQueue (TLC), BlockingQueueProofs (TLAPS)
                             ^ EXTENDS   BlockingQueueRefinement (TLAPS)
    RingQueue              the slots of the ring under pushes and pops
      ^ EXTENDS            MCRingQueue (TLC), RingQueueProofs (TLAPS)
    PromiseLock            the gate that opens once: a word and a futex
      ^ INSTANCE
    JobBatch               jobs, workers, run(), the waits and stop()
      ^ EXTENDS            MCJobBatch (TLC), JobBatchProofs (TLAPS)
    ThreadPool             workers that are launched, dismissed, joined and stopped
      ^ EXTENDS            MCThreadPool (TLC), ThreadPoolProofs (TLAPS)
    DurableLog             what a journal promises
      ^ refinement mapping
    Journal                the calls of a Journallable and the files of its storage
      ^ EXTENDS            MCJournal (TLC), JournalProofs (TLAPS)
    HandCounting           lemmas on how many tokens threads have in hand; extended by
                           the proofs of BlockingQueue, RingQueue and ThreadPool

In each module an operator preceded by "A slip" is a plausible mistake in the definition that
follows it.  No specification uses it; it shows that the properties can fail.

### CountingSemaphore
`tokens` and `waiting` are `_token_count` and `_waiting_count`.  A loop of load, pure
computation and compare-and-swap is one step, the successful CAS: a failed CAS reloads the
word and computes again, with no other effect.  What cannot be merged is kept apart.  An
acquire is `TryAcquireOk` or `TryAcquireFail`, then `CheckIn` (`fetch_add`), `Grab` or
`Prepare`, `FutexWait`, and, after a timeout, `CheckOut` (`fetch_sub`).  `release` is
`Release` (the CAS, which also fixes how many to wake) and `FutexWake`.  `Interrupt` is EINTR,
`Timeout` is ETIMEDOUT.  The futex itself is the kernel's: wait compares and sleeps in one
step, wake chooses any of the sleepers.

Left out: calls that throw.  The checks for overflow do so before anything changes; a FUTEX_WAIT
that fails with an error other than EAGAIN, EINTR and ETIMEDOUT, which the kernel reports for a
call it does not accept only, makes `acquire_with_lock` throw and leaves the thread counted in
`_waiting_count` (`pcomn_semaphore.cpp:125`).  Left out too: memory orders weaker than the
interleaving of the steps (all writes go through one 64-bit atomic); `acquire_some(0)`, which
reaches `std::clamp(x, 1, 0)`, undefined in C++.  `MaxCount` stands for 2^31-1.

`Semaphore` is the promise: a count that `borrow` may make negative, threads that take tokens
at once, wait, or give up.  `CountingSemaphore` implements it under the mapping
`count <- tokens, want <- req`: a thread wants its tokens from its failed `try_acquire` to
the CAS that takes them.  Which waiter is served is open, but tokens sufficient for a waiter
that stay available reach one.

### BlockingQueue

`state`, `capacity`, `capmutex` are `_state`, `_capacity`, `_capmutex`; `empty` and `full` the
tokens of `slots(EMPTY)` and `slots(FULL)`; `items` the number of items in the container.
Every access to a shared variable is one step of the calling thread, named by prefix:
`Push...` for `handle_push`, `Pop...` for `start_pop`, the handler and `finalize_pop`,
`Fin...` for `try_wait_empty_finalize_queue`, `Close...` for `close_push_end` and
`close_both_ends`, `Cap...` for `change_capacity`.  `held[t]` is the local variable that holds
an acquired or wanted number of tokens, or the difference of capacities.

The semaphores are coarse here: `release(n)` adds its tokens and wakes up to n sleepers of its
end in one step, a sleeper looks at the count only when it is woken, EINTR is left out.  That
they behave so is the business of CountingSemaphore.  At the FULL end every request is content
with one token, the case in which `ImplementsSemaphore` holds; at the EMPTY end requests of
different sizes meet only while FINALIZING, and the model keeps the choice of the wrong
sleeper there.

A push that the queue refuses, or whose container throws, gives its slot back and helps to
finalize (`PushUndo`).  An exception in a pop's handler ends the process (`noexcept`) and is
not modelled.  `size()` only reads.  The container is a counter: `list_cbqueue` is one
critical section per operation, and the ring has a module of its own.

`ClosableQueue` is the promise, without semaphores: a push is admitted only while the queue is
open and has room, a pop has the items it claims to itself and claims none once the queue is
closed, the queue closes when it is drained or, while somebody is inside `close()`, at once, and
`close()` returns from a closed queue only.  In the mapping a push is storing from the second
look at the state to the return of the container (`push_data`), a pop holds its items from its
second look at the state until the container has given them up (`pop_data`).

### RingQueue

The ring's slots are raw memory, `Raw` when no object lives there, otherwise the number of the
push that stored the item.  `Push` is the critical section of `push_item`.  A pop claims its
positions (`Claim`), then `Move`s each item out and `Destroy`s it without a lock, and only then
gives back the slots.  The queue is open and of a fixed capacity.

### PromiseLock and JobBatch

`PromiseLock` is written to be part of another module: its operations are actions of a calling
thread, which `JobBatch` conjoins with what the thread does next; `LockContinue` and
`LockDisturb` are the steps inside the lock, by the thread itself and by timeouts and signals.
`locked` is `_locked`; every load, CAS and futex call is a step.  A relative timeout is added to
the steady clock and waited for on the system clock (`pcomn_syncobj.cpp:55`), so the deadline of
a sleep may be past or never come: `Timeout` may happen at any moment of such a sleep and no
fairness is assumed of it.

`JobBatch` holds `_jobndx` (`jobndx`), `_pending` (`pending`), `_threads` (their number),
`_pool_mutex` and the promise lock `_finished`.  Workers take a job by `Fetch` (the decrement),
`Exec`, `Sub` (from `pending`) and, if it was the last, `Open`; then worker 0 takes the mutex and
joins the others (`After`, `Joining`).  `stop()` is `StopLock`, `StopExchange`, `StopSub`,
`StopOpen`.  The waits go through `run()`, as in the code, and so through the mutex.  The thread
that calls the destructor is the last one in the object, as its owner has to see to.  The jobs
are there from the beginning: adding one is a `push_back` before `run()`.  A job that throws ends
like any other (the exception is caught and logged), so `Exec` has no failing case.  The object of
a job is destroyed at the end of its turn of the loop, after `Sub` (`pcomn_threadpool.cpp:153`):
a waiter that is let out may still meet the destructor of the last job, of which the model says
nothing.

### ThreadPool

`count` is the atomic word `_thread_count` with the threads that run and the difference to those
expected.  `Resize` sets the difference; a launch is `LaunchCas`, then `Create` under the mutex or
`CreateStopped`, or `CreateThrows`; a worker's loop is `Boot`, `Serve`, `Pop`, `Exec`, and a worker
that finds too many leaves by `Serve`, `Drop`, `Collect` and `Join`.  `ForceDismiss`, `ForceLock`,
`ForcePush` push the null tasks that wake spare workers asleep in the queue.  `stop(false)` is
`StopLock`, `Close`, `StopStore`; `stop(true)`, called `"complete"`, is `StopLock`, `ClosePush`,
`DrainLock`, `Drained`.  The destructor stops, then joins the dropped threads and those of the
list.  The queue is the one of `ClosableQueue`, kept to what the pool sees: numbers of tasks and
null tasks, the three states, and `_capmutex` where a caller holds it while it waits.

The critical sections of `_pool_mutex` that neither block nor call out are one step, so that
`Collect`, which tries the mutex, fails only against those a thread stays in; in the code it may
fail against the short ones as well, and then leaves the dropped thread to the next worker, or to
the destructor, as it does in the model when the mutex is busy.

What the model makes visible and no property forbids: a worker whose start fails to launch the
next one lets the exception out of its thread function (`pcomn_threadpool.cpp:294`), which is
`std::terminate` (`phase = "aborted"`); `clear_queue()` drops null tasks with the tasks, so
spare workers sleep on until the next task (`cleared`); `~threadpool()` calls `stop(false)` and
drops tasks, where `pcomn_threadpool.h:346` says that it waits for pending ones; `stop(true)`
returns when the queue is empty, while the last tasks may still run, and joins nobody, where
`pcomn_threadpool.h:393` says that all threads are joined.

### Journal

`cp`, `taking` and `segs` are the files: the checkpoint (`.pchkp`), the one being taken
(`.pchkp.taking`), and the segments by number.  A file has the generation it starts at, its
records or its content, and `ok`: a segment has its header, a checkpoint its tail and CRC.
`storage`, `state`, `mem`, `seg`, `own`, `lastid`, `lastgen` are the memory of the process: the
states of the storage and of the Journallable, what has been applied, `_segment`, `_checkpoint`,
`_last_id`, `_lastgen`.  Every change of a file is a step: a segment is created, then gets its
header (`CreateSegment`, `InitSegment`), or replaces one of its name at once (`ReplaceSegment`); a
checkpoint is created, gets its header, content, tail, name (`CreateCheckpoint` to `Rename`), and
then the segments before it go one by one (`Clean`).  Where the code throws there is a failing
counterpart, with what it rolls back and what it does not: `SegmentFails`, `CreateCheckpointFails`,
`InitCheckpointFails` (nothing is rolled back), `CheckpointFails` (a checkpoint that cannot be
saved, committed or renamed is removed), `RollbackFails` (the flush of the directory in the
rollback of `save_checkpoint()` throws as well: the file is gone, `_checkpoint` stays), `SyncFails`.
All of them may happen at any time.  After `InitCheckpointFails` and `RollbackFails` a checkpoint is
left open for writing (`own`).  If it is not the first one, the destructor of the storage removes
the wrong file (see below); the constant `CloseLeftOpen` says whether it may run then.  `Crash` ends the process before
any step, `CrashInRecord` in the middle of a record, `Close` by the destructor.  `Recovered` is
what opening and restoring would deliver now.

`DurableLog` is the promise: what a restore delivers only grows, and the program is told of
nothing that is not in it.  Under the mapping `log <- Recovered` every step of `Journal`, a crash
included, is an extension, an acknowledgement or a stutter.

The locks of Journallable, Port and storage admit one call at a time, so the model has one thread.
The program is assumed to restore from an existing journal before it sets it again.  The process
dies, not the machine: what is written stays written, `fsync` has no effect in the model.  Left out:
the link to a segments directory, the backup names of replaced segments, readers in other
processes, writes that succeed in part (they go unnoticed in `do_append_record()`, see
the hazards), records larger than one write, and a removal of a file that fails (it is logged at
most).  The commit of the old segment by `new_segment_file()` only flushes and closes it, and
looks at no result (`journfile.cpp:248`), so `UseSegment` cannot fail.  Closing a storage that was
never written to removes two files in one step.

After a rollback that failed `_cpstream` stays as well, with a reference to the checkpoint file.
The next checkpoint, or the destructor of the storage, destroys that file first and then the
stream, whose destructor flushes into it (`pcomn_binstream.cpp:144`): undefined behaviour, from
which either nothing results, for the descriptor is closed and the destructor of the stream
swallows the error, or the end of the process.  The model has both: the next checkpoint is taken,
or `Crash`.  In a debug build the assertions of `do_create_checkpoint()` end the process.

## The runs

| Run | Instance | What it shows |
| --- | --- | --- |
| `semaphore` | 3 threads, MaxCount 2, requests content with one token, release and borrow of 1 and 2 | `TypeOK`, `WaitingExact`, `NoLostWakeup`, `WakeupsSuffice`, and that `Semaphore` is implemented, liveness included |
| `mixed_semaphore` | acquire(1) and acquire(2), release(1) | violation of `BlocksOnlyUntilEnough`, see below |
| `queue_safety` | 2 producers, 2 consumers, 1 controller, capacities 1 and 2, pops of 1 and 2 | conservation of slots, no under- or overflow, finalization of a drained queue only, and that `ClosableQueue` is implemented |
| `queue_liveness` | 1 producer whose pushes may throw, 2 consumers, 1 controller, capacity 1 | finalization completes, closing lets everybody out, nobody sleeps on beside a free slot or an item, the assertion of the finalizer holds |
| `queue_resize_throw` | 2 producers whose pushes may throw, capacities 1 and 2 | violation of `FinalizedWhenDrained`, see below |
| `ring_one_consumer` | 3 producers, 1 consumer, 3 of 4 slots, 9 pushes | the ring is safe with one consumer |
| `ring_two_consumers` | 1 producer, 2 consumers, 2 slots, 4 pushes | violation of `ReadsClaimedItem`, see below |
| `job_batch` | 2 callers of every wait and of `stop()`, 2 workers, up to 3 jobs, threads that fail to start | each job once, the two counters agree, `_finished` opens when everything is settled and wakes everybody, the batch and its destructor end |
| `thread_pool` | 2 callers, 2 calls of every kind and the destructor, up to 2 threads wanted, threads that fail to start | the count of threads is exact, every handle is joined once, resizing completes both ways, the destructor ends |
| `stop_deadlock` | 2 callers, 3 calls, a queue of one task | violation of `StopReturns`, see below |
| `journal` | 2 operations, 4 segments, all failures, crashes anywhere, no closing while a later checkpoint is left open | what is journalled is delivered again (`MemoryIsRecoverable`), and `DurableLog` is implemented |
| `journal_left_open` | 1 operation, 3 segments, closing at any time | violation of `OneConsistent`, see below |

The bounds.  Three threads are enough for a releaser, a sleeper and a thread that steals the
token between the two; two releasers meet one sleeper as well.  `MaxCount = 2` lets
release and borrow reach both ends of the range, and a release of two tokens wake two
sleepers.  In the queue, two threads on each end let one overtake the other, `MaxAllowed = 2`
lets closing wake all the threads of one end, as the 2^30 of the code does, and keeps the
tokens that closing adds as many as a real capacity.  Nine pushes go around four slots more
than twice.  In a batch, two workers are one that joins and one that is joined, and three jobs
let a worker take a second one while `stop()` drops what is left; there are at most as many
callers as could wait, run and stop at the same time in pairs.  In the pool, two calls race each
other (a resize against a resize, a stop or a push) before the destructor; the constructor and
the workers it starts race them as well.  Six identities are enough for all the workers that two resizes and a constructor can
ask for (`SizesAssumption`), so that a launch never fails for want of one; the last conjunct of
`TypeOK` checks it.  Four segments let a journal be
checkpointed, closed and reopened in every order of three, and two operations make one lost at the
front differ from one lost at the end.  `MaxCalls`, `MaxOps` and `MaxSegment` are bounds of the
model only: a journal that has no number left for a segment behaves as one whose segment cannot
be created.

Symmetry is used in `QueueSafety.cfg` and `QueueResizeThrow.cfg`, which have no
liveness property: the threads of each kind are interchangeable and no definition
chooses among them.  Deadlock is not checked where the system may stop: a queue that is closed,
a ring that has had all its pushes, a semaphore nobody releases, a batch or a pool that has been
destroyed, a journal that can be neither opened nor created.

Fairness.  `Continue(t)` is what a thread inside a call does next by itself; weak fairness of
it says that a thread that can run is scheduled, that a CAS loop is not defeated for ever, and, in
a batch or a pool, that each job ends.  It promises nothing of a thread in the kernel (the step is
disabled until it is woken), nor of callers, clocks and signals.  In the queue, consumers also
keep calling `pop` until it is closed, as the worker loops of the library do
(`threadpool::worker_thread_function`); this is what `FinalizationCompletes` needs, for with no
consumer a queue with items stays FINALIZING.  `Journal` has no liveness: any step may be the last.

## Where code and documentation differ

* **A wakeup goes to the wrong waiter** (`mixed_semaphore`).  `release(1)` wakes any sleeper.
  If it wakes one that wants two tokens, that one sleeps again and the thread that wants one
  sleeps on although the counter is big enough, against the comment of `acquire()`
  (`pcomn_semaphore.h:71`).
* **A queue with items is closed** (`queue_resize_throw`).  The finalizer reads the capacity,
  then acquires that many slots and `MaxAllowed` more.  A push whose container throws calls it;
  if `change_capacity` grows the queue and `close_push` follows in between, the slots
  asked for are fewer than all, and the comment at `pcomn_blocqueue.cpp:78` fails.  Items
  still inside are lost.
* **A ring slot is reused too early** (`ring_two_consumers`).  Slots are claimed in order but
  emptied in any order, and a token does not say which slot is free.  With two consumers a push
  may construct an item in the slot another pop is about to move from.  The thread pool pops a
  ring queue from all its workers.
* **`stop()` waits for a `stop(true)`** (`stop_deadlock`).  `stop(true)` waits in
  `close_push_wait_empty()` for the queue to drain and keeps `_capmutex` there; `stop(false)` calls
  `close()`, which takes the same mutex, and with no worker to drain the queue neither returns.
  `pcomn_threadpool.h:402` says that it clears the queue immediately.
* **Closing removes the wrong checkpoint** (`journal_left_open`).  A later checkpoint is left open
  in two ways.  If its header cannot be written, `create_checkpoint()` throws before
  `checkpoint_created` is set (`journal.cpp:488`) and nothing is rolled back.  If
  `save_checkpoint()` throws and then the flush of the directory does, too (`journmmap.cpp:971`),
  `do_close_checkpoint(false)` ends before it resets `_checkpoint` (`journmmap.cpp:983`), against
  its comment "After do_close_checkpoint() _checkpoint is always NULL" (`journmmap.cpp:977`), and the
  exception is swallowed (`journal.cpp:435`).  Either way `do_close_storage()` then unlinks the
  checkpoint by the name of the committed one (`journmmap.cpp:173`), and the journal cannot be
  opened any more.  The shortest trace, which TLC shows, is the first way; with
  `InitCheckpointFails` taken out of `Next` it shows the second.  The run `journal` allows both
  failures, and that the process goes on, takes other checkpoints or dies: only closing does harm,
  and only if the checkpoint is not the first.

Seen while modelling, without a run of their own: `job_batch::try_wait()` "Never blocks"
(`pcomn_threadpool.h:97`), but it takes `_pool_mutex`, which worker 0 holds while it joins workers
whose jobs still run (`pcomn_threadpool.cpp:173`), and `wait_for()` outlasts its timeout in the same
way; a crash that leaves a `.taking` file makes every later checkpoint of that journal fail, for
it is created exclusively and nothing removes it (the data are safe: each attempt starts a new
segment that a restore reaches); a crash before the first checkpoint is committed leaves a file
that can be neither opened nor created again.

## What is proved

TLC checks an instance; the theorems hold for every value of the constants that satisfies the
assumptions of the modules (`...Assumption`), which ask for finite sets of threads that do not
overlap, for numbers where numbers are meant, for a `None` that is not one of the things it is the
lack of, and for nothing else but what is said below.  TLAPS checks every proof to its leaves.  Each inductive invariant was a TLC invariant before it was
proved.

| Module | Theorem | States |
| --- | --- | --- |
| `CountingSemaphoreProofs` | `TypeCorrect`, `WaitingIsExact` | `TypeOK`, `WaitingExact` |
| | `StepsOfSemaphore` | the initial states and the steps are those of `Semaphore` |
| | `NoWakeupIsLost`, `WakeupsAlwaysSuffice` | `NoLostWakeup`, `WakeupsSuffice`, if each request is content with one token |
| `BlockingQueueProofs` | `TypeCorrect`, `NoSlotIsLost`, `ContainerNeverUnderflows`, `ContainerNeverOverflows`, `VerifyNeverFails` | `TypeOK`, `SlotsConserved`, `NoUnderflow`, `NoOverflow`, `VerifyClosed` |
| | `FinalizesDrained` | `FinalizedWhenDrained`, if no handler throws or the capacity is fixed |
| `BlockingQueueRefinement` | `QueueRefinesClosable` | `ImplementsClosable`, under the same condition |
| `RingQueueProofs` | `TypeCorrect`, `WithinALap` | `TypeOK`, `PositionsWithinLap` |
| | `PopsItsOwnItem`, `PushesIntoRawSlot` | `ReadsClaimedItem`, `ConstructsInRawSlot`, if there is one consumer |
| `JobBatchProofs` | `TypeCorrect`, `NoJobTwice`, `CountersAgree`, `OpenMeansSettled`, `SleepersWoken`, `DestructorClean` | `TypeOK`, `EachJobOnce`, `PendingExact`, `FinishedMeansSettled`, `NoSleeperStranded`, `DestroyedClean` |
| `ThreadPoolProofs` | `TypeCorrect`, `RunningIsExact`, `VerifyNeverFails`, `HandleInOnePlace`, `DestructorListsFrozen` | `TypeOK`, `RunningExact`, `VerifyExpected`, `OneHandle`, `ListsFrozen` |
| `JournalProofs` | `TypeCorrect` | `TypeOK` |
| | `RestoreDeliversMemory`, `JournalIsDurable`, `ConsistentCheckpointKept` | `MemoryIsRecoverable`, `Implements`, `OneConsistent`, if no storage is closed with a later checkpoint left open |

Some theorems have a hypothesis beside the assumptions, and each of them is what a run refutes the
property without: `OneTokenRequests` (`mixed_semaphore`), `SteadyCapacity` (`queue_resize_throw`),
`OneConsumer` (`ring_two_consumers`) and `NoCloseLeftOpen` (`journal_left_open`).

### The semaphore

`TypeOK` is not inductive alone: `CheckOut` and
`Grab` subtract one from `waiting`, a natural number, and it stays one only because the thread
that subtracts has been counted.  So the inductive invariant is
`IInv == TypeOK /\ WaitingExact`.  `WaitersJoin` and `WaitersLeave` say how the size of the
set of waiters moves with one thread; one lemma per group of actions shows that it preserves
`IInv`, and `NextIInv` collects them.

`StepsOfSemaphore` is the safety half of the refinement.  It needs `Wanting`: a thread in
`acquire_with_lock` has the request it came with and no token yet, any other has no request.  Then
a check-in, a look at the word, a sleep and a wakeup are stutters; what is left is the CASes on the
tokens, and giving up.

`NoLostWakeup` is not inductive either.  A waiter that takes a token is no
longer there to see to the next one, and several releases may be between their CAS and their
`futex_wake`, so what counts is how many tokens, awake waiters and decided wakeups there are.
`WakeupsSuffice` says: beside a sleeper, either `tokens <= |Awake| + |Wakeups|` or
`|Asleep| <= |Wakeups|`.  The second case is what `release` establishes when it caps its count
by `_waiting_count`, and it uses `WaitingExact`: the counter is no less than the number of
sleepers.  A thread falls asleep only if the word is still the value it saw, not positive, and
then nothing is to be shown.  The inductive invariant is
`WInv == IInv /\ Local /\ IsFiniteSet(Wakeups) /\ WakeupsSuffice`, where `Local` holds what a
thread's `pc` says of its `req`, `snap` and `wakes`.  There is a lemma for each way to disturb
the balance (`GrabStep`, `SleepStep`, `ReleaseWakeups`, `WakeSpends`); `QuietStep` covers the
other actions.  `OneTokenRequests` is needed: without it a wakeup may go to a waiter that cannot
use it.

### The queue

Tokens in hand are counted as a set, `Pairs(S, held)`, one pair for each thread of S and each of
its tokens; `HandCounting` says what it loses and gains when one thread moves.  So each step comes
down to arithmetic on what its thread has in hand (`Hand(t, L)`) before and after.

`SlotsConserved` is a balance of two equations, but it cannot say alone that no count goes below
zero: the container is protected by no check of its own.  The inductive invariant adds

* `HeldOK`, `RolesOK`: what each thread may hold and have been called for at each of its labels;
* `MutexOK`: one thread at a time between the lock and the unlock of `_capmutex`, so at most one
  closes or resizes;
* `PhaseOK`: which labels there are in which state, so that `Extension` and `Phantoms`, the tokens
  of closing, are added once, by one thread: whoever is about to add them is alone;
* `RoomOK`: until closing adds tokens, what is in hand or stored has its place in one of the
  capacities, which is what a resize in two steps leaves true of each of them.

`NoUnderflow` follows a pop from its second look at the state: a queue seen not CLOSED there has
no artificial tokens at its FULL end yet, so those in hand stand for items, and `full` cannot be
negative.  `FinalizesDrained` needs `SteadyOK` as well: the finalizer waits for as many tokens as
there are, because either nobody calls it in an OPEN queue, in which the capacity may change, or
the capacity does not change.

`QueueRefinesClosable` is proved action by action.  The two that take effect, a push's and a pop's
second look, map to `ClosableQueue`'s claims, whose guards (room, items not yet claimed) are
`NoOverflow` and `NoUnderflow` of the state after the step; the finalizer's CAS maps to closing a
drained queue by `FinalizesDrained`; `QuietStep` covers the steps that a caller cannot see.

### The ring

The tokens alone give `TokenInv`, for any number of consumers: what is in the two semaphores, in
hand, and between the positions adds up to the capacity.  `PopsItsOwnItem` needs that the items
stored and not emptied yet, `Live`, have different slots.  They do, because they are among
`Size` consecutive positions (`Quotient` and the lemmas after it: two positions less than a lap
apart have different remainders).  That is where one consumer matters: `LastClaimed` says that
what it has not emptied is among the positions it has claimed last, for which it still holds
tokens, and with two of them an older claim may be left behind.  `SlotsOK` says that each live item
is in its slot and nothing else is in the ring.

### The batch

`PendingExact` and `EachJobOnce` need the counter read as a history (`JobsOK`): the jobs from
`jobs - jobndx` on have not been started, a worker that runs one has its index to itself, and
`stop()` drops what it has exchanged away, each once.  `FinishedMeansSettled` needs to know who may
open the lock, and that what he saw, `pending = 0` read with no lock held, is still true when he
opens: `DoneOK` carries it, and a batch that is `Done` stays so because no job is added after
`run()`.  `GateOK` ties a thread's place in the promise lock (`at`) to its place in the batch
(`pc`) and to the word; `SleepOK` says that a sleeper either left the word at 2 or has somebody about
to wake all; `EmptyOK` and `PhaseOK` settle the empty batch and the destructor, which has the object
to itself.

### The pool

The running count is increased before a thread exists and decreased when it decides to go, in both
cases without the mutex.  `RunningExact` is inductive only together with
`CountOK` (the threads expected are never negative and the running ones never fewer than counted,
unless the word says stopped) and with `PlacesOK`, `PhaseOK`, `StoppedOK` (who is where, in which
phase; after `stop()` the word never changes again).  `StoppedOK` gives `ListsFrozen`: to touch the
lists a thread would have to have changed the word.  `HandlesOK` says where the handle of a worker is at each of its
labels; `OneHandle` counts it.  `IdsOK` bounds the identities in use and those that can still be
asked for: it shows that the bound of the model on them never keeps the pool from a launch
(`MaxWorkers >= MaxSize * (MaxResizes + 1)`).

### The journal

What a restore delivers, `Recovered`, is a concatenation of as many segments as the checkpoint
has after it.  The part of the proof before "Types" is about that alone, for any files: `FlattenSeq`
is a recursive function, and by the least number at which a claim about it would fail
(`Least`) it gets one more sequence at its end (`FlattenStep`); a chain has no gaps
(`ChainDown`, `ChainBelow`); and so what is delivered depends only on the segments up to the last
one with a record (`ReplayedBelow`).  Three consequences cover every change of a segment:

* `SameReplay`: after that one, files may be created, given a header, replaced or removed;
* `SameBeyond`: those before the checkpoint may go;
* `Written`: a record written to the segment in use comes last, and a torn one not at all.

`TypeCorrect` needs only `PhaseOK`, which says which call may be at which step in which state of
the storage.  The rest rests on `IInv`.  `ReachedOK`: no file with records is off the chain, so a
reopened journal cannot come upon an old record by extending the chain.  `RestoredOK` and
`SegmentOK`: nothing is delivered from the place of the next segment on, and the generation that is
written into its header, `_lastgen`, is the one with which it continues the chain (`NewOnChain`).
`FilesOK`: a checkpoint about to be renamed holds the memory and is followed by an empty segment,
so that the two files deliver the same.  `MemoryOK` says that of the memory itself, and that what
was reported is a prefix of it.

There is a lemma per action, or for a few of them that do alike; each shows that the step keeps
`IInv` and is `Extend`, `Acknowledge` or a stutter of `DurableLog`.  `NoCloseLeftOpen` is used at one
place, `CloseStep`: what `~MMapStorage()` removes by the name of the committed checkpoint is then one
that never was committed.  Every other step keeps `IInv`, whether a checkpoint is left open or not.

### Only model-checked

* All liveness properties: fairness and ENABLED are out of this prover's reach.
* The liveness half of `Semaphore`, which the run `semaphore` checks with the other one.

## What is not modelled, and the plan

Not modelled:

* `binary_semaphore`: the word, the check-in and the futex of `counting_semaphore` with a single
  token; no other part of the library uses it.
* `ident_dispenser`, `local_ident_dispenser`: used by no other part; the next module to write, small
  enough to be proved at once.
* `cacher`: sequential, each operation one critical section.
* The rest of the library is sequential code, text and numbers, wrappers over system calls, and
  vendored sources (valgrind's header, regex, the hash functions, the command line).  It has no
  protocol between threads, processes or files, and is by far the larger part of the source: the
  models cover the protocols, not a share of the lines.

The plan from here:

1. `IdentDispenser`, with a proof that no identifier is given twice.
2. Partial writes and the loss of unsynced data in `Journal`, to see what `fsync` has to be called
   for.
