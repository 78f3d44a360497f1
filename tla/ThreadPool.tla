------------------------------ MODULE ThreadPool ------------------------------
(***************************************************************************)
(* pcomn::threadpool (pcommon/pcomn_threadpool.{h,cpp}): worker threads    *)
(* that pop tasks from a queue, and whose number can be changed at any     *)
(* time.                                                                   *)
(*                                                                         *)
(* One atomic word holds the number of threads that run and the difference *)
(* to the number wanted.  A positive difference is taken up by whoever     *)
(* sees it, a negative one by workers that dismiss themselves between two  *)
(* tasks, woken by null tasks if they sleep in the queue.  A dismissed     *)
(* worker cannot join itself: it moves its handle from _threads to         *)
(* _dropped_thread, and joins the one it finds there.                      *)
(*                                                                         *)
(* Every access to the count, the mutex or the queue is a step; a critical *)
(* section with nothing in it that blocks is one step.  The queue is that  *)
(* of BlockingQueue, kept to what the pool sees of it: how many tasks and  *)
(* null tasks it holds, its three states, and the mutex that its closing   *)
(* functions hold (_capmutex).  Tasks are only counted.                    *)
(***************************************************************************)
EXTENDS Integers, FiniteSets, FiniteSetsExt

CONSTANTS Callers,       \* the threads that use the pool
          Creator,       \* the one that constructs it
          MaxSize,       \* the sizes asked for are 0..MaxSize
          MaxWorkers,    \* identities for worker threads, reused after the join:
                         \* enough for all that can ever be started
          QueueCapacity, \* the capacity of the task queue
          MaxCalls,      \* how many calls are made, not counting the destructor
          Calls,         \* the member functions called
          ThreadThrows,  \* whether starting a thread may throw
          NoOwner        \* nobody owns the mutex

Workers == 1..MaxWorkers
MaxResizes == IF "resize" \in Calls THEN MaxCalls ELSE 0
Threads == Callers \cup Workers

ASSUME CallersAssumption == /\ IsFiniteSet(Callers)
                            /\ Creator \in Callers
                            /\ Callers \cap Workers = {}
                            /\ NoOwner \notin Threads
ASSUME SizesAssumption == /\ MaxSize \in Nat /\ MaxWorkers \in Nat /\ MaxCalls \in Nat
                          /\ QueueCapacity \in Nat \ {0}
                          /\ MaxWorkers >= MaxSize * (MaxResizes + 1)
ASSUME CallsAssumption ==
    Calls \subseteq {"resize", "push", "clear", "stop", "complete"}
ASSUME ThrowsAssumption == ThreadThrows \in BOOLEAN

VARIABLES count,      \* _thread_count
          mutex,      \* the owner of _pool_mutex, or NoOwner
          list,       \* _threads: the workers whose handles are there
          dropped,    \* _dropped_thread
          flag,       \* _dropped
          phase,      \* "constructing", "alive", "destroying" (_destroying is
                      \* set), "destroyed" or "aborted" (std::terminate)
          qstate,     \* the state of _task_queue
          items,      \* the tasks in it
          nulls,      \* the null tasks in it
          capmutex,   \* who is inside close_push_wait_empty(), or NoOwner
          pc,         \* pc[t]: where thread t is
          call,       \* call[t]: what t executes, "boot" or "serve" for a worker
          cur,        \* cur[t]: the count that t has loaded
          dismiss,    \* dismiss[c]: the dismiss_count of caller c
          joins,      \* joins[t]: the handles in the local list of t
          calls,      \* the number of calls made
          failed,     \* a thread could not be started
          cleared     \* clear_queue() has thrown null tasks away

vars == <<count, mutex, list, dropped, flag, phase, qstate, items, nulls,
          capmutex, pc, call, cur, dismiss, joins, calls, failed, cleared>>
poolvars == <<mutex, list, dropped, flag, phase>>
queuevars == <<qstate, items, nulls, capmutex, cleared>>

\* thread_count: the running threads and the difference to the expected.
Count(running, pending) == [running |-> running, pending |-> pending]
Delta(c, d) == Count(c.running + d, c.pending - d)
Expected(c) == c.running + c.pending
Stopped == Count(-1, 0)
NoCount == Count(0, 0)

Init == /\ \E size \in 0..MaxSize : count = Count(0, size)
        /\ mutex = NoOwner
        /\ list = {} /\ dropped = {} /\ flag = FALSE
        /\ phase = "constructing"
        /\ qstate = "OPEN" /\ items = 0 /\ nulls = 0 /\ capmutex = NoOwner
        /\ pc = [t \in Threads |-> IF t = Creator THEN "launch"
                                   ELSE IF t \in Callers THEN "idle" ELSE "none"]
        /\ call = [t \in Threads |-> IF t = Creator THEN "construct" ELSE "none"]
        /\ cur = [t \in Threads |-> IF t = Creator THEN count ELSE NoCount]
        /\ dismiss = [c \in Callers |-> 0]
        /\ joins = [t \in Threads |-> {}]
        /\ calls = 0
        /\ failed = FALSE /\ cleared = FALSE

Goto(t, label) == pc' = [pc EXCEPT ![t] = label]
Load(t, c) == cur' = [cur EXCEPT ![t] = c]
Forget(t) == Load(t, NoCount)

\* The call of c is over, with or without an exception.
Finish(c) == /\ Goto(c, "idle")
             /\ call' = [call EXCEPT ![c] = "none"]

-----------------------------------------------------------------------------
(* check_launch_new_thread(cur[t]) *)

\* It returns to the constructor, resize() or a worker.  `more` makes a new
\* worker look at the count again; everybody else ignores it.
LaunchReturn(t, more) ==
    /\ Forget(t)
    /\ CASE call[t] = "boot" -> /\ Goto(t, IF more THEN "boot" ELSE "serve")
                                /\ UNCHANGED <<call, phase>>
         [] call[t] = "serve" -> Goto(t, "collect") /\ UNCHANGED <<call, phase>>
         [] call[t] = "construct" -> Finish(t) /\ phase' = "alive"
         [] OTHER -> Finish(t) /\ UNCHANGED phase

LaunchNothing(t) ==
    /\ pc[t] = "launch"
    /\ cur[t].pending <= 0
    /\ LaunchReturn(t, FALSE)
    /\ UNCHANGED <<count, mutex, list, dropped, flag, queuevars, dismiss, joins,
                   calls, failed>>

\* The thread is counted before it exists.
LaunchCas(t) ==
    /\ pc[t] = "launch"
    /\ cur[t].pending > 0
    /\ IF count = cur[t]
       THEN /\ count' = Delta(count, 1)
            /\ Goto(t, "create")
            /\ UNCHANGED <<call, cur, phase>>
       ELSE LaunchReturn(t, count.pending > 0) /\ UNCHANGED count
    /\ UNCHANGED <<mutex, list, dropped, flag, queuevars, dismiss, joins, calls,
                   failed>>

FreeIds == {w \in Workers : pc[w] = "none"}

\* The pool was stopped after the thread was counted: it is not started.
CreateStopped(t) ==
    /\ pc[t] = "create" /\ mutex = NoOwner
    /\ count.running < 0
    /\ LaunchReturn(t, FALSE)
    /\ UNCHANGED <<count, mutex, list, dropped, flag, queuevars, dismiss, joins,
                   calls, failed>>

\* Under the mutex a new worker is put into the list and started.
StartWorker(t) ==
    /\ LET w == Min(FreeIds)
           next == CASE call[t] = "boot" -> "boot"
                     [] call[t] = "serve" -> "collect"
                     [] OTHER -> "idle"
       IN /\ list' = list \cup {w}
          /\ pc' = [pc EXCEPT ![w] = "boot", ![t] = next]
          /\ call' = [call EXCEPT ![w] = "boot",
                                  ![t] = IF t \in Callers THEN "none" ELSE @]
    /\ phase' = IF call[t] = "construct" THEN "alive" ELSE phase
    /\ Forget(t)
    /\ UNCHANGED <<count, mutex, dropped, flag, queuevars, dismiss, joins, calls,
                   failed>>

\* A slip: the pool may have been stopped meanwhile.
CreateAnyway(t) == pc[t] = "create" /\ mutex = NoOwner /\ StartWorker(t)

Create(t) == /\ pc[t] = "create" /\ mutex = NoOwner
             /\ count.running >= 0
             /\ StartWorker(t)

\* The thread cannot be started: the count is rolled back and the exception
\* goes on.  A worker between two tasks suppresses it; out of the first loop
\* of a worker it leaves the thread's function, which ends the process.
CreateThrows(t) ==
    /\ ThreadThrows
    /\ pc[t] = "create" /\ mutex = NoOwner
    /\ count.running >= 0
    /\ count' = Delta(count, -1)
    /\ failed' = TRUE
    /\ Forget(t)
    /\ CASE call[t] = "boot" -> phase' = "aborted" /\ UNCHANGED <<pc, call>>
         [] call[t] = "serve" -> Goto(t, "collect") /\ UNCHANGED <<call, phase>>
         [] call[t] = "construct" -> Finish(t) /\ phase' = "destroyed"
         [] OTHER -> Finish(t) /\ UNCHANGED phase
    /\ UNCHANGED <<mutex, list, dropped, flag, queuevars, dismiss, joins, calls>>

-----------------------------------------------------------------------------
(* The workers *)

\* A new worker first helps to start the others.
Boot(w) == /\ pc[w] = "boot"
           /\ Load(w, count)
           /\ Goto(w, "launch")
           /\ UNCHANGED <<count, poolvars, queuevars, call, dismiss, joins, calls,
                          failed>>

\* A slip: a worker leaves the pool without being taken off the count.
ServeUncounted(w) ==
    /\ pc[w] = "serve"
    /\ call' = [call EXCEPT ![w] = "serve"]
    /\ IF count.pending < 0
       THEN count' = Count(count.running, count.pending + 1) /\ Goto(w, "drop")
            /\ UNCHANGED cur
       ELSE Load(w, count) /\ Goto(w, "launch") /\ UNCHANGED count
    /\ UNCHANGED <<poolvars, queuevars, dismiss, joins, calls, failed>>

\* Between two tasks: dismiss itself if there are too many, else help to start
\* more (the loop of check_and_apply is one step, its successful CAS).
Serve(w) ==
    /\ pc[w] = "serve"
    /\ call' = [call EXCEPT ![w] = "serve"]
    /\ IF count.pending < 0
       THEN count' = Delta(count, -1) /\ Goto(w, "drop") /\ UNCHANGED cur
       ELSE Load(w, count) /\ Goto(w, "launch") /\ UNCHANGED count
    /\ UNCHANGED <<poolvars, queuevars, dismiss, joins, calls, failed>>

\* A slip: the thread dismissed before is forgotten.
DropOver(w) ==
    /\ pc[w] = "drop" /\ mutex = NoOwner
    /\ IF phase = "destroying"
       THEN Goto(w, "exit") /\ UNCHANGED <<list, dropped, flag>>
       ELSE /\ list' = list \ {w}
            /\ dropped' = {w}
            /\ flag' = TRUE
            /\ Goto(w, "exit")
    /\ UNCHANGED <<count, mutex, phase, queuevars, call, cur, dismiss, joins,
                   calls, failed>>

\* The dismissed worker takes the place of the one dismissed before it.
Drop(w) ==
    /\ pc[w] = "drop" /\ mutex = NoOwner
    /\ IF phase = "destroying"
       THEN Goto(w, "exit") /\ UNCHANGED <<list, dropped, flag, joins>>
       ELSE /\ list' = list \ {w}
            /\ joins' = [joins EXCEPT ![w] = dropped]
            /\ dropped' = {w}
            /\ flag' = TRUE
            /\ Goto(w, "join")
    /\ UNCHANGED <<count, mutex, phase, queuevars, call, cur, dismiss, calls,
                   failed>>

\* A worker that goes on takes the dismissed one, unless the mutex is busy.
Collect(w) ==
    /\ pc[w] = "collect"
    /\ IF flag /\ mutex = NoOwner /\ phase # "destroying" /\ dropped # {}
       THEN /\ joins' = [joins EXCEPT ![w] = dropped]
            /\ dropped' = {}
            /\ flag' = FALSE
            /\ Goto(w, "join")
       ELSE Goto(w, "pop") /\ UNCHANGED <<joins, dropped, flag>>
    /\ UNCHANGED <<count, mutex, list, phase, queuevars, call, cur, dismiss, calls,
                   failed>>

Ended(ws) == \A w \in ws : pc[w] = "exit"
\* The handles ws are joined: t goes to label.
JoinAll(t, ws, label) ==
    pc' = [u \in Threads |-> IF u \in ws THEN "none" ELSE IF u = t THEN label ELSE pc[u]]

\* The local list is destroyed outside the mutex.
Join(w) == /\ pc[w] = "join"
           /\ Ended(joins[w])
           /\ JoinAll(w, joins[w], IF w \in list THEN "pop" ELSE "exit")
           /\ joins' = [joins EXCEPT ![w] = {}]
           /\ UNCHANGED <<count, poolvars, queuevars, call, cur, dismiss, calls,
                          failed>>

\* The queue, left with i tasks and n null tasks, is closed if it was to be.
Left(i, n) == /\ items' = i
              /\ nulls' = n
              /\ qstate' = IF qstate = "FINALIZING" /\ i + n = 0 THEN "CLOSED"
                           ELSE qstate

\* pop_opt(): a task, a null task, or nothing because the queue is closed.
Pop(w) ==
    /\ pc[w] = "pop"
    /\ \/ qstate = "CLOSED" /\ Goto(w, "exit") /\ UNCHANGED <<items, nulls, qstate>>
       \/ qstate # "CLOSED" /\ items > 0 /\ Left(items - 1, nulls) /\ Goto(w, "exec")
       \/ qstate # "CLOSED" /\ nulls > 0 /\ Left(items, nulls - 1) /\ Goto(w, "serve")
    /\ UNCHANGED <<count, poolvars, capmutex, cleared, call, cur, dismiss, joins,
                   calls, failed>>

\* The task ends.
Exec(w) == /\ pc[w] = "exec"
           /\ Goto(w, "serve")
           /\ UNCHANGED <<count, poolvars, queuevars, call, cur, dismiss, joins,
                          calls, failed>>

-----------------------------------------------------------------------------
(* resize() *)

\* A slip: the difference is taken to the number expected, not to that running.
ResizeExpected(c, size) ==
    /\ pc[c] = "resize" /\ mutex = NoOwner
    /\ LET new == Count(count.running, size - Expected(count))
       IN IF Expected(count) < 0 \/ Expected(count) = size
          THEN Finish(c) /\ UNCHANGED <<count, cur>>
          ELSE /\ count' = new
               /\ IF new.pending >= 0
                  THEN Load(c, new) /\ Goto(c, "launch")
                  ELSE Goto(c, "force") /\ UNCHANGED cur
               /\ UNCHANGED call
    /\ UNCHANGED <<poolvars, queuevars, dismiss, joins, calls, failed>>

\* A slip: new threads are left to the workers there are.
ResizeOnly(c, size) ==
    /\ pc[c] = "resize" /\ mutex = NoOwner
    /\ LET new == Count(count.running, size - count.running)
       IN IF Expected(count) < 0 \/ Expected(count) = size
          THEN Finish(c) /\ UNCHANGED <<count, cur>>
          ELSE /\ count' = new
               /\ IF new.pending >= 0
                  THEN Finish(c)
                  ELSE Goto(c, "force") /\ UNCHANGED call
               /\ UNCHANGED cur
    /\ UNCHANGED <<poolvars, queuevars, dismiss, joins, calls, failed>>

\* The difference is set under the mutex.
Resize(c, size) ==
    /\ pc[c] = "resize" /\ mutex = NoOwner
    /\ LET new == Count(count.running, size - count.running)
       IN IF Expected(count) < 0 \/ Expected(count) = size
          THEN Finish(c) /\ UNCHANGED <<count, cur>>
          ELSE /\ count' = new
               /\ IF new.pending >= 0
                  THEN Load(c, new) /\ Goto(c, "launch")
                  ELSE Goto(c, "force") /\ UNCHANGED cur
               /\ UNCHANGED call
    /\ UNCHANGED <<poolvars, queuevars, dismiss, joins, calls, failed>>

\* A slip: nobody is woken.
ForceNothing(c) == /\ pc[c] = "force"
                   /\ Finish(c)
                   /\ UNCHANGED <<count, poolvars, queuevars, cur, dismiss, joins,
                                  calls, failed>>

\* try_force_dismiss_spare_threads(): how many null tasks at most?
ForceDismiss(c) ==
    /\ pc[c] = "force"
    /\ dismiss' = [dismiss EXCEPT ![c] = Max({-count.pending, 0})]
    /\ Goto(c, "force_lock")
    /\ UNCHANGED <<count, poolvars, queuevars, call, cur, joins, calls, failed>>

QueueSize == IF qstate = "CLOSED" THEN 0 ELSE items + nulls

\* No more than there are threads to dismiss and nothing in the queue for them.
ForceLock(c) ==
    /\ pc[c] = "force_lock"
    /\ IF dismiss[c] = 0
       THEN Finish(c) /\ UNCHANGED <<mutex, dismiss>>
       ELSE /\ mutex = NoOwner
            /\ IF -count.pending <= QueueSize
               THEN /\ Finish(c)
                    /\ dismiss' = [dismiss EXCEPT ![c] = 0]
                    /\ UNCHANGED mutex
               ELSE mutex' = c /\ Goto(c, "force_push") /\ UNCHANGED <<call, dismiss>>
    /\ UNCHANGED <<count, list, dropped, flag, phase, queuevars, cur, joins, calls,
                   failed>>

\* try_push_for(): in vain if the queue stays full, and it throws if closed.
ForcePush(c) ==
    /\ pc[c] = "force_push"
    /\ mutex' = NoOwner
    /\ IF qstate = "OPEN"
       THEN /\ Goto(c, "force_lock")
            /\ dismiss' = [dismiss EXCEPT ![c] = @ - 1]
            /\ nulls' = IF items + nulls < QueueCapacity THEN nulls + 1 ELSE nulls
            /\ UNCHANGED call
       ELSE /\ Finish(c)
            /\ dismiss' = [dismiss EXCEPT ![c] = 0]
            /\ UNCHANGED nulls
    /\ UNCHANGED <<count, list, dropped, flag, phase, qstate, items, capmutex,
                   cleared, cur, joins, calls, failed>>

-----------------------------------------------------------------------------
(* The queue's functions, stop() and the destructor *)

\* A slip: a push does not wait for a slot.
PushOver(c) == /\ pc[c] = "push"
               /\ items' = IF qstate = "OPEN" THEN items + 1 ELSE items
               /\ Finish(c)
               /\ UNCHANGED <<count, poolvars, qstate, nulls, capmutex, cleared, cur,
                              dismiss, joins, calls, failed>>

\* enqueue_job() and its like wait for a slot, and throw if the queue is closed.
Push(c) == /\ pc[c] = "push"
           /\ \/ qstate = "OPEN" /\ items + nulls < QueueCapacity /\ items' = items + 1
              \/ qstate # "OPEN" /\ UNCHANGED items
           /\ Finish(c)
           /\ UNCHANGED <<count, poolvars, qstate, nulls, capmutex, cleared, cur,
                          dismiss, joins, calls, failed>>

\* clear_queue(), null tasks included.
Clear(c) == /\ pc[c] = "clear"
            /\ IF qstate = "CLOSED"
               THEN UNCHANGED <<items, nulls, qstate, cleared>>
               ELSE Left(0, 0) /\ cleared' = (cleared \/ nulls > 0)
            /\ Finish(c)
            /\ UNCHANGED <<count, poolvars, capmutex, cur, dismiss, joins, calls,
                           failed>>

StopLock(c) ==
    /\ pc[c] = "stop" /\ mutex = NoOwner
    /\ mutex' = c
    /\ Goto(c, IF call[c] = "complete" THEN "close_push" ELSE "close")
    /\ UNCHANGED <<count, list, dropped, flag, phase, queuevars, call, cur, dismiss,
                   joins, calls, failed>>

\* A slip: the push end is closed only, and who sleeps at the other is not woken.
ClosePushOnly(c) ==
    /\ pc[c] = "close" /\ capmutex = NoOwner
    /\ qstate' = IF qstate = "CLOSED" THEN "CLOSED" ELSE "FINALIZING"
    /\ Goto(c, "stop_store")
    /\ UNCHANGED <<count, poolvars, items, nulls, capmutex, cleared, call, cur,
                   dismiss, joins, calls, failed>>

\* close(): both ends, under _capmutex.
Close(c) == /\ pc[c] = "close" /\ capmutex = NoOwner
            /\ qstate' = "CLOSED"
            /\ Goto(c, "stop_store")
            /\ UNCHANGED <<count, poolvars, items, nulls, capmutex, cleared, call,
                           cur, dismiss, joins, calls, failed>>

\* _thread_count = stopped(), and the mutex is released.  The destructor goes on
\* to set _destroying.
StopStore(c) ==
    /\ pc[c] = "stop_store"
    /\ count' = Stopped
    /\ mutex' = NoOwner
    /\ IF call[c] = "destroy" THEN Goto(c, "destroy") /\ UNCHANGED call ELSE Finish(c)
    /\ UNCHANGED <<list, dropped, flag, phase, queuevars, cur, dismiss, joins,
                   calls, failed>>

\* close_push() is done with an empty queue; otherwise, if any threads are
\* wanted, the mutex is released for the wait.
ClosePush(c) ==
    /\ pc[c] = "close_push"
    /\ qstate = "CLOSED" \/ capmutex = NoOwner
    /\ IF qstate = "CLOSED" \/ items + nulls = 0
       THEN /\ qstate' = "CLOSED"
            /\ Goto(c, "stop_store")
            /\ UNCHANGED <<mutex, call>>
       ELSE /\ qstate' = "FINALIZING"
            /\ mutex' = NoOwner
            /\ IF Expected(count) = 0
               THEN Finish(c)
               ELSE Goto(c, "drain_lock") /\ UNCHANGED call
    /\ UNCHANGED <<count, list, dropped, flag, phase, items, nulls, capmutex,
                   cleared, cur, dismiss, joins, calls, failed>>

\* close_push_wait_empty() sleeps with _capmutex until the queue is drained.
DrainLock(c) ==
    /\ pc[c] = "drain_lock"
    /\ \/ qstate = "CLOSED" /\ Finish(c) /\ UNCHANGED capmutex
       \/ /\ qstate # "CLOSED" /\ capmutex = NoOwner
          /\ capmutex' = c
          /\ Goto(c, "drain")
          /\ UNCHANGED call
    /\ UNCHANGED <<count, poolvars, qstate, items, nulls, cleared, cur, dismiss,
                   joins, calls, failed>>

Drained(c) == /\ pc[c] = "drain" /\ qstate = "CLOSED"
              /\ capmutex' = NoOwner
              /\ Finish(c)
              /\ UNCHANGED <<count, poolvars, qstate, items, nulls, cleared, cur,
                             dismiss, joins, calls, failed>>

\* _destroying is set under the mutex.
Destroy(c) == /\ pc[c] = "destroy" /\ mutex = NoOwner
              /\ phase' = "destroying"
              /\ Goto(c, "join_dropped")
              /\ UNCHANGED <<count, mutex, list, dropped, flag, queuevars, call, cur,
                             dismiss, joins, calls, failed>>

\* _dropped_thread.clear(), then _threads.clear(): each handle is joined.
JoinDropped(c) ==
    /\ pc[c] = "join_dropped"
    /\ Ended(dropped)
    /\ JoinAll(c, dropped, "join_list")
    /\ dropped' = {}
    /\ UNCHANGED <<count, mutex, list, flag, phase, queuevars, call, cur, dismiss,
                   joins, calls, failed>>

JoinList(c) == /\ pc[c] = "join_list"
               /\ Ended(list)
               /\ JoinAll(c, list, "idle")
               /\ call' = [call EXCEPT ![c] = "none"]
               /\ list' = {}
               /\ phase' = "destroyed"
               /\ UNCHANGED <<count, mutex, dropped, flag, queuevars, cur, dismiss,
                              joins, calls, failed>>

-----------------------------------------------------------------------------
(* The specification *)

StartCall(c, f) ==
    /\ phase = "alive"
    /\ pc[c] = "idle" /\ calls < MaxCalls
    /\ \A d \in Callers : call[d] # "destroy"
    /\ calls' = calls + 1
    /\ call' = [call EXCEPT ![c] = f]
    /\ Goto(c, IF f = "complete" THEN "stop" ELSE f)
    /\ UNCHANGED <<count, poolvars, queuevars, cur, dismiss, joins, failed>>

\* ~threadpool(), when nobody else is inside.
StartDestroy(c) ==
    /\ phase = "alive"
    /\ \A d \in Callers : pc[d] = "idle"
    /\ call' = [call EXCEPT ![c] = "destroy"]
    /\ Goto(c, "stop")
    /\ UNCHANGED <<count, poolvars, queuevars, cur, dismiss, joins, calls, failed>>

LaunchStep(t) == LaunchNothing(t) \/ LaunchCas(t) \/ CreateStopped(t) \/ Create(t)
WorkerStep(w) == \/ Boot(w) \/ Serve(w) \/ Drop(w) \/ Collect(w) \/ Join(w)
                 \/ Pop(w) \/ Exec(w)
CallerStep(c) == \/ \E size \in 0..MaxSize : Resize(c, size)
                 \/ ForceDismiss(c) \/ ForceLock(c) \/ ForcePush(c)
                 \/ Push(c) \/ Clear(c)
                 \/ StopLock(c) \/ Close(c) \/ StopStore(c)
                 \/ ClosePush(c) \/ DrainLock(c) \/ Drained(c)
                 \/ Destroy(c) \/ JoinDropped(c) \/ JoinList(c)

\* What a thread does next by itself.  Nothing happens after an abort.
Continue(t) == /\ phase # "aborted"
               /\ \/ LaunchStep(t)
                  \/ t \in Workers /\ WorkerStep(t)
                  \/ t \in Callers /\ CallerStep(t)

Next == \/ \E c \in Callers, f \in Calls : StartCall(c, f)
        \/ \E c \in Callers : StartDestroy(c)
        \/ \E t \in Threads : Continue(t) \/ (phase # "aborted" /\ CreateThrows(t))

Spec == Init /\ [][Next]_vars

\* Every thread that can run is scheduled in the end, and every task ends.
FairSpec == Spec /\ \A t \in Threads : WF_vars(Continue(t))

-----------------------------------------------------------------------------
(* Properties *)

\* The workers that have not been dismissed.
Members == {w \in Workers : pc[w] \notin {"none", "exit", "drop"}
                             /\ (pc[w] = "join" => w \in list)}
Creating == {t \in Threads : pc[t] = "create"}

Typed ==
    /\ count \in [running : Int, pending : Int]
    /\ mutex \in Callers \cup {NoOwner} /\ capmutex \in Callers \cup {NoOwner}
    /\ list \subseteq Workers /\ dropped \subseteq Workers /\ flag \in BOOLEAN
    /\ phase \in {"constructing", "alive", "destroying", "destroyed", "aborted"}
    /\ qstate \in {"OPEN", "FINALIZING", "CLOSED"}
    /\ items \in Nat /\ nulls \in Nat /\ items + nulls <= QueueCapacity
    /\ pc \in [Threads -> {"idle", "launch", "create", "boot", "serve", "drop",
                "collect", "join", "pop", "exec", "exit", "none", "resize", "force",
                "force_lock", "force_push", "push", "clear", "stop", "close",
                "stop_store", "close_push", "drain_lock", "drain", "destroy",
                "join_dropped", "join_list"}]
    /\ call \in [Threads -> Calls \cup {"none", "construct", "destroy", "boot",
                                         "serve"}]
    /\ cur \in [Threads -> [running : Int, pending : Int]]
    /\ dismiss \in [Callers -> Nat]
    /\ joins \in [Threads -> SUBSET Workers]
    /\ calls \in 0..MaxCalls
    /\ failed \in BOOLEAN /\ cleared \in BOOLEAN

\* The variables have their types, and there is an identity for each thread that
\* is about to be created.
TypeOK == Typed /\ (Creating # {} => FreeIds # {})

\* The running count is that of the threads there are and of those about to be
\* created, whatever launches, failures, dismissals and resizes do to it
\* without the mutex.
RunningExact ==
    qstate # "CLOSED" /\ phase \in {"constructing", "alive"} /\ count.running >= 0 =>
        count.running = Cardinality(Members) + Cardinality(Creating)

\* The PCOMN_VERIFY of check_dismiss_itself(): no worker dismisses itself below
\* the number of threads wanted, not even against a stop().
VerifyExpected == count.pending < 0 => Expected(count) >= 0

\* Each thread that was started and not joined has its handle in one place: it
\* will be joined, and only once.
OneHandle ==
    \A w \in Workers :
        LET holders == {t \in Threads : w \in joins[t]}
        IN phase # "aborted" =>
           Cardinality(holders) + Cardinality({s \in {1} : w \in list})
           + Cardinality({s \in {1} : w \in dropped})
           = IF pc[w] = "none" THEN 0 ELSE 1

\* The destructor walks _threads and _dropped_thread without the mutex: once
\* _destroying is set, no thread that is dismissed or started changes them.
ListsFrozen ==
    [][phase = "destroying" => list' \in {list, {}} /\ dropped' \in {dropped, {}}]_vars

\* Too many threads: they go, idle ones included, unless the pool is closed or
\* somebody throws their null tasks away.
ShrinkCompletes ==
    (count.pending < 0) ~> \/ count.pending >= 0
                           \/ qstate # "OPEN" \/ cleared \/ phase = "aborted"

\* Too few threads: they are started, unless one could not be.
GrowCompletes == (count.pending > 0) ~> (count.pending <= 0 \/ failed)

\* The destructor returns, whatever has been launched, dismissed or stopped.
DestructorEnds ==
    (\E c \in Callers : call[c] = "destroy") ~> (phase \in {"destroyed", "aborted"})

\* stop(): "otherwise the queue is cleared immediately and only already running
\* tasks are completed" (pcomn_threadpool.h:402): it returns.
StopReturns == \A c \in Callers : (call[c] = "stop") ~> (call[c] # "stop")
==============================================================================
