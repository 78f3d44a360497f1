----------------------- MODULE CountingSemaphoreProofs -----------------------
(***************************************************************************)
(* Proofs about CountingSemaphore for any finite set of threads, any       *)
(* MaxCount and any requests: the waiters are counted exactly; every step  *)
(* is one of Semaphore or a stutter; and, when every request is content    *)
(* with one token, no wakeup is lost.                                      *)
(***************************************************************************)
EXTENDS CountingSemaphore, FiniteSetTheorems, TLAPS

USE CountAssumption, RequestsAssumption, AmountsAssumption DEF Modes

-----------------------------------------------------------------------------
(* The waiters are counted *)

\* The type invariant is not inductive alone: waiting stays a natural number
\* because every thread that checks out has been counted.
IInv == TypeOK /\ WaitingExact

\* Waiters is a finite set, and its size moves by one with one thread.
LEMMA WaitersFinite == IsFiniteSet(Waiters) /\ Cardinality(Waiters) \in Nat
  BY ThreadsAssumption, FS_Subset, FS_CardinalityType DEF Waiters

\* Checking in counts one waiter more.
LEMMA WaitersJoin ==
  ASSUME NEW t \in Threads, t \notin Waiters, Waiters' = Waiters \cup {t}
  PROVE  Cardinality(Waiters)' = Cardinality(Waiters) + 1
  BY WaitersFinite, FS_AddElement

\* Checking out counts one waiter less, and there was one to count.
LEMMA WaitersLeave ==
  ASSUME NEW t \in Waiters, Waiters' = Waiters \ {t}
  PROVE  /\ Cardinality(Waiters)' = Cardinality(Waiters) - 1
         /\ Cardinality(Waiters) >= 1
  <1>1. Cardinality(Waiters)' = Cardinality(Waiters) - 1
    BY WaitersFinite, FS_RemoveElement
  <1>2. Cardinality(Waiters) # 0
    BY WaitersFinite, FS_EmptySet
  <1> QED BY <1>1, <1>2, WaitersFinite

\* A step that moves no thread in or out of Waiters and keeps waiting keeps
\* WaitingExact.
LEMMA WaitersSame ==
  ASSUME WaitingExact, waiting' = waiting, Waiters' = Waiters
  PROVE  WaitingExact'
  BY DEF WaitingExact

\* The counter is exact in the initial state, where nobody waits.
LEMMA InitIInv == Init => IInv
  <1> SUFFICES ASSUME Init PROVE IInv
    OBVIOUS
  <1>1. TypeOK
    BY DEF Init, TypeOK
  <1>2. Waiters = {}
    BY DEF Init, Waiters
  <1>3. WaitingExact
    BY <1>2, FS_EmptySet DEF Init, WaitingExact
  <1> QED BY <1>1, <1>3 DEF IInv

\* The two outcomes of try_acquire_in_userspace: nobody enters or leaves
\* Waiters.
LEMMA TryAcquireStep ==
  ASSUME IInv, NEW t \in Threads, NEW r \in Requests,
         TryAcquireOk(t, r) \/ TryAcquireFail(t, r)
  PROVE  IInv'
  <1> USE DEF IInv, TypeOK, Return
  <1>1. CASE TryAcquireOk(t, r)
    <2>1. TypeOK' BY <1>1 DEF TryAcquireOk, Smaller
    <2>2. Waiters' = Waiters BY <1>1 DEF TryAcquireOk, Waiters
    <2> QED BY <1>1, <2>1, <2>2, WaitersSame DEF TryAcquireOk
  <1>2. CASE TryAcquireFail(t, r)
    <2>1. TypeOK' BY <1>2 DEF TryAcquireFail
    <2>2. Waiters' = Waiters BY <1>2 DEF TryAcquireFail, Waiters
    <2> QED BY <1>2, <2>1, <2>2, WaitersSame DEF TryAcquireFail
  <1> QED BY <1>1, <1>2

\* The check-in enters Waiters and increments the counter in the same step.
LEMMA CheckInStep ==
  ASSUME IInv, NEW t \in Threads, CheckIn(t)
  PROVE  IInv'
  <1> USE DEF IInv, TypeOK
  <1>1. TypeOK' BY DEF CheckIn
  <1>2. t \notin Waiters /\ Waiters' = Waiters \cup {t}
    BY DEF CheckIn, Waiters
  <1>3. WaitingExact'
    BY <1>2, WaitersJoin DEF CheckIn, WaitingExact
  <1> QED BY <1>1, <1>3

\* The two exits of acquire_with_lock: each leaves Waiters and decrements
\* the counter in the same step.
LEMMA LeaveStep ==
  ASSUME IInv, NEW t \in Threads, Grab(t) \/ CheckOut(t)
  PROVE  IInv'
  <1> USE DEF IInv, TypeOK, Return
  <1>1. t \in Waiters /\ Waiters' = Waiters \ {t} /\ waiting' = waiting - 1
    BY DEF Grab, CheckOut, Waiters
  <1>2. WaitingExact' /\ waiting' \in Nat
    <2> HIDE DEF IInv, TypeOK, Return
    <2>1. /\ Cardinality(Waiters)' = Cardinality(Waiters) - 1
          /\ Cardinality(Waiters) >= 1
      BY <1>1, WaitersLeave
    <2>2. waiting = Cardinality(Waiters)
      BY DEF IInv, WaitingExact
    <2>3. WaitingExact'
      BY <1>1, <2>1, <2>2 DEF WaitingExact
    <2> QED BY <1>1, <2>1, <2>2, <2>3, WaitersFinite
  <1>3. CASE Grab(t)
    <2>1. req[t].max \in Nat /\ req[t].min \in Nat /\ tokens >= 0
      BY <1>3 DEF Grab, NoRequest
    <2>2. Smaller(tokens, req[t].max) \in 0..tokens
      BY <2>1 DEF Smaller
    <2>3. tokens' \in 0..tokens /\ got' \in [Threads -> Nat]
      BY <1>3, <2>2 DEF Grab
    <2>4. pc' \in [Threads -> {"idle", "checkin", "check", "presleep", "asleep",
                               "checkout", "wake"}]
          /\ req' \in [Threads -> Requests \cup {NoRequest}]
          /\ UNCHANGED <<snap, wakes>>
      BY <1>3 DEF Grab
    <2>5. -MaxCount <= tokens' /\ tokens' <= MaxCount /\ tokens' \in Int
      BY <2>3
    <2> QED BY <1>2, <2>3, <2>4, <2>5
  <1>4. CASE CheckOut(t)
    BY <1>2, <1>4 DEF CheckOut
  <1> QED BY <1>3, <1>4

\* The steps of a thread that stays inside acquire_with_lock.
LEMMA WaitStep ==
  ASSUME IInv, NEW t \in Threads,
         Prepare(t) \/ FutexWait(t) \/ Interrupt(t) \/ Timeout(t)
  PROVE  IInv'
  <1> USE DEF IInv, TypeOK
  <1>1. Waiters' = Waiters
    BY DEF Prepare, FutexWait, Interrupt, Timeout, Waiters
  <1>2. TypeOK'
    BY DEF Prepare, FutexWait, Interrupt, Timeout
  <1> QED
    BY <1>1, <1>2, WaitersSame DEF Prepare, FutexWait, Interrupt, Timeout

\* release() up to its CAS, and borrow(): their callers are outside Waiters.
LEMMA ReleaseStep ==
  ASSUME IInv, NEW t \in Threads, NEW n \in Amounts,
         Release(t, n) \/ Borrow(t, n)
  PROVE  IInv'
  <1> USE DEF IInv, TypeOK
  <1>1. CASE Release(t, n)
    <2>1. TypeOK' BY <1>1 DEF Release, Smaller
    <2>2. Waiters' = Waiters BY <1>1 DEF Release, Waiters
    <2> QED BY <1>1, <2>1, <2>2, WaitersSame DEF Release
  <1>2. CASE Borrow(t, n)
    <2>1. TypeOK' BY <1>2 DEF Borrow
    <2>2. Waiters' = Waiters BY <1>2 DEF Borrow, Waiters
    <2> QED BY <1>2, <2>1, <2>2, WaitersSame DEF Borrow
  <1> QED BY <1>1, <1>2

\* Those that futex_wake wakes stay inside Waiters.
LEMMA WakeStep ==
  ASSUME IInv, NEW t \in Threads, FutexWake(t)
  PROVE  IInv'
  <1> USE DEF IInv, TypeOK
  <1>1. PICK woken \in SUBSET Asleep :
           pc' = [u \in Threads |-> IF u = t THEN "idle"
                                    ELSE IF u \in woken THEN "check"
                                    ELSE pc[u]]
    BY DEF FutexWake
  <1>2. TypeOK' BY <1>1 DEF FutexWake
  <1>3. pc[t] = "wake" BY DEF FutexWake
  <1>4. Waiters' = Waiters BY <1>1, <1>3 DEF Waiters, Asleep
  <1> QED BY <1>2, <1>4, WaitersSame DEF FutexWake

\* Every step of the semaphore keeps the invariant.
LEMMA NextIInv == IInv /\ [Next]_vars => IInv'
  <1> SUFFICES ASSUME IInv, [Next]_vars PROVE IInv'
    OBVIOUS
  <1>1. CASE UNCHANGED vars
    BY <1>1 DEF vars, IInv, TypeOK, WaitingExact, Waiters
  <1>2. CASE Next
    <2>1. PICK t \in Threads :
            \/ \E r \in Requests : TryAcquireOk(t, r) \/ TryAcquireFail(t, r)
            \/ \E n \in Amounts : Release(t, n) \/ Borrow(t, n)
            \/ Continue(t)
            \/ Interrupt(t)
            \/ Timeout(t)
      BY <1>2 DEF Next
    <2>2. CASE \E r \in Requests : TryAcquireOk(t, r) \/ TryAcquireFail(t, r)
      BY <2>2, TryAcquireStep
    <2>3. CASE \E n \in Amounts : Release(t, n) \/ Borrow(t, n)
      BY <2>3, ReleaseStep
    <2>4. CASE Continue(t)
      BY <2>4, CheckInStep, LeaveStep, WaitStep, WakeStep DEF Continue
    <2>5. CASE Interrupt(t) \/ Timeout(t)
      BY <2>5, WaitStep
    <2> QED BY <2>1, <2>2, <2>3, <2>4, <2>5
  <1> QED BY <1>1, <1>2

\* The type invariant of every execution: among others, the token count never
\* leaves [-MaxCount, MaxCount], whatever is borrowed and released.
THEOREM TypeCorrect == Spec => []TypeOK
  <1>1. IInv => TypeOK
    BY DEF IInv
  <1> QED BY InitIInv, NextIInv, <1>1, PTL DEF Spec

\* _waiting_count counts the threads inside acquire_with_lock in every state
\* of every execution: release() never skips a futex_wake that is needed.
THEOREM WaitingIsExact == Spec => []WaitingExact
  <1>1. IInv => WaitingExact
    BY DEF IInv
  <1> QED BY InitIInv, NextIInv, <1>1, PTL DEF Spec

-----------------------------------------------------------------------------
(* Every step is one of Semaphore *)

\* Who waits has the request it came with and nothing yet; who does not wait has
\* no request.
Wanting ==
    \A t \in Threads :
        IF pc[t] \in {"idle", "wake"}
        THEN req[t] = NoRequest
        ELSE /\ req[t] \in Requests /\ req[t].mode # "try" /\ got[t] = 0
             /\ pc[t] = "checkout" => req[t].mode = "timed"

AbstractStep == [Abstract!Next]_(Abstract!vars)

LEMMA WantingStep ==
  ASSUME TypeOK, Wanting, [Next]_vars
  PROVE  Wanting'
  <1> USE DEF TypeOK, Wanting, Return
  <1>1. CASE UNCHANGED vars
    BY <1>1 DEF vars
  <1>2. ASSUME NEW t \in Threads, NEW r \in Requests,
               TryAcquireOk(t, r) \/ TryAcquireFail(t, r)
        PROVE  Wanting'
    BY <1>2 DEF TryAcquireOk, TryAcquireFail
  <1>3. ASSUME NEW t \in Threads, NEW n \in Amounts, Release(t, n) \/ Borrow(t, n)
        PROVE  Wanting'
    BY <1>3 DEF Release, Borrow
  <1>4. ASSUME NEW t \in Threads, CheckIn(t) \/ Grab(t) \/ CheckOut(t)
        PROVE  Wanting'
    BY <1>4 DEF CheckIn, Grab, CheckOut
  <1>5. ASSUME NEW t \in Threads,
               Prepare(t) \/ FutexWait(t) \/ Interrupt(t) \/ Timeout(t)
        PROVE  Wanting'
    BY <1>5 DEF Prepare, FutexWait, Interrupt, Timeout
  <1>6. ASSUME NEW t \in Threads, FutexWake(t)
        PROVE  Wanting'
    <2>1. PICK woken \in SUBSET Asleep :
             pc' = [u \in Threads |-> IF u = t THEN "idle"
                                      ELSE IF u \in woken THEN "check"
                                      ELSE pc[u]]
      BY <1>6 DEF FutexWake
    <2>2. \A u \in woken : pc[u] = "asleep"
      BY DEF Asleep
    <2>3. pc[t] = "wake" /\ UNCHANGED <<req, got>>
      BY <1>6 DEF FutexWake
    <2> QED BY <2>1, <2>2, <2>3
  <1> QED BY <1>1, <1>2, <1>3, <1>4, <1>5, <1>6 DEF Next, Continue

LEMMA StepIsAbstract ==
  ASSUME TypeOK, Wanting, [Next]_vars
  PROVE  AbstractStep
  <1> USE DEF TypeOK, Wanting, Return, Abstract!NoRequest, NoRequest, Abstract!Smaller, Smaller
  <1>1. ASSUME UNCHANGED <<tokens, req, got>>
        PROVE  AbstractStep
    BY <1>1 DEF AbstractStep, Abstract!vars
  <1>2. ASSUME NEW t \in Threads, NEW r \in Requests, TryAcquireOk(t, r)
        PROVE  AbstractStep
    <2>1. Abstract!TakeAtOnce(t, r)
      BY <1>2 DEF TryAcquireOk, Abstract!TakeAtOnce, Abstract!Take
    <2> QED BY <2>1 DEF AbstractStep, Abstract!Next
  <1>3. ASSUME NEW t \in Threads, NEW r \in Requests, TryAcquireFail(t, r)
        PROVE  AbstractStep
    <2>1. r.mode = "try" => req' = [req EXCEPT ![t] = NoRequest]
      BY <1>3 DEF TryAcquireFail
    <2>2. Abstract!Refuse(t, r)
      BY <1>3, <2>1 DEF TryAcquireFail, Abstract!Refuse
    <2> QED BY <2>2 DEF AbstractStep, Abstract!Next
  <1>4. ASSUME NEW t \in Threads, Grab(t)
        PROVE  AbstractStep
    <2>1. req[t] \in Requests /\ req[t] # NoRequest
      BY <1>4 DEF Grab
    <2>2. Abstract!Grant(t)
      BY <1>4, <2>1 DEF Grab, Abstract!Grant, Abstract!Take
    <2> QED BY <2>2 DEF AbstractStep, Abstract!Next
  <1>5. ASSUME NEW t \in Threads, CheckOut(t)
        PROVE  AbstractStep
    <2>1. tokens' = tokens /\ got' = got
      BY <1>5 DEF CheckOut
    <2>2. Abstract!GiveUp(t)
      BY <1>5, <2>1 DEF CheckOut, Abstract!GiveUp
    <2> QED BY <2>2 DEF AbstractStep, Abstract!Next
  <1>6. ASSUME NEW t \in Threads, NEW n \in Amounts, Release(t, n) \/ Borrow(t, n)
        PROVE  AbstractStep
    <2>1. Abstract!Release(n) \/ Abstract!Borrow(n)
      BY <1>6 DEF Release, Borrow, Abstract!Release, Abstract!Borrow
    <2> QED BY <2>1 DEF AbstractStep, Abstract!Next
  <1>7. ASSUME NEW t \in Threads,
               \/ CheckIn(t) \/ Prepare(t) \/ FutexWait(t) \/ FutexWake(t)
               \/ Interrupt(t) \/ Timeout(t)
        PROVE  AbstractStep
    <2>1. UNCHANGED <<tokens, req, got>>
      BY <1>7 DEF CheckIn, Prepare, FutexWait, FutexWake, Interrupt, Timeout
    <2> QED BY <1>1, <2>1
  <1>8. CASE UNCHANGED vars
    BY <1>1, <1>8 DEF vars
  <1> QED BY <1>2, <1>3, <1>4, <1>5, <1>6, <1>7, <1>8 DEF Next, Continue

\* The safety of ImplementsSemaphore: tokens are taken by those who ask, whole
\* requests at a time, and never those of another; who waits gives up only with
\* a timeout and empty-handed, for any threads, counts and requests.  (That
\* tokens which stay available reach a waiter is left to the run.)
THEOREM StepsOfSemaphore == Spec => Abstract!Init /\ [][Abstract!Next]_(Abstract!vars)
  <1>1. Init => Wanting /\ Abstract!Init
    BY DEF Init, Wanting, Abstract!Init, NoRequest, Abstract!NoRequest
  <1>2. TypeOK /\ Wanting /\ [Next]_vars => Wanting' /\ [Abstract!Next]_(Abstract!vars)
    BY WantingStep, StepIsAbstract DEF AbstractStep
  <1> QED BY <1>1, <1>2, TypeCorrect, PTL DEF Spec

-----------------------------------------------------------------------------
(* No wakeup is lost *)

\* What WakeupsSuffice needs to know of the threads: who waits has a request,
\* who is about to sleep saw no token, and only a thread on its way to
\* futex_wake has a count to wake.
Local ==
    \A t \in Threads :
        /\ pc[t] \in {"checkin", "check", "presleep", "asleep", "checkout"}
              => req[t] \in Requests
        /\ pc[t] = "presleep" => snap[t] < req[t].min
        /\ pc[t] # "wake" => wakes[t] = 0

\* The inductive invariant.
WInv == IInv /\ Local /\ IsFiniteSet(Wakeups) /\ WakeupsSuffice

OneTokenRequests == \A r \in Requests : r.min = 1

-----------------------------------------------------------------------------
(* Cardinalities *)

\* The wakeups of one thread more.
LEMMA WakeupsSplit ==
  ASSUME NEW f \in [Threads -> Nat], NEW g \in [Threads -> Nat],
         NEW t \in Threads, g = [f EXCEPT ![t] = 0],
         IsFiniteSet(WakeupsOf(g))
  PROVE  /\ IsFiniteSet(WakeupsOf(f))
         /\ Cardinality(WakeupsOf(f)) = Cardinality(WakeupsOf(g)) + f[t]
  <1> DEFINE S == {t} \X (1..f[t])
  <1>1. IsFiniteSet(S) /\ Cardinality(S) = f[t]
    <2>1. IsFiniteSet(1..f[t]) /\ Cardinality(1..f[t]) = f[t]
      BY FS_Interval
    <2>2. IsFiniteSet({t}) /\ Cardinality({t}) = 1
      BY FS_Singleton
    <2>3. /\ IsFiniteSet(S)
          /\ Cardinality(S) = Cardinality({t}) * Cardinality(1..f[t])
      BY <2>1, <2>2, FS_Product
    <2> HIDE DEF S
    <2> QED BY <2>1, <2>2, <2>3
  <1>2. WakeupsOf(f) = WakeupsOf(g) \cup S
    <2>1. \A u \in Threads \ {t} : f[u] = g[u]
      OBVIOUS
    <2>2. 1..g[t] = {}
      OBVIOUS
    <2> QED BY <2>1, <2>2 DEF WakeupsOf
  <1>3. WakeupsOf(g) \cap S = {}
    <2>1. 1..g[t] = {}
      OBVIOUS
    <2> QED BY <2>1 DEF WakeupsOf
  <1>4. Cardinality(WakeupsOf(g) \cap S) = 0
    BY <1>3, FS_EmptySet
  <1>5. Cardinality(WakeupsOf(g)) \in Nat
    BY FS_CardinalityType
  <1> HIDE DEF S
  <1>6. /\ IsFiniteSet(WakeupsOf(g) \cup S)
        /\ Cardinality(WakeupsOf(g) \cup S)
             = Cardinality(WakeupsOf(g)) + Cardinality(S)
                 - Cardinality(WakeupsOf(g) \cap S)
    BY <1>1, FS_Union
  <1> QED BY <1>1, <1>2, <1>4, <1>5, <1>6

\* The sets of waiters are finite, and no more threads sleep than wait.
Countable == /\ IsFiniteSet(Awake) /\ Cardinality(Awake) \in Nat
             /\ IsFiniteSet(Asleep) /\ Cardinality(Asleep) \in Nat
             /\ Cardinality(Asleep) <= waiting

\* It follows from WaitingExact, in this state and in the next.
LEMMA WaitersCountable == WaitingExact => Countable
  <1> SUFFICES ASSUME WaitingExact PROVE Countable
    OBVIOUS
  <1>1. Asleep \subseteq Waiters /\ Awake \subseteq Waiters
    BY DEF Asleep, Awake, Waiters
  <1>2. IsFiniteSet(Asleep) /\ Cardinality(Asleep) <= Cardinality(Waiters)
    BY <1>1, WaitersFinite, FS_Subset
  <1>3. IsFiniteSet(Awake)
    BY <1>1, WaitersFinite, FS_Subset
  <1> QED BY <1>2, <1>3, FS_CardinalityType DEF WaitingExact, Countable

LEMMA WaitersCountableNext == WaitingExact' => Countable'
  BY WaitersCountable, PTL

-----------------------------------------------------------------------------
(* The steps.  NextIInv takes care of IInv'. *)

\* A step that adds no sleeper and no token and takes nobody off Awake.
LEMMA QuietStep ==
  ASSUME WInv, IInv', Wakeups' = Wakeups, Asleep' \subseteq Asleep,
         Awake \subseteq Awake', tokens' <= tokens
  PROVE  IsFiniteSet(Wakeups)' /\ WakeupsSuffice'
  <1>1. IsFiniteSet(Wakeups)' /\ Cardinality(Wakeups)' = Cardinality(Wakeups)
    BY DEF WInv
  <1>2. IsFiniteSet(Awake') /\ Cardinality(Awake') \in Nat
    BY WaitersCountableNext DEF IInv, Countable
  <1>3. Cardinality(Awake) <= Cardinality(Awake')
    BY <1>2, FS_Subset
  <1>4. Cardinality(Asleep') <= Cardinality(Asleep)
    BY WaitersCountable, FS_Subset DEF WInv, IInv, Countable
  <1>5. /\ tokens \in Int /\ tokens' \in Int
        /\ Cardinality(Awake) \in Nat
        /\ Cardinality(Asleep) \in Nat /\ Cardinality(Asleep') \in Nat
        /\ Cardinality(Wakeups) \in Nat
    BY WaitersCountable, WaitersCountableNext, FS_CardinalityType
       DEF WInv, IInv, TypeOK, Countable
  <1> SUFFICES ASSUME Asleep' # {}, tokens' >= 1
               PROVE  \/ tokens' <= Cardinality(Awake') + Cardinality(Wakeups)
                      \/ Cardinality(Asleep') <= Cardinality(Wakeups)
    BY <1>1 DEF WakeupsSuffice
  <1>6. \/ tokens <= Cardinality(Awake) + Cardinality(Wakeups)
        \/ Cardinality(Asleep) <= Cardinality(Wakeups)
    BY <1>5 DEF WInv, WakeupsSuffice
  <1> QED BY <1>2, <1>3, <1>4, <1>5, <1>6

\* A waiter takes a token, or more, and leaves Awake.
LEMMA GrabStep ==
  ASSUME WInv, IInv', NEW t \in Threads, Grab(t), OneTokenRequests
  PROVE  IsFiniteSet(Wakeups)' /\ WakeupsSuffice'
  <1>1. Asleep' = Asleep /\ Awake' = Awake \ {t} /\ t \in Awake
    BY DEF Grab, Return, Asleep, Awake, WInv, IInv, TypeOK
  <1>2. Wakeups' = Wakeups
    BY DEF Grab, Wakeups
  <1>3. tokens' <= tokens - 1 /\ tokens \in Int /\ tokens' \in Int
    <2>1. req[t] \in Requests
      BY DEF Grab, WInv, Local
    <2>2. tokens >= 1 /\ tokens \in Int
      BY <2>1 DEF Grab, OneTokenRequests, WInv, IInv, TypeOK
    <2>3. Smaller(tokens, req[t].max) >= 1 /\ Smaller(tokens, req[t].max) \in Int
      BY <2>1, <2>2, RequestsAssumption DEF Smaller
    <2>4. tokens' = tokens - Smaller(tokens, req[t].max)
      BY DEF Grab, Return
    <2> QED BY <2>2, <2>3, <2>4
  <1>4. Cardinality(Awake') = Cardinality(Awake) - 1
    BY <1>1, WaitersCountable, FS_RemoveElement DEF WInv, IInv, Countable
  <1>5. /\ Cardinality(Awake) \in Nat
        /\ Cardinality(Asleep) \in Nat
        /\ Cardinality(Wakeups) \in Nat
    BY WaitersCountable, FS_CardinalityType DEF WInv, IInv, Countable
  <1>6. Asleep # {} /\ tokens >= 1
          => \/ tokens <= Cardinality(Awake) + Cardinality(Wakeups)
             \/ Cardinality(Asleep) <= Cardinality(Wakeups)
    BY DEF WInv, WakeupsSuffice
  <1>7. Asleep' # {} /\ tokens' >= 1
          => \/ tokens' <= Cardinality(Awake') + Cardinality(Wakeups)
             \/ Cardinality(Asleep') <= Cardinality(Wakeups)
    <2> SUFFICES ASSUME Asleep' # {}, tokens' >= 1
                 PROVE  \/ tokens' <= Cardinality(Awake') + Cardinality(Wakeups)
                        \/ Cardinality(Asleep') <= Cardinality(Wakeups)
      OBVIOUS
    <2>1. Asleep # {} /\ tokens >= 1
      BY <1>1, <1>3
    <2> QED BY <1>1, <1>3, <1>4, <1>5, <1>6, <2>1
  <1> QED BY <1>2, <1>7 DEF WakeupsSuffice, WInv

\* A thread falls asleep only when it has seen no token, and there is none.
LEMMA SleepStep ==
  ASSUME WInv, IInv', NEW t \in Threads, FutexWait(t), OneTokenRequests
  PROVE  IsFiniteSet(Wakeups)' /\ WakeupsSuffice'
  <1>1. Wakeups' = Wakeups /\ tokens' = tokens /\ tokens \in Int
    BY DEF FutexWait, Wakeups, WInv, IInv, TypeOK
  <1>2. CASE tokens = snap[t]
    <2>1. req[t].min = 1 /\ snap[t] < req[t].min
      BY DEF FutexWait, WInv, Local, OneTokenRequests
    <2>2. ~(tokens' >= 1)
      BY <1>1, <1>2, <2>1
    <2> QED BY <1>1, <2>2 DEF WakeupsSuffice, WInv
  <1>3. CASE tokens # snap[t]
    <2>1. pc' = [pc EXCEPT ![t] = "check"] /\ pc[t] = "presleep"
      BY <1>3 DEF FutexWait
    <2>2. Asleep' = Asleep /\ Awake' = Awake
      BY <2>1 DEF Asleep, Awake, WInv, IInv, TypeOK
    <2> QED BY <1>1, <2>2, QuietStep
  <1> QED BY <1>2, <1>3

\* release() decides on as many wakeups as it adds tokens, or as there are
\* waiters.
LEMMA ReleaseWakeups ==
  ASSUME WInv, IInv', NEW t \in Threads, NEW n \in Amounts, Release(t, n)
  PROVE  IsFiniteSet(Wakeups)' /\ WakeupsSuffice'
  <1>1. /\ tokens \in Int /\ waiting \in Nat /\ n \in Nat \ {0}
        /\ wakes \in [Threads -> Nat] /\ wakes' \in [Threads -> Nat]
        /\ tokens' = tokens + n
    BY AmountsAssumption DEF Release, WInv, IInv, TypeOK
  <1>2. wakes[t] = 0
    BY DEF Release, WInv, Local
  <1>3. Asleep' = Asleep /\ Awake' = Awake
    BY DEF Release, Asleep, Awake, WInv, IInv, TypeOK
  <1>4. /\ Cardinality(Awake) \in Nat
        /\ Cardinality(Asleep) \in Nat
        /\ Cardinality(Asleep) <= waiting
        /\ Cardinality(Wakeups) \in Nat
    BY WaitersCountable, FS_CardinalityType DEF WInv, IInv, Countable
  <1>5. wakes'[t] = IF waiting > 0 THEN Smaller(n, waiting) ELSE 0
    BY <1>1, <1>2 DEF Release
  <1>6. wakes = [wakes' EXCEPT ![t] = 0]
    BY <1>1, <1>2 DEF Release
  <1>7. /\ IsFiniteSet(Wakeups)'
        /\ Cardinality(Wakeups') = Cardinality(Wakeups) + wakes'[t]
    BY <1>1, <1>6, WakeupsSplit DEF Wakeups, WInv
  <1>8. wakes'[t] = n \/ wakes'[t] = waiting
    BY <1>1, <1>5 DEF Smaller
  <1>9. Asleep' # {} /\ tokens' >= 1
          => \/ tokens' <= Cardinality(Awake') + Cardinality(Wakeups')
             \/ Cardinality(Asleep') <= Cardinality(Wakeups')
    <2>1. CASE wakes'[t] = waiting
      BY <1>1, <1>3, <1>4, <1>7, <2>1
    <2>2. CASE wakes'[t] = n /\ tokens <= 0
      BY <1>1, <1>3, <1>4, <1>7, <2>2
    <2>3. CASE wakes'[t] = n /\ tokens >= 1
      <3> SUFFICES ASSUME Asleep # {}
                   PROVE  \/ tokens' <= Cardinality(Awake') + Cardinality(Wakeups')
                          \/ Cardinality(Asleep') <= Cardinality(Wakeups')
        BY <1>3
      <3>1. \/ tokens <= Cardinality(Awake) + Cardinality(Wakeups)
            \/ Cardinality(Asleep) <= Cardinality(Wakeups)
        BY <2>3 DEF WInv, WakeupsSuffice
      <3> QED BY <1>1, <1>3, <1>4, <1>7, <2>3, <3>1
    <2> QED BY <1>1, <1>8, <2>1, <2>2, <2>3
  <1> QED BY <1>7, <1>9 DEF WakeupsSuffice

\* futex_wake() spends the wakeups of one thread on as many sleepers, or wakes
\* them all.
LEMMA WakeSpends ==
  ASSUME WInv, IInv', NEW t \in Threads, FutexWake(t)
  PROVE  IsFiniteSet(Wakeups)' /\ WakeupsSuffice'
  <1>1. PICK woken \in SUBSET Asleep :
           /\ Cardinality(woken) = Smaller(wakes[t], Cardinality(Asleep))
           /\ pc' = [u \in Threads |-> IF u = t THEN "idle"
                                       ELSE IF u \in woken THEN "check"
                                       ELSE pc[u]]
    BY DEF FutexWake
  <1>2. Asleep' = Asleep \ woken /\ Awake' = Awake \cup woken
    BY <1>1 DEF FutexWake, Asleep, Awake
  <1>3. /\ tokens' = tokens /\ tokens \in Int
        /\ wakes \in [Threads -> Nat] /\ wakes' \in [Threads -> Nat]
        /\ wakes' = [wakes EXCEPT ![t] = 0]
    BY DEF FutexWake, WInv, IInv, TypeOK
  <1>4. /\ IsFiniteSet(Awake) /\ Cardinality(Awake) \in Nat
        /\ IsFiniteSet(Asleep) /\ Cardinality(Asleep) \in Nat
        /\ Cardinality(Wakeups) \in Nat
    BY WaitersCountable, FS_CardinalityType DEF WInv, IInv, Countable
  <1>5. /\ IsFiniteSet(Wakeups)' /\ Cardinality(Wakeups') \in Nat
        /\ Cardinality(Wakeups) = Cardinality(Wakeups') + wakes[t]
    <2>1. Wakeups' \subseteq Wakeups
      <3>1. \A u \in Threads : 1..wakes'[u] \subseteq 1..wakes[u]
        BY <1>3
      <3> QED BY <3>1 DEF Wakeups, WakeupsOf
    <2>2. IsFiniteSet(Wakeups')
      BY <2>1, FS_Subset DEF WInv
    <2> QED BY <1>3, <2>2, WakeupsSplit, FS_CardinalityType DEF Wakeups
  <1>6. IsFiniteSet(woken) /\ Cardinality(woken) \in Nat
    BY <1>4, FS_Subset, FS_CardinalityType
  <1>7. Cardinality(Asleep') = Cardinality(Asleep) - Cardinality(woken)
    <2>1. Asleep \cap woken = woken
      OBVIOUS
    <2>2. Cardinality(Asleep \ woken) = Cardinality(Asleep) - Cardinality(Asleep \cap woken)
      BY <1>4, FS_Difference
    <2> QED BY <1>2, <2>1, <2>2, Zenon
  <1>8. Cardinality(Awake') = Cardinality(Awake) + Cardinality(woken)
    <2>1. Awake \cap woken = {}
      BY DEF Awake, Asleep
    <2>2. Cardinality(Awake \cap woken) = 0
      BY <2>1, FS_EmptySet
    <2>3. Cardinality(Awake \cup woken)
             = Cardinality(Awake) + Cardinality(woken) - Cardinality(Awake \cap woken)
      BY <1>4, <1>6, FS_Union
    <2> QED BY <1>2, <1>4, <1>6, <2>2, <2>3
  <1>9. CASE wakes[t] <= Cardinality(Asleep)
    <2>1. Cardinality(woken) = wakes[t]
      BY <1>1, <1>9 DEF Smaller
    <2> SUFFICES ASSUME Asleep' # {}, tokens' >= 1
                 PROVE  \/ tokens' <= Cardinality(Awake') + Cardinality(Wakeups')
                        \/ Cardinality(Asleep') <= Cardinality(Wakeups')
      BY <1>5 DEF WakeupsSuffice
    <2>2. \/ tokens <= Cardinality(Awake) + Cardinality(Wakeups)
          \/ Cardinality(Asleep) <= Cardinality(Wakeups)
      BY <1>2, <1>3 DEF WInv, WakeupsSuffice
    <2> QED BY <1>3, <1>4, <1>5, <1>6, <1>7, <1>8, <2>1, <2>2
  <1>10. CASE wakes[t] > Cardinality(Asleep)
    <2>1. Cardinality(woken) = Cardinality(Asleep)
      BY <1>1, <1>3, <1>4, <1>10 DEF Smaller
    <2>2. woken = Asleep
      BY <1>4, <2>1, FS_Subset
    <2> QED BY <1>2, <1>5, <2>2 DEF WakeupsSuffice
  <1> QED BY <1>3, <1>4, <1>9, <1>10

\* The steps that leave the wakeups alone and are no obstacle to the waiters.
LEMMA OtherSteps ==
  ASSUME WInv, IInv', NEW t \in Threads,
         \/ \E r \in Requests : TryAcquireOk(t, r) \/ TryAcquireFail(t, r)
         \/ \E n \in Amounts : Borrow(t, n)
         \/ CheckIn(t) \/ Prepare(t) \/ CheckOut(t)
         \/ Interrupt(t) \/ Timeout(t)
  PROVE  IsFiniteSet(Wakeups)' /\ WakeupsSuffice'
  <1> USE DEF WInv, IInv, TypeOK, Wakeups, Asleep, Awake
  <1>1. CASE \E r \in Requests : TryAcquireOk(t, r)
    <2>1. PICK r \in Requests : TryAcquireOk(t, r)
      BY <1>1
    <2>2. Smaller(tokens, r.max) >= 0 /\ Smaller(tokens, r.max) \in Int
      BY <2>1, RequestsAssumption DEF TryAcquireOk, Smaller
    <2>3. tokens' <= tokens
      BY <2>1, <2>2 DEF TryAcquireOk, Return
    <2> QED BY <2>1, <2>3, QuietStep DEF TryAcquireOk, Return
  <1>2. CASE \E r \in Requests : TryAcquireFail(t, r)
    <2>1. PICK r \in Requests : TryAcquireFail(t, r)
      BY <1>2
    <2> QED BY <2>1, QuietStep DEF TryAcquireFail
  <1>3. CASE \E n \in Amounts : Borrow(t, n)
    <2>1. PICK n \in Amounts : Borrow(t, n)
      BY <1>3
    <2>2. tokens' <= tokens
      BY <2>1, AmountsAssumption DEF Borrow
    <2> QED BY <2>1, <2>2, QuietStep DEF Borrow
  <1>4. CASE CheckIn(t)
    BY <1>4, QuietStep DEF CheckIn
  <1>5. CASE Prepare(t)
    BY <1>5, QuietStep DEF Prepare
  <1>6. CASE CheckOut(t)
    BY <1>6, QuietStep DEF CheckOut, Return
  <1>7. CASE Interrupt(t)
    BY <1>7, QuietStep DEF Interrupt
  <1>8. CASE Timeout(t)
    BY <1>8, QuietStep DEF Timeout
  <1> QED BY <1>1, <1>2, <1>3, <1>4, <1>5, <1>6, <1>7, <1>8

\* Local is kept by every step: req, snap and wakes are set where pc says so.
LEMMA LocalStep ==
  ASSUME WInv, [Next]_vars
  PROVE  Local'
  <1> USE DEF WInv, IInv, TypeOK, Local, Return
  <1>1. CASE UNCHANGED vars
    BY <1>1 DEF vars
  <1>2. ASSUME NEW t \in Threads, NEW r \in Requests,
               TryAcquireOk(t, r) \/ TryAcquireFail(t, r)
        PROVE  Local'
    BY <1>2 DEF TryAcquireOk, TryAcquireFail
  <1>3. ASSUME NEW t \in Threads, NEW n \in Amounts, Release(t, n) \/ Borrow(t, n)
        PROVE  Local'
    BY <1>3 DEF Release, Borrow
  <1>4. ASSUME NEW t \in Threads, CheckIn(t) \/ Grab(t) \/ CheckOut(t)
        PROVE  Local'
    BY <1>4 DEF CheckIn, Grab, CheckOut
  <1>5. ASSUME NEW t \in Threads,
               Prepare(t) \/ FutexWait(t) \/ Interrupt(t) \/ Timeout(t)
        PROVE  Local'
    BY <1>5 DEF Prepare, FutexWait, Interrupt, Timeout
  <1>6. ASSUME NEW t \in Threads, FutexWake(t)
        PROVE  Local'
    <2>1. PICK woken \in SUBSET Asleep :
             pc' = [u \in Threads |-> IF u = t THEN "idle"
                                      ELSE IF u \in woken THEN "check"
                                      ELSE pc[u]]
      BY <1>6 DEF FutexWake
    <2>2. \A u \in woken : pc[u] = "asleep"
      BY DEF Asleep
    <2> QED BY <1>6, <2>1, <2>2 DEF FutexWake
  <1> QED BY <1>1, <1>2, <1>3, <1>4, <1>5, <1>6 DEF Next, Continue

\* The invariant holds at first: nobody sleeps and no wakeup is coming.
LEMMA InitWInv == Init => WInv
  <1> SUFFICES ASSUME Init PROVE WInv
    OBVIOUS
  <1>1. IInv
    BY InitIInv
  <1>2. Local
    BY DEF Init, Local
  <1>3. Wakeups = {}
    BY DEF Init, Wakeups, WakeupsOf
  <1>4. Asleep = {}
    BY DEF Init, Asleep
  <1> QED BY <1>1, <1>2, <1>3, <1>4, FS_EmptySet DEF WInv, WakeupsSuffice

\* Every step of the semaphore keeps the invariant.
LEMMA NextWInv ==
  ASSUME OneTokenRequests
  PROVE  WInv /\ [Next]_vars => WInv'
  <1> SUFFICES ASSUME WInv, [Next]_vars PROVE WInv'
    OBVIOUS
  <1>1. IInv'
    BY NextIInv DEF WInv
  <1>2. Local'
    BY LocalStep
  <1>3. IsFiniteSet(Wakeups)' /\ WakeupsSuffice'
    <2>1. CASE UNCHANGED vars
      BY <1>1, <2>1, QuietStep DEF vars, Wakeups, Asleep, Awake, WInv, IInv, TypeOK
    <2>2. CASE Next
      <3>1. PICK t \in Threads :
              \/ \E r \in Requests : TryAcquireOk(t, r) \/ TryAcquireFail(t, r)
              \/ \E n \in Amounts : Release(t, n) \/ Borrow(t, n)
              \/ Continue(t)
              \/ Interrupt(t)
              \/ Timeout(t)
        BY <2>2 DEF Next
      <3>2. CASE \E n \in Amounts : Release(t, n)
        BY <1>1, <3>2, ReleaseWakeups
      <3>3. CASE Grab(t)
        BY <1>1, <3>3, GrabStep
      <3>4. CASE FutexWait(t)
        BY <1>1, <3>4, SleepStep
      <3>5. CASE FutexWake(t)
        BY <1>1, <3>5, WakeSpends
      <3>6. CASE \/ \E r \in Requests : TryAcquireOk(t, r) \/ TryAcquireFail(t, r)
                 \/ \E n \in Amounts : Borrow(t, n)
                 \/ CheckIn(t) \/ Prepare(t) \/ CheckOut(t)
                 \/ Interrupt(t) \/ Timeout(t)
        BY <1>1, <3>6, OtherSteps
      <3> QED BY <3>1, <3>2, <3>3, <3>4, <3>5, <3>6 DEF Continue
    <2> QED BY <2>1, <2>2
  <1> QED BY <1>1, <1>2, <1>3 DEF WInv

\* A coming wakeup has a thread on its way to futex_wake.
LEMMA WInvImplies == WInv => NoLostWakeup
  <1> SUFFICES ASSUME WInv, NEW t \in Asleep, tokens >= req[t].min
               PROVE  Awake # {} \/ \E u \in Threads : pc[u] = "wake"
    BY DEF NoLostWakeup
  <1>1. tokens >= 1 /\ tokens \in Int
    <2>1. req[t] \in Requests
      BY DEF Asleep, WInv, Local
    <2> QED BY <2>1, RequestsAssumption DEF WInv, IInv, TypeOK
  <1>2. SUFFICES ASSUME Awake = {}, Wakeups = {} PROVE FALSE
    <2>1. CASE Wakeups # {}
      <3>1. PICK u \in Threads : 1..wakes[u] # {}
        BY <2>1 DEF Wakeups, WakeupsOf
      <3>2. wakes[u] # 0
        BY <3>1
      <3> QED BY <3>2 DEF WInv, Local
    <2> QED BY <1>2, <2>1
  <1>3. Cardinality(Awake) = 0 /\ Cardinality(Wakeups) = 0
    BY <1>2, FS_EmptySet
  <1>4. Cardinality(Asleep) \in Nat /\ Cardinality(Asleep) # 0
    BY WaitersCountable, FS_EmptySet DEF WInv, IInv, Countable
  <1> QED BY <1>1, <1>3, <1>4 DEF WInv, WakeupsSuffice

\* With requests that one token satisfies, available tokens that a sleeper
\* waits for never lack a thread that will see to it, whatever the order of
\* the steps of release(), acquire_with_lock() and the futex.
THEOREM NoWakeupIsLost ==
  ASSUME OneTokenRequests
  PROVE  Spec => []NoLostWakeup
  <1>1. WInv /\ [Next]_vars => WInv'
    BY NextWInv
  <1> QED BY <1>1, InitWInv, WInvImplies, PTL DEF Spec

\* The stronger fact behind it: tokens, awake waiters and coming wakeups are
\* in balance.
THEOREM WakeupsAlwaysSuffice ==
  ASSUME OneTokenRequests
  PROVE  Spec => []WakeupsSuffice
  <1>1. WInv /\ [Next]_vars => WInv'
    BY NextWInv
  <1>2. WInv => WakeupsSuffice
    BY DEF WInv
  <1> QED BY <1>1, <1>2, InitWInv, PTL DEF Spec
==============================================================================
