-------------------------- MODULE CountingSemaphore --------------------------
(***************************************************************************)
(* pcomn::counting_semaphore at the level of its 64-bit word and its       *)
(* futex (pcommon/pcomn_semaphore.{h,cpp}).                                *)
(*                                                                         *)
(* The word holds two fields, tokens (_token_count) and waiting            *)
(* (_waiting_count), always written together.  A loop of load, pure        *)
(* computation and compare-and-swap is one step here, the successful CAS:  *)
(* a failed one only reloads the word and repeats the computation.  What   *)
(* cannot be merged is kept apart: a failed try_acquire and the check-in,  *)
(* the value passed to futex_wait and the sleep, the timeout and the       *)
(* check-out, the CAS of release() and its futex_wake.                     *)
(*                                                                         *)
(* The futex is the kernel's: wait compares the word and sleeps in one     *)
(* step, wake picks any of the sleepers, a sleeper may be interrupted      *)
(* (EINTR) and, if it has a deadline, time out.  A call that throws        *)
(* (overflow) changes nothing and is left out.  acquire_some(0) is not     *)
(* among the requests: it reaches std::clamp with lo > hi.                 *)
(***************************************************************************)
EXTENDS Integers, FiniteSets

CONSTANTS Threads,    \* the calling threads
          MaxCount,   \* counting_semaphore::max_count()
          InitCount,  \* the constructor's init_count
          Requests,   \* the acquire calls made: [min, max, mode]
          Amounts     \* the counts passed to release() and borrow()

\* "try": try_acquire() and a zero timeout; "timed": a deadline; "block": none.
Modes == {"try", "timed", "block"}

ASSUME ThreadsAssumption == IsFiniteSet(Threads)
ASSUME CountAssumption == MaxCount \in Nat /\ InitCount \in 0..MaxCount
ASSUME RequestsAssumption ==
    \A r \in Requests : /\ r \in [min : Nat, max : Nat, mode : Modes]
                        /\ 1 <= r.min /\ r.min <= r.max
ASSUME AmountsAssumption == Amounts \subseteq Nat \ {0}

VARIABLES tokens,     \* _token_count, the futex word
          waiting,    \* _waiting_count
          pc,         \* pc[t]: where thread t is
          req,        \* req[t]: the acquire t is executing, or NoRequest
          snap,       \* snap[t]: the token count t passes to futex_wait
          wakes,      \* wakes[t]: the count t passes to futex_wake
          got         \* got[t]: what the last acquire of t returned

vars == <<tokens, waiting, pc, req, snap, wakes, got>>

NoRequest == [min |-> 0, max |-> 0, mode |-> "none"]

Smaller(a, b) == IF a <= b THEN a ELSE b

\* The threads that have checked in to _waiting_count and not out again.
Waiters == {t \in Threads : pc[t] \in {"check", "presleep", "asleep", "checkout"}}
\* Those of them blocked in the kernel, and those sure to look at the word again.
Asleep == {t \in Threads : pc[t] = "asleep"}
Awake == {t \in Threads : pc[t] \in {"check", "presleep"}}

Init == /\ tokens = InitCount
        /\ waiting = 0
        /\ pc = [t \in Threads |-> "idle"]
        /\ req = [t \in Threads |-> NoRequest]
        /\ snap = [t \in Threads |-> 0]
        /\ wakes = [t \in Threads |-> 0]
        /\ got = [t \in Threads |-> 0]

-----------------------------------------------------------------------------
(* acquire *)

\* Tokens leave for thread t: n of them, and t is done.
Return(t, n) == /\ tokens' = tokens - n
                /\ got' = [got EXCEPT ![t] = n]
                /\ pc' = [pc EXCEPT ![t] = "idle"]
                /\ req' = [req EXCEPT ![t] = NoRequest]

\* try_acquire_in_userspace succeeds: any acquire call starts with it.
TryAcquireOk(t, r) ==
    /\ pc[t] = "idle"
    /\ tokens >= r.min
    /\ Return(t, Smaller(tokens, r.max))
    /\ UNCHANGED <<waiting, snap, wakes>>

\* It fails: with a zero timeout the call returns 0, else it goes on to
\* acquire_with_lock.
TryAcquireFail(t, r) ==
    /\ pc[t] = "idle"
    /\ tokens < r.min
    /\ got' = [got EXCEPT ![t] = 0]
    /\ IF r.mode = "try"
       THEN UNCHANGED <<pc, req>>
       ELSE /\ pc' = [pc EXCEPT ![t] = "checkin"]
            /\ req' = [req EXCEPT ![t] = r]
    /\ UNCHANGED <<tokens, waiting, snap, wakes>>

\* fetch_add(waiting_one).
CheckIn(t) == /\ pc[t] = "checkin"
              /\ waiting' = waiting + 1
              /\ pc' = [pc EXCEPT ![t] = "check"]
              /\ UNCHANGED <<tokens, req, snap, wakes, got>>

\* A slip: the tokens are taken, but the thread is not checked out.
GrabKeepingWaiting(t) ==
    /\ pc[t] = "check"
    /\ tokens >= req[t].min
    /\ Return(t, Smaller(tokens, req[t].max))
    /\ UNCHANGED <<waiting, snap, wakes>>

\* Enough tokens: one CAS takes them and checks the thread out.
Grab(t) == /\ pc[t] = "check"
           /\ tokens >= req[t].min
           /\ Return(t, Smaller(tokens, req[t].max))
           /\ waiting' = waiting - 1
           /\ UNCHANGED <<snap, wakes>>

\* Too few: remember the value to sleep on.
Prepare(t) == /\ pc[t] = "check"
              /\ tokens < req[t].min
              /\ pc' = [pc EXCEPT ![t] = "presleep"]
              /\ snap' = [snap EXCEPT ![t] = tokens]
              /\ UNCHANGED <<tokens, waiting, req, wakes, got>>

\* A slip: the thread sleeps whatever the word has become.
FutexWaitUnchecked(t) ==
    /\ pc[t] = "presleep"
    /\ pc' = [pc EXCEPT ![t] = "asleep"]
    /\ snap' = [snap EXCEPT ![t] = 0]
    /\ UNCHANGED <<tokens, waiting, req, wakes, got>>

\* futex_wait: sleep if the word is still the value seen, else EAGAIN.
FutexWait(t) ==
    /\ pc[t] = "presleep"
    /\ pc' = [pc EXCEPT ![t] = IF tokens = snap[t] THEN "asleep" ELSE "check"]
    /\ snap' = [snap EXCEPT ![t] = 0]
    /\ UNCHANGED <<tokens, waiting, req, wakes, got>>

\* EINTR: look at the word again.
Interrupt(t) == /\ pc[t] = "asleep"
                /\ pc' = [pc EXCEPT ![t] = "check"]
                /\ UNCHANGED <<tokens, waiting, req, snap, wakes, got>>

\* ETIMEDOUT of a wait that has a deadline.
Timeout(t) == /\ pc[t] = "asleep"
              /\ req[t].mode = "timed"
              /\ pc' = [pc EXCEPT ![t] = "checkout"]
              /\ UNCHANGED <<tokens, waiting, req, snap, wakes, got>>

\* fetch_sub(waiting_one), and 0 is returned.
CheckOut(t) == /\ pc[t] = "checkout"
               /\ waiting' = waiting - 1
               /\ Return(t, 0)
               /\ UNCHANGED <<snap, wakes>>

-----------------------------------------------------------------------------
(* release and borrow *)

\* A slip: nobody is woken while there are tokens left, and then one only.
ReleaseSeeingTokens(t, n) ==
    /\ pc[t] = "idle"
    /\ tokens + n <= MaxCount
    /\ tokens' = tokens + n
    /\ IF tokens <= 0 /\ waiting > 0
       THEN /\ pc' = [pc EXCEPT ![t] = "wake"]
            /\ wakes' = [wakes EXCEPT ![t] = 1]
       ELSE UNCHANGED <<pc, wakes>>
    /\ UNCHANGED <<waiting, req, snap, got>>

\* The CAS of release(n).  Whether anybody must be woken, and how many, is
\* decided by the word the CAS replaced.
Release(t, n) ==
    /\ pc[t] = "idle"
    /\ tokens + n <= MaxCount
    /\ tokens' = tokens + n
    /\ IF waiting > 0
       THEN /\ pc' = [pc EXCEPT ![t] = "wake"]
            /\ wakes' = [wakes EXCEPT ![t] = Smaller(n, waiting)]
       ELSE UNCHANGED <<pc, wakes>>
    /\ UNCHANGED <<waiting, req, snap, got>>

\* A slip: one sleeper is woken, whatever the count.
FutexWakeOne(t) ==
    /\ pc[t] = "wake"
    /\ \E woken \in SUBSET Asleep :
          /\ Cardinality(woken) = Smaller(1, Cardinality(Asleep))
          /\ pc' = [u \in Threads |-> IF u = t THEN "idle"
                                      ELSE IF u \in woken THEN "check"
                                      ELSE pc[u]]
    /\ wakes' = [wakes EXCEPT ![t] = 0]
    /\ UNCHANGED <<tokens, waiting, req, snap, got>>

\* futex_wake(k): k of the sleepers, or all if they are fewer, run again.
FutexWake(t) ==
    /\ pc[t] = "wake"
    /\ \E woken \in SUBSET Asleep :
          /\ Cardinality(woken) = Smaller(wakes[t], Cardinality(Asleep))
          /\ pc' = [u \in Threads |-> IF u = t THEN "idle"
                                      ELSE IF u \in woken THEN "check"
                                      ELSE pc[u]]
    /\ wakes' = [wakes EXCEPT ![t] = 0]
    /\ UNCHANGED <<tokens, waiting, req, snap, got>>

\* A slip: borrow() without its overflow check.
BorrowUnchecked(t, n) == /\ pc[t] = "idle"
                         /\ tokens' = tokens - n
                         /\ UNCHANGED <<waiting, pc, req, snap, wakes, got>>

\* borrow(n) never blocks; it may leave the count negative.
Borrow(t, n) == /\ pc[t] = "idle"
                /\ n - tokens <= MaxCount
                /\ tokens' = tokens - n
                /\ UNCHANGED <<waiting, pc, req, snap, wakes, got>>

-----------------------------------------------------------------------------
\* What a thread inside a call does next by itself.
Continue(t) == CheckIn(t) \/ Grab(t) \/ Prepare(t) \/ FutexWait(t)
               \/ CheckOut(t) \/ FutexWake(t)

Next == \E t \in Threads :
            \/ \E r \in Requests : TryAcquireOk(t, r) \/ TryAcquireFail(t, r)
            \/ \E n \in Amounts : Release(t, n) \/ Borrow(t, n)
            \/ Continue(t)
            \/ Interrupt(t)
            \/ Timeout(t)

Spec == Init /\ [][Next]_vars

\* A thread that is not blocked is scheduled; callers, signals and clocks
\* promise nothing.
FairSpec == Spec /\ \A t \in Threads : WF_vars(Continue(t))

-----------------------------------------------------------------------------
(* Properties *)

\* The type invariant: the range of the fields of the word and of each
\* thread's local state.
TypeOK ==
    /\ tokens \in Int /\ -MaxCount <= tokens /\ tokens <= MaxCount
    /\ waiting \in Nat
    /\ pc \in [Threads -> {"idle", "checkin", "check", "presleep", "asleep",
                           "checkout", "wake"}]
    /\ req \in [Threads -> Requests \cup {NoRequest}]
    /\ snap \in [Threads -> Int]
    /\ wakes \in [Threads -> Nat]
    /\ got \in [Threads -> Nat]

\* _waiting_count is the number of threads inside acquire_with_lock, on
\* whichever of its two exits they leave: were it ever less, release() would
\* skip futex_wake with somebody asleep.
WaitingExact == waiting = Cardinality(Waiters)

\* No wakeup is lost: while tokens are available to a sleeper, a release that
\* has yet to call futex_wake or a waiter that has yet to look at the word
\* will see to it.  It is about the order of the steps of release(),
\* acquire_with_lock() and the futex.
NoLostWakeup ==
    (\E t \in Asleep : tokens >= req[t].min)
        => (Awake # {} \/ \E t \in Threads : pc[t] = "wake")

\* The wakeups that release() has decided on and not yet made, one element each.
WakeupsOf(w) == UNION {{t} \X (1..w[t]) : t \in Threads}
Wakeups == WakeupsOf(wakes)

\* Why no wakeup is lost while one token is enough for everybody: as long as
\* somebody sleeps beside available tokens, either each token has an awake
\* waiter or a coming wakeup to take it, or a wakeup is coming for every
\* sleeper.  It is what capping the wakeups by _waiting_count must respect:
\* several releases may be between their CAS and their futex_wake, and
\* threads that never waited may take the tokens first.
WakeupsSuffice ==
    Asleep # {} /\ tokens >= 1
        => \/ tokens <= Cardinality(Awake) + Cardinality(Wakeups)
           \/ Cardinality(Asleep) <= Cardinality(Wakeups)

\* acquire() blocks only until the counter becomes big enough
\* (pcomn_semaphore.h, the comment of acquire()): a thread does not stay
\* asleep while the counter stays big enough for it.
BlocksOnlyUntilEnough ==
    \A t \in Threads : []<>~(pc[t] = "asleep" /\ tokens >= req[t].min)

-----------------------------------------------------------------------------
\* The refinement: a thread wants tokens from its failed try_acquire to the
\* CAS that takes them or to the check-out after its timeout.
Abstract == INSTANCE Semaphore WITH count <- tokens, want <- req

\* The futex-level semaphore behaves like Semaphore, and tokens that stay
\* available reach a waiter.
ImplementsSemaphore == Abstract!Spec
==============================================================================
