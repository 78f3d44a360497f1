------------------------------ MODULE Semaphore ------------------------------
(***************************************************************************)
(* What pcomn::counting_semaphore promises its callers: an integer count,  *)
(* which borrow() may drive below zero, and threads that take tokens from  *)
(* it, at once or after waiting.  Nothing is said here of futexes, of the  *)
(* packed 64-bit word or of the count of waiters: CountingSemaphore is     *)
(* shown to implement this module.                                         *)
(***************************************************************************)
EXTENDS Integers

CONSTANTS Threads,    \* the calling threads
          MaxCount,   \* counting_semaphore::max_count()
          InitCount,  \* the constructor's init_count
          Requests,   \* the acquire calls made: [min, max, mode]
          Amounts     \* the counts passed to release() and borrow()

VARIABLES count,      \* the tokens available, negative after a borrow
          want,       \* want[t]: the request t is waiting with, or NoRequest
          got         \* got[t]: what the last acquire of t returned

vars == <<count, want, got>>

NoRequest == [min |-> 0, max |-> 0, mode |-> "none"]

Smaller(a, b) == IF a <= b THEN a ELSE b

Init == /\ count = InitCount
        /\ want = [t \in Threads |-> NoRequest]
        /\ got = [t \in Threads |-> 0]

\* Thread t leaves with the tokens of request r.
Take(t, r) == /\ count >= r.min
              /\ count' = count - Smaller(count, r.max)
              /\ got' = [got EXCEPT ![t] = Smaller(count, r.max)]
              /\ want' = [want EXCEPT ![t] = NoRequest]

\* An acquire that finds enough tokens never waits.
TakeAtOnce(t, r) == want[t] = NoRequest /\ Take(t, r)

\* An acquire that finds too few tokens fails (mode "try") or waits.
Refuse(t, r) ==
    /\ want[t] = NoRequest
    /\ count < r.min
    /\ want' = [want EXCEPT ![t] = IF r.mode = "try" THEN NoRequest ELSE r]
    /\ got' = [got EXCEPT ![t] = 0]
    /\ UNCHANGED count

\* A waiting thread is given its tokens.
Grant(t) == want[t] # NoRequest /\ Take(t, want[t])

\* A thread that waits with a timeout gives up and takes nothing.
GiveUp(t) == /\ want[t].mode = "timed"
             /\ want' = [want EXCEPT ![t] = NoRequest]
             /\ UNCHANGED <<count, got>>

Release(n) == /\ count + n <= MaxCount
              /\ count' = count + n
              /\ UNCHANGED <<want, got>>

Borrow(n) == /\ n - count <= MaxCount
             /\ count' = count - n
             /\ UNCHANGED <<want, got>>

Next == \/ \E t \in Threads, r \in Requests : TakeAtOnce(t, r) \/ Refuse(t, r)
        \/ \E t \in Threads : Grant(t) \/ GiveUp(t)
        \/ \E n \in Amounts : Release(n) \/ Borrow(n)

\* Tokens that stay available reach a waiter: the semaphore does not sit on
\* enough tokens for somebody who waits.  Which waiter is left open.
Spec == /\ Init /\ [][Next]_vars
        /\ WF_vars(\E t \in Threads : Grant(t))
==============================================================================
