----------------------------- MODULE PromiseLock -----------------------------
(***************************************************************************)
(* pcomn::promise_lock (pcommon/pcomn_syncobj.{h,cpp}): a gate that opens  *)
(* once.  The word _locked is 0 (open), 1 (closed) or 2 (closed, somebody  *)
(* may sleep); wait() turns 1 into 2 before it sleeps, unlock() turns      *)
(* either into 0 and wakes everybody if it was 2.                          *)
(*                                                                         *)
(* The module is meant to be a part of another: its operations are actions *)
(* of one calling thread, which the owner of the lock conjoins with what   *)
(* the thread does next.  Every load and CAS of the word and every futex   *)
(* call is a step.                                                         *)
(*                                                                         *)
(* A relative timeout is added to the steady clock and waited for on the   *)
(* system clock, so its deadline may be long past or never come: Timeout   *)
(* is open at any moment of a sleep that has a deadline, and owed at none. *)
(***************************************************************************)
EXTENDS Naturals

CONSTANT LockThreads   \* the threads that call the lock

VARIABLES locked,      \* _locked
          at,          \* at[t]: where thread t is inside the lock
          timed        \* timed[t]: the sleep of t has a deadline

lockvars == <<locked, at, timed>>

\* "opened" and "expired": a wait has returned true, or false.
Results == {"opened", "expired"}
Places == Results \cup {"out", "presleep", "asleep", "unlock1", "unlock2", "wake"}
Timeouts == {"zero", "positive"}

LockTypeOK == /\ locked \in 0..2
              /\ at \in [LockThreads -> Places]
              /\ timed \in [LockThreads -> BOOLEAN]

LockInit == /\ locked = 1
            /\ at = [t \in LockThreads |-> "out"]
            /\ timed = [t \in LockThreads |-> FALSE]

Sleepers == {t \in LockThreads : at[t] = "asleep"}
Out(t) == at[t] = "out"

Move(t, place) == at' = [at EXCEPT ![t] = place]

\* A wait of t returns with a result; the caller takes it and leaves.
Return(t, result) == /\ Move(t, result)
                     /\ timed' = [timed EXCEPT ![t] = FALSE]
                     /\ UNCHANGED locked
Leave(t) == /\ at[t] \in Results
            /\ Move(t, "out")
            /\ UNCHANGED <<locked, timed>>

\* t is going to sleep until the word is no longer 2.
GoToSleep(t, hasdeadline) == /\ locked' = 2
                             /\ Move(t, "presleep")
                             /\ timed' = [timed EXCEPT ![t] = hasdeadline]

-----------------------------------------------------------------------------
(* wait(), wait_with_timeout() *)

Wait(t) == /\ Out(t)
           /\ \/ locked = 0 /\ Return(t, "opened")
              \/ locked # 0 /\ GoToSleep(t, FALSE)

\* The CAS from 1 to 2 comes before the look at the timeout: a zero timeout
\* returns at once only if the word is 0 or was 2 already.
TimedWait(t, timeout) ==
    /\ Out(t)
    /\ \/ locked = 0 /\ Return(t, "opened")
       \/ locked = 2 /\ timeout = "zero" /\ Return(t, "expired")
       \/ /\ locked = 1 \/ (locked = 2 /\ timeout # "zero")
          /\ GoToSleep(t, TRUE)

\* A slip: the thread sleeps whatever the word has become.
FutexWaitUnchecked(t) == /\ at[t] = "presleep"
                         /\ Move(t, "asleep")
                         /\ UNCHANGED <<locked, timed>>

\* futex_wait(2): EAGAIN means that the lock is open.
FutexWait(t) ==
    /\ at[t] = "presleep"
    /\ \/ locked = 2 /\ Move(t, "asleep") /\ UNCHANGED <<locked, timed>>
       \/ locked # 2 /\ Return(t, "opened")

\* EINTR: call futex_wait again.
Interrupt(t) == /\ at[t] = "asleep"
                /\ Move(t, "presleep")
                /\ UNCHANGED <<locked, timed>>

\* ETIMEDOUT.  The word keeps its 2.
Timeout(t) == at[t] = "asleep" /\ timed[t] /\ Return(t, "expired")

-----------------------------------------------------------------------------
(* unlock() *)

UnlockLoad(t) ==
    /\ Out(t)
    /\ Move(t, CASE locked = 0 -> "out"
                 [] locked = 1 -> "unlock1"
                 [] locked = 2 -> "unlock2")
    /\ UNCHANGED <<locked, timed>>

\* A slip: a waiter that came after the load is not noticed.
UnlockOneOnly(t) ==
    /\ at[t] = "unlock1"
    /\ locked' = IF locked = 1 THEN 0 ELSE locked
    /\ Move(t, "out")
    /\ UNCHANGED timed

\* CAS from 1 to 0; it fails if somebody unlocked, or came to sleep, meanwhile.
UnlockOne(t) ==
    /\ at[t] = "unlock1"
    /\ locked' = IF locked = 1 THEN 0 ELSE locked
    /\ Move(t, IF locked = 2 THEN "unlock2" ELSE "out")
    /\ UNCHANGED timed

\* CAS from 2 to 0: the winner wakes the sleepers.
UnlockTwo(t) == /\ at[t] = "unlock2"
                /\ locked' = 0
                /\ Move(t, IF locked = 2 THEN "wake" ELSE "out")
                /\ UNCHANGED timed

\* futex_wake_all: every sleeper returns from its wait with success.
WakeAll(t) ==
    /\ at[t] = "wake"
    /\ at' = [u \in LockThreads |-> IF at[u] = "asleep" THEN "opened"
                                    ELSE IF u = t THEN "out" ELSE at[u]]
    /\ timed' = [u \in LockThreads |-> timed[u] /\ at[u] # "asleep"]
    /\ UNCHANGED locked

\* What a thread inside the lock does next by itself.
LockContinue(t) == \/ FutexWait(t)
                   \/ UnlockOne(t) \/ UnlockTwo(t) \/ WakeAll(t)

\* What the kernel and the clock may do to it.
LockDisturb(t) == Interrupt(t) \/ Timeout(t)
==============================================================================
