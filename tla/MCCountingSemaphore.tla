------------------------- MODULE MCCountingSemaphore -------------------------
(***************************************************************************)
(* Instances of CountingSemaphore for TLC.                                 *)
(***************************************************************************)
EXTENDS CountingSemaphore

Call(min, max, mode) == [min |-> min, max |-> max, mode |-> mode]

\* acquire(), try_acquire_for() and the greedy acquire_some(2), try_acquire():
\* every request is content with one token.
UnitRequests == {Call(1, 1, "block"), Call(1, 2, "timed"), Call(1, 1, "try")}

\* acquire() and acquire(2) on one semaphore.
MixedRequests == {Call(1, 1, "block"), Call(2, 2, "block")}
==============================================================================
