---------------------------- MODULE ClosableQueue ----------------------------
(***************************************************************************)
(* What a blocking queue promises to its callers                           *)
(* (pcommon/pcomn_blocqueue.h), with no semaphore in it.                   *)
(*                                                                         *)
(* A push is admitted only while the queue is open and there is room, a    *)
(* pop has its items to itself from the moment it claims them and gets     *)
(* none once the queue is closed.  The push end is closed first; the pop   *)
(* end follows when everything is drained or, while somebody is in close(), *)
(* at once, with what is left in the queue lost.  There is no way back, and *)
(* close() does not return before.                                         *)
(***************************************************************************)
EXTENDS Naturals, FiniteSets

CONSTANTS Threads,
          Room       \* the largest capacity

VARIABLES state,     \* "OPEN", "FINALIZING" or "CLOSED"
          items,     \* the number of items in the queue
          storing,   \* the threads that are storing an item
          taking,    \* the items claimed by pops, as pairs of a thread and a number
          closing    \* the threads in close()

vars == <<state, items, storing, taking, closing>>

TakenBy(t) == {claim \in taking : claim[1] = t}

Init == state = "OPEN" /\ items = 0 /\ storing = {} /\ taking = {} /\ closing = {}

Admit(t) == /\ state = "OPEN"
            /\ items + Cardinality(storing) < Room
            /\ t \notin storing /\ TakenBy(t) = {}
            /\ storing' = storing \cup {t}
            /\ UNCHANGED <<state, items, taking, closing>>

\* The item is stored, even if the queue has been closed meanwhile.
Store(t) == /\ t \in storing
            /\ storing' = storing \ {t}
            /\ items' = items + 1
            /\ UNCHANGED <<state, taking, closing>>

\* Storing it throws.
Fail(t) == /\ t \in storing
           /\ storing' = storing \ {t}
           /\ UNCHANGED <<state, items, taking, closing>>

Claim(t) == /\ state # "CLOSED"
            /\ t \notin storing /\ TakenBy(t) = {}
            /\ \E n \in 1..(items - Cardinality(taking)) :
                   taking' = taking \cup ({t} \X (1..n))
            /\ UNCHANGED <<state, items, storing, closing>>

Take(t) == /\ TakenBy(t) # {}
           /\ items' = items - Cardinality(TakenBy(t))
           /\ taking' = taking \ TakenBy(t)
           /\ UNCHANGED <<state, storing, closing>>

ClosePush == /\ state = "OPEN"
             /\ state' = "FINALIZING"
             /\ UNCHANGED <<items, storing, taking, closing>>

\* Nothing is left, nor on its way in or out.
CloseDrained == /\ state = "FINALIZING"
                /\ items = 0 /\ storing = {} /\ taking = {}
                /\ state' = "CLOSED"
                /\ UNCHANGED <<items, storing, taking, closing>>

CallClose(t) == /\ t \notin closing
                /\ closing' = closing \cup {t}
                /\ UNCHANGED <<state, items, storing, taking>>

CloseNow == /\ state = "FINALIZING"
            /\ closing # {}
            /\ state' = "CLOSED"
            /\ UNCHANGED <<items, storing, taking, closing>>

ReturnClose(t) == /\ t \in closing
                  /\ state = "CLOSED"
                  /\ closing' = closing \ {t}
                  /\ UNCHANGED <<state, items, storing, taking>>

Next == \/ \E t \in Threads : Admit(t) \/ Store(t) \/ Fail(t) \/ Claim(t) \/ Take(t)
                               \/ CallClose(t) \/ ReturnClose(t)
        \/ ClosePush \/ CloseDrained \/ CloseNow

Spec == Init /\ [][Next]_vars
==============================================================================
