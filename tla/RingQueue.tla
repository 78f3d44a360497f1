------------------------------ MODULE RingQueue ------------------------------
(***************************************************************************)
(* pcomn::detail::ring_cbqueue, the ring of raw slots behind               *)
(* blocking_ring_queue, as the push and pop handlers of blocking_queue     *)
(* drive it (pcommon/pcomn_blocqueue.h).                                   *)
(*                                                                         *)
(* The queue stays open and its capacity fixed: closing is the subject of  *)
(* BlockingQueue.  push() constructs an item in the slot of _enq_pos under *)
(* a mutex; pop() claims positions by adding to _deq_pos and then, without *)
(* a lock, moves each item out of its slot and destroys it.  An item is    *)
(* the number of the push that stored it, so that items can be told apart. *)
(* The ring itself never checks for overflow or underflow: it relies on    *)
(* the tokens of the two semaphores, here plain counters with a guard.     *)
(***************************************************************************)
EXTENDS Integers, FiniteSets

CONSTANTS Producers, Consumers,
          Capacity,    \* the slots(EMPTY) tokens the queue starts with
          Size,        \* max_size(): a power of two, not less than Capacity
          PopCounts,   \* the counts asked from pop() and pop_many()
          MaxPushes    \* the bound on the pushes of a run

Threads == Producers \cup Consumers
Raw == -1              \* a slot that holds no object

ASSUME RingAssumption ==
    /\ Size \in Nat \ {0} /\ Capacity \in 1..Size
    /\ PopCounts \subseteq Nat \ {0} /\ MaxPushes \in Nat
    /\ IsFiniteSet(Producers) /\ IsFiniteSet(Consumers)
    /\ Producers \cap Consumers = {}

VARIABLES empty, full,  \* the tokens of slots(EMPTY) and slots(FULL)
          slots,        \* _items
          enq, deq,     \* _enq_pos and _deq_pos
          pc,
          todo,         \* todo[t]: the positions t has claimed and not emptied
          count         \* count[t]: the tokens t has in hand

vars == <<empty, full, slots, enq, deq, pc, todo, count>>

\* item(index): index & _capacity_mask.
SlotOf(i) == i % Size

Smaller(a, b) == IF a <= b THEN a ELSE b
First(S) == CHOOSE i \in S : \A j \in S : i <= j

Init == /\ empty = Capacity /\ full = 0
        /\ slots = [s \in 0..(Size - 1) |-> Raw]
        /\ enq = 0 /\ deq = 0
        /\ pc = [t \in Threads |-> "idle"]
        /\ todo = [t \in Threads |-> {}]
        /\ count = [t \in Threads |-> 0]

Goto(t, label) == pc' = [pc EXCEPT ![t] = label]

-----------------------------------------------------------------------------
(* push *)

AcquireEmpty(t) == /\ pc[t] = "idle"
                   /\ enq + Cardinality({p \in Producers : pc[p] = "push"}) < MaxPushes
                   /\ empty >= 1
                   /\ empty' = empty - 1
                   /\ Goto(t, "push")
                   /\ UNCHANGED <<full, slots, enq, deq, todo, count>>

\* push_item(): the mutex keeps the other pushes away, not the pops.
Push(t) == /\ pc[t] = "push"
           /\ slots' = [slots EXCEPT ![SlotOf(enq)] = enq]
           /\ enq' = enq + 1
           /\ Goto(t, "publish")
           /\ UNCHANGED <<empty, full, deq, todo, count>>

ReleaseFull(t) == /\ pc[t] = "publish"
                  /\ full' = full + 1
                  /\ Goto(t, "idle")
                  /\ UNCHANGED <<empty, slots, enq, deq, todo, count>>

-----------------------------------------------------------------------------
(* pop *)

\* A slip: all the tokens asked for are taken, there or not.
AcquireFullAll(t, n) == /\ pc[t] = "idle"
                        /\ full >= 1
                        /\ full' = full - n
                        /\ count' = [count EXCEPT ![t] = n]
                        /\ Goto(t, "claim")
                        /\ UNCHANGED <<empty, slots, enq, deq, todo>>

AcquireFull(t, n) == /\ pc[t] = "idle"
                     /\ full >= 1
                     /\ full' = full - Smaller(full, n)
                     /\ count' = [count EXCEPT ![t] = Smaller(full, n)]
                     /\ Goto(t, "claim")
                     /\ UNCHANGED <<empty, slots, enq, deq, todo>>

\* A slip: pop_many() advances _deq_pos by one.
ClaimOne(t) == /\ pc[t] = "claim"
               /\ deq' = deq + 1
               /\ todo' = [todo EXCEPT ![t] = deq..(deq + count[t] - 1)]
               /\ Goto(t, "move")
               /\ UNCHANGED <<empty, full, slots, enq, count>>

\* _deq_pos.fetch_add(count).
Claim(t) == /\ pc[t] = "claim"
            /\ deq' = deq + count[t]
            /\ todo' = [todo EXCEPT ![t] = deq..(deq + count[t] - 1)]
            /\ Goto(t, "move")
            /\ UNCHANGED <<empty, full, slots, enq, count>>

\* The item is moved out of its slot, which still holds a (moved-from) object.
Move(t) == /\ pc[t] = "move"
           /\ Goto(t, "destroy")
           /\ UNCHANGED <<empty, full, slots, enq, deq, todo, count>>

\* A slip: the moved-from object is left in the slot.
DestroyNothing(t) ==
    LET i == First(todo[t]) IN
    /\ pc[t] = "destroy"
    /\ todo' = [todo EXCEPT ![t] = @ \ {i}]
    /\ Goto(t, IF todo[t] = {i} THEN "release" ELSE "move")
    /\ UNCHANGED <<empty, full, slots, enq, deq, count>>

Destroy(t) ==
    LET i == First(todo[t]) IN
    /\ pc[t] = "destroy"
    /\ slots' = [slots EXCEPT ![SlotOf(i)] = Raw]
    /\ todo' = [todo EXCEPT ![t] = @ \ {i}]
    /\ Goto(t, IF todo[t] = {i} THEN "release" ELSE "move")
    /\ UNCHANGED <<empty, full, enq, deq, count>>

\* A slip: one slot too many goes back.
ReleaseEmptyAndOne(t) == /\ pc[t] = "release"
                         /\ empty' = empty + count[t] + 1
                         /\ count' = [count EXCEPT ![t] = 0]
                         /\ Goto(t, "idle")
                         /\ UNCHANGED <<full, slots, enq, deq, todo>>

\* finalize_pop(): the slots go back once the whole call is done.
ReleaseEmpty(t) == /\ pc[t] = "release"
                   /\ empty' = empty + count[t]
                   /\ count' = [count EXCEPT ![t] = 0]
                   /\ Goto(t, "idle")
                   /\ UNCHANGED <<full, slots, enq, deq, todo>>

-----------------------------------------------------------------------------
Next == \/ \E t \in Producers : AcquireEmpty(t) \/ Push(t) \/ ReleaseFull(t)
        \/ \E t \in Consumers : \/ \E n \in PopCounts : AcquireFull(t, n)
                                \/ Claim(t) \/ Move(t) \/ Destroy(t)
                                \/ ReleaseEmpty(t)

Spec == Init /\ [][Next]_vars

-----------------------------------------------------------------------------
(* Properties *)

\* The type invariant.
TypeOK == /\ empty \in 0..Capacity /\ full \in 0..Capacity
          /\ slots \in [0..(Size - 1) -> 0..MaxPushes \cup {Raw}]
          /\ enq \in 0..MaxPushes /\ deq \in 0..MaxPushes
          /\ pc \in [Threads -> {"idle", "push", "publish", "claim", "move",
                                 "destroy", "release"}]
          /\ todo \in [Threads -> SUBSET (0..MaxPushes)]
          /\ count \in [Threads -> 0..Capacity]

\* A pop takes the items of the positions it has claimed: nobody overwrites,
\* moves or destroys an item between the claim and the move
\* ("push(), emplace(), pop(), pop_many() must be thread-safe with respect to
\* each other, and to change_capacity(), _and_ to itself",
\* pcomn_blocqueue.h:243).
ReadsClaimedItem ==
    \A t \in Consumers :
        pc[t] = "move" => slots[SlotOf(First(todo[t]))] = First(todo[t])

\* push() constructs an item only in a slot with no live object: placement
\* new over an item not yet destroyed would leak or corrupt it.
ConstructsInRawSlot ==
    \A t \in Producers : pc[t] = "push" => slots[SlotOf(enq)] = Raw

\* The positions stay within one lap of each other, as the assertions of
\* ~ring_cbqueue() have it, and no pop runs ahead of the pushes.
PositionsWithinLap == 0 <= enq - deq /\ enq - deq <= Size
==============================================================================
