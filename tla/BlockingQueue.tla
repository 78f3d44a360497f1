---------------------------- MODULE BlockingQueue ----------------------------
(***************************************************************************)
(* pcomn::blocqueue_controller and the push and pop handlers of            *)
(* pcomn::blocking_queue (pcommon/pcomn_blocqueue.{h,cpp}).                *)
(*                                                                         *)
(* Two counting semaphores stand around a container: EMPTY counts the free *)
(* slots, FULL the occupied ones.  push() takes an EMPTY token, stores the *)
(* item and gives a FULL token; pop() goes the other way.  The items are   *)
(* only counted here (RingQueue looks into the slots).  Closing goes       *)
(* OPEN -> FINALIZING -> CLOSED: in FINALIZING the EMPTY end has           *)
(* MaxAllowed tokens more, and whoever manages to take all the EMPTY       *)
(* tokens there are knows that the queue is drained and closes it.         *)
(*                                                                         *)
(* Every access to a shared variable is a step: the atomics, the capacity  *)
(* mutex, each operation on a semaphore.  The semaphores are those of      *)
(* CountingSemaphore with the futex kept coarse: a thread short of tokens  *)
(* falls asleep, release(n) wakes at most n of the sleepers of that end,   *)
(* and a sleeper looks at the count again only when it is woken.           *)
(***************************************************************************)
EXTENDS Integers, FiniteSets

CONSTANTS Producers, Consumers, Controllers,  \* the threads, by what they call
          Capacities,     \* the capacities asked for
          InitCapacity,   \* the constructor's capacity
          MaxAllowed,     \* max_allowed_capacity()
          PopCounts,      \* the maxcounts passed to the popping functions
          HandlerThrows,  \* whether storing an item may throw
          NoOwner         \* nobody owns the capacity mutex

Threads == Producers \cup Consumers \cup Controllers

ASSUME ThreadsAssumption ==
    /\ IsFiniteSet(Threads)
    /\ Producers \cap Consumers = {}
    /\ (Producers \cup Consumers) \cap Controllers = {}
    /\ NoOwner \notin Threads
ASSUME CapacityAssumption ==
    /\ MaxAllowed \in Nat
    /\ Capacities \subseteq 1..MaxAllowed
    /\ InitCapacity \in Capacities
ASSUME PopAssumption == PopCounts \subseteq 1..MaxAllowed
ASSUME HandlerAssumption == HandlerThrows \in BOOLEAN

VARIABLES state,      \* _state
          capacity,   \* _capacity
          capmutex,   \* the owner of _capmutex, or NoOwner
          empty,      \* the tokens of slots(EMPTY)
          full,       \* the tokens of slots(FULL)
          asleep,     \* the threads blocked in a semaphore
          items,      \* the number of items in the container
          pc,         \* pc[t]: where thread t is
          call,       \* call[t]: what thread t was called for
          held        \* held[t]: the tokens t has in hand, or is to obtain

vars == <<state, capacity, capmutex, empty, full, asleep, items, pc, call, held>>

States == {"OPEN", "FINALIZING", "CLOSED"}
NoCall == [op |-> "none", mode |-> "try", arg |-> 0]

Smaller(a, b) == IF a <= b THEN a ELSE b

Init == /\ state = "OPEN"
        /\ capacity = InitCapacity
        /\ capmutex = NoOwner
        /\ empty = InitCapacity
        /\ full = 0
        /\ asleep = {}
        /\ items = 0
        /\ pc = [t \in Threads |-> "idle"]
        /\ call = [t \in Threads |-> NoCall]
        /\ held = [t \in Threads |-> 0]

-----------------------------------------------------------------------------
(* The semaphores *)

EmptySleepers == {t \in asleep : pc[t] \in {"push_acquire", "fin_acquire"}}
FullSleepers == {t \in asleep : pc[t] = "pop_acquire"}

\* futex_wake(n) on the sleepers of one end.
Wake(sleepers, n) ==
    \E woken \in SUBSET sleepers :
        /\ Cardinality(woken) = Smaller(n, Cardinality(sleepers))
        /\ asleep' = asleep \ woken

ReleaseEmpty(n) == empty' = empty + n /\ Wake(EmptySleepers, n)
ReleaseFull(n) == full' = full + n /\ Wake(FullSleepers, n)

\* An acquire that may block and finds too few tokens.
FallAsleep(t) == /\ t \notin asleep
                 /\ call[t].mode # "try"
                 /\ asleep' = asleep \cup {t}
                 /\ UNCHANGED <<state, capacity, capmutex, empty, full, items,
                                pc, call, held>>

\* An acquire with a timeout, zero included, may give up whenever it has not
\* got its tokens.
MayTimeOut(t, short) == call[t].mode = "timed" /\ (short \/ t \in asleep)

Goto(t, label) == pc' = [pc EXCEPT ![t] = label]
Hold(t, n) == held' = [held EXCEPT ![t] = n]

\* What t was called for has no further effect.
Forget(t) == call' = [call EXCEPT ![t] = NoCall]

\* The call of t is over.
Finish(t) == Goto(t, "idle") /\ Forget(t) /\ Hold(t, 0)

Unlock == capmutex' = NoOwner

-----------------------------------------------------------------------------
(* try_wait_empty_finalize_queue(), called by every kind of thread *)

\* It returns ok: to the end of a push or a pop, to close_push_end(), which
\* is left with the mutex, or from there to close_both_ends().
FinReturn(t, ok) ==
    IF call[t].op = "close" /\ ~ok
    THEN /\ Goto(t, "close_cas")
         /\ Hold(t, 0)
         /\ UNCHANGED <<call, capmutex>>
    ELSE /\ Finish(t)
         /\ IF t \in Controllers THEN Unlock ELSE UNCHANGED capmutex

\* A slip: the capacity is left out of max_empty_slots().
FinReadExtension(t) ==
    /\ pc[t] = "fin_read"
    /\ Hold(t, MaxAllowed)
    /\ Goto(t, "fin_acquire")
    /\ UNCHANGED <<state, capacity, capmutex, empty, full, asleep, items, call>>

\* A slip: the extension of the closing states is left out.
FinReadCapacity(t) ==
    /\ pc[t] = "fin_read"
    /\ Hold(t, capacity)
    /\ Goto(t, "fin_acquire")
    /\ UNCHANGED <<state, capacity, capmutex, empty, full, asleep, items, call>>

\* quiscent_state_slots_count = max_empty_slots().
FinRead(t) == /\ pc[t] = "fin_read"
              /\ Hold(t, capacity + MaxAllowed)
              /\ Goto(t, "fin_acquire")
              /\ UNCHANGED <<state, capacity, capmutex, empty, full, asleep,
                             items, call>>

\* All the EMPTY tokens at once, or nothing.
FinAcquire(t) ==
    /\ pc[t] = "fin_acquire"
    /\ \/ /\ t \notin asleep
          /\ empty >= held[t]
          /\ empty' = empty - held[t]
          /\ Goto(t, "fin_cas")
          /\ UNCHANGED <<state, capacity, capmutex, full, asleep, items, call,
                         held>>
       \/ /\ call[t].mode = "try"
          /\ empty < held[t]
          /\ FinReturn(t, FALSE)
          /\ UNCHANGED <<state, capacity, empty, full, asleep, items>>
       \/ empty < held[t] /\ FallAsleep(t)

FinTimeout(t) == /\ pc[t] = "fin_acquire"
                 /\ MayTimeOut(t, empty < held[t])
                 /\ FinReturn(t, FALSE)
                 /\ asleep' = asleep \ {t}
                 /\ UNCHANGED <<state, capacity, empty, full, items>>

\* compare_exchange_strong(FINALIZING, CLOSED): its winner opens the pop end.
FinCas(t) ==
    /\ pc[t] = "fin_cas"
    /\ IF state = "FINALIZING"
       THEN state' = "CLOSED" /\ Goto(t, "fin_won")
       ELSE Goto(t, "fin_lost") /\ UNCHANGED state
    /\ UNCHANGED <<capacity, capmutex, empty, full, asleep, items, call, held>>

\* The EMPTY tokens go back.
FinRelease(t) ==
    /\ ReleaseEmpty(held[t])
    /\ \/ /\ pc[t] = "fin_won"
          /\ Goto(t, "fin_full")
          /\ Hold(t, 0)
          /\ UNCHANGED <<capmutex, call>>
       \/ pc[t] = "fin_lost" /\ FinReturn(t, TRUE)
    /\ UNCHANGED <<state, capacity, full, items>>

\* Every pop() that waits for an item may now go and find the queue closed.
FinFull(t) == /\ pc[t] = "fin_full"
              /\ ReleaseFull(MaxAllowed)
              /\ FinReturn(t, TRUE)
              /\ UNCHANGED <<state, capacity, empty, items>>

-----------------------------------------------------------------------------
(* push: handle_push(1, ...) *)

StartPush(t, mode) ==
    /\ pc[t] = "idle"
    /\ state = "OPEN"
    /\ Goto(t, "push_acquire")
    /\ call' = [call EXCEPT ![t] = [op |-> "push", mode |-> mode, arg |-> 1]]
    /\ UNCHANGED <<state, capacity, capmutex, empty, full, asleep, items, held>>

PushAcquire(t) ==
    /\ pc[t] = "push_acquire"
    /\ \/ /\ t \notin asleep
          /\ empty >= 1
          /\ empty' = empty - 1
          /\ Goto(t, "push_check")
          /\ Hold(t, 1)
          /\ Forget(t)
          /\ UNCHANGED <<state, capacity, capmutex, full, asleep, items>>
       \/ empty < 1 /\ FallAsleep(t)

PushTimeout(t) ==
    /\ pc[t] = "push_acquire"
    /\ MayTimeOut(t, empty < 1)
    /\ Goto(t, "push_check")
    /\ asleep' = asleep \ {t}
    /\ Forget(t)
    /\ UNCHANGED <<state, capacity, capmutex, empty, full, items, held>>

\* A slip: the state is not looked at again after the wait.
PushCheckOnce(t) ==
    /\ pc[t] = "push_check"
    /\ IF held[t] = 0
       THEN Finish(t)
       ELSE Goto(t, "push_data") /\ UNCHANGED <<call, held>>
    /\ UNCHANGED <<state, capacity, capmutex, empty, full, asleep, items>>

\* Is the queue still open, now that there is a slot, or none and a timeout?
PushCheck(t) ==
    /\ pc[t] = "push_check"
    /\ IF state = "OPEN" /\ held[t] = 0
       THEN Finish(t)
       ELSE /\ Goto(t, IF state = "OPEN" THEN "push_data" ELSE "push_undo")
            /\ UNCHANGED <<call, held>>
    /\ UNCHANGED <<state, capacity, capmutex, empty, full, asleep, items>>

\* The handler: the item is stored, or it throws and nothing is.
PushData(t) ==
    /\ pc[t] = "push_data"
    /\ \/ items' = items + 1 /\ Goto(t, "push_publish") /\ Hold(t, 0)
       \/ HandlerThrows /\ Goto(t, "push_undo") /\ UNCHANGED <<items, held>>
    /\ UNCHANGED <<state, capacity, capmutex, empty, full, asleep, call>>

PushPublish(t) == /\ pc[t] = "push_publish"
                  /\ ReleaseFull(1)
                  /\ Finish(t)
                  /\ UNCHANGED <<state, capacity, capmutex, empty, items>>

\* A slip: the slot of a failed push is not given back.
PushUndoLeaking(t) ==
    /\ pc[t] = "push_undo"
    /\ Goto(t, "fin_read")
    /\ Hold(t, 0)
    /\ UNCHANGED <<state, capacity, capmutex, empty, full, asleep, items, call>>

\* A slip: a failed push does not try to finalize.
PushUndoOnly(t) ==
    /\ pc[t] = "push_undo"
    /\ ReleaseEmpty(held[t])
    /\ Finish(t)
    /\ UNCHANGED <<state, capacity, capmutex, full, items>>

\* rollback_guard: the slot goes back, and the caller helps to finalize.
PushUndo(t) ==
    /\ pc[t] = "push_undo"
    /\ ReleaseEmpty(held[t])
    /\ Goto(t, "fin_read")
    /\ Hold(t, 0)
    /\ UNCHANGED <<state, capacity, capmutex, full, items, call>>

-----------------------------------------------------------------------------
(* pop: start_pop(), the handler, finalize_pop() *)

StartPop(t, maxcount, mode) ==
    /\ pc[t] = "idle"
    /\ state # "CLOSED"
    /\ Goto(t, "pop_acquire")
    /\ call' = [call EXCEPT ![t] = [op |-> "pop", mode |-> mode, arg |-> maxcount]]
    /\ UNCHANGED <<state, capacity, capmutex, empty, full, asleep, items, held>>

\* A slip: pop_some() takes all it was asked for, there or not.
PopAcquireAll(t) ==
    /\ pc[t] = "pop_acquire"
    /\ \/ /\ t \notin asleep
          /\ full >= 1
          /\ full' = full - call[t].arg
          /\ Hold(t, call[t].arg)
          /\ Goto(t, "pop_check")
          /\ Forget(t)
          /\ UNCHANGED <<state, capacity, capmutex, empty, asleep, items>>
       \/ full < 1 /\ FallAsleep(t)

PopAcquire(t) ==
    /\ pc[t] = "pop_acquire"
    /\ \/ /\ t \notin asleep
          /\ full >= 1
          /\ full' = full - Smaller(full, call[t].arg)
          /\ Hold(t, Smaller(full, call[t].arg))
          /\ Goto(t, "pop_check")
          /\ Forget(t)
          /\ UNCHANGED <<state, capacity, capmutex, empty, asleep, items>>
       \/ full < 1 /\ FallAsleep(t)

PopTimeout(t) ==
    /\ pc[t] = "pop_acquire"
    /\ MayTimeOut(t, full < 1)
    /\ Goto(t, "pop_check")
    /\ asleep' = asleep \ {t}
    /\ Forget(t)
    /\ UNCHANGED <<state, capacity, capmutex, empty, full, items, held>>

\* A slip: the state is not looked at again after the wait.
PopCheckOnce(t) ==
    /\ pc[t] = "pop_check"
    /\ IF held[t] = 0
       THEN Finish(t)
       ELSE Goto(t, "pop_data") /\ UNCHANGED <<call, held>>
    /\ UNCHANGED <<state, capacity, capmutex, empty, full, asleep, items>>

\* The tokens may be those that closing has released: then there is no item
\* behind them, and they go back for the next pop().
PopCheck(t) ==
    /\ pc[t] = "pop_check"
    /\ IF held[t] = 0
       THEN Finish(t)
       ELSE /\ Goto(t, IF state = "CLOSED" THEN "pop_undo" ELSE "pop_data")
            /\ UNCHANGED <<call, held>>
    /\ UNCHANGED <<state, capacity, capmutex, empty, full, asleep, items>>

\* A slip: checkin_guard is dismissed before the second look at the state.
PopUndoKeeping(t) ==
    /\ pc[t] = "pop_undo"
    /\ Finish(t)
    /\ UNCHANGED <<state, capacity, capmutex, empty, full, asleep, items>>

PopUndo(t) == /\ pc[t] = "pop_undo"
              /\ ReleaseFull(held[t])
              /\ Finish(t)
              /\ UNCHANGED <<state, capacity, capmutex, empty, items>>

PopData(t) == /\ pc[t] = "pop_data"
              /\ items' = items - held[t]
              /\ Goto(t, "pop_release")
              /\ UNCHANGED <<state, capacity, capmutex, empty, full, asleep,
                             call, held>>

\* A slip: the slots are added without waking the pushes that wait for one.
PopReleaseSilent(t) == /\ pc[t] = "pop_release"
                       /\ empty' = empty + held[t]
                       /\ Goto(t, "pop_state")
                       /\ Hold(t, 0)
                       /\ UNCHANGED <<state, capacity, capmutex, full, asleep,
                                      items, call>>

PopRelease(t) == /\ pc[t] = "pop_release"
                 /\ ReleaseEmpty(held[t])
                 /\ Goto(t, "pop_state")
                 /\ Hold(t, 0)
                 /\ UNCHANGED <<state, capacity, capmutex, full, items, call>>

PopState(t) ==
    /\ pc[t] = "pop_state"
    /\ IF state = "FINALIZING"
       THEN Goto(t, "fin_read") /\ UNCHANGED <<call, held>>
       ELSE Finish(t)
    /\ UNCHANGED <<state, capacity, capmutex, empty, full, asleep, items>>

-----------------------------------------------------------------------------
(* close_push(), close_push_wait_empty(), close(), change_capacity() *)

\* close_push_end() looks at the state before it takes the mutex; close() and
\* change_capacity() take the mutex first.
StartControl(t, op, mode, arg) ==
    /\ pc[t] = "idle"
    /\ op = "close_push" => state # "CLOSED"
    /\ Goto(t, "lock")
    /\ call' = [call EXCEPT ![t] = [op |-> op, mode |-> mode, arg |-> arg]]
    /\ UNCHANGED <<state, capacity, capmutex, empty, full, asleep, items, held>>

Lock(t) ==
    /\ pc[t] = "lock"
    /\ capmutex = NoOwner
    /\ capmutex' = t
    /\ Goto(t, IF call[t].op = "capacity" THEN "cap_store" ELSE "close_state")
    /\ UNCHANGED <<state, capacity, empty, full, asleep, items, call, held>>

\* A slip: close() takes a queue whose push end is closed for a closed one.
CloseStateEarly(t) ==
    /\ pc[t] = "close_state"
    /\ \/ /\ state = "OPEN"
          /\ state' = "FINALIZING"
          /\ Goto(t, "close_extend")
          /\ UNCHANGED <<capmutex, call, held>>
       \/ /\ state # "OPEN"
          /\ Finish(t)
          /\ Unlock
          /\ UNCHANGED state
    /\ UNCHANGED <<capacity, empty, full, asleep, items>>

\* Only a holder of the mutex leaves OPEN.
CloseState(t) ==
    /\ pc[t] = "close_state"
    /\ \/ /\ state = "OPEN"
          /\ state' = "FINALIZING"
          /\ Goto(t, "close_extend")
          /\ UNCHANGED <<capmutex, call, held>>
       \/ /\ state = "FINALIZING"
          /\ Goto(t, "fin_read")
          /\ UNCHANGED <<state, capmutex, call, held>>
       \/ /\ state = "CLOSED"
          /\ Finish(t)
          /\ Unlock
          /\ UNCHANGED state
    /\ UNCHANGED <<capacity, empty, full, asleep, items>>

\* slots(EMPTY).release(max_allowed_capacity()): every waiting push() wakes.
CloseExtend(t) == /\ pc[t] = "close_extend"
                  /\ ReleaseEmpty(MaxAllowed)
                  /\ Goto(t, "fin_read")
                  /\ UNCHANGED <<state, capacity, capmutex, full, items, call,
                                 held>>

\* close_both_ends() does not wait for the queue to drain.
CloseCas(t) ==
    /\ pc[t] = "close_cas"
    /\ IF state = "CLOSED"
       THEN Finish(t) /\ Unlock /\ UNCHANGED state
       ELSE /\ state' = "CLOSED"
            /\ Goto(t, "close_full")
            /\ UNCHANGED <<capmutex, call, held>>
    /\ UNCHANGED <<capacity, empty, full, asleep, items>>

CloseFull(t) == /\ pc[t] = "close_full"
                /\ ReleaseFull(MaxAllowed)
                /\ Finish(t)
                /\ Unlock
                /\ UNCHANGED <<state, capacity, empty, items>>

\* The new capacity is stored first, the slots follow in the next step; held
\* keeps the difference meanwhile.
CapStore(t) ==
    /\ pc[t] = "cap_store"
    /\ IF state = "OPEN" /\ call[t].arg # capacity
       THEN /\ capacity' = call[t].arg
            /\ Hold(t, call[t].arg - capacity)
            /\ Goto(t, "cap_slots")
            /\ UNCHANGED <<capmutex, call>>
       ELSE Finish(t) /\ Unlock /\ UNCHANGED capacity
    /\ UNCHANGED <<state, empty, full, asleep, items>>

\* A slip: the slots lost are not borrowed.
CapSlotsGrowing(t) ==
    /\ pc[t] = "cap_slots"
    /\ IF held[t] > 0 THEN ReleaseEmpty(held[t]) ELSE UNCHANGED <<empty, asleep>>
    /\ Finish(t)
    /\ Unlock
    /\ UNCHANGED <<state, capacity, full, items>>

\* release() the slots gained, borrow() those lost: borrow() wakes nobody.
CapSlots(t) ==
    /\ pc[t] = "cap_slots"
    /\ IF held[t] > 0
       THEN ReleaseEmpty(held[t])
       ELSE empty' = empty + held[t] /\ UNCHANGED asleep
    /\ Finish(t)
    /\ Unlock
    /\ UNCHANGED <<state, capacity, full, items>>

-----------------------------------------------------------------------------
CallPush(t) == \E mode \in {"block", "timed"} : StartPush(t, mode)
CallPop(t) == \E n \in PopCounts, mode \in {"block", "timed"} : StartPop(t, n, mode)
CallControl(t) == \/ \E mode \in {"try", "timed"} : StartControl(t, "close_push", mode, 0)
                  \/ StartControl(t, "close", "try", 0)
                  \/ \E c \in Capacities : StartControl(t, "capacity", "try", c)

\* The steps a thread takes by itself once it is inside a call.
Continue(t) ==
    \/ PushAcquire(t) \/ PushCheck(t) \/ PushData(t) \/ PushPublish(t) \/ PushUndo(t)
    \/ PopAcquire(t) \/ PopCheck(t) \/ PopUndo(t) \/ PopData(t) \/ PopRelease(t)
    \/ PopState(t)
    \/ FinRead(t) \/ FinAcquire(t) \/ FinCas(t) \/ FinRelease(t) \/ FinFull(t)
    \/ Lock(t) \/ CloseState(t) \/ CloseExtend(t) \/ CloseCas(t) \/ CloseFull(t)
    \/ CapStore(t) \/ CapSlots(t)

TimeOut(t) == PushTimeout(t) \/ PopTimeout(t) \/ FinTimeout(t)

Next == \/ \E t \in Producers : CallPush(t)
        \/ \E t \in Consumers : CallPop(t)
        \/ \E t \in Controllers : CallControl(t)
        \/ \E t \in Threads : Continue(t) \/ TimeOut(t)

Spec == Init /\ [][Next]_vars

\* A thread that is not blocked runs, and consumers keep popping until the
\* queue is closed, as the worker loops of the library do.  Nothing is
\* promised of producers, of controllers that have not called, of timeouts.
FairSpec == /\ Spec
            /\ \A t \in Threads : WF_vars(Continue(t))
            /\ \A t \in Consumers : WF_vars(CallPop(t))

-----------------------------------------------------------------------------
(* Properties *)

\* The type invariant.
TypeOK ==
    /\ state \in States
    /\ capacity \in Capacities
    /\ capmutex \in Controllers \cup {NoOwner}
    /\ empty \in Int /\ full \in Nat /\ items \in Nat
    /\ asleep \subseteq Threads
    /\ pc \in [Threads -> {"idle", "push_acquire", "push_check", "push_data",
               "push_publish", "push_undo", "pop_acquire", "pop_check",
               "pop_undo", "pop_data", "pop_release", "pop_state", "fin_read",
               "fin_acquire", "fin_cas", "fin_won", "fin_lost", "fin_full",
               "lock", "close_state", "close_extend", "close_cas",
               "close_full", "cap_store", "cap_slots"}]
    /\ call \in [Threads -> [op : {"none", "push", "pop", "close_push", "close",
                                   "capacity"},
                             mode : {"try", "block", "timed"}, arg : Nat]]
    /\ held \in [Threads -> Int]

\* The threads at one of the labels, and the tokens they have in hand there.
At(labels) == {t \in Threads : pc[t] \in labels}
InHand(labels) == UNION {{t} \X (1..held[t]) : t \in At(labels)}

EmptyInHand == Cardinality(InHand({"push_check", "push_data", "push_undo",
                                   "pop_release", "fin_cas", "fin_won", "fin_lost"}))
FullInHand == Cardinality(InHand({"pop_check", "pop_undo", "pop_data"}))

\* What change_capacity() has stored but not yet added to the EMPTY end.
Owed == IF capmutex # NoOwner /\ pc[capmutex] = "cap_slots" THEN held[capmutex] ELSE 0

\* The extra tokens of the closing states at either end.
Extension == IF state = "OPEN" \/ At({"close_extend"}) # {} THEN 0 ELSE MaxAllowed
Phantoms == IF state # "CLOSED" \/ At({"fin_won", "fin_full", "close_full"}) # {}
            THEN 0 ELSE MaxAllowed

\* No slot is lost or made up by any interleaving of push, pop, their
\* failures, closing and resizing.  At the EMPTY end, the tokens available, in
\* hand and under an item make up the capacity and the extension of the
\* closing states; at the FULL end, those available, in hand and about to be
\* published are the items and, once closed, the tokens that let pop() out.
SlotsConserved ==
    /\ empty + EmptyInHand + items + Owed = capacity + Extension
    /\ full + FullInHand + Cardinality(At({"push_publish"})) = items + Phantoms

\* A thread that is about to take n items out of the container finds them
\* there, although closing hands out tokens with no item behind: neither
\* container checks for underflow.
NoUnderflow == Cardinality(InHand({"pop_data"})) <= items

\* Nor do they check for overflow: items and those being stored fit in the
\* largest capacity asked for, although closing adds MaxAllowed slots.
NoOverflow ==
    \E c \in Capacities : items + Cardinality(At({"push_data"})) <= c

\* PCOMN_VERIFY(s == State::CLOSED) of try_wait_empty_finalize_queue: all the
\* tokens asked for are never there in OPEN, so whoever fails to close the
\* queue has been overtaken.
VerifyClosed == \A t \in Threads : pc[t] = "fin_cas" => state # "OPEN"

\* Finalization closes the queue only when it is drained: no item is left and
\* nobody is between the two semaphores ("max_empty_slots() can be available
\* at the EMPTY end _only_ in the quiscent state, when there are zero FULL
\* slots and there are nobody between semaphores", pcomn_blocqueue.cpp:78).
FinalizedWhenDrained ==
    [][\A t \in Threads : FinCas(t) /\ state = "FINALIZING"
           => /\ items = 0
              /\ At({"push_data", "push_publish", "pop_data", "pop_release"}) = {}]_vars

\* With consumers that go on popping, a queue whose push end has been closed
\* gets closed: the transition is not missed, whichever of the closing
\* thread, the last pop and a refused push comes last.
FinalizationCompletes == state = "FINALIZING" ~> state = "CLOSED"

\* Closing lets every thread out of the queue: whoever is inside a push or a
\* pop, blocked or not, returns.
CloseLetsOut ==
    \A t \in Producers \cup Consumers : state = "CLOSED" ~> pc[t] = "idle"

\* Nobody sleeps on beside what he waits for: a push with a slot free, or a pop
\* with an item, gets it or loses it to another, whoever has given it back:
\* the other end, a failed push, a finalizer, a pop that came too late.
NobodyStranded ==
    /\ \A t \in Producers : pc[t] = "push_acquire" /\ empty >= 1
                             ~> pc[t] # "push_acquire" \/ empty < 1
    /\ \A t \in Consumers : pc[t] = "pop_acquire" /\ full >= 1
                             ~> pc[t] # "pop_acquire" \/ full < 1

\* The queue between its two semaphores implements ClosableQueue: a push is
\* admitted only while it is open and has room, a pop claims items that nobody
\* else takes, and none after the end, it closes drained unless somebody is in
\* close(), and close() returns from a closed queue.
Closable ==
    INSTANCE ClosableQueue
        WITH Room <- CHOOSE c \in Capacities : \A d \in Capacities : d <= c,
             storing <- At({"push_data"}),
             taking <- InHand({"pop_data"}),
             closing <- {t \in Threads : call[t].op = "close"}
ImplementsClosable == Closable!Spec

==============================================================================
