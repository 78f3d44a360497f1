------------------------- MODULE BlockingQueueProofs -------------------------
(***************************************************************************)
(* Proofs about BlockingQueue for any finite sets of threads, any          *)
(* capacities and any popping calls: its safety properties.                *)
(*                                                                         *)
(* The argument is a balance: what is in hand, in the container and in the *)
(* two semaphores adds up.  The rest of the inductive invariant says which *)
(* thread may be where in which state of the queue, so that the balance    *)
(* can be read: who holds the mutex, who has something in hand, what the   *)
(* closing threads have already given back.                                *)
(***************************************************************************)
EXTENDS BlockingQueue, HandCounting, FunctionTheorems

-----------------------------------------------------------------------------
(* The inductive invariant *)

EmptyLabels == {"push_check", "push_data", "push_undo", "pop_release", "fin_cas",
                "fin_won", "fin_lost"}
FullLabels == {"pop_check", "pop_undo", "pop_data"}

FinLabels == {"fin_read", "fin_acquire", "fin_cas", "fin_won", "fin_lost", "fin_full"}
PushLabels == {"idle", "push_acquire", "push_check", "push_data", "push_publish",
               "push_undo"} \cup FinLabels
PopLabels == {"idle", "pop_acquire", "pop_check", "pop_undo", "pop_data",
              "pop_release", "pop_state"} \cup FinLabels
CloseLabels == {"close_state", "close_extend", "close_cas", "close_full"} \cup FinLabels
CapLabels == {"cap_store", "cap_slots"}

\* The labels of the thread that is about to add the tokens which let pop() out.
PhantomLabels == {"fin_won", "fin_full", "close_full"}

\* What a thread has in hand, where it is.
HeldOK ==
    \A t \in Threads :
        /\ pc[t] \in {"idle", "push_acquire", "push_publish", "pop_acquire",
                      "pop_state", "fin_read", "fin_full", "lock", "close_state",
                      "close_extend", "close_cas", "close_full", "cap_store"}
           => held[t] = 0
        /\ pc[t] \in {"push_check", "push_undo"} => held[t] \in 0..1
        /\ pc[t] = "push_data" => held[t] = 1
        /\ pc[t] = "pop_check" => held[t] >= 0
        /\ pc[t] \in {"pop_undo", "pop_data", "pop_release"} => held[t] >= 1
        /\ pc[t] \in {"fin_acquire", "fin_cas", "fin_won", "fin_lost"}
           => held[t] > MaxAllowed
        /\ pc[t] = "cap_slots" => capacity - held[t] \in Capacities

\* Who may be where, and what he was called for.
RolesOK ==
    /\ \A t \in Producers : pc[t] \in PushLabels /\ call[t].op \in {"none", "push"}
    /\ \A t \in Consumers :
           /\ pc[t] \in PopLabels
           /\ call[t].op \in {"none", "pop"}
           /\ pc[t] = "pop_acquire" => call[t].arg >= 1
    /\ \A t \in Controllers :
           /\ pc[t] \in {"idle", "lock"} \cup CloseLabels \cup CapLabels
           /\ pc[t] = "idle" => call[t].op = "none"
           /\ pc[t] = "lock" => call[t].op \in {"close_push", "close", "capacity"}
           /\ pc[t] \in CloseLabels => call[t].op \in {"close_push", "close"}
           /\ pc[t] \in {"close_cas", "close_full"} => call[t].op = "close"
           /\ pc[t] \in CapLabels => call[t].op = "capacity"
           /\ call[t].op = "capacity" => call[t].arg \in Capacities

\* The capacity mutex.
MutexOK == \A t \in Controllers : capmutex = t <=> pc[t] \notin {"idle", "lock"}

\* How far the queue is closed, and where the closing threads are.
PhaseOK ==
    /\ state = "OPEN" =>
         /\ \A t \in Threads : pc[t] \notin {"fin_cas", "fin_won", "fin_lost", "fin_full",
                                        "close_extend", "close_cas", "close_full"}
         /\ \A t \in Controllers : pc[t] \notin FinLabels
    /\ \A t \in Threads :
         /\ pc[t] = "cap_slots" => state = "OPEN"
         /\ pc[t] \in {"fin_won", "fin_lost", "fin_full", "close_full"}
            => state = "CLOSED"
         /\ pc[t] = "close_extend"
            => /\ state = "FINALIZING"
               /\ \A u \in Threads : pc[u] # "fin_cas"
    /\ \A t, u \in Threads :
         pc[t] \in PhantomLabels /\ pc[u] \in PhantomLabels => t = u

\* While the EMPTY end is not extended, what is in hand or in the container has
\* a slot in one of the capacities; afterwards the tokens cannot run short.
RoomOK == IF Extension = 0
          THEN \E c \in Capacities : EmptyInHand + items <= c
          ELSE empty >= 0

IInv == /\ TypeOK /\ HeldOK /\ RolesOK /\ MutexOK /\ PhaseOK
        /\ SlotsConserved /\ RoomOK /\ NoOverflow /\ NoUnderflow

\* Either no handler throws or the capacity is never changed: then a thread that
\* waits for all the EMPTY tokens waits for as many as there are.
SteadyCapacity == HandlerThrows => \A c, d \in Capacities : c = d

\* The tokens of a quiescent queue are counted right.
SteadyOK ==
    \A t \in Threads :
        /\ pc[t] \in {"fin_acquire", "fin_cas"} => held[t] = capacity + MaxAllowed
        /\ ~HandlerThrows /\ pc[t] \in {"push_undo", "fin_read", "fin_acquire"}
           => state # "OPEN"
-----------------------------------------------------------------------------
(* Counting what is in hand *)

USE ThreadsAssumption

\* The tokens t has in hand at the labels L, and whether it is there.
Hand(t, L) == IF pc[t] \in L THEN held[t] ELSE 0
Here(t, L) == IF pc[t] \in L THEN 1 ELSE 0

\* A step of t: no other thread goes anywhere.
Alone(t) == \A u \in Threads \ {t} : pc'[u] = pc[u] /\ held'[u] = held[u]

\* What t has in hand is a part of what is in hand.
LEMMA HandCounted ==
  ASSUME NEW L, NEW t \in Threads, held \in [Threads -> Int], Hand(t, L) >= 0
  PROVE  /\ Cardinality(InHand(L)) \in Nat
         /\ Cardinality(Pairs(At(L) \ {t}, held)) \in Nat
         /\ Cardinality(InHand(L)) = Cardinality(Pairs(At(L) \ {t}, held)) + Hand(t, L)
         /\ Hand(t, L) <= Cardinality(InHand(L))
  <1>1. At(L) \in SUBSET Threads /\ (t \in At(L) <=> pc[t] \in L)
    BY DEF At
  <1>2. t \in At(L) => held[t] >= 0
    BY <1>1 DEF Hand
  <1>3. InHand(L) = Pairs(At(L), held)
    BY DEF InHand, Pairs
  <1>4. /\ Cardinality(InHand(L)) \in Nat
        /\ Cardinality(Pairs(At(L) \ {t}, held)) \in Nat
        /\ Cardinality(InHand(L)) = Cardinality(Pairs(At(L) \ {t}, held)) + Hand(t, L)
    BY <1>1, <1>2, <1>3, PairsSplit DEF Hand
  <1>5. Hand(t, L) \in Int
    BY DEF Hand
  <1> QED BY <1>4, <1>5

\* A step of t alone changes what is in hand by what t has in hand.
LEMMA HandStep ==
  ASSUME NEW L, NEW t \in Threads, held \in [Threads -> Int],
         held' \in [Threads -> Int], Alone(t), Hand(t, L) >= 0, Hand(t, L)' >= 0
  PROVE  /\ Cardinality(InHand(L)) \in Nat /\ Cardinality(InHand(L)') \in Nat
         /\ Hand(t, L) <= Cardinality(InHand(L))
         /\ Cardinality(InHand(L)') = Cardinality(InHand(L)) - Hand(t, L) + Hand(t, L)'
  <1> DEFINE rest == Cardinality(Pairs(At(L) \ {t}, held))
  <1>1. /\ Cardinality(InHand(L)) \in Nat /\ rest \in Nat
        /\ Cardinality(InHand(L)) = rest + Hand(t, L)
    BY HandCounted
  <1>2. /\ Cardinality(InHand(L)') \in Nat /\ rest' \in Nat
        /\ Cardinality(InHand(L)') = rest' + Hand(t, L)'
    <2>1. At(L)' \in SUBSET Threads /\ (t \in At(L)' <=> pc'[t] \in L)
      BY DEF At
    <2>2. t \in At(L)' => held'[t] >= 0
      BY <2>1 DEF Hand
    <2>3. InHand(L)' = Pairs(At(L)', held')
      BY DEF InHand, Pairs
    <2>4. rest' = Cardinality(Pairs(At(L)' \ {t}, held'))
      BY DEF Pairs
    <2>5. Cardinality(Pairs(At(L)', held')) \in Nat /\ rest' \in Nat
      BY <2>1, <2>4, PairsFinite
    <2>6. CASE t \in At(L)'
      BY <2>1, <2>2, <2>3, <2>4, <2>5, <2>6, PairsSplit DEF Hand
    <2>7. CASE t \notin At(L)'
      BY <2>1, <2>3, <2>4, <2>5, <2>7, PairsSplit DEF Hand
    <2> QED BY <2>6, <2>7
  <1>3. rest' = rest
    <2>1. Pairs(At(L) \ {t}, held)' = Pairs(At(L) \ {t}, held)
      BY DEF Pairs, At, Alone
    <2> QED BY <2>1, Zenon
  <1>4. Hand(t, L) \in Int /\ Hand(t, L)' \in Int
    BY DEF Hand
  <1> HIDE DEF rest
  <1> QED BY <1>1, <1>2, <1>3, <1>4

\* A step of t alone changes the number of threads at some labels by t.
LEMMA HereStep ==
  ASSUME NEW L, NEW t \in Threads, Alone(t)
  PROVE  /\ Cardinality(At(L)) \in Nat /\ Cardinality(At(L)') \in Nat
         /\ Here(t, L) <= Cardinality(At(L))
         /\ Cardinality(At(L)') = Cardinality(At(L)) - Here(t, L) + Here(t, L)'
  <1>1. /\ At(L) \in SUBSET Threads /\ (t \in At(L) <=> pc[t] \in L)
        /\ At(L)' \in SUBSET Threads /\ (t \in At(L)' <=> pc'[t] \in L)
    BY DEF At
  <1>2. At(L) \ {t} = At(L)' \ {t}
    BY DEF At, Alone
  <1> QED BY <1>1, <1>2, MembersStep DEF Here

-----------------------------------------------------------------------------
(* Where the threads are *)

Local == TypeOK /\ HeldOK /\ RolesOK /\ MutexOK

USE CapacityAssumption, PopAssumption, HandlerAssumption
USE DEF Local, TypeOK, HeldOK, RolesOK, MutexOK, Alone, Threads, PushLabels, PopLabels,
        FinLabels, CloseLabels, CapLabels, States, NoCall, Goto, Hold, Forget, Finish,
        FinReturn, Unlock

\* The calls and returns of push().
LEMMA PushLocal ==
  ASSUME Local, NEW t \in Producers,
         \/ CallPush(t) \/ PushAcquire(t) \/ PushTimeout(t) \/ PushCheck(t)
         \/ PushData(t) \/ PushPublish(t) \/ PushUndo(t)
  PROVE  Local' /\ Alone(t)
  <1>1. CASE CallPush(t)
    BY <1>1 DEF CallPush, StartPush
  <1>2. CASE PushAcquire(t)
    BY <1>2 DEF PushAcquire, FallAsleep
  <1>3. CASE PushTimeout(t)
    BY <1>3 DEF PushTimeout
  <1>4. CASE PushCheck(t)
    BY <1>4 DEF PushCheck
  <1>5. CASE PushData(t)
    BY <1>5 DEF PushData
  <1>6. CASE PushPublish(t)
    BY <1>6 DEF PushPublish, ReleaseFull, Wake
  <1>7. CASE PushUndo(t)
    BY <1>7 DEF PushUndo, ReleaseEmpty, Wake
  <1> QED BY <1>1, <1>2, <1>3, <1>4, <1>5, <1>6, <1>7

\* The calls and returns of pop(): it takes no more than is there.
LEMMA PopLocal ==
  ASSUME Local, NEW t \in Consumers,
         \/ CallPop(t) \/ PopAcquire(t) \/ PopTimeout(t) \/ PopCheck(t)
         \/ PopUndo(t) \/ (PopData(t) /\ held[t] <= items) \/ PopRelease(t)
         \/ PopState(t)
  PROVE  Local' /\ Alone(t)
  <1>1. CASE CallPop(t)
    BY <1>1 DEF CallPop, StartPop
  <1>2. CASE PopAcquire(t)
    BY <1>2 DEF PopAcquire, FallAsleep, Smaller
  <1>3. CASE PopTimeout(t)
    BY <1>3 DEF PopTimeout
  <1>4. CASE PopCheck(t)
    BY <1>4 DEF PopCheck
  <1>5. CASE PopUndo(t)
    BY <1>5 DEF PopUndo, ReleaseFull, Wake
  <1>6. CASE PopData(t) /\ held[t] <= items
    BY <1>6 DEF PopData
  <1>7. CASE PopRelease(t)
    BY <1>7 DEF PopRelease, ReleaseEmpty, Wake
  <1>8. CASE PopState(t)
    BY <1>8 DEF PopState
  <1> QED BY <1>1, <1>2, <1>3, <1>4, <1>5, <1>6, <1>7, <1>8

\* Finalization, by a thread of any kind.
LEMMA FinLocal ==
  ASSUME Local, NEW t \in Threads,
         \/ FinRead(t) \/ FinAcquire(t) \/ FinTimeout(t) \/ FinCas(t)
         \/ FinRelease(t) \/ FinFull(t)
  PROVE  Local' /\ Alone(t)
  <1>1. CASE FinRead(t)
    BY <1>1 DEF FinRead
  <1>2. CASE FinAcquire(t)
    BY <1>2 DEF FinAcquire, FallAsleep
  <1>3. CASE FinTimeout(t)
    BY <1>3 DEF FinTimeout
  <1>4. CASE FinCas(t)
    BY <1>4 DEF FinCas
  <1>5. CASE FinRelease(t)
    BY <1>5 DEF FinRelease, ReleaseEmpty, Wake
  <1>6. CASE FinFull(t)
    BY <1>6 DEF FinFull, ReleaseFull, Wake
  <1> QED BY <1>1, <1>2, <1>3, <1>4, <1>5, <1>6

\* The closing calls and change_capacity().
LEMMA ControlLocal ==
  ASSUME Local, PhaseOK, NEW t \in Controllers,
         \/ CallControl(t) \/ Lock(t) \/ CloseState(t) \/ CloseExtend(t)
         \/ CloseCas(t) \/ CloseFull(t) \/ CapStore(t) \/ CapSlots(t)
  PROVE  Local' /\ Alone(t)
  <1>1. CASE CallControl(t)
    BY <1>1 DEF CallControl, StartControl
  <1>2. CASE Lock(t)
    BY <1>2 DEF Lock
  <1>3. CASE CloseState(t)
    BY <1>3 DEF CloseState
  <1>4. CASE CloseExtend(t)
    BY <1>4 DEF CloseExtend, ReleaseEmpty, Wake
  <1>5. CASE CloseCas(t)
    BY <1>5 DEF CloseCas
  <1>6. CASE CloseFull(t)
    BY <1>6 DEF CloseFull, ReleaseFull, Wake
  <1>7. CASE CapStore(t)
    BY <1>7 DEF CapStore
  <1>8. CASE CapSlots(t)
    BY <1>8 DEF CapSlots, ReleaseEmpty, Wake
  <1> QED BY <1>1, <1>2, <1>3, <1>4, <1>5, <1>6, <1>7, <1>8

-----------------------------------------------------------------------------
(* How far the queue is closed *)

HIDE DEF FinReturn
USE DEF PhaseOK, PhantomLabels

\* What push() and pop() do leaves the phase alone, but for finalize_pop(), which
\* joins the finalizers.
LEMMA PushPhase ==
  ASSUME Local, PhaseOK, NEW t \in Producers,
         \/ CallPush(t) \/ PushAcquire(t) \/ PushTimeout(t) \/ PushCheck(t)
         \/ PushData(t) \/ PushPublish(t) \/ PushUndo(t)
  PROVE  PhaseOK'
  BY DEF CallPush, StartPush, PushAcquire, FallAsleep, PushTimeout, PushCheck, PushData,
         PushPublish, PushUndo

LEMMA PopPhase ==
  ASSUME Local, PhaseOK, NEW t \in Consumers,
         \/ CallPop(t) \/ PopAcquire(t) \/ PopTimeout(t) \/ PopCheck(t)
         \/ PopUndo(t) \/ PopData(t) \/ PopRelease(t) \/ PopState(t)
  PROVE  PhaseOK'
  BY DEF CallPop, StartPop, PopAcquire, FallAsleep, PopTimeout, PopCheck, PopUndo,
         PopData, PopRelease, PopState

\* Finalization: whoever gets all the EMPTY tokens finds the push end closed, and
\* the first one finds the pop end open.
LEMMA FinPhase ==
  ASSUME Local, PhaseOK, NEW t \in Threads,
         \/ FinRead(t) \/ FinAcquire(t) \/ FinTimeout(t) \/ FinCas(t)
         \/ FinRelease(t) \/ FinFull(t),
         pc[t] = "fin_acquire" /\ empty >= held[t]
           => state # "OPEN" /\ \A u \in Threads : pc[u] # "close_extend"
  PROVE  PhaseOK'
  <1>1. CASE FinRead(t)
    BY <1>1 DEF FinRead
  <1>2. CASE FinAcquire(t)
    BY <1>2 DEF FinAcquire, FinReturn, FallAsleep
  <1>3. CASE FinTimeout(t)
    BY <1>3 DEF FinTimeout, FinReturn
  <1>4. CASE FinCas(t)
    BY <1>4 DEF FinCas
  <1>5. CASE FinRelease(t)
    BY <1>5 DEF FinRelease, FinReturn
  <1>6. CASE FinFull(t)
    BY <1>6 DEF FinFull, FinReturn
  <1> QED BY <1>1, <1>2, <1>3, <1>4, <1>5, <1>6

\* The closing calls hold the mutex, so that nobody else is closing.
LEMMA ControlPhase ==
  ASSUME Local, PhaseOK, NEW t \in Controllers,
         \/ CallControl(t) \/ Lock(t) \/ CloseState(t) \/ CloseExtend(t)
         \/ CloseCas(t) \/ CloseFull(t) \/ CapStore(t) \/ CapSlots(t)
  PROVE  PhaseOK'
  <1>1. CASE CallControl(t)
    BY <1>1 DEF CallControl, StartControl
  <1>2. CASE Lock(t)
    BY <1>2 DEF Lock
  <1>3. CASE CloseState(t)
    BY <1>3 DEF CloseState
  <1>4. CASE CloseExtend(t)
    BY <1>4 DEF CloseExtend
  <1>5. CASE CloseCas(t)
    BY <1>5 DEF CloseCas
  <1>6. CASE CloseFull(t)
    BY <1>6 DEF CloseFull
  <1>7. CASE CapStore(t)
    BY <1>7 DEF CapStore
  <1>8. CASE CapSlots(t)
    BY <1>8 DEF CapSlots
  <1> QED BY <1>1, <1>2, <1>3, <1>4, <1>5, <1>6, <1>7, <1>8

-----------------------------------------------------------------------------
(* The balance *)

HIDE DEF PhaseOK, PhantomLabels, PushLabels, PopLabels, FinLabels, CloseLabels, CapLabels

\* What t owes to the EMPTY end.
OwedBy(t) == IF pc[t] = "cap_slots" THEN held[t] ELSE 0

\* The mutex changes hands only between t and nobody.
MutexOf(t) == capmutex' # capmutex => {capmutex, capmutex'} = {t, NoOwner}

\* Only the owner of the mutex owes slots, and with them the capacity is one of
\* those asked for.
LEMMA OwedStep ==
  ASSUME Local, Local', NEW t \in Threads, Alone(t), MutexOf(t)
  PROVE  /\ Owed \in Int /\ Owed' \in Int
         /\ Owed' = Owed - OwedBy(t) + OwedBy(t)'
  <1> USE DEF Owed, OwedBy, PushLabels, PopLabels, FinLabels, CloseLabels, CapLabels
  <1>1. Owed \in Int /\ Owed' \in Int
    OBVIOUS
  <1>2. OwedBy(t) \in Int /\ OwedBy(t)' \in Int
    OBVIOUS
  <1>3. CASE capmutex = t \/ capmutex' = t
    <2>1. Owed = OwedBy(t) /\ Owed' = OwedBy(t)'
      BY <1>3 DEF MutexOf
    <2> QED BY <2>1, <1>2
  <1>4. CASE capmutex # t /\ capmutex' # t
    <2>1. Owed' = Owed /\ OwedBy(t) = 0 /\ OwedBy(t)' = 0
      BY <1>4 DEF MutexOf
    <2> QED BY <2>1, <1>1
  <1> QED BY <1>3, <1>4

LEMMA CapacityOwed ==
  ASSUME Local PROVE capacity - Owed \in Capacities
  BY DEF Owed

LEMMA CapacityOwedNext ==
  ASSUME Local' PROVE (capacity - Owed)' \in Capacities
  BY DEF Owed

Taking == Cardinality(InHand({"pop_data"}))
Storing == Cardinality(At({"push_data"}))
Publishing == Cardinality(At({"push_publish"}))

\* What is in hand changes by what t has in hand.
LEMMA Counts ==
  ASSUME Local, Local', NEW t \in Threads, Alone(t)
  PROVE  /\ EmptyInHand \in Nat /\ EmptyInHand' \in Nat
         /\ FullInHand \in Nat /\ FullInHand' \in Nat
         /\ Taking \in Nat /\ Taking' \in Nat
         /\ Storing \in Nat /\ Storing' \in Nat
         /\ Publishing \in Nat /\ Publishing' \in Nat
         /\ EmptyInHand' = EmptyInHand - Hand(t, EmptyLabels) + Hand(t, EmptyLabels)'
         /\ FullInHand' = FullInHand - Hand(t, FullLabels) + Hand(t, FullLabels)'
         /\ Taking' = Taking - Hand(t, {"pop_data"}) + Hand(t, {"pop_data"})'
         /\ Storing' = Storing - Here(t, {"push_data"}) + Here(t, {"push_data"})'
         /\ Publishing' = Publishing - Here(t, {"push_publish"}) + Here(t, {"push_publish"})'
         /\ Hand(t, {"pop_data"}) <= Taking
  <1>1. held \in [Threads -> Int] /\ held' \in [Threads -> Int]
    OBVIOUS
  <1>2. /\ Hand(t, EmptyLabels) >= 0 /\ Hand(t, EmptyLabels)' >= 0
        /\ Hand(t, FullLabels) >= 0 /\ Hand(t, FullLabels)' >= 0
        /\ Hand(t, {"pop_data"}) >= 0 /\ Hand(t, {"pop_data"})' >= 0
    BY DEF Hand, EmptyLabels, FullLabels
  <1> HIDE DEF Local, Alone
  <1> USE <1>1, <1>2
  <1>3. /\ EmptyInHand \in Nat /\ EmptyInHand' \in Nat
        /\ EmptyInHand' = EmptyInHand - Hand(t, EmptyLabels) + Hand(t, EmptyLabels)'
    BY HandStep DEF EmptyInHand, EmptyLabels
  <1>4. /\ FullInHand \in Nat /\ FullInHand' \in Nat
        /\ FullInHand' = FullInHand - Hand(t, FullLabels) + Hand(t, FullLabels)'
    BY HandStep DEF FullInHand, FullLabels
  <1>5. /\ Taking \in Nat /\ Taking' \in Nat
        /\ Taking' = Taking - Hand(t, {"pop_data"}) + Hand(t, {"pop_data"})'
        /\ Hand(t, {"pop_data"}) <= Taking
    BY HandStep DEF Taking
  <1>6. /\ Storing \in Nat /\ Storing' \in Nat
        /\ Storing' = Storing - Here(t, {"push_data"}) + Here(t, {"push_data"})'
    BY HereStep DEF Storing
  <1>7. /\ Publishing \in Nat /\ Publishing' \in Nat
        /\ Publishing' = Publishing - Here(t, {"push_publish"}) + Here(t, {"push_publish"})'
    BY HereStep DEF Publishing
  <1> QED BY <1>3, <1>4, <1>5, <1>6, <1>7

\* Items being stored have a slot in hand, items being taken a FULL token.  It is
\* the state after a step that is asked for.
LEMMA Bounds ==
  ASSUME Local'
  PROVE  Storing' <= EmptyInHand' /\ Taking' <= FullInHand'
  <1>1. /\ At({"push_data"})' \in SUBSET At(EmptyLabels)'
        /\ At({"pop_data"})' \in SUBSET At(FullLabels)'
        /\ At(EmptyLabels)' \in SUBSET Threads /\ At(FullLabels)' \in SUBSET Threads
    BY DEF At, EmptyLabels, FullLabels
  <1>2. held' \in [Threads -> Int] /\ \A t \in At({"push_data"})' : held'[t] >= 1
    BY DEF At
  <1>3. /\ EmptyInHand' = Cardinality(Pairs(At(EmptyLabels)', held'))
        /\ FullInHand' = Cardinality(Pairs(At(FullLabels)', held'))
        /\ Taking' = Cardinality(Pairs(At({"pop_data"})', held'))
    BY DEF EmptyInHand, FullInHand, Taking, InHand, Pairs, EmptyLabels, FullLabels
  <1> HIDE DEF Local
  <1>4. Taking' <= FullInHand'
    BY <1>1, <1>2, <1>3, PairsSubset
  <1>5. /\ Cardinality(At({"push_data"})') <= Cardinality(Pairs(At({"push_data"})', held'))
        /\ Cardinality(Pairs(At({"push_data"})', held')) <= EmptyInHand'
    BY <1>1, <1>2, <1>3, PairsSubset, PairsBound
  <1>6. /\ Cardinality(At({"push_data"})') \in Nat
        /\ Cardinality(Pairs(At({"push_data"})', held')) \in Nat /\ EmptyInHand' \in Nat
    BY <1>1, <1>2, <1>3, PairsFinite, FS_Subset, FS_CardinalityType
  <1> QED BY <1>4, <1>5, <1>6 DEF Storing

\* What a step of t must do for the invariant to hold after it.  At either end
\* its own share of the balance stays what it was; it takes more slots only
\* where tokens are left, puts an item under construction only in an open queue
\* and claims items only in one that is not closed.
BalancedEmpty(t) ==
    empty' + Hand(t, EmptyLabels)' + items' + OwedBy(t)' - capacity' - Extension'
      = empty + Hand(t, EmptyLabels) + items + OwedBy(t) - capacity - Extension
BalancedFull(t) ==
    full' + Hand(t, FullLabels)' + Here(t, {"push_publish"})' - items' - Phantoms'
      = full + Hand(t, FullLabels) + Here(t, {"push_publish"}) - items - Phantoms
KeepsRoom(t) ==
    \/ empty' >= 0
    \/ /\ Extension = 0 /\ Extension' = 0
       /\ Hand(t, EmptyLabels)' + items' <= Hand(t, EmptyLabels) + items
KeepsCapacity(t) ==
    \/ Extension' = 0
    \/ items' + Here(t, {"push_data"})' <= items + Here(t, {"push_data"})
KeepsItems(t) ==
    \/ Phantoms' = 0
    \/ Hand(t, {"pop_data"})' - items' <= Hand(t, {"pop_data"}) - items

LEMMA Settle ==
  ASSUME IInv, Local', PhaseOK', NEW t \in Threads, Alone(t), MutexOf(t),
         BalancedEmpty(t), BalancedFull(t), KeepsRoom(t), KeepsCapacity(t), KeepsItems(t)
  PROVE  IInv'
  <1>1. Local
    BY DEF IInv
  <1>2. /\ empty \in Int /\ full \in Nat /\ items \in Nat /\ capacity \in Int
        /\ empty' \in Int /\ full' \in Nat /\ items' \in Nat /\ capacity' \in Int
    BY <1>1
  <1>3. /\ Extension \in Int /\ Extension' \in Int /\ Phantoms \in Int /\ Phantoms' \in Int
    BY DEF Extension, Phantoms
  <1>4. /\ Hand(t, EmptyLabels) \in Int /\ Hand(t, EmptyLabels)' \in Int
        /\ Hand(t, FullLabels) \in Int /\ Hand(t, FullLabels)' \in Int
        /\ Hand(t, {"pop_data"}) \in Int /\ Hand(t, {"pop_data"})' \in Int
        /\ Here(t, {"push_data"}) \in Int /\ Here(t, {"push_data"})' \in Int
        /\ Here(t, {"push_publish"}) \in Int /\ Here(t, {"push_publish"})' \in Int
        /\ OwedBy(t) \in Int /\ OwedBy(t)' \in Int
    BY <1>1 DEF Hand, Here, OwedBy
  <1>5. /\ Owed \in Int /\ Owed' \in Int
        /\ Owed' = Owed - OwedBy(t) + OwedBy(t)'
        /\ (capacity - Owed)' \in Capacities
    BY <1>1, OwedStep, CapacityOwedNext
  <1> HIDE DEF Local, Alone, MutexOf
  <1>6. SlotsConserved'
    BY <1>1, <1>2, <1>3, <1>4, <1>5, Counts
    DEF IInv, SlotsConserved, BalancedEmpty, BalancedFull, Publishing
  <1>7. RoomOK'
    <2>1. CASE Extension' = 0 /\ empty' >= 0
      <3>1. EmptyInHand' + items' <= (capacity - Owed)'
        BY <1>1, <1>2, <1>3, <1>5, <1>6, <2>1, Counts DEF SlotsConserved
      <3> QED BY <1>5, <2>1, <3>1 DEF RoomOK
    <2>2. CASE Extension' = 0 /\ ~(empty' >= 0)
      <3>1. /\ EmptyInHand' + items' <= EmptyInHand + items
            /\ \E c \in Capacities : EmptyInHand + items <= c
        BY <1>1, <1>2, <1>4, <2>2, Counts DEF IInv, RoomOK, KeepsRoom
      <3> QED BY <1>1, <1>2, <2>2, <3>1, Counts DEF RoomOK
    <2>3. CASE Extension' # 0
      BY <2>3 DEF KeepsRoom, RoomOK
    <2> QED BY <2>1, <2>2, <2>3
  <1>8. NoOverflow'
    <2>1. CASE Extension' = 0
      <3>1. \E c \in Capacities : EmptyInHand' + items' <= c
        BY <1>7, <2>1 DEF RoomOK
      <3> QED BY <1>1, <1>2, <3>1, Counts, Bounds DEF NoOverflow, Storing
    <2>2. CASE items' + Here(t, {"push_data"})' <= items + Here(t, {"push_data"})
      BY <1>1, <1>2, <1>4, <2>2, Counts DEF IInv, NoOverflow, Storing
    <2> QED BY <2>1, <2>2 DEF KeepsCapacity
  <1>9. NoUnderflow'
    <2>1. CASE Phantoms' = 0
      BY <1>1, <1>2, <1>6, <2>1, Counts, Bounds
      DEF NoUnderflow, SlotsConserved, Taking, Publishing
    <2>2. CASE Hand(t, {"pop_data"})' - items' <= Hand(t, {"pop_data"}) - items
      BY <1>1, <1>2, <1>4, <2>2, Counts DEF IInv, NoUnderflow, Taking
    <2> QED BY <2>1, <2>2 DEF KeepsItems
  <1> QED BY <1>6, <1>7, <1>8, <1>9 DEF IInv, Local

\* The extra tokens change only with the phase.
LEMMA PhaseSame ==
  ASSUME Local, Local', NEW t \in Threads, Alone(t), state' = state
  PROVE  /\ (pc[t] = "close_extend" <=> pc'[t] = "close_extend")
              => Extension' = Extension
         /\ (pc[t] \in PhantomLabels <=> pc'[t] \in PhantomLabels)
              => Phantoms' = Phantoms
  <1>1. ASSUME pc[t] = "close_extend" <=> pc'[t] = "close_extend"
        PROVE  At({"close_extend"})' = At({"close_extend"})
    BY <1>1 DEF At
  <1>2. ASSUME pc[t] \in PhantomLabels <=> pc'[t] \in PhantomLabels
        PROVE  At(PhantomLabels)' = At(PhantomLabels)
    BY <1>2 DEF At
  <1> QED BY <1>1, <1>2 DEF Extension, Phantoms, PhantomLabels

\* In CLOSED or in an open queue the extension is known.
LEMMA OpenExtension == state = "OPEN" => Extension = 0
  BY DEF Extension

LEMMA OpenPhantoms == state # "CLOSED" => Phantoms = 0
  BY DEF Phantoms

-----------------------------------------------------------------------------
(* Every step keeps the invariant *)

USE DEF BalancedEmpty, BalancedFull, KeepsRoom, KeepsCapacity, KeepsItems, MutexOf,
        Hand, Here, OwedBy, EmptyLabels, FullLabels, PhantomLabels

LEMMA PushStep ==
  ASSUME IInv, NEW t \in Producers,
         \/ CallPush(t) \/ PushAcquire(t) \/ PushTimeout(t) \/ PushCheck(t)
         \/ PushData(t) \/ PushPublish(t) \/ PushUndo(t)
  PROVE  IInv'
  <1>1. Local /\ Local' /\ PhaseOK' /\ Alone(t)
    BY PushLocal, PushPhase DEF IInv
  <1>2. state' = state /\ Extension' = Extension /\ Phantoms' = Phantoms
    <2>1. /\ state' = state
          /\ pc[t] = "close_extend" <=> pc'[t] = "close_extend"
          /\ pc[t] \in PhantomLabels <=> pc'[t] \in PhantomLabels
      BY <1>1 DEF CallPush, StartPush, PushAcquire, FallAsleep, PushTimeout, PushCheck,
                  PushData, PushPublish, PushUndo
    <2> QED BY <1>1, <2>1, PhaseSame
  <1>3. Extension \in Int /\ Phantoms \in Int
    BY DEF Extension, Phantoms
  <1>4. SUFFICES /\ MutexOf(t) /\ BalancedEmpty(t) /\ BalancedFull(t)
                 /\ KeepsRoom(t) /\ KeepsCapacity(t) /\ KeepsItems(t)
    <2> HIDE DEF Local, MutexOf, BalancedEmpty, BalancedFull, KeepsRoom, KeepsCapacity,
                 KeepsItems
    <2> QED BY <1>1, Settle
  <1>5. RoomOK
    BY DEF IInv
  <1> USE <1>1, <1>2, <1>3
  <1>6. CASE CallPush(t)
    BY <1>6, <1>5 DEF CallPush, StartPush, RoomOK
  <1>7. CASE PushAcquire(t)
    <2>1. CASE FallAsleep(t)
      BY <1>7, <2>1, <1>5 DEF FallAsleep, RoomOK
    <2>2. CASE ~FallAsleep(t)
      <3>1. /\ pc[t] = "push_acquire" /\ pc'[t] = "push_check"
            /\ held[t] = 0 /\ held'[t] = 1
            /\ empty \in Int /\ empty >= 1 /\ empty' = empty - 1
            /\ items \in Nat /\ full \in Nat /\ capacity \in Int
            /\ UNCHANGED <<state, capacity, capmutex, full, items>>
        BY <1>7, <2>2 DEF PushAcquire
      <3> QED BY <3>1
    <2> QED BY <2>1, <2>2
  <1>8. CASE PushTimeout(t)
    BY <1>8, <1>5 DEF PushTimeout, RoomOK
  <1>9. CASE PushCheck(t)
    BY <1>9, <1>5, OpenExtension DEF PushCheck, RoomOK
  <1>10. CASE PushData(t)
    <2>1. CASE items' = items + 1
      BY <1>10, <2>1, <1>5 DEF PushData, RoomOK
    <2>2. CASE items' = items
      BY <1>10, <2>2, <1>5 DEF PushData, RoomOK
    <2> QED BY <1>10, <2>1, <2>2 DEF PushData
  <1>11. CASE PushPublish(t)
    BY <1>11, <1>5 DEF PushPublish, ReleaseFull, RoomOK
  <1>12. CASE PushUndo(t)
    BY <1>12, <1>5 DEF PushUndo, ReleaseEmpty, RoomOK
  <1> QED BY <1>6, <1>7, <1>8, <1>9, <1>10, <1>11, <1>12

\* A pop() that takes items out has claimed them.
LEMMA PopHasItems ==
  ASSUME IInv, NEW t \in Threads, pc[t] = "pop_data"
  PROVE  held[t] <= items
  <1>1. Local /\ NoUnderflow /\ items \in Nat
    BY DEF IInv
  <1>2. /\ held \in [Threads -> Int] /\ Hand(t, {"pop_data"}) = held[t] /\ held[t] >= 1
        /\ Hand(t, {"pop_data"}) >= 0
    BY <1>1
  <1>3. held[t] <= Taking /\ Taking \in Nat
    <2>3. /\ Cardinality(InHand({"pop_data"})) \in Nat
          /\ Hand(t, {"pop_data"}) <= Cardinality(InHand({"pop_data"}))
      <3> HIDE DEF Local, Hand
      <3> QED BY <1>2, HandCounted
    <2> QED BY <1>2, <2>3 DEF Taking
  <1> QED BY <1>1, <1>2, <1>3 DEF NoUnderflow, Taking

LEMMA PopStep ==
  ASSUME IInv, NEW t \in Consumers,
         \/ CallPop(t) \/ PopAcquire(t) \/ PopTimeout(t) \/ PopCheck(t)
         \/ PopUndo(t) \/ PopData(t) \/ PopRelease(t) \/ PopState(t)
  PROVE  IInv'
  <1>1. Local /\ Local' /\ PhaseOK' /\ Alone(t)
    <2>1. PopData(t) => held[t] <= items
      BY PopHasItems DEF PopData
    <2> QED BY <2>1, PopLocal, PopPhase DEF IInv
  <1>2. state' = state /\ Extension' = Extension /\ Phantoms' = Phantoms
    <2>1. /\ state' = state
          /\ pc[t] = "close_extend" <=> pc'[t] = "close_extend"
          /\ pc[t] \in PhantomLabels <=> pc'[t] \in PhantomLabels
      BY <1>1 DEF CallPop, StartPop, PopAcquire, FallAsleep, PopTimeout, PopCheck, PopUndo,
                  PopData, PopRelease, PopState
    <2> QED BY <1>1, <2>1, PhaseSame
  <1>3. Extension \in Int /\ Phantoms \in Int
    BY DEF Extension, Phantoms
  <1>4. SUFFICES /\ MutexOf(t) /\ BalancedEmpty(t) /\ BalancedFull(t)
                 /\ KeepsRoom(t) /\ KeepsCapacity(t) /\ KeepsItems(t)
    <2> HIDE DEF Local, MutexOf, BalancedEmpty, BalancedFull, KeepsRoom, KeepsCapacity,
                 KeepsItems
    <2> QED BY <1>1, Settle
  <1>5. Extension = 0 \/ empty >= 0
    BY DEF IInv, RoomOK
  <1>6. capmutex' = capmutex /\ capacity' = capacity
    BY DEF CallPop, StartPop, PopAcquire, FallAsleep, PopTimeout, PopCheck, PopUndo,
           PopData, PopRelease, PopState
  <1> USE <1>1, <1>2, <1>3, <1>5, <1>6
  <1>7. CASE CallPop(t)
    BY <1>7 DEF CallPop, StartPop
  <1>8. CASE PopAcquire(t)
    <2>1. CASE FallAsleep(t)
      BY <1>8, <2>1 DEF PopAcquire, FallAsleep
    <2>2. CASE ~FallAsleep(t)
      <3>1. /\ pc[t] = "pop_acquire" /\ pc'[t] = "pop_check"
            /\ held[t] = 0 /\ held'[t] = Smaller(full, call[t].arg)
            /\ full' = full - Smaller(full, call[t].arg)
            /\ UNCHANGED <<empty, items>>
        BY <1>8, <2>2 DEF PopAcquire
      <3>2. Smaller(full, call[t].arg) \in Nat
        BY <1>8 DEF PopAcquire, Smaller
      <3>3. empty \in Int /\ items \in Nat /\ full \in Nat /\ capacity \in Int
        OBVIOUS
      <3> QED BY <3>1, <3>2, <3>3
    <2> QED BY <2>1, <2>2
  <1>9. CASE PopTimeout(t)
    BY <1>9 DEF PopTimeout
  <1>10. CASE PopCheck(t)
    BY <1>10, OpenPhantoms DEF PopCheck
  <1>11. CASE PopUndo(t)
    BY <1>11 DEF PopUndo, ReleaseFull
  <1>12. CASE PopData(t)
    BY <1>12 DEF PopData
  <1>13. CASE PopRelease(t)
    BY <1>13 DEF PopRelease, ReleaseEmpty
  <1>14. CASE PopState(t)
    BY <1>14 DEF PopState
  <1> QED BY <1>7, <1>8, <1>9, <1>10, <1>11, <1>12, <1>13, <1>14

\* All the EMPTY tokens are there only once the queue is being closed and the
\* closing thread has extended them: otherwise they are no more than a capacity.
LEMMA AllTokensMeanClosing ==
  ASSUME IInv, NEW t \in Threads, pc[t] = "fin_acquire", empty >= held[t]
  PROVE  state # "OPEN" /\ \A u \in Threads : pc[u] # "close_extend"
  <1>1. Local
    BY DEF IInv
  <1>2. EmptyInHand \in Nat
    <2>1. At(EmptyLabels) \in SUBSET Threads /\ held \in [Threads -> Int]
      BY <1>1 DEF At
    <2>2. EmptyInHand = Cardinality(Pairs(At(EmptyLabels), held))
      BY DEF EmptyInHand, InHand, Pairs
    <2> QED BY <2>1, <2>2, PairsFinite
  <1>3. /\ capacity - Owed \in 1..MaxAllowed /\ Owed \in Int /\ capacity \in Int
    BY <1>1, CapacityOwed DEF Owed
  <1>4. /\ empty \in Int /\ items \in Nat /\ held[t] \in Int /\ held[t] > MaxAllowed
    BY <1>1
  <1>5. Extension # 0
    <2>1. empty + EmptyInHand + items + Owed = capacity + Extension
      BY DEF IInv, SlotsConserved
    <2> HIDE DEF Local, EmptyLabels
    <2> QED BY <1>2, <1>3, <1>4, <2>1
  <1> QED BY <1>5 DEF Extension, At

LEMMA FinStep ==
  ASSUME IInv, NEW t \in Threads,
         \/ FinRead(t) \/ FinAcquire(t) \/ FinTimeout(t) \/ FinCas(t)
         \/ FinRelease(t) \/ FinFull(t)
  PROVE  IInv'
  <1>1. Local /\ Local' /\ PhaseOK /\ PhaseOK' /\ Alone(t)
    BY FinLocal, FinPhase, AllTokensMeanClosing DEF IInv
  <1>2. pc[t] # "close_extend" /\ pc'[t] # "close_extend"
    BY <1>1 DEF FinRead, FinAcquire, FallAsleep, FinTimeout, FinCas, FinRelease, FinFull,
                FinReturn
  <1>3. /\ Extension \in Int /\ Phantoms \in Int
        /\ Extension' \in Int /\ Phantoms' \in Int
    BY DEF Extension, Phantoms
  <1>4. SUFFICES /\ MutexOf(t) /\ BalancedEmpty(t) /\ BalancedFull(t)
                 /\ KeepsRoom(t) /\ KeepsCapacity(t) /\ KeepsItems(t)
    <2> HIDE DEF Local, MutexOf, BalancedEmpty, BalancedFull, KeepsRoom, KeepsCapacity,
                 KeepsItems
    <2> QED BY <1>1, Settle
  <1>5. Extension = 0 \/ empty >= 0
    BY DEF IInv, RoomOK
  <1>6. MutexOf(t)
    BY <1>1 DEF FinRead, FinAcquire, FallAsleep, FinTimeout, FinCas, FinRelease, FinFull,
                FinReturn, CloseLabels, FinLabels
  <1>7. /\ state' = state => Extension' = Extension
        /\ state' = state /\ (pc[t] \in PhantomLabels <=> pc'[t] \in PhantomLabels)
             => Phantoms' = Phantoms
    BY <1>1, <1>2, PhaseSame
  <1> USE <1>1, <1>2, <1>3, <1>5, <1>6, <1>7
  <1>8. CASE FinRead(t)
    BY <1>8 DEF FinRead
  <1>9. CASE FinAcquire(t)
    <2>1. state' = state /\ Extension' = Extension /\ Phantoms' = Phantoms
      BY <1>9 DEF FinAcquire, FinReturn, FallAsleep
    <2>2. CASE FallAsleep(t)
      BY <1>9, <2>1, <2>2 DEF FinAcquire, FallAsleep
    <2>3. CASE call[t].mode = "try" /\ empty < held[t]
      <3>1. /\ pc[t] = "fin_acquire" /\ pc'[t] \in {"idle", "close_cas"}
            /\ held'[t] = 0
            /\ UNCHANGED <<empty, items, full, capacity>>
        BY <1>9, <2>3 DEF FinAcquire, FinReturn, FallAsleep
      <3> QED BY <2>1, <3>1
    <2>4. CASE ~FallAsleep(t) /\ ~(call[t].mode = "try" /\ empty < held[t])
      <3>1. /\ pc[t] = "fin_acquire" /\ pc'[t] = "fin_cas"
            /\ held' = held /\ empty >= held[t] /\ empty' = empty - held[t]
            /\ UNCHANGED <<items, full, capacity>>
        <4>1. /\ pc[t] = "fin_acquire" /\ held' = held /\ empty >= held[t]
              /\ empty' = empty - held[t] /\ Goto(t, "fin_cas")
              /\ UNCHANGED <<items, full, capacity>>
          <5> HIDE DEF Local, PhaseOK, Alone, Goto, FinReturn, FallAsleep
          <5> QED BY <1>9, <2>4 DEF FinAcquire
        <4>2. pc'[t] = "fin_cas"
          BY <4>1 DEF Goto
        <4> HIDE DEF Local, PhaseOK, Alone
        <4> QED BY <4>1, <4>2
      <3>2. /\ held[t] \in Int /\ empty \in Int /\ items \in Nat /\ full \in Nat
            /\ capacity \in Int
        OBVIOUS
      <3> HIDE DEF Local, PhaseOK, Alone
      <3> QED BY <2>1, <3>1, <3>2
    <2> QED BY <2>2, <2>3, <2>4
  <1>10. CASE FinTimeout(t)
    BY <1>10 DEF FinTimeout, FinReturn
  <1>11. CASE FinCas(t)
    <2>1. Extension' = Extension /\ Phantoms' = Phantoms
      <3>1. CASE state = "FINALIZING"
        <4>1. /\ state' = "CLOSED" /\ pc'[t] = "fin_won" /\ At({"close_extend"})' = {}
              /\ At({"close_extend"}) = {}
          BY <1>11, <3>1 DEF FinCas, At, PhaseOK
        <4>2. t \in At(PhantomLabels)'
          BY <4>1 DEF At
        <4> QED BY <3>1, <4>1, <4>2 DEF Extension, Phantoms, PhantomLabels
      <3>2. CASE state # "FINALIZING"
        BY <1>11, <3>2 DEF FinCas
      <3> QED BY <3>1, <3>2
    <2> QED BY <1>11, <2>1 DEF FinCas
  <1>12. CASE FinRelease(t)
    <2>1. state' = state /\ Extension' = Extension /\ Phantoms' = Phantoms
      BY <1>12 DEF FinRelease, FinReturn
    <2>2. /\ pc[t] \in {"fin_won", "fin_lost"} /\ held'[t] = 0
          /\ pc'[t] \in {"idle", "fin_full"}
          /\ empty' = empty + held[t]
          /\ UNCHANGED <<items, full, capacity>>
      BY <1>12 DEF FinRelease, FinReturn, ReleaseEmpty
    <2>3. held[t] \in Int /\ held[t] >= 0 /\ empty \in Int /\ items \in Nat
          /\ full \in Nat /\ capacity \in Int
      BY <2>2
    <2> QED BY <2>1, <2>2, <2>3
  <1>13. CASE FinFull(t)
    <2>1. state' = "CLOSED" /\ Extension' = Extension
      BY <1>13 DEF FinFull, PhaseOK
    <2>2. /\ pc[t] = "fin_full" /\ pc'[t] = "idle" /\ held[t] = 0 /\ held'[t] = 0
          /\ full' = full + MaxAllowed
          /\ UNCHANGED <<state, empty, items, capacity>>
      BY <1>13 DEF FinFull, FinReturn, ReleaseFull
    <2>3. Phantoms = 0
      BY <2>2 DEF Phantoms, At
    <2>4. Phantoms' = MaxAllowed
      BY <2>1, <2>2 DEF Phantoms, At, PhaseOK
    <2>5. empty \in Int /\ items \in Nat /\ full \in Nat /\ capacity \in Int
      OBVIOUS
    <2> QED BY <2>1, <2>2, <2>3, <2>4, <2>5
  <1> QED BY <1>8, <1>9, <1>10, <1>11, <1>12, <1>13

\* Before the extension no more than a capacity is in hand or stored: the tokens
\* are short of it by what has been borrowed at the most.
LEMMA BorrowBounded ==
  ASSUME IInv, Extension = 0
  PROVE  empty + MaxAllowed >= 0
  <1>1. Local
    BY DEF IInv
  <1>2. EmptyInHand \in Nat
    <2>1. At(EmptyLabels) \in SUBSET Threads /\ held \in [Threads -> Int]
      BY <1>1 DEF At
    <2>2. EmptyInHand = Cardinality(Pairs(At(EmptyLabels), held))
      BY DEF EmptyInHand, InHand, Pairs
    <2> QED BY <2>1, <2>2, PairsFinite
  <1>3. /\ capacity - Owed \in 1..MaxAllowed /\ Owed \in Int /\ capacity \in Int
    BY <1>1, CapacityOwed DEF Owed
  <1>4. empty \in Int /\ items \in Nat
    BY <1>1
  <1>5. PICK c \in Capacities : EmptyInHand + items <= c
    BY DEF IInv, RoomOK
  <1>6. empty + EmptyInHand + items + Owed = capacity + 0
    BY DEF IInv, SlotsConserved
  <1> HIDE DEF Local
  <1> QED BY <1>2, <1>3, <1>4, <1>5, <1>6

LEMMA ControlStep ==
  ASSUME IInv, NEW t \in Controllers,
         \/ CallControl(t) \/ Lock(t) \/ CloseState(t) \/ CloseExtend(t)
         \/ CloseCas(t) \/ CloseFull(t) \/ CapStore(t) \/ CapSlots(t)
  PROVE  IInv'
  <1>1. Local /\ Local' /\ PhaseOK /\ PhaseOK' /\ Alone(t)
    BY ControlLocal, ControlPhase DEF IInv
  <1>2. /\ Extension \in Int /\ Phantoms \in Int
        /\ Extension' \in Int /\ Phantoms' \in Int
    BY DEF Extension, Phantoms
  <1>3. SUFFICES /\ MutexOf(t) /\ BalancedEmpty(t) /\ BalancedFull(t)
                 /\ KeepsRoom(t) /\ KeepsCapacity(t) /\ KeepsItems(t)
    <2> HIDE DEF Local, MutexOf, BalancedEmpty, BalancedFull, KeepsRoom, KeepsCapacity,
                 KeepsItems
    <2> QED BY <1>1, Settle
  <1>4. Extension = 0 \/ empty >= 0
    BY DEF IInv, RoomOK
  <1>5. /\ state' = state /\ (pc[t] = "close_extend" <=> pc'[t] = "close_extend")
             => Extension' = Extension
        /\ state' = state /\ (pc[t] \in PhantomLabels <=> pc'[t] \in PhantomLabels)
             => Phantoms' = Phantoms
    BY <1>1, PhaseSame
  <1>6. /\ empty \in Int /\ items \in Nat /\ full \in Nat /\ capacity \in Int
    BY <1>1
  <1> USE <1>1, <1>2, <1>4, <1>5, <1>6
  <1>7. CASE CallControl(t)
    <2>1. /\ pc[t] = "idle" /\ pc'[t] = "lock" /\ held' = held
          /\ UNCHANGED <<state, capmutex, empty, full, items, capacity>>
      BY <1>7 DEF CallControl, StartControl
    <2> QED BY <2>1
  <1>8. CASE Lock(t)
    BY <1>8 DEF Lock
  <1>9. CASE CloseState(t)
    <2>1. Extension' = Extension /\ Phantoms' = Phantoms
      <3>1. CASE state = "OPEN"
        <4>1. state' = "FINALIZING" /\ t \in At({"close_extend"})'
          BY <1>9, <3>1 DEF CloseState, At
        <4> QED BY <3>1, <4>1 DEF Extension, Phantoms
      <3>2. CASE state # "OPEN"
        BY <1>9, <3>2 DEF CloseState
      <3> QED BY <3>1, <3>2
    <2>2. /\ pc[t] = "close_state" /\ pc'[t] \in {"close_extend", "fin_read", "idle"}
          /\ held[t] = 0 /\ held'[t] = 0
          /\ UNCHANGED <<empty, full, items, capacity>>
      BY <1>9 DEF CloseState
    <2>3. MutexOf(t)
      BY <1>9 DEF CloseState
    <2> QED BY <2>1, <2>2, <2>3
  <1>10. CASE CloseExtend(t)
    <2>1. state' = state /\ Phantoms' = Phantoms
      BY <1>10 DEF CloseExtend
    <2>2. Extension = 0
      BY <1>10 DEF CloseExtend, Extension, At
    <2>3. Extension' = MaxAllowed
      <3>1. At({"close_extend"})' = {}
        BY <1>10 DEF CloseExtend, At, PushLabels, PopLabels, FinLabels
      <3>2. state' # "OPEN"
        BY <1>10 DEF CloseExtend, PhaseOK
      <3> QED BY <3>1, <3>2 DEF Extension
    <2>4. /\ pc[t] = "close_extend" /\ pc'[t] = "fin_read" /\ held[t] = 0 /\ held'[t] = 0
          /\ empty' = empty + MaxAllowed
          /\ UNCHANGED <<capmutex, full, items, capacity>>
      BY <1>10 DEF CloseExtend, ReleaseEmpty
    <2>5. empty' >= 0
      BY <2>2, <2>4, BorrowBounded
    <2> HIDE DEF Local, PhaseOK, Alone
    <2> QED BY <2>1, <2>2, <2>3, <2>4, <2>5
  <1>11. CASE CloseCas(t)
    <2>1. Extension' = Extension /\ Phantoms' = Phantoms
      <3>1. CASE state = "CLOSED"
        BY <1>11, <3>1 DEF CloseCas
      <3>2. CASE state # "CLOSED"
        <4>1. /\ state' = "CLOSED" /\ t \in At(PhantomLabels)'
              /\ At({"close_extend"})' = At({"close_extend"}) /\ state # "OPEN"
          BY <1>11, <3>2 DEF CloseCas, At, PhaseOK
        <4> QED BY <3>2, <4>1 DEF Extension, Phantoms, PhantomLabels
      <3> QED BY <3>1, <3>2
    <2>2. /\ pc[t] = "close_cas" /\ pc'[t] \in {"close_full", "idle"}
          /\ held[t] = 0 /\ held'[t] = 0
          /\ UNCHANGED <<empty, full, items, capacity>>
      BY <1>11 DEF CloseCas
    <2>3. MutexOf(t)
      BY <1>11 DEF CloseCas, CloseLabels
    <2> QED BY <2>1, <2>2, <2>3
  <1>12. CASE CloseFull(t)
    <2>1. state' = "CLOSED" /\ Extension' = Extension
      BY <1>12 DEF CloseFull, PhaseOK
    <2>2. /\ pc[t] = "close_full" /\ pc'[t] = "idle" /\ held[t] = 0 /\ held'[t] = 0
          /\ full' = full + MaxAllowed
          /\ UNCHANGED <<state, empty, items, capacity>>
      BY <1>12 DEF CloseFull, ReleaseFull
    <2>3. Phantoms = 0
      BY <2>2 DEF Phantoms, At
    <2>4. Phantoms' = MaxAllowed
      BY <2>1, <2>2 DEF Phantoms, At, PhaseOK
    <2>5. MutexOf(t)
      BY <1>12 DEF CloseFull, CloseLabels
    <2> QED BY <2>1, <2>2, <2>3, <2>4, <2>5
  <1>13. CASE CapStore(t)
    <2>1. /\ Extension' = Extension /\ Phantoms' = Phantoms
          /\ pc[t] = "cap_store" /\ held[t] = 0
          /\ UNCHANGED <<empty, full, items>>
      BY <1>13 DEF CapStore
    <2>2. MutexOf(t)
      BY <1>13 DEF CapStore, CapLabels
    <2>3. \/ pc'[t] = "idle" /\ held'[t] = 0 /\ capacity' = capacity
          \/ pc'[t] = "cap_slots" /\ held'[t] = capacity' - capacity
      BY <1>13 DEF CapStore
    <2>4. /\ capacity' \in Int /\ capacity \in Int /\ empty \in Int /\ full \in Int
          /\ items \in Int /\ Extension \in Int /\ Phantoms \in Int
      OBVIOUS
    <2> HIDE DEF Local, PhaseOK, Alone
    <2>5. BalancedEmpty(t) /\ BalancedFull(t)
      BY <2>1, <2>3, <2>4
    <2>6. KeepsRoom(t) /\ KeepsCapacity(t) /\ KeepsItems(t)
      BY <1>4, <2>1, <2>3, <2>4
    <2> QED BY <2>2, <2>5, <2>6
  <1>14. CASE CapSlots(t)
    <2>1. /\ Extension' = Extension /\ Phantoms' = Phantoms
          /\ pc[t] = "cap_slots" /\ pc'[t] = "idle" /\ held'[t] = 0
          /\ UNCHANGED <<full, items, capacity>>
          /\ empty' = empty + held[t]
      BY <1>14 DEF CapSlots, ReleaseEmpty
    <2>2. MutexOf(t)
      BY <1>14 DEF CapSlots, CapLabels
    <2>3. Extension = 0 /\ held[t] \in Int
      BY <2>1, OpenExtension DEF PhaseOK
    <2> QED BY <2>1, <2>2, <2>3
  <1> QED BY <1>7, <1>8, <1>9, <1>10, <1>11, <1>12, <1>13, <1>14

LEMMA InitIInv == Init => IInv
  <1> SUFFICES ASSUME Init PROVE IInv
    OBVIOUS
  <1> USE DEF Init
  <1>1. Local
    <2>1. TypeOK
      OBVIOUS
    <2>2. HeldOK /\ MutexOK
      OBVIOUS
    <2>3. RolesOK
      BY DEF PushLabels, PopLabels, CloseLabels, CapLabels, FinLabels
    <2> QED BY <2>1, <2>2, <2>3
  <1>2. PhaseOK
    BY DEF PhaseOK, FinLabels
  <1>3. ASSUME NEW L, "idle" \notin L
        PROVE  /\ At(L) = {} /\ InHand(L) = {}
               /\ Cardinality(At(L)) = 0 /\ Cardinality(InHand(L)) = 0
    <2>1. At(L) = {}
      BY <1>3 DEF At
    <2>2. InHand(L) = {}
      BY <2>1 DEF InHand
    <2> QED BY <2>1, <2>2, FS_EmptySet, Zenon
  <1>4. /\ EmptyInHand = 0 /\ FullInHand = 0 /\ Publishing = 0 /\ Storing = 0 /\ Taking = 0
    BY <1>3 DEF EmptyInHand, FullInHand, Publishing, Storing, Taking
  <1>5. Owed = 0 /\ Extension = 0 /\ Phantoms = 0
    BY DEF Owed, Extension, Phantoms
  <1>6. InitCapacity \in Int
    OBVIOUS
  <1> HIDE DEF Local
  <1>7. SlotsConserved
    BY <1>4, <1>5, <1>6 DEF SlotsConserved, Publishing
  <1>8. RoomOK /\ NoOverflow /\ NoUnderflow
    BY <1>4, <1>5, <1>6 DEF RoomOK, NoOverflow, NoUnderflow, Storing, Taking
  <1> QED BY <1>1, <1>2, <1>7, <1>8 DEF IInv, Local

LEMMA NextIInv == IInv /\ [Next]_vars => IInv'
  <1> SUFFICES ASSUME IInv, [Next]_vars PROVE IInv'
    OBVIOUS
  <1> HIDE DEF Local
  <1>1. CASE UNCHANGED vars
    <2> USE <1>1 DEF vars
    <2>1. TypeOK' /\ HeldOK' /\ RolesOK' /\ MutexOK' /\ PhaseOK'
      BY DEF IInv, PhaseOK, PushLabels, PopLabels, CloseLabels, CapLabels, FinLabels
    <2>2. \A L : At(L)' = At(L) /\ InHand(L)' = InHand(L)
      BY DEF At, InHand
    <2>3. /\ EmptyInHand' = EmptyInHand /\ FullInHand' = FullInHand /\ Owed' = Owed
          /\ Extension' = Extension /\ Phantoms' = Phantoms
      BY DEF EmptyInHand, FullInHand, Owed, Extension, Phantoms, At, InHand
    <2>4. SlotsConserved' /\ RoomOK' /\ NoOverflow' /\ NoUnderflow'
      <3> HIDE DEF TypeOK, HeldOK, RolesOK, MutexOK
      <3> QED BY <2>2, <2>3, Zenon DEF IInv, SlotsConserved, RoomOK, NoOverflow, NoUnderflow
    <2> HIDE DEF TypeOK, HeldOK, RolesOK, MutexOK
    <2> QED BY <2>1, <2>4 DEF IInv
  <1>2. ASSUME NEW t \in Producers, CallPush(t) PROVE IInv'
    BY <1>2, PushStep
  <1>3. ASSUME NEW t \in Consumers, CallPop(t) PROVE IInv'
    BY <1>3, PopStep
  <1>4. ASSUME NEW t \in Controllers, CallControl(t) PROVE IInv'
    BY <1>4, ControlStep
  <1>5. ASSUME NEW t \in Threads, Continue(t) \/ TimeOut(t) PROVE IInv'
    <2>1. t \in Producers \/ t \in Consumers \/ t \in Controllers
      BY DEF Threads
    <2>2. Local
      BY DEF IInv, Local
    <2>3. CASE \/ PushAcquire(t) \/ PushCheck(t) \/ PushData(t) \/ PushPublish(t)
               \/ PushUndo(t) \/ PushTimeout(t)
      <3>1. t \in Producers
        BY <2>1, <2>2, <2>3 DEF Local, PushAcquire, PushCheck, PushData, PushPublish,
           PushUndo, PushTimeout, PopLabels, CloseLabels, CapLabels, FinLabels
      <3> QED BY <2>3, <3>1, PushStep
    <2>4. CASE \/ PopAcquire(t) \/ PopCheck(t) \/ PopUndo(t) \/ PopData(t)
               \/ PopRelease(t) \/ PopState(t) \/ PopTimeout(t)
      <3>1. t \in Consumers
        BY <2>1, <2>2, <2>4 DEF Local, PopAcquire, PopCheck, PopUndo, PopData,
           PopRelease, PopState, PopTimeout, PushLabels, CloseLabels, CapLabels, FinLabels
      <3> QED BY <2>4, <3>1, PopStep
    <2>5. CASE \/ FinRead(t) \/ FinAcquire(t) \/ FinCas(t) \/ FinRelease(t) \/ FinFull(t)
               \/ FinTimeout(t)
      BY <2>5, FinStep
    <2>6. CASE \/ Lock(t) \/ CloseState(t) \/ CloseExtend(t) \/ CloseCas(t)
               \/ CloseFull(t) \/ CapStore(t) \/ CapSlots(t)
      <3>1. t \in Controllers
        BY <2>1, <2>2, <2>6 DEF Local, Lock, CloseState, CloseExtend, CloseCas, CloseFull,
           CapStore, CapSlots, PushLabels, PopLabels, FinLabels
      <3> QED BY <2>6, <3>1, ControlStep
    <2> QED BY <1>5, <2>3, <2>4, <2>5, <2>6 DEF Continue, TimeOut
  <1> QED BY <1>1, <1>2, <1>3, <1>4, <1>5 DEF Next

LEMMA Invariance == Spec => []IInv
  BY InitIInv, NextIInv, PTL DEF Spec

\* The variables keep their types whatever the threads do.
THEOREM TypeCorrect == Spec => []TypeOK
  <1>1. IInv => TypeOK
    BY DEF IInv
  <1> QED BY Invariance, <1>1, PTL

\* No interleaving of pushes, pops, their failures, closing and resizing loses a
\* slot or makes one up, at either end.
THEOREM NoSlotIsLost == Spec => []SlotsConserved
  <1>1. IInv => SlotsConserved
    BY DEF IInv
  <1> QED BY Invariance, <1>1, PTL

\* A pop() that has claimed its items finds them in the container.
THEOREM ContainerNeverUnderflows == Spec => []NoUnderflow
  <1>1. IInv => NoUnderflow
    BY DEF IInv
  <1> QED BY Invariance, <1>1, PTL

\* A push() that stores its item finds room for it, in the largest of the
\* capacities.
THEOREM ContainerNeverOverflows == Spec => []NoOverflow
  <1>1. IInv => NoOverflow
    BY DEF IInv
  <1> QED BY Invariance, <1>1, PTL

\* The assertion of try_wait_empty_finalize_queue() never fails.
THEOREM VerifyNeverFails == Spec => []VerifyClosed
  <1>1. IInv => VerifyClosed
    BY DEF IInv, PhaseOK, VerifyClosed
  <1> QED BY Invariance, <1>1, PTL

-----------------------------------------------------------------------------
(* Finalization finds the queue drained *)

LEMMA InitSteady == Init => SteadyOK
  BY DEF Init, SteadyOK

\* Nothing but change_capacity() changes the capacity, and it does not while
\* anybody waits for all the tokens, unless the handler of a push throws.
LEMMA NextSteady ==
  ASSUME SteadyCapacity, IInv, SteadyOK, [Next]_vars
  PROVE  SteadyOK'
  <1>1. Local /\ PhaseOK
    BY DEF IInv
  <1> USE <1>1 DEF SteadyOK
  <1>2. CASE UNCHANGED vars
    BY <1>2 DEF vars
  <1>3. ASSUME NEW t \in Threads,
               \/ CallPush(t) \/ CallPop(t) \/ CallControl(t)
               \/ TimeOut(t) \/ PushAcquire(t) \/ PushCheck(t) \/ PushData(t)
               \/ PushPublish(t) \/ PushUndo(t)
               \/ PopAcquire(t) \/ PopCheck(t) \/ PopUndo(t) \/ PopData(t)
               \/ PopRelease(t) \/ PopState(t)
        PROVE  SteadyOK'
    BY <1>3 DEF CallPush, StartPush, CallPop, StartPop, CallControl, StartControl,
       TimeOut, PushTimeout, PopTimeout, FinTimeout, FinReturn, PushAcquire, FallAsleep,
       PushCheck, PushData, PushPublish, PushUndo, PopAcquire, PopCheck, PopUndo, PopData,
       PopRelease, PopState
  <1>4. ASSUME NEW t \in Threads,
               \/ FinRead(t) \/ FinAcquire(t) \/ FinCas(t) \/ FinRelease(t) \/ FinFull(t)
               \/ Lock(t) \/ CloseState(t) \/ CloseExtend(t) \/ CloseCas(t)
               \/ CloseFull(t) \/ CapSlots(t)
        PROVE  SteadyOK'
    <2>1. CASE FinRead(t)
      BY <2>1 DEF FinRead
    <2>2. CASE FinAcquire(t)
      BY <2>2 DEF FinAcquire, FallAsleep, FinReturn
    <2>3. CASE FinCas(t)
      BY <2>3 DEF FinCas
    <2>4. CASE FinRelease(t) \/ FinFull(t)
      BY <2>4 DEF FinRelease, FinFull, FinReturn
    <2>5. CASE Lock(t) \/ CloseExtend(t) \/ CloseFull(t) \/ CapSlots(t)
      BY <2>5 DEF Lock, CloseExtend, CloseFull, CapSlots, PhaseOK
    <2>6. CASE CloseState(t)
      BY <2>6 DEF CloseState
    <2>7. CASE CloseCas(t)
      BY <2>7 DEF CloseCas
    <2> QED BY <1>4, <2>1, <2>2, <2>3, <2>4, <2>5, <2>6, <2>7
  <1>5. ASSUME NEW t \in Threads, CapStore(t) PROVE SteadyOK'
    <2>1. CASE capacity' = capacity
      BY <1>5, <2>1 DEF CapStore
    <2>2. CASE capacity' # capacity
      <3>1. /\ state = "OPEN" /\ capacity \in Capacities /\ call[t].arg \in Capacities
            /\ capacity' = call[t].arg
        <4>1. pc[t] = "cap_store" /\ state = "OPEN" /\ capacity' = call[t].arg
          BY <1>5, <2>2 DEF CapStore
        <4>2. t \in Controllers
          BY <4>1 DEF RolesOK, PushLabels, PopLabels, FinLabels
        <4>3. call[t].op = "capacity"
          BY <4>1, <4>2 DEF RolesOK, CapLabels
        <4>4. call[t].arg \in Capacities
          BY <4>2, <4>3 DEF RolesOK
        <4> QED BY <4>1, <4>4 DEF TypeOK
      <3>2. ~HandlerThrows
        BY <2>2, <3>1 DEF SteadyCapacity
      <3>3. \A u \in Threads : pc'[u] \notin {"fin_acquire", "fin_cas"}
        BY <1>5, <2>2, <3>1, <3>2 DEF CapStore, PhaseOK
      <3> QED BY <1>5, <2>2, <3>1, <3>2, <3>3 DEF CapStore
    <2> QED BY <2>1, <2>2
  <1>6. CASE Next
    BY <1>3, <1>4, <1>5, <1>6 DEF Next, Continue
  <1> QED BY <1>2, <1>6

\* Whoever has got all the EMPTY tokens of a queue that is being closed holds
\* everything there is: no item is left and nobody is between the semaphores.
LEMMA AllTokensMeanDrained ==
  ASSUME IInv, SteadyOK, NEW t \in Threads, pc[t] = "fin_cas", state = "FINALIZING"
  PROVE  /\ items = 0
         /\ At({"push_data", "push_publish", "pop_data", "pop_release"}) = {}
  <1>1. Local /\ PhaseOK /\ RoomOK /\ SlotsConserved
    BY DEF IInv
  <1>2. Owed = 0
    BY <1>1 DEF Owed, PhaseOK
  <1>3. Extension = MaxAllowed /\ empty >= 0 /\ Phantoms = 0
    <2>1. Extension = MaxAllowed /\ Phantoms = 0
      BY <1>1 DEF Extension, Phantoms, PhaseOK, At
    <2>2. MaxAllowed # 0
      OBVIOUS
    <2> QED BY <1>1, <2>1, <2>2 DEF RoomOK
  <1>4. /\ held[t] = capacity + MaxAllowed /\ capacity \in Int /\ held[t] >= 0
        /\ empty \in Int /\ items \in Nat /\ full \in Nat
        /\ held \in [Threads -> Int]
    BY <1>1 DEF SteadyOK
  <1> DEFINE others == At(EmptyLabels) \ {t}
  <1>5. /\ Cardinality(Pairs(others, held)) \in Nat
        /\ EmptyInHand = Cardinality(Pairs(others, held)) + held[t]
    <2>1. Hand(t, EmptyLabels) = held[t] /\ Hand(t, EmptyLabels) >= 0
      BY <1>4
    <2>2. EmptyInHand = Cardinality(InHand(EmptyLabels))
      BY DEF EmptyInHand
    <2> HIDE DEF Hand, Local, EmptyLabels
    <2> QED BY <1>4, <2>1, <2>2, HandCounted
  <1>6. Cardinality(Pairs(others, held)) = 0 /\ items = 0
    <2>1. empty + EmptyInHand + items + Owed = capacity + Extension
      BY <1>1 DEF SlotsConserved
    <2> HIDE DEF Local, others
    <2> QED BY <1>2, <1>3, <1>4, <1>5, <2>1
  <1>7. At({"push_data", "pop_release"}) = {}
    <2> SUFFICES ASSUME NEW u \in At({"push_data", "pop_release"}) PROVE FALSE
      OBVIOUS
    <2>1. u \in others /\ others \in SUBSET Threads /\ held[u] >= 1
      BY <1>1 DEF At
    <2>2. held[u] <= 0
      BY <1>4, <1>6, <2>1, PairsEmpty
    <2>3. held[u] \in Int
      BY <1>4, <2>1
    <2> QED BY <2>1, <2>2, <2>3
  <1>8. /\ FullInHand \in Nat /\ Publishing \in Nat
        /\ FullInHand = Cardinality(Pairs(At(FullLabels), held))
        /\ At(FullLabels) \in SUBSET Threads /\ IsFiniteSet(At({"push_publish"}))
    <2>1. At(FullLabels) \in SUBSET Threads /\ At({"push_publish"}) \in SUBSET Threads
      BY DEF At
    <2>2. FullInHand = Cardinality(Pairs(At(FullLabels), held))
      BY DEF FullInHand, InHand, Pairs
    <2> QED BY <1>4, <2>1, <2>2, PairsFinite, FS_Subset, FS_CardinalityType DEF Publishing
  <1>9. FullInHand = 0 /\ Publishing = 0
    <2>1. full + FullInHand + Publishing = items + Phantoms
      BY <1>1 DEF SlotsConserved, Publishing
    <2> HIDE DEF Local
    <2> QED BY <1>3, <1>4, <1>6, <1>8, <2>1
  <1>10. At({"push_publish"}) = {}
    BY <1>8, <1>9, FS_EmptySet DEF Publishing
  <1>11. At({"pop_data"}) = {}
    <2> SUFFICES ASSUME NEW u \in At({"pop_data"}) PROVE FALSE
      OBVIOUS
    <2>1. u \in At(FullLabels) /\ held[u] >= 1 /\ held[u] \in Int
      BY <1>1 DEF At
    <2>2. held[u] <= 0
      BY <1>4, <1>8, <1>9, <2>1, PairsEmpty
    <2> QED BY <2>1, <2>2
  <1> QED BY <1>6, <1>7, <1>10, <1>11 DEF At

\* Finalization closes the pop end only of a drained queue, if no handler throws
\* or the capacity stays fixed.
THEOREM FinalizesDrained ==
  ASSUME SteadyCapacity
  PROVE  Spec => FinalizedWhenDrained
  <1>1. IInv /\ SteadyOK /\ [Next]_vars
          => [\A t \in Threads : FinCas(t) /\ state = "FINALIZING"
                => /\ items = 0
                   /\ At({"push_data", "push_publish", "pop_data", "pop_release"}) = {}]_vars
    BY AllTokensMeanDrained DEF FinCas
  <1>2. IInv /\ SteadyOK /\ [Next]_vars => SteadyOK'
    BY NextSteady
  <1> QED BY Invariance, InitSteady, <1>1, <1>2, PTL DEF Spec, FinalizedWhenDrained
==============================================================================
