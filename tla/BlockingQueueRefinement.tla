----------------------- MODULE BlockingQueueRefinement -----------------------
(***************************************************************************)
(* BlockingQueue implements ClosableQueue, for any finite sets of threads, *)
(* any capacities and any popping calls: the proof, step by step.          *)
(*                                                                         *)
(* A push is admitted by its second look at the state, a pop claims its    *)
(* items by its own; the room and the items are there because the          *)
(* inductive invariant of BlockingQueueProofs still holds after that step. *)
(* The steps that do not touch what a caller can see leave ClosableQueue   *)
(* where it is.                                                            *)
(***************************************************************************)
EXTENDS BlockingQueueProofs, WellFoundedInduction

Storers == At({"push_data"})
Claims == InHand({"pop_data"})
Closers == {t \in Threads : call[t].op = "close"}
Largest == CHOOSE c \in Capacities : \A d \in Capacities : d <= c

ClosableStep == [Closable!Next]_(Closable!vars)

-----------------------------------------------------------------------------
(* The largest capacity *)

\* A set of numbers up to N that has a member has a largest one.
LEMMA Maximum ==
  ASSUME NEW N \in Nat, NEW S \in SUBSET (1..N), S # {}
  PROVE  \E m \in S : \A s \in S : s <= m
  <1> DEFINE T == {N - s : s \in S}
             R == OpToRel(<, Nat)
  <1>1. T \in SUBSET Nat /\ T # {}
    <2>1. \A s \in S : N - s \in Nat
      OBVIOUS
    <2>2. T \subseteq Nat
      BY <2>1
    <2>3. PICK s \in S : TRUE
      OBVIOUS
    <2>4. N - s \in T
      OBVIOUS
    <2> HIDE DEF T
    <2> QED BY <2>2, <2>4
  <1>2. PICK x \in T : \A y \in T : ~(<<y, x>> \in R)
    <2> HIDE DEF T, R
    <2>1. IsWellFoundedOn(R, Nat)
      BY NatLessThanWellFounded DEF R
    <2> QED BY <1>1, <2>1, WFMin
  <1>3. \A y \in T : ~(y < x)
    BY <1>1, <1>2 DEF OpToRel
  <1>4. PICK m \in S : x = N - m
    OBVIOUS
  <1>5. \A s \in S : N - s \in T
    OBVIOUS
  <1> HIDE DEF T
  <1> QED BY <1>3, <1>4, <1>5

LEMMA LargestCapacity ==
  Largest \in Capacities /\ \A c \in Capacities : c <= Largest
  <1>1. \E m \in Capacities : \A c \in Capacities : c <= m
    <2>1. MaxAllowed \in Nat /\ Capacities \in SUBSET (1..MaxAllowed) /\ Capacities # {}
      BY CapacityAssumption
    <2> QED BY <2>1, Maximum
  <1> QED BY <1>1 DEF Largest

-----------------------------------------------------------------------------
(* What a step of one thread does to what ClosableQueue sees *)

LEMMA StorersStep ==
  ASSUME NEW t \in Threads, Alone(t)
  PROVE  /\ (pc[t] = "push_data" <=> pc'[t] = "push_data") => Storers' = Storers
         /\ pc'[t] = "push_data" => Storers' = Storers \cup {t}
         /\ pc'[t] # "push_data" => Storers' = Storers \ {t}
         /\ t \in Storers <=> pc[t] = "push_data"
  BY DEF Storers, At, Alone

LEMMA ClaimsStep ==
  ASSUME NEW t \in Threads, Alone(t)
  PROVE  /\ pc[t] # "pop_data" /\ pc'[t] # "pop_data" => Claims' = Claims
         /\ pc[t] # "pop_data" /\ pc'[t] = "pop_data"
              => Claims' = Claims \cup ({t} \X (1..held'[t]))
         /\ pc[t] = "pop_data" /\ pc'[t] # "pop_data"
              => Claims' = Claims \ ({t} \X (1..held[t]))
  BY DEF Claims, InHand, At, Alone

\* ClosableQueue counts as BlockingQueue does.
LEMMA SameCardinality ==
  ASSUME NEW S
  PROVE  Closable!Cardinality(S) = Cardinality(S)
  BY DEF Closable!Cardinality, Cardinality

LEMMA TakenByOne ==
  ASSUME NEW t \in Threads
  PROVE  Closable!TakenBy(t) = IF pc[t] = "pop_data" THEN {t} \X (1..held[t]) ELSE {}
  BY DEF Closable!TakenBy, InHand, At

\* A step that is neither a push's nor a pop's business, and does not change the
\* state, is a stutter, unless it begins or ends a call of close().
LEMMA QuietStep ==
  ASSUME NEW t \in Threads, Alone(t), TypeOK,
         {pc[t], pc'[t]} \cap {"push_data", "pop_data"} = {},
         UNCHANGED <<state, items>>,
         \A u \in Threads \ {t} : call'[u] = call[u],
         \/ call'[t].op = call[t].op
         \/ call[t].op # "close" /\ call'[t].op # "close"
         \/ call[t].op = "close" /\ call'[t].op # "close" /\ state = "CLOSED"
         \/ call[t].op # "close" /\ call'[t].op = "close"
  PROVE  ClosableStep
  <1>1. Storers' = Storers /\ Claims' = Claims
    BY StorersStep, ClaimsStep
  <1>2. CASE call[t].op = "close" <=> call'[t].op = "close"
    <2>1. Closers' = Closers
      BY <1>2 DEF Closers
    <2>2. UNCHANGED Closable!vars
      BY <1>1, <2>1 DEF Closable!vars, Storers, Claims, Closers
    <2> QED BY <2>2 DEF ClosableStep
  <1>3. CASE call[t].op = "close" /\ call'[t].op # "close" /\ state = "CLOSED"
    <2>1. t \in Closers /\ Closers' = Closers \ {t}
      BY <1>3 DEF Closers
    <2>2. Closable!ReturnClose(t)
      BY <1>1, <1>3, <2>1 DEF Closable!ReturnClose, Closers, Storers, Claims
    <2> QED BY <2>2 DEF ClosableStep, Closable!Next
  <1>4. CASE call[t].op # "close" /\ call'[t].op = "close"
    <2>1. t \notin Closers /\ Closers' = Closers \cup {t}
      BY <1>4 DEF Closers
    <2>2. Closable!CallClose(t)
      BY <1>1, <1>4, <2>1 DEF Closable!CallClose, Closers, Storers, Claims
    <2> QED BY <2>2 DEF ClosableStep, Closable!Next
  <1> QED BY <1>2, <1>3, <1>4

-----------------------------------------------------------------------------
(* Every step *)

\* push(): it is admitted when it sees the queue open with a slot in hand.
LEMMA PushRefines ==
  ASSUME IInv, IInv', NEW t \in Producers,
         \/ CallPush(t) \/ PushAcquire(t) \/ PushTimeout(t) \/ PushCheck(t)
         \/ PushData(t) \/ PushPublish(t) \/ PushUndo(t)
  PROVE  ClosableStep
  <1> DEFINE Bodies == {"push_data", "pop_data"}
  <1>1. /\ t \in Threads /\ TypeOK /\ Alone(t)
        /\ call[t].op # "close" /\ pc[t] # "pop_data"
    <2>1. Local /\ PhaseOK
      BY DEF IInv, Local
    <2>2. Alone(t)
      BY <2>1, PushLocal
    <2> QED BY <2>1, <2>2 DEF Local, RolesOK, PushLabels, FinLabels, Threads
  <1>2. ASSUME pc[t] \notin Bodies, pc'[t] \notin Bodies, UNCHANGED <<state, items>>,
               \/ call' = call
               \/ \E c : c.op # "close" /\ call' = [call EXCEPT ![t] = c]
        PROVE  ClosableStep
    <2>1. /\ \A u \in Threads \ {t} : call'[u] = call[u]
          /\ call'[t].op # "close"
      BY <1>1, <1>2 DEF TypeOK
    <2> QED BY <1>1, <1>2, <2>1, QuietStep
  <1>3. CASE CallPush(t) \/ PushAcquire(t) \/ PushTimeout(t) \/ PushPublish(t) \/ PushUndo(t)
    <2>1. /\ pc[t] \notin Bodies /\ pc'[t] \notin Bodies /\ UNCHANGED <<state, items>>
          /\ \/ call' = call
             \/ \E c : c.op # "close" /\ call' = [call EXCEPT ![t] = c]
      <3>1. NoCall.op # "close"
        BY DEF NoCall
      <3> QED BY <1>1, <1>3, <3>1
          DEF TypeOK, CallPush, StartPush, PushAcquire, FallAsleep, PushTimeout, PushPublish,
              PushUndo, Goto, Forget, Finish
    <2> QED BY <1>2, <2>1
  <1>4. CASE PushCheck(t)
    <2>1. CASE state = "OPEN" /\ held[t] # 0
      <3>1. /\ pc[t] = "push_check" /\ pc'[t] = "push_data"
            /\ UNCHANGED <<state, items, call>>
        BY <1>1, <1>4, <2>1 DEF PushCheck, Goto, TypeOK
      <3>2. /\ Storers' = Storers \cup {t} /\ t \notin Storers /\ Claims' = Claims
            /\ Closers' = Closers
        BY <1>1, <3>1, StorersStep, ClaimsStep DEF Closers
      <3>3. Cardinality(Storers) \in Nat /\ Cardinality(Storers') = Cardinality(Storers) + 1
        BY <1>1, <3>1, HereStep DEF Here, Storers
      <3>4. PICK c \in Capacities : items' + Cardinality(Storers') <= c
        BY DEF IInv, NoOverflow, Storers
      <3>5. items + Cardinality(Storers) < Largest
        BY <1>1, <3>1, <3>3, <3>4, LargestCapacity, CapacityAssumption DEF TypeOK
      <3>6. Closable!TakenBy(t) = {}
        BY <1>1, <3>1, TakenByOne
      <3>7. Closable!Admit(t)
        BY <2>1, <3>1, <3>2, <3>5, <3>6, SameCardinality DEF Closable!Admit, Storers, Claims, Closers, Largest
      <3> QED BY <1>1, <3>7 DEF ClosableStep, Closable!Next
    <2>2. CASE ~(state = "OPEN" /\ held[t] # 0)
      <3>1. /\ pc[t] \notin Bodies /\ pc'[t] \notin Bodies /\ UNCHANGED <<state, items>>
            /\ \/ call' = call
               \/ call' = [call EXCEPT ![t] = NoCall] /\ NoCall.op # "close"
        BY <1>1, <1>4, <2>2 DEF TypeOK, PushCheck, Goto, Forget, Finish, NoCall
      <3> QED BY <1>2, <3>1
    <2> QED BY <2>1, <2>2
  <1>5. CASE PushData(t)
    <2>1. /\ pc[t] = "push_data" /\ pc'[t] \in {"push_publish", "push_undo"}
          /\ UNCHANGED <<state, call>> /\ items' \in {items, items + 1}
      BY <1>1, <1>5 DEF PushData, Goto, TypeOK
    <2>2. /\ Storers' = Storers \ {t} /\ t \in Storers /\ Claims' = Claims
          /\ Closers' = Closers
      BY <1>1, <2>1, StorersStep, ClaimsStep DEF Closers
    <2>3. Closable!Store(t) \/ Closable!Fail(t)
      BY <2>1, <2>2 DEF Closable!Store, Closable!Fail, Storers, Claims, Closers
    <2> QED BY <1>1, <2>3 DEF ClosableStep, Closable!Next
  <1> QED BY <1>3, <1>4, <1>5

\* pop(): it claims the items when it sees the queue not closed with tokens in
\* hand, and takes those it has claimed.
LEMMA PopRefines ==
  ASSUME IInv, IInv', NEW t \in Consumers,
         \/ CallPop(t) \/ PopAcquire(t) \/ PopTimeout(t) \/ PopCheck(t)
         \/ PopUndo(t) \/ PopData(t) \/ PopRelease(t) \/ PopState(t)
  PROVE  ClosableStep
  <1> DEFINE Bodies == {"push_data", "pop_data"}
  <1>1. /\ t \in Threads /\ TypeOK
        /\ call[t].op # "close" /\ pc[t] # "push_data"
    BY DEF IInv, TypeOK, RolesOK, PopLabels, FinLabels, Threads
  <1>2. Alone(t)
    <2>1. Local /\ PhaseOK
      BY DEF IInv, Local
    <2>2. PopData(t) => held[t] <= items
      BY <1>1, PopHasItems DEF PopData, IInv
    <2> QED BY <2>1, <2>2, PopLocal
  <1>3. ASSUME pc[t] \notin Bodies, pc'[t] \notin Bodies, UNCHANGED <<state, items>>,
               \/ call' = call
               \/ \E c : c.op # "close" /\ call' = [call EXCEPT ![t] = c]
        PROVE  ClosableStep
    <2>1. /\ \A u \in Threads \ {t} : call'[u] = call[u]
          /\ call'[t].op # "close"
      BY <1>1, <1>3 DEF TypeOK
    <2> QED BY <1>1, <1>2, <1>3, <2>1, QuietStep
  <1>4. CASE \/ CallPop(t) \/ PopAcquire(t) \/ PopTimeout(t) \/ PopUndo(t) \/ PopRelease(t)
             \/ PopState(t)
    <2>1. /\ pc[t] \notin Bodies /\ pc'[t] \notin Bodies /\ UNCHANGED <<state, items>>
          /\ \/ call' = call
             \/ \E c : c.op # "close" /\ call' = [call EXCEPT ![t] = c]
      <3>1. NoCall.op # "close"
        BY DEF NoCall
      <3> QED BY <1>1, <1>4, <3>1
          DEF TypeOK, CallPop, StartPop, PopAcquire, FallAsleep, PopTimeout, PopUndo,
              PopRelease, PopState, Goto, Forget, Finish
    <2> QED BY <1>3, <2>1
  <1>5. CASE PopCheck(t)
    <2>1. CASE state # "CLOSED" /\ held[t] # 0
      <3>1. /\ pc[t] = "pop_check" /\ pc'[t] = "pop_data" /\ held' = held
            /\ UNCHANGED <<state, items, call>>
        BY <1>1, <1>5, <2>1 DEF PopCheck, Goto, TypeOK
      <3>2. /\ Storers' = Storers /\ Closers' = Closers /\ t \notin Storers
            /\ Claims' = Claims \cup ({t} \X (1..held[t]))
        BY <1>1, <1>2, <3>1, StorersStep, ClaimsStep DEF Closers
      <3>3. held \in [Threads -> Int] /\ held' \in [Threads -> Int] /\ held[t] >= 1
        BY <1>1, <2>1, <3>1 DEF IInv, HeldOK, TypeOK
      <3>4. Cardinality(Claims) \in Nat
            /\ Cardinality(Claims') = Cardinality(Claims) + held[t]
        <4>1. Hand(t, {"pop_data"}) = 0 /\ Hand(t, {"pop_data"})' = held[t]
          BY <3>1 DEF Hand
        <4>2. /\ Cardinality(Claims) \in Nat
              /\ Cardinality(Claims') = Cardinality(Claims) - Hand(t, {"pop_data"})
                                          + Hand(t, {"pop_data"})'
          <5>1. Hand(t, {"pop_data"}) >= 0 /\ Hand(t, {"pop_data"})' >= 0
            BY <1>1, <3>1, <3>3 DEF Hand
          <5> HIDE DEF Hand
          <5> QED BY <1>1, <1>2, <3>3, <5>1, HandStep DEF Claims
        <4> HIDE DEF Hand
        <4> QED BY <3>3, <4>1, <4>2
      <3>5. Cardinality(Claims') <= items
        BY <3>1 DEF IInv, NoUnderflow, Claims
      <3>6. held[t] \in 1..(items - Cardinality(Claims))
        BY <1>1, <3>3, <3>4, <3>5 DEF TypeOK
      <3>7. Closable!TakenBy(t) = {}
        BY <1>1, <3>1, TakenByOne
      <3>8. Closable!Claim(t)
        BY <2>1, <3>1, <3>2, <3>6, <3>7, SameCardinality DEF Closable!Claim, Storers, Claims, Closers
      <3> QED BY <1>1, <3>8 DEF ClosableStep, Closable!Next
    <2>2. CASE ~(state # "CLOSED" /\ held[t] # 0)
      <3>1. /\ pc[t] \notin Bodies /\ pc'[t] \notin Bodies /\ UNCHANGED <<state, items>>
            /\ \/ call' = call
               \/ call' = [call EXCEPT ![t] = NoCall] /\ NoCall.op # "close"
        BY <1>1, <1>5, <2>2 DEF TypeOK, PopCheck, Goto, Forget, Finish, NoCall
      <3> QED BY <1>3, <3>1
    <2> QED BY <2>1, <2>2
  <1>6. CASE PopData(t)
    <2>1. /\ pc[t] = "pop_data" /\ pc'[t] = "pop_release" /\ items' = items - held[t]
          /\ UNCHANGED <<state, call>>
      BY <1>1, <1>6 DEF PopData, Goto, TypeOK
    <2>2. /\ Storers' = Storers /\ Closers' = Closers
          /\ Claims' = Claims \ ({t} \X (1..held[t]))
      BY <1>1, <1>2, <2>1, StorersStep, ClaimsStep DEF Closers
    <2>3. held[t] \in Nat /\ held[t] >= 1
      BY <1>1, <2>1 DEF IInv, HeldOK, TypeOK
    <2>4. /\ Closable!TakenBy(t) = {t} \X (1..held[t])
          /\ Closable!TakenBy(t) # {}
      <3>1. Closable!TakenBy(t) = {t} \X (1..held[t])
        BY <1>1, <2>1, TakenByOne
      <3>2. <<t, 1>> \in {t} \X (1..held[t])
        BY <2>3
      <3> QED BY <3>1, <3>2
    <2>5. Cardinality(Closable!TakenBy(t)) = held[t]
      <3>1. IsFiniteSet({t}) /\ Cardinality({t}) = 1
        BY FS_Singleton
      <3>2. IsFiniteSet(1..held[t]) /\ Cardinality(1..held[t]) = held[t]
        <4>1. held[t] \in Int /\ 1 \in Int /\ held[t] - 1 + 1 = held[t] /\ ~(1 > held[t])
          BY <2>3
        <4>2. /\ IsFiniteSet(1..held[t])
              /\ Cardinality(1..held[t]) = IF 1 > held[t] THEN 0 ELSE held[t] - 1 + 1
          BY <4>1, FS_Interval, Zenon
        <4> QED BY <4>1, <4>2
      <3>3. Cardinality({t} \X (1..held[t])) = held[t]
        <4>1. Cardinality({t} \X (1..held[t])) = Cardinality({t}) * Cardinality(1..held[t])
          BY <3>1, <3>2, FS_Product
        <4> QED BY <2>3, <3>1, <3>2, <4>1
      <3> QED BY <2>4, <3>3, Zenon
    <2>6. Closable!Take(t)
      BY <2>1, <2>2, <2>4, <2>5, SameCardinality DEF Closable!Take, Storers, Claims, Closers
    <2> QED BY <1>1, <2>6 DEF ClosableStep, Closable!Next
  <1> QED BY <1>4, <1>5, <1>6

\* Finalization: its winner closes a drained queue; a call of close() that ends
\* here ends in CLOSED.
LEMMA FinRefines ==
  ASSUME SteadyCapacity, IInv, SteadyOK, NEW t \in Threads,
         \/ FinRead(t) \/ FinAcquire(t) \/ FinTimeout(t) \/ FinCas(t)
         \/ FinRelease(t) \/ FinFull(t)
  PROVE  ClosableStep
  <1> DEFINE Bodies == {"push_data", "pop_data"}
  <1>1. TypeOK /\ PhaseOK /\ Local
    BY DEF IInv, Local
  <1>2. Alone(t)
    BY <1>1, FinLocal
  <1>3. pc[t] \notin Bodies /\ pc'[t] \notin Bodies /\ items' = items
    BY <1>1 DEF TypeOK, FinRead, FinAcquire, FallAsleep, FinTimeout, FinCas, FinRelease,
       FinFull, FinReturn, Finish, Goto
  <1>4. CASE FinCas(t) /\ state = "FINALIZING"
    <2>1. /\ state' = "CLOSED" /\ call' = call /\ pc[t] = "fin_cas"
      BY <1>4 DEF FinCas
    <2>2. Storers' = Storers /\ Claims' = Claims /\ Closers' = Closers
      BY <1>2, <1>3, <2>1, StorersStep, ClaimsStep DEF Closers
    <2>3. items = 0 /\ Storers = {} /\ Claims = {}
      <3>1. /\ items = 0
            /\ At({"push_data", "push_publish", "pop_data", "pop_release"}) = {}
        BY <1>4, <2>1, AllTokensMeanDrained
      <3> QED BY <3>1 DEF Storers, Claims, InHand, At
    <2>4. Closable!CloseDrained
      BY <1>3, <1>4, <2>1, <2>2, <2>3 DEF Closable!CloseDrained, Storers, Claims, Closers
    <2> QED BY <2>4 DEF ClosableStep, Closable!Next
  <1>5. CASE FinRead(t) \/ FinAcquire(t) \/ FinTimeout(t) \/ (FinCas(t) /\ state # "FINALIZING")
    <2>1. state' = state
      BY <1>5 DEF FinRead, FinAcquire, FallAsleep, FinTimeout, FinCas
    <2>2. /\ \A u \in Threads \ {t} : call'[u] = call[u]
          /\ \/ call'[t].op = call[t].op
             \/ call[t].op # "close" /\ call'[t].op # "close"
      <3>1. \/ call' = call
            \/ call[t].op # "close" /\ call' = [call EXCEPT ![t] = NoCall]
        BY <1>5 DEF FinRead, FinAcquire, FallAsleep, FinTimeout, FinCas, FinReturn, Finish,
           Forget
      <3> QED BY <1>1, <3>1 DEF TypeOK, NoCall
    <2> QED BY <1>1, <1>2, <1>3, <2>1, <2>2, QuietStep
  <1>6. CASE FinRelease(t) \/ FinFull(t)
    <2>1. state' = state /\ state = "CLOSED"
      BY <1>1, <1>6 DEF FinRelease, FinFull, PhaseOK
    <2>2. call' = call \/ call' = [call EXCEPT ![t] = NoCall]
      BY <1>6 DEF FinRelease, FinFull, FinReturn, Finish, Forget
    <2>3. /\ \A u \in Threads \ {t} : call'[u] = call[u]
          /\ call'[t].op = call[t].op \/ call'[t].op # "close"
      BY <1>1, <2>2 DEF TypeOK, NoCall
    <2> QED BY <1>1, <1>2, <1>3, <2>1, <2>3, QuietStep
  <1> QED BY <1>4, <1>5, <1>6

\* close() closes the push end first, and the pop end at once if the queue is
\* not drained; the other calls do not close the pop end here.
LEMMA ControlRefines ==
  ASSUME IInv, NEW t \in Controllers,
         \/ CallControl(t) \/ Lock(t) \/ CloseState(t) \/ CloseExtend(t)
         \/ CloseCas(t) \/ CloseFull(t) \/ CapStore(t) \/ CapSlots(t)
  PROVE  ClosableStep
  <1> DEFINE Bodies == {"push_data", "pop_data"}
  <1>1. TypeOK /\ PhaseOK /\ RolesOK /\ Local /\ t \in Threads
    BY DEF IInv, Local, Threads
  <1>2. Alone(t)
    BY <1>1, ControlLocal
  <1>3. pc[t] \notin Bodies /\ pc'[t] \notin Bodies /\ items' = items
    BY <1>1 DEF TypeOK, CallControl, StartControl, Lock, CloseState, CloseExtend,
       CloseCas, CloseFull, CapStore, CapSlots, Finish, Goto
  <1>4. CASE CallControl(t)
    <2>1. /\ state' = state /\ pc[t] = "idle"
          /\ \E c : call' = [call EXCEPT ![t] = c]
      BY <1>4 DEF CallControl, StartControl
    <2>2. call[t].op # "close" /\ \A u \in Threads \ {t} : call'[u] = call[u]
      BY <1>1, <2>1 DEF RolesOK, TypeOK
    <2> QED BY <1>1, <1>2, <1>3, <2>1, <2>2, QuietStep
  <1>5. CASE Lock(t) \/ CloseExtend(t)
    <2>1. state' = state /\ call' = call
      BY <1>5 DEF Lock, CloseExtend
    <2> QED BY <1>1, <1>2, <1>3, <2>1, QuietStep
  <1>6. CASE CapStore(t) \/ CapSlots(t)
    <2>1. call[t].op # "close"
      BY <1>1, <1>6 DEF CapStore, CapSlots, RolesOK, CapLabels
    <2>2. state' = state /\ (call' = call \/ call' = [call EXCEPT ![t] = NoCall])
      BY <1>6 DEF CapStore, CapSlots, Finish, Forget
    <2>3. /\ \A u \in Threads \ {t} : call'[u] = call[u]
          /\ call'[t].op # "close"
      BY <1>1, <2>1, <2>2 DEF TypeOK, NoCall
    <2> QED BY <1>1, <1>2, <1>3, <2>1, <2>2, <2>3, QuietStep
  <1>7. CASE CloseState(t) \/ CloseCas(t) \/ CloseFull(t)
    <2>1. CASE state' # state
      <3>1. call' = call
        BY <1>7, <2>1 DEF CloseState, CloseCas, CloseFull
      <3>2. Storers' = Storers /\ Claims' = Claims /\ Closers' = Closers
        BY <1>1, <1>2, <1>3, <3>1, StorersStep, ClaimsStep DEF Closers
      <3>3. CASE CloseState(t)
        <4>1. state = "OPEN" /\ state' = "FINALIZING"
          BY <2>1, <3>3 DEF CloseState
        <4>2. Closable!ClosePush
          BY <1>3, <3>2, <4>1 DEF Closable!ClosePush, Storers, Claims, Closers
        <4> QED BY <4>2 DEF ClosableStep, Closable!Next
      <3>4. CASE CloseCas(t)
        <4>1. pc[t] = "close_cas" /\ state' = "CLOSED"
          BY <2>1, <3>4 DEF CloseCas
        <4>2. state = "FINALIZING" /\ t \in Closers
          BY <1>1, <2>1, <4>1 DEF TypeOK, States, PhaseOK, RolesOK, Closers
        <4>3. Closable!CloseNow
          BY <1>3, <3>2, <4>1, <4>2 DEF Closable!CloseNow, Storers, Claims, Closers
        <4> QED BY <4>3 DEF ClosableStep, Closable!Next
      <3> QED BY <1>7, <2>1, <3>3, <3>4 DEF CloseFull
    <2>2. CASE state' = state
      <3>1. \/ call' = call
            \/ call' = [call EXCEPT ![t] = NoCall] /\ state = "CLOSED"
        BY <1>1, <1>7, <2>2 DEF CloseState, CloseCas, CloseFull, Finish, Forget, PhaseOK
      <3>2. /\ \A u \in Threads \ {t} : call'[u] = call[u]
            /\ \/ call'[t].op = call[t].op
               \/ call'[t].op # "close" /\ state = "CLOSED"
        BY <1>1, <3>1 DEF TypeOK, NoCall
      <3> QED BY <1>1, <1>2, <1>3, <2>2, <3>2, QuietStep
    <2> QED BY <2>1, <2>2
  <1> QED BY <1>4, <1>5, <1>6, <1>7

LEMMA InitRefines == Init => Closable!Init
  <1> SUFFICES ASSUME Init PROVE Closable!Init
    OBVIOUS
  <1>1. Storers = {} /\ Claims = {} /\ Closers = {}
    BY DEF Init, Storers, Claims, Closers, At, InHand, NoCall
  <1> QED BY <1>1 DEF Init, Closable!Init, Storers, Claims, Closers

LEMMA NextRefines ==
  ASSUME SteadyCapacity, IInv, IInv', SteadyOK, [Next]_vars
  PROVE  ClosableStep
  <1>1. CASE UNCHANGED vars
    <2>1. UNCHANGED Closable!vars
      BY <1>1 DEF vars, Closable!vars, At, InHand
    <2> QED BY <2>1 DEF ClosableStep
  <1>2. ASSUME NEW t \in Threads, Continue(t) \/ TimeOut(t) PROVE ClosableStep
    <2>1. /\ t \in Producers \/ t \in Consumers \/ t \in Controllers
          /\ RolesOK
      BY DEF IInv, Threads
    <2>2. CASE \/ PushAcquire(t) \/ PushCheck(t) \/ PushData(t) \/ PushPublish(t)
               \/ PushUndo(t) \/ PushTimeout(t)
      <3>1. t \in Producers
        BY <2>1, <2>2 DEF RolesOK, PushAcquire, PushCheck, PushData, PushPublish,
           PushUndo, PushTimeout, PopLabels, CloseLabels, CapLabels, FinLabels
      <3> QED BY <2>2, <3>1, PushRefines
    <2>3. CASE \/ PopAcquire(t) \/ PopCheck(t) \/ PopUndo(t) \/ PopData(t)
               \/ PopRelease(t) \/ PopState(t) \/ PopTimeout(t)
      <3>1. t \in Consumers
        BY <2>1, <2>3 DEF RolesOK, PopAcquire, PopCheck, PopUndo, PopData,
           PopRelease, PopState, PopTimeout, PushLabels, CloseLabels, CapLabels, FinLabels
      <3> QED BY <2>3, <3>1, PopRefines
    <2>4. CASE \/ FinRead(t) \/ FinAcquire(t) \/ FinCas(t) \/ FinRelease(t) \/ FinFull(t)
               \/ FinTimeout(t)
      BY <2>4, FinRefines
    <2>5. CASE \/ Lock(t) \/ CloseState(t) \/ CloseExtend(t) \/ CloseCas(t)
               \/ CloseFull(t) \/ CapStore(t) \/ CapSlots(t)
      <3>1. t \in Controllers
        BY <2>1, <2>5 DEF RolesOK, Lock, CloseState, CloseExtend, CloseCas, CloseFull,
           CapStore, CapSlots, PushLabels, PopLabels, FinLabels
      <3> QED BY <2>5, <3>1, ControlRefines
    <2> QED BY <1>2, <2>2, <2>3, <2>4, <2>5 DEF Continue, TimeOut
  <1>3. CASE Next
    BY <1>2, <1>3, PushRefines, PopRefines, ControlRefines DEF Next
  <1> QED BY <1>1, <1>3

\* The queue between its two semaphores keeps what ClosableQueue promises to the
\* callers, if no handler throws or the capacity stays fixed.
THEOREM QueueRefinesClosable ==
  ASSUME SteadyCapacity
  PROVE  Spec => ImplementsClosable
  <1>1. IInv /\ IInv' /\ SteadyOK /\ [Next]_vars => [Closable!Next]_(Closable!vars)
    BY NextRefines DEF ClosableStep
  <1>2. IInv /\ SteadyOK /\ [Next]_vars => SteadyOK'
    BY NextSteady
  <1> QED BY Invariance, InitSteady, InitRefines, <1>1, <1>2, PTL
          DEF Spec, ImplementsClosable, Closable!Spec
==============================================================================
