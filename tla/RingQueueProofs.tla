--------------------------- MODULE RingQueueProofs ---------------------------
(***************************************************************************)
(* Proofs about RingQueue for any finite sets of threads, any capacity and *)
(* any ring that is large enough for it.                                   *)
(*                                                                         *)
(* The tokens alone keep the positions within one lap of each other,       *)
(* whoever calls.  That an item stays in its slot until it is moved out    *)
(* and destroyed needs more: the live positions have to fit into one lap,  *)
(* and they do so only if nobody claims new ones while older ones are      *)
(* still in use.  With one consumer nobody does; RingTwoConsumers.cfg is   *)
(* the counterexample with two.                                            *)
(***************************************************************************)
EXTENDS RingQueue, HandCounting, WellFoundedInduction

OneConsumer == \A a, b \in Consumers : a = b

-----------------------------------------------------------------------------
(* The inductive invariant *)

At(labels) == {t \in Threads : pc[t] \in labels}
InHand(labels) == Pairs(At(labels), count)

Using == {"move", "destroy", "release"}

\* Who is where, and has something in hand there.
PlacesOK ==
    /\ \A p \in Producers : /\ pc[p] \in {"idle", "push", "publish"}
                            /\ count[p] = 0 /\ todo[p] = {}
    /\ \A c \in Consumers : /\ pc[c] \in {"idle", "claim"} \cup Using
                            /\ pc[c] = "idle" <=> count[c] = 0
                            /\ pc[c] \in {"move", "destroy"} <=> todo[c] # {}
                            /\ \A i \in todo[c] : i < deq

\* The tokens: each one is in a semaphore, in hand, or stands for an item.
TokensOK ==
    /\ empty + Cardinality(At({"push"})) + Cardinality(InHand(Using)) + (enq - deq)
         = Capacity
    /\ full + Cardinality(At({"publish"})) + Cardinality(InHand({"claim"})) = enq - deq
    /\ enq + Cardinality(At({"push"})) <= MaxPushes

TokenInv == TypeOK /\ PlacesOK /\ TokensOK

\* The positions of the items pushed and not destroyed yet.
Live == deq..(enq - 1) \cup UNION {todo[c] : c \in Consumers}

\* What a consumer has not emptied is among the last positions claimed.
LastClaimed == \A c \in Consumers : \A i \in todo[c] : deq - count[c] <= i

\* The items are in their slots, and there is nothing else in the ring.
SlotsOK == /\ \A i \in Live : slots[SlotOf(i)] = i
           /\ \A s \in 0..(Size - 1) :
                  slots[s] # Raw => slots[s] \in Live /\ SlotOf(slots[s]) = s

IInv == TokenInv /\ LastClaimed /\ SlotsOK

-----------------------------------------------------------------------------
(* Slots and positions *)

USE RingAssumption

LEMMA Quotient ==
  ASSUME NEW a \in Nat, NEW b \in Nat \ {0}
  PROVE  a = (b * (a \div b)) + (a % b)
  OBVIOUS

\* Two multiples of b are at least b apart.
LEMMA Multiples ==
  ASSUME NEW b \in Nat \ {0}, NEW p \in Int, NEW q \in Int, b * p < b * q
  PROVE  b <= (b * q) - (b * p)
  <1> DEFINE d == q - p
  <1>1. p < q
    OBVIOUS
  <1>2. b * q = (b * p) + (b * d)
    OBVIOUS
  <1>3. b * d >= b
    BY <1>1
  <1> QED BY <1>2, <1>3

\* A slot is used again one lap later at the earliest.
LEMMA SameSlot ==
  ASSUME NEW i \in Nat, NEW j \in Nat, i < j, SlotOf(i) = SlotOf(j)
  PROVE  j >= i + Size
  <1> DEFINE p == i \div Size
             q == j \div Size
  <1>1. i = (Size * p) + (i % Size) /\ j = (Size * q) + (j % Size)
    BY Quotient
  <1>2. i % Size = j % Size
    BY DEF SlotOf
  <1>3. Size * p < Size * q
    BY <1>1, <1>2
  <1>4. Size <= (Size * q) - (Size * p)
    BY <1>3, Multiples
  <1> QED BY <1>1, <1>2, <1>4

LEMMA SlotRange ==
  ASSUME NEW i \in Nat
  PROVE  SlotOf(i) \in 0..(Size - 1)
  BY DEF SlotOf

\* The first one of some positions is one of them.
LEMMA FirstPosition ==
  ASSUME NEW S \in SUBSET Nat, S # {}
  PROVE  First(S) \in S /\ \A i \in S : First(S) <= i
  <1> DEFINE R == OpToRel(<, Nat)
  <1>1. PICK m \in S : \A i \in S : ~(<<i, m>> \in R)
    <2> HIDE DEF R
    <2>1. IsWellFoundedOn(R, Nat)
      BY NatLessThanWellFounded DEF R
    <2> QED BY <2>1, WFMin
  <1>2. \A i \in S : ~(i < m)
    BY <1>1 DEF OpToRel
  <1>3. \A i \in S : m <= i
    BY <1>2
  <1> QED BY <1>3 DEF First

-----------------------------------------------------------------------------
(* The steps of one thread and the tokens *)

\* A step of t: no other thread goes anywhere.
Alone(t) == \A u \in Threads \ {t} : pc'[u] = pc[u] /\ count'[u] = count[u]

Hand(t, L) == IF pc[t] \in L THEN count[t] ELSE 0
Here(t, L) == IF pc[t] \in L THEN 1 ELSE 0

LEMMA ThreadsFinite == IsFiniteSet(Threads)
  BY FS_Union DEF Threads

LEMMA InHandFinite ==
  ASSUME NEW L, count \in [Threads -> Nat]
  PROVE  Cardinality(InHand(L)) \in Nat /\ Cardinality(At(L)) \in Nat
  <1>1. At(L) \in SUBSET Threads /\ count \in [Threads -> Int]
    BY DEF At
  <1> QED BY <1>1, ThreadsFinite, PairsFinite, FS_Subset, FS_CardinalityType DEF InHand

\* A step of t alone changes what is in hand by what t has in hand.
LEMMA HandStep ==
  ASSUME NEW L, NEW t \in Threads, count \in [Threads -> Nat],
         count' \in [Threads -> Nat], Alone(t)
  PROVE  /\ Cardinality(InHand(L)) \in Nat /\ Cardinality(InHand(L)') \in Nat
         /\ Hand(t, L) <= Cardinality(InHand(L))
         /\ Hand(t, L)' <= Cardinality(InHand(L)')
         /\ Cardinality(InHand(L)') = Cardinality(InHand(L)) - Hand(t, L) + Hand(t, L)'
  <1> DEFINE rest == Cardinality(Pairs(At(L) \ {t}, count))
  <1>0. count \in [Threads -> Int] /\ count' \in [Threads -> Int]
        /\ count[t] >= 0 /\ count'[t] >= 0
    OBVIOUS
  <1>1. /\ Cardinality(InHand(L)) \in Nat /\ rest \in Nat
        /\ Cardinality(InHand(L)) = rest + Hand(t, L)
    <2>1. At(L) \in SUBSET Threads /\ (t \in At(L) <=> pc[t] \in L)
      BY DEF At
    <2>2. InHand(L) = Pairs(At(L), count)
      BY DEF InHand
    <2>3. Cardinality(Pairs(At(L), count)) \in Nat /\ rest \in Nat
      BY <1>0, <2>1, ThreadsFinite, PairsFinite
    <2>4. CASE t \in At(L)
      BY <1>0, <2>1, <2>2, <2>3, <2>4, ThreadsFinite, PairsSplit DEF Hand
    <2>5. CASE t \notin At(L)
      <3>1. At(L) \ {t} = At(L)
        BY <2>5
      <3>2. rest = Cardinality(Pairs(At(L), count))
        BY <3>1, Zenon
      <3> QED BY <2>1, <2>2, <2>3, <2>5, <3>2 DEF Hand
    <2> QED BY <2>4, <2>5
  <1>2. /\ Cardinality(InHand(L)') \in Nat /\ rest' \in Nat
        /\ Cardinality(InHand(L)') = rest' + Hand(t, L)'
    <2>1. At(L)' \in SUBSET Threads /\ (t \in At(L)' <=> pc'[t] \in L)
      BY DEF At
    <2>2. InHand(L)' = Pairs(At(L)', count')
      BY DEF InHand, Pairs
    <2>3. rest' = Cardinality(Pairs(At(L)' \ {t}, count'))
      BY DEF Pairs
    <2>4. Cardinality(Pairs(At(L)', count')) \in Nat /\ rest' \in Nat
      BY <1>0, <2>1, <2>3, ThreadsFinite, PairsFinite
    <2>5. CASE t \in At(L)'
      BY <1>0, <2>1, <2>2, <2>3, <2>4, <2>5, ThreadsFinite, PairsSplit DEF Hand
    <2>6. CASE t \notin At(L)'
      BY <1>0, <2>1, <2>2, <2>3, <2>4, <2>6, ThreadsFinite, PairsSplit DEF Hand
    <2> QED BY <2>5, <2>6
  <1>3. rest' = rest
    <2>1. Pairs(At(L) \ {t}, count)' = Pairs(At(L) \ {t}, count)
      BY DEF Pairs, At, Alone
    <2> QED BY <2>1, Zenon
  <1>4. Hand(t, L) \in Int /\ Hand(t, L)' \in Int
    BY DEF Hand
  <1> HIDE DEF rest
  <1> QED BY <1>1, <1>2, <1>3, <1>4 DEF Hand

\* A step of t alone changes the number of threads at some labels by t.
LEMMA HereStep ==
  ASSUME NEW L, NEW t \in Threads, Alone(t)
  PROVE  /\ Cardinality(At(L)) \in Nat /\ Cardinality(At(L)') \in Nat
         /\ Here(t, L) <= Cardinality(At(L))
         /\ Cardinality(At(L)') = Cardinality(At(L)) - Here(t, L) + Here(t, L)'
  <1>1. /\ At(L) \in SUBSET Threads /\ (t \in At(L) <=> pc[t] \in L)
        /\ At(L)' \in SUBSET Threads /\ (t \in At(L)' <=> pc'[t] \in L)
    BY DEF At
  <1>2. At(L) \ {t} = At(L)' \ {t}
    BY DEF At, Alone
  <1> QED BY <1>1, <1>2, ThreadsFinite, MembersStep DEF Here

Labels == {"idle", "push", "publish", "claim", "move", "destroy", "release"}

\* What a thread is and has at its place.
Local == /\ pc \in [Threads -> Labels]
         /\ count \in [Threads -> Nat]
         /\ todo \in [Threads -> SUBSET Nat]
         /\ empty \in Nat /\ full \in Nat /\ enq \in Nat /\ deq \in Nat
         /\ slots \in [0..(Size - 1) -> Nat \cup {Raw}]
         /\ PlacesOK

LEMMA TokenInvLocal == ASSUME TokenInv PROVE Local
  BY DEF TokenInv, TypeOK, Local, Labels, Raw

\* The tokens keep every number within its bounds.
LEMMA Bounds ==
  ASSUME Local, NEW t \in Threads,
         Cardinality(At({"push"})) \in Nat, Cardinality(At({"publish"})) \in Nat,
         Cardinality(InHand({"claim"})) \in Nat, Cardinality(InHand(Using)) \in Nat,
         TokensOK
  PROVE  /\ empty \in 0..Capacity /\ full \in 0..Capacity
         /\ deq <= enq /\ enq \in 0..MaxPushes /\ deq \in 0..MaxPushes
         /\ enq + Cardinality(At({"push"})) - deq <= Capacity
         /\ Cardinality(InHand({"claim"})) <= Capacity
         /\ Cardinality(InHand(Using)) <= Capacity
         /\ Cardinality(InHand({"claim"})) <= enq - deq
         /\ enq + Cardinality(At({"push"})) + Cardinality(InHand(Using)) - deq <= Capacity
  <1>1. empty \in Nat /\ full \in Nat /\ enq \in Nat /\ deq \in Nat
    BY DEF Local
  <1>2. Capacity \in Nat /\ MaxPushes \in Nat
    OBVIOUS
  <1> QED BY <1>1, <1>2 DEF TokensOK

\* What a producer's step does to the places and the tokens.
LEMMA PushTokens ==
  ASSUME TokenInv, NEW t \in Producers, AcquireEmpty(t) \/ Push(t) \/ ReleaseFull(t)
  PROVE  Alone(t) /\ Local' /\ TokensOK'
  <1>1. Local
    BY TokenInvLocal
  <1>2. Alone(t) /\ t \in Threads
    BY DEF AcquireEmpty, Push, ReleaseFull, Goto, Alone, Threads, TokenInv, TypeOK
  <1>3. Local'
    <2>1. t \notin Consumers
      OBVIOUS
    <2>2. SlotOf(enq) \in 0..(Size - 1)
      BY <1>1, SlotRange DEF Local
    <2>3. CASE AcquireEmpty(t)
      BY <1>1, <2>1, <2>3 DEF AcquireEmpty, Goto, Local, PlacesOK, Labels, Threads, Using
    <2>4. CASE Push(t)
      BY <1>1, <2>1, <2>2, <2>4 DEF Push, Goto, Local, PlacesOK, Labels, Threads, Using
    <2>5. CASE ReleaseFull(t)
      BY <1>1, <2>1, <2>5 DEF ReleaseFull, Goto, Local, PlacesOK, Labels, Threads, Using
    <2> QED BY <2>3, <2>4, <2>5
  <1>4. /\ Cardinality(InHand(Using)') = Cardinality(InHand(Using))
        /\ Cardinality(InHand({"claim"})') = Cardinality(InHand({"claim"}))
        /\ Cardinality(InHand(Using)) \in Nat /\ Cardinality(InHand({"claim"})) \in Nat
    <2>1. count[t] = 0 /\ count'[t] = 0
      BY <1>1, <1>3 DEF Local, PlacesOK
    <2>2. \A L : /\ Cardinality(InHand(L)) \in Nat /\ Cardinality(InHand(L)') \in Nat
                 /\ Cardinality(InHand(L)') = Cardinality(InHand(L)) - Hand(t, L) + Hand(t, L)'
      BY <1>1, <1>2, <1>3, HandStep DEF Local
    <2>3. \A L : Hand(t, L) = 0 /\ Hand(t, L)' = 0
      BY <2>1 DEF Hand
    <2> QED BY <2>2, <2>3
  <1>5. /\ Cardinality(At({"push"})') = Cardinality(At({"push"}))
             - Here(t, {"push"}) + Here(t, {"push"})'
        /\ Cardinality(At({"publish"})') = Cardinality(At({"publish"}))
             - Here(t, {"publish"}) + Here(t, {"publish"})'
        /\ Cardinality(At({"push"})) \in Nat /\ Cardinality(At({"publish"})) \in Nat
    BY <1>2, HereStep
  <1>6. TokensOK'
    <2>1. empty \in Nat /\ full \in Nat /\ enq \in Nat /\ deq \in Nat /\ TokensOK
      BY <1>1 DEF Local, TokenInv
    <2>2. CASE AcquireEmpty(t)
      <3>1. At({"push"}) = {p \in Producers : pc[p] = "push"}
        BY <1>1 DEF At, Threads, Local, PlacesOK, Using
      <3>2. Cardinality(At({"push"})) = Cardinality({p \in Producers : pc[p] = "push"})
        BY <3>1, Zenon
      <3>3. /\ Here(t, {"push"}) = 0 /\ Here(t, {"push"})' = 1
            /\ Here(t, {"publish"}) = 0 /\ Here(t, {"publish"})' = 0
        BY <1>1, <1>2, <2>2 DEF AcquireEmpty, Goto, Here, Local
      <3>4. /\ enq + Cardinality(At({"push"})) < MaxPushes
            /\ empty' = empty - 1 /\ full' = full /\ enq' = enq /\ deq' = deq
        BY <2>2, <3>2 DEF AcquireEmpty
      <3> QED BY <1>4, <1>5, <2>1, <3>3, <3>4 DEF TokensOK
    <2>3. CASE Push(t)
      <3>1. /\ Here(t, {"push"}) = 1 /\ Here(t, {"push"})' = 0
            /\ Here(t, {"publish"}) = 0 /\ Here(t, {"publish"})' = 1
        BY <1>1, <1>2, <2>3 DEF Push, Goto, Here, Local
      <3>2. empty' = empty /\ full' = full /\ enq' = enq + 1 /\ deq' = deq
        BY <2>3 DEF Push
      <3> QED BY <1>4, <1>5, <2>1, <3>1, <3>2 DEF TokensOK
    <2>4. CASE ReleaseFull(t)
      <3>1. /\ Here(t, {"push"}) = 0 /\ Here(t, {"push"})' = 0
            /\ Here(t, {"publish"}) = 1 /\ Here(t, {"publish"})' = 0
        BY <1>1, <1>2, <2>4 DEF ReleaseFull, Goto, Here, Local
      <3>2. empty' = empty /\ full' = full + 1 /\ enq' = enq /\ deq' = deq
        BY <2>4 DEF ReleaseFull
      <3> QED BY <1>4, <1>5, <2>1, <3>1, <3>2 DEF TokensOK
    <2> QED BY <2>2, <2>3, <2>4
  <1> QED BY <1>2, <1>3, <1>6

PopStep(t) == \/ \E n \in PopCounts : AcquireFull(t, n)
              \/ Claim(t) \/ Move(t) \/ Destroy(t) \/ ReleaseEmpty(t)

\* What a consumer's step does to the places and the tokens.
LEMMA PopTokens ==
  ASSUME TokenInv, NEW t \in Consumers, PopStep(t)
  PROVE  Alone(t) /\ Local' /\ TokensOK'
  <1>1. Local /\ t \in Threads /\ t \notin Producers
    BY TokenInvLocal DEF Threads
  <1>2. Alone(t)
    BY DEF PopStep, AcquireFull, Claim, Move, Destroy, ReleaseEmpty, Goto, Alone,
           TokenInv, TypeOK
  <1>3. Local'
    <2>1. CASE \E n \in PopCounts : AcquireFull(t, n)
      BY <1>1, <2>1 DEF AcquireFull, Smaller, Goto, Local, PlacesOK, Labels, Threads, Using
    <2>2. CASE Claim(t)
      <3>1. count[t] \in Nat \ {0} /\ todo[t] = {}
        BY <1>1, <2>2 DEF Claim, Local, PlacesOK, Using
      <3>2. /\ deq..(deq + count[t] - 1) # {}
            /\ deq..(deq + count[t] - 1) \in SUBSET Nat
            /\ \A i \in deq..(deq + count[t] - 1) : i < deq + count[t]
        <4>1. deq \in deq..(deq + count[t] - 1)
          BY <1>1, <3>1 DEF Local
        <4> QED BY <1>1, <3>1, <4>1 DEF Local
      <3>3. /\ pc' = [pc EXCEPT ![t] = "move"]
            /\ todo' = [todo EXCEPT ![t] = deq..(deq + count[t] - 1)]
            /\ deq' = deq + count[t]
            /\ UNCHANGED <<empty, full, slots, enq, count>>
        BY <2>2 DEF Claim, Goto
      <3> DEFINE new == deq..(deq + count[t] - 1)
      <3> HIDE DEF new
      <3>4. todo' = [todo EXCEPT ![t] = new] /\ new # {} /\ new \in SUBSET Nat
            /\ \A i \in new : i < deq'
        BY <3>2, <3>3 DEF new
      <3>5. /\ pc' \in [Threads -> Labels] /\ count' \in [Threads -> Nat]
            /\ todo' \in [Threads -> SUBSET Nat]
            /\ empty' \in Nat /\ full' \in Nat /\ enq' \in Nat /\ deq' \in Nat
            /\ slots' \in [0..(Size - 1) -> Nat \cup {Raw}]
        BY <1>1, <3>1, <3>3, <3>4 DEF Local, Labels
      <3>6. ASSUME NEW u \in Threads, u # t
            PROVE  pc'[u] = pc[u] /\ count'[u] = count[u] /\ todo'[u] = todo[u]
        BY <3>6, <1>1, <3>1, <3>3, <3>4 DEF Local
      <3>7. /\ pc'[t] = "move" /\ count'[t] # 0 /\ todo'[t] # {}
            /\ \A i \in todo'[t] : i < deq'
        BY <1>1, <3>1, <3>3, <3>4 DEF Local
      <3>8. PlacesOK'
        <4>1. \A p \in Producers : pc'[p] = pc[p] /\ count'[p] = count[p] /\ todo'[p] = todo[p]
          BY <1>1, <3>6 DEF Threads
        <4>2. \A c \in Consumers \ {t} :
                  pc'[c] = pc[c] /\ count'[c] = count[c] /\ todo'[c] = todo[c]
          BY <3>6 DEF Threads
        <4>3. deq' >= deq
          BY <1>1, <3>1, <3>3, <3>4 DEF Local
        <4>4. \A c \in Consumers \ {t} : \A i \in todo'[c] : i < deq'
          BY <1>1, <3>5, <4>2, <4>3 DEF Local, PlacesOK
        <4>5. \A i \in todo'[t] : i < deq'
          BY <1>1, <3>5, <3>7, <4>3 DEF Local, PlacesOK
        <4>6. /\ pc'[t] \in Using /\ count'[t] # 0
              /\ pc'[t] \in {"move", "destroy"} <=> todo'[t] # {}
          BY <1>1, <2>2, <3>7 DEF Local, PlacesOK, Using
        <4> QED BY <1>1, <4>1, <4>2, <4>4, <4>5, <4>6 DEF Local, PlacesOK, Using
      <3> QED BY <3>5, <3>8 DEF Local
    <2>3. CASE Move(t)
      BY <1>1, <2>3 DEF Move, Goto, Local, PlacesOK, Labels, Threads, Using
    <2>4. CASE Destroy(t)
      <3> DEFINE i == First(todo[t])
                 rest == todo[t] \ {i}
      <3>1. todo[t] \in SUBSET Nat /\ todo[t] # {} /\ i \in todo[t] /\ i \in Nat
        BY <1>1, <2>4, FirstPosition DEF Destroy, Local, PlacesOK
      <3>2. SlotOf(i) \in 0..(Size - 1)
        BY <3>1, SlotRange
      <3>3. /\ slots' = [slots EXCEPT ![SlotOf(i)] = Raw]
            /\ todo' = [todo EXCEPT ![t] = rest]
            /\ pc' = [pc EXCEPT ![t] = IF todo[t] = {i} THEN "release" ELSE "move"]
            /\ pc[t] = "destroy" /\ UNCHANGED <<empty, full, enq, deq, count>>
        BY <2>4 DEF Destroy, Goto
      <3>4. (rest = {} <=> todo[t] = {i}) /\ rest \in SUBSET Nat /\ rest \subseteq todo[t]
        BY <3>1
      <3> HIDE DEF i, rest
      <3>5. /\ pc' \in [Threads -> Labels] /\ count' \in [Threads -> Nat]
            /\ todo' \in [Threads -> SUBSET Nat]
            /\ empty' \in Nat /\ full' \in Nat /\ enq' \in Nat /\ deq' \in Nat
            /\ slots' \in [0..(Size - 1) -> Nat \cup {Raw}]
        BY <1>1, <3>2, <3>3, <3>4 DEF Local, Labels
      <3>6. ASSUME NEW u \in Threads, u # t
            PROVE  pc'[u] = pc[u] /\ count'[u] = count[u] /\ todo'[u] = todo[u]
        BY <3>6, <1>1, <3>2, <3>3, <3>4 DEF Local
      <3>7. /\ pc'[t] \in {"release", "move"} /\ (pc'[t] = "move" <=> todo'[t] # {})
            /\ count'[t] = count[t] /\ todo'[t] \subseteq todo[t]
        BY <1>1, <3>3, <3>4 DEF Local
      <3>8. PlacesOK'
        <4>1. \A p \in Producers : pc'[p] = pc[p] /\ count'[p] = count[p] /\ todo'[p] = todo[p]
          BY <1>1, <3>6 DEF Threads
        <4>2. \A c \in Consumers \ {t} :
                  pc'[c] = pc[c] /\ count'[c] = count[c] /\ todo'[c] = todo[c]
          BY <3>6 DEF Threads
        <4>3. deq' >= deq
          BY <1>1, <3>2, <3>3, <3>4 DEF Local
        <4>4. \A c \in Consumers \ {t} : \A k \in todo'[c] : k < deq'
          BY <1>1, <3>5, <4>2, <4>3 DEF Local, PlacesOK
        <4>5. \A k \in todo'[t] : k < deq'
          BY <1>1, <3>5, <3>7, <4>3 DEF Local, PlacesOK
        <4>6. /\ pc'[t] \in Using /\ count'[t] # 0
              /\ pc'[t] \in {"move", "destroy"} <=> todo'[t] # {}
          BY <1>1, <3>3, <3>7 DEF Local, PlacesOK, Using
        <4> QED BY <1>1, <4>1, <4>2, <4>4, <4>5, <4>6 DEF Local, PlacesOK, Using
      <3> QED BY <3>5, <3>8 DEF Local
    <2>5. CASE ReleaseEmpty(t)
      BY <1>1, <2>5 DEF ReleaseEmpty, Goto, Local, PlacesOK, Labels, Threads, Using
    <2> QED BY <2>1, <2>2, <2>3, <2>4, <2>5 DEF PopStep
  <1>4. \A L : /\ Cardinality(InHand(L)) \in Nat /\ Cardinality(InHand(L)') \in Nat
               /\ Cardinality(InHand(L)') = Cardinality(InHand(L)) - Hand(t, L) + Hand(t, L)'
    BY <1>1, <1>2, <1>3, HandStep DEF Local
  <1>5. /\ Cardinality(At({"push"})') = Cardinality(At({"push"}))
        /\ Cardinality(At({"publish"})') = Cardinality(At({"publish"}))
    <2>1. pc[t] \notin {"push", "publish"} /\ pc'[t] \notin {"push", "publish"}
      BY <1>1, <1>3 DEF Local, PlacesOK, Using
    <2>2. At({"push"})' = At({"push"}) /\ At({"publish"})' = At({"publish"})
      BY <1>2, <2>1 DEF At, Alone
    <2> QED BY <2>2, Zenon
  <1>6. /\ Cardinality(At({"push"})) \in Nat /\ Cardinality(At({"publish"})) \in Nat
        /\ empty \in Nat /\ full \in Nat /\ enq \in Nat /\ deq \in Nat /\ TokensOK
        /\ count[t] \in Nat
    BY <1>1, <1>2, HereStep DEF Local, TokenInv
  <1>7. TokensOK'
    <2> DEFINE hand == Hand(t, {"claim"})
               used == Hand(t, Using)
    <2>1. /\ Cardinality(InHand({"claim"})') = Cardinality(InHand({"claim"})) - hand + hand'
          /\ Cardinality(InHand(Using)') = Cardinality(InHand(Using)) - used + used'
          /\ Cardinality(InHand({"claim"})) \in Nat /\ Cardinality(InHand(Using)) \in Nat
      BY <1>4
    <2>2. CASE \E n \in PopCounts : AcquireFull(t, n)
      <3>1. PICK n \in PopCounts : AcquireFull(t, n)
        BY <2>2
      <3>2. /\ hand = 0 /\ hand' = Smaller(full, n) /\ used = 0 /\ used' = 0
            /\ full' = full - Smaller(full, n) /\ UNCHANGED <<empty, enq, deq>>
            /\ Smaller(full, n) \in Int
        BY <1>1, <1>6, <3>1 DEF AcquireFull, Smaller, Goto, Hand, Local, Using
      <3> HIDE DEF hand, used
      <3> QED BY <1>5, <1>6, <2>1, <3>2 DEF TokensOK
    <2>3. CASE Claim(t)
      <3>1. /\ hand = count[t] /\ hand' = 0 /\ used = 0 /\ used' = count[t]
            /\ deq' = deq + count[t] /\ UNCHANGED <<empty, full, enq>>
        BY <1>1, <2>3 DEF Claim, Goto, Hand, Local, Using
      <3> HIDE DEF hand, used
      <3> QED BY <1>5, <1>6, <2>1, <3>1 DEF TokensOK
    <2>4. CASE Move(t) \/ Destroy(t)
      <3>1. /\ hand = 0 /\ hand' = 0 /\ used = count[t] /\ used' = count[t]
            /\ UNCHANGED <<empty, full, enq, deq>>
        BY <1>1, <2>4 DEF Move, Destroy, Goto, Hand, Local, Using
      <3> HIDE DEF hand, used
      <3> QED BY <1>5, <1>6, <2>1, <3>1 DEF TokensOK
    <2>5. CASE ReleaseEmpty(t)
      <3>1. /\ hand = 0 /\ hand' = 0 /\ used = count[t] /\ used' = 0
            /\ empty' = empty + count[t] /\ UNCHANGED <<full, enq, deq>>
        BY <1>1, <2>5 DEF ReleaseEmpty, Goto, Hand, Local, Using
      <3> HIDE DEF hand, used
      <3> QED BY <1>5, <1>6, <2>1, <3>1 DEF TokensOK
    <2> QED BY <2>2, <2>3, <2>4, <2>5 DEF PopStep
  <1> QED BY <1>2, <1>3, <1>7

Step(t) == \/ t \in Producers /\ (AcquireEmpty(t) \/ Push(t) \/ ReleaseFull(t))
           \/ t \in Consumers /\ PopStep(t)

LEMMA InitTokens == Init => TokenInv
  <1> SUFFICES ASSUME Init
               PROVE  TokenInv
    OBVIOUS
  <1>1. TypeOK /\ PlacesOK
    BY DEF Init, TypeOK, PlacesOK, Threads, Using, Raw
  <1>2. TokensOK
    <2>1. \A L : "idle" \notin L => At(L) = {}
      BY DEF Init, At
    <2>2. At({"push"}) = {} /\ At({"publish"}) = {} /\ At({"claim"}) = {} /\ At(Using) = {}
      BY <2>1 DEF Using
    <2>3. InHand({"claim"}) = {} /\ InHand(Using) = {}
      BY <2>2 DEF InHand, Pairs
    <2>4. /\ Cardinality(At({"push"})) = 0 /\ Cardinality(At({"publish"})) = 0
          /\ Cardinality(InHand({"claim"})) = 0 /\ Cardinality(InHand(Using)) = 0
      BY <2>2, <2>3, FS_EmptySet, Zenon
    <2> QED BY <2>4 DEF Init, TokensOK
  <1> QED BY <1>1, <1>2 DEF TokenInv

\* The slots get no number but that of a push.
LEMMA SlotsTyped ==
  ASSUME TypeOK, NEW t \in Threads, Step(t)
  PROVE  /\ slots' \in [0..(Size - 1) -> 0..MaxPushes \cup {Raw}]
  <1>1. CASE UNCHANGED slots
    BY <1>1 DEF TypeOK
  <1>2. CASE Push(t)
    <2>1. enq \in 0..MaxPushes /\ slots' = [slots EXCEPT ![SlotOf(enq)] = enq]
      BY <1>2 DEF Push, TypeOK
    <2> QED BY <2>1 DEF TypeOK
  <1>3. CASE Destroy(t)
    <2>1. slots' = [slots EXCEPT ![SlotOf(First(todo[t]))] = Raw]
      BY <1>3 DEF Destroy
    <2> QED BY <2>1 DEF TypeOK
  <1> QED BY <1>1, <1>2, <1>3
          DEF Step, PopStep, AcquireEmpty, ReleaseFull, AcquireFull, Claim, Move, ReleaseEmpty

LEMMA StepTokens ==
  ASSUME TokenInv, NEW t \in Threads, Step(t)
  PROVE  TokenInv'
  <1>1. Alone(t) /\ Local' /\ TokensOK'
    BY PushTokens, PopTokens DEF Step
  <1>2. Local
    BY TokenInvLocal
  <1>3. /\ Cardinality(At({"push"})') \in Nat /\ Cardinality(At({"publish"})') \in Nat
    BY <1>1, HereStep
  <1>4. \A L : /\ Cardinality(InHand(L)') \in Nat
               /\ Hand(t, L)' <= Cardinality(InHand(L)')
    BY <1>1, <1>2, HandStep DEF Local
  <1>5. /\ empty' \in Nat /\ full' \in Nat /\ enq' \in Nat /\ deq' \in Nat
        /\ Capacity \in Nat /\ MaxPushes \in Nat
    BY <1>1 DEF Local
  <1>6. /\ empty' \in 0..Capacity /\ full' \in 0..Capacity
        /\ enq' \in 0..MaxPushes /\ deq' \in 0..MaxPushes
        /\ Cardinality(InHand({"claim"})') <= Capacity
        /\ Cardinality(InHand(Using)') <= Capacity
    BY <1>1, <1>3, <1>4, <1>5 DEF TokensOK
  <1>7. count' \in [Threads -> 0..Capacity]
    <2>1. count'[t] \in 0..Capacity
      <3>1. count'[t] \in Nat
        BY <1>1 DEF Local
      <3>2. CASE pc'[t] = "claim"
        BY <1>4, <1>5, <1>6, <3>1, <3>2 DEF Hand
      <3>3. CASE pc'[t] \in Using
        <4>1. Hand(t, Using)' = count'[t]
          BY <3>3 DEF Hand
        <4>2. Cardinality(InHand(Using)') \in Nat
          BY <1>4
        <4> QED BY <1>4, <1>5, <1>6, <3>1, <4>1, <4>2
      <3>4. CASE count'[t] = 0
        BY <1>5, <3>4
      <3> QED BY <1>1, <3>2, <3>3, <3>4 DEF Local, PlacesOK, Threads, Using
    <2>2. \A u \in Threads \ {t} : count'[u] \in 0..Capacity
      BY <1>1 DEF Alone, TokenInv, TypeOK
    <2> QED BY <1>1, <2>1, <2>2 DEF Local
  <1>8. todo' \in [Threads -> SUBSET (0..MaxPushes)]
    <2>1. ASSUME NEW u \in Threads
          PROVE  todo'[u] \in SUBSET (0..MaxPushes)
      <3>1. todo'[u] \in SUBSET Nat /\ \A i \in todo'[u] : i < deq'
        BY <1>1 DEF Local, PlacesOK, Threads
      <3> QED BY <1>6, <3>1
    <2> QED BY <1>1, <2>1 DEF Local
  <1>9. pc' \in [Threads -> Labels] /\ PlacesOK'
    BY <1>1 DEF Local
  <1>10. TypeOK'
    BY <1>6, <1>7, <1>8, <1>9, SlotsTyped DEF TokenInv, TypeOK, Labels
  <1> QED BY <1>1, <1>9, <1>10 DEF TokenInv

LEMMA NextSteps == Next => \E t \in Threads : Step(t)
  BY DEF Next, Step, PopStep, Threads

LEMMA NextTokens == TokenInv /\ [Next]_vars => TokenInv'
  <1> SUFFICES ASSUME TokenInv, [Next]_vars
               PROVE  TokenInv'
    OBVIOUS
  <1>1. CASE Next
    BY <1>1, NextSteps, StepTokens
  <1>2. CASE UNCHANGED vars
    <2>1. InHand({"claim"})' = InHand({"claim"}) /\ InHand(Using)' = InHand(Using)
      BY <1>2 DEF vars, InHand, Pairs, At
    <2>2. At({"push"})' = At({"push"}) /\ At({"publish"})' = At({"publish"})
      BY <1>2 DEF vars, At
    <2>3. TokensOK'
      BY <1>2, <2>1, <2>2 DEF TokenInv, TokensOK, vars
    <2>4. TypeOK' /\ PlacesOK'
      BY <1>2 DEF TokenInv, TypeOK, PlacesOK, vars
    <2> QED BY <2>3, <2>4 DEF TokenInv
  <1> QED BY <1>1, <1>2

LEMMA TokensInvariant == Spec => []TokenInv
  BY InitTokens, NextTokens, PTL DEF Spec

\* The types: the tokens in a semaphore and those in the hands of a thread are
\* never negative nor more than the capacity, and a thread claims no position
\* that has not been pushed.
THEOREM TypeCorrect == Spec => []TypeOK
  <1>1. TokenInv => TypeOK
    BY DEF TokenInv
  <1> QED BY <1>1, TokensInvariant, PTL

\* Whatever the number of consumers, pop() never runs ahead of push(), and push()
\* not more than a lap ahead of pop(): the assertions of ~ring_cbqueue().
THEOREM WithinALap == Spec => []PositionsWithinLap
  <1>1. TokenInv => PositionsWithinLap
    <2> SUFFICES ASSUME TokenInv
                 PROVE  PositionsWithinLap
      OBVIOUS
    <2>1. /\ empty \in Nat /\ full \in Nat /\ enq \in Nat /\ deq \in Nat
          /\ Capacity \in Nat /\ Size \in Nat /\ Capacity <= Size
      BY TokenInvLocal DEF Local
    <2>2. /\ Cardinality(At({"push"})) \in Nat /\ Cardinality(At({"publish"})) \in Nat
          /\ Cardinality(InHand({"claim"})) \in Nat /\ Cardinality(InHand(Using)) \in Nat
      BY TokenInvLocal, InHandFinite DEF Local
    <2> QED BY <2>1, <2>2 DEF TokenInv, TokensOK, PositionsWithinLap
  <1> QED BY <1>1, TokensInvariant, PTL

-----------------------------------------------------------------------------
(* The items in their slots *)

\* The live positions, and the next one a push is about to use, fit in the ring.
LEMMA OneLap ==
  ASSUME TokenInv, LastClaimed
  PROVE  /\ Live \in SUBSET Nat
         /\ \A i \in Live : i < enq /\ enq + Cardinality(At({"push"})) <= i + Size
         /\ Cardinality(At({"push"})) \in Nat
         /\ \A i, j \in Live : SlotOf(i) = SlotOf(j) => i = j
  <1>1. Local
    BY TokenInvLocal
  <1>2. /\ Cardinality(At({"push"})) \in Nat /\ Cardinality(At({"publish"})) \in Nat
        /\ Cardinality(InHand({"claim"})) \in Nat /\ Cardinality(InHand(Using)) \in Nat
    BY <1>1, InHandFinite DEF Local
  <1>3. /\ deq \in Nat /\ enq \in Nat /\ deq <= enq
        /\ enq + Cardinality(At({"push"})) + Cardinality(InHand(Using)) <= deq + Capacity
    <2>1. empty \in Nat /\ full \in Nat /\ enq \in Nat /\ deq \in Nat
      BY <1>1 DEF Local
    <2> QED BY <1>2, <2>1 DEF TokenInv, TokensOK
  <1>4. Capacity \in Nat /\ Size \in Nat /\ Capacity <= Size
    OBVIOUS
  <1>5. ASSUME NEW i \in Live
        PROVE  i \in Nat /\ i < enq /\ enq + Cardinality(At({"push"})) <= i + Size
    <2>1. CASE i \in deq..(enq - 1)
      BY <1>2, <1>3, <1>4, <2>1
    <2>2. CASE i \notin deq..(enq - 1)
      <3>1. PICK c \in Consumers : i \in todo[c]
        BY <1>5, <2>2 DEF Live
      <3>2. /\ i \in Nat /\ i < deq /\ deq - count[c] <= i /\ pc[c] \in Using
            /\ count[c] \in Nat /\ c \in Threads
        BY <1>1, <3>1 DEF Local, PlacesOK, LastClaimed, Using, Threads
      <3>3. count[c] <= Cardinality(InHand(Using))
        <4>1. c \in At(Using) /\ At(Using) \in SUBSET Threads
          BY <3>2 DEF At
        <4>2. /\ Cardinality(InHand(Using)) = Cardinality(Pairs(At(Using) \ {c}, count)) + count[c]
              /\ Cardinality(Pairs(At(Using) \ {c}, count)) \in Nat
          <5>1. count \in [Threads -> Int] /\ count[c] >= 0
            BY <1>1, <3>2 DEF Local
          <5> QED BY <3>2, <4>1, <5>1, ThreadsFinite, PairsSplit DEF InHand
        <4> QED BY <3>2, <4>2
      <3> QED BY <1>2, <1>3, <1>4, <3>2, <3>3
    <2> QED BY <2>1, <2>2
  <1>6. ASSUME NEW i \in Live, NEW j \in Live, SlotOf(i) = SlotOf(j)
        PROVE  i = j
    <2>1. /\ i \in Nat /\ i < enq /\ enq <= i + Size
          /\ j \in Nat /\ j < enq /\ enq <= j + Size
      BY <1>2, <1>3, <1>4, <1>5
    <2>2. ~(i < j)
      BY <1>3, <1>4, <1>6, <2>1, SameSlot
    <2>3. ~(j < i)
      BY <1>3, <1>4, <1>6, <2>1, SameSlot
    <2> QED BY <2>1, <2>2, <2>3
  <1> QED BY <1>2, <1>5, <1>6

\* The slot of the next position is free while a push is on its way to it.
LEMMA NextSlotRaw ==
  ASSUME IInv, NEW t \in Producers, pc[t] = "push"
  PROVE  slots[SlotOf(enq)] = Raw
  <1>1. /\ Live \in SUBSET Nat
        /\ \A i \in Live : i < enq /\ enq + Cardinality(At({"push"})) <= i + Size
        /\ Cardinality(At({"push"})) \in Nat
    BY OneLap DEF IInv
  <1>2. Cardinality(At({"push"})) >= 1
    <2>1. t \in At({"push"}) /\ At({"push"}) \in SUBSET Threads
      BY DEF At, Threads
    <2>2. IsFiniteSet(At({"push"}))
      BY <2>1, ThreadsFinite, FS_Subset
    <2> QED BY <1>1, <2>1, <2>2, FS_EmptySet
  <1>3. enq \in Nat /\ SlotOf(enq) \in 0..(Size - 1)
    BY SlotRange, TokenInvLocal DEF IInv, Local
  <1>4. ASSUME slots[SlotOf(enq)] # Raw
        PROVE  FALSE
    <2> DEFINE i == slots[SlotOf(enq)]
    <2>1. i \in Live /\ SlotOf(i) = SlotOf(enq)
      BY <1>3, <1>4 DEF IInv, SlotsOK
    <2> HIDE DEF i
    <2>2. i \in Nat /\ i < enq /\ enq + Cardinality(At({"push"})) <= i + Size
      BY <1>1, <2>1
    <2>3. enq >= i + Size
      BY <1>3, <2>1, <2>2, SameSlot
    <2>4. Size \in Nat
      OBVIOUS
    <2> QED BY <1>1, <1>2, <1>3, <2>2, <2>3, <2>4
  <1> QED BY <1>4

\* The first position a consumer has in hand is live.
LEMMA FirstLive ==
  ASSUME IInv, NEW c \in Consumers, todo[c] # {}
  PROVE  /\ First(todo[c]) \in todo[c] /\ First(todo[c]) \in Live
         /\ First(todo[c]) \in Nat
         /\ slots[SlotOf(First(todo[c]))] = First(todo[c])
  <1>1. todo[c] \in SUBSET Nat
    BY TokenInvLocal DEF IInv, Local, Threads
  <1>2. First(todo[c]) \in todo[c]
    BY <1>1, FirstPosition
  <1> QED BY <1>1, <1>2 DEF IInv, SlotsOK, Live

LEMMA StepSlots ==
  ASSUME OneConsumer, IInv, NEW t \in Threads, Step(t)
  PROVE  LastClaimed' /\ SlotsOK'
  <1>1. Local /\ Local' /\ TokenInv /\ LastClaimed /\ SlotsOK
    BY TokenInvLocal, PushTokens, PopTokens DEF Step, IInv
  <1>2. deq \in Nat /\ enq \in Nat /\ deq <= enq
    <2>1. Cardinality(InHand({"claim"})) \in Nat /\ Cardinality(At({"publish"})) \in Nat
      BY <1>1, InHandFinite DEF Local
    <2>2. /\ deq \in Nat /\ enq \in Nat /\ full \in Nat
          /\ full + Cardinality(At({"publish"})) + Cardinality(InHand({"claim"})) = enq - deq
      BY <1>1 DEF Local, TokenInv, TokensOK
    <2> QED BY <2>1, <2>2
  <1>3. CASE t \in Producers /\ (AcquireEmpty(t) \/ ReleaseFull(t))
    <2>1. UNCHANGED <<slots, enq, deq, todo, count>>
      BY <1>3 DEF AcquireEmpty, ReleaseFull
    <2>2. Live' = Live
      BY <2>1 DEF Live
    <2> QED BY <1>1, <2>1, <2>2 DEF LastClaimed, SlotsOK
  <1>4. CASE t \in Producers /\ Push(t)
    <2>1. /\ pc[t] = "push" /\ slots' = [slots EXCEPT ![SlotOf(enq)] = enq]
          /\ enq' = enq + 1 /\ UNCHANGED <<deq, todo, count>>
      BY <1>4 DEF Push
    <2>2. slots[SlotOf(enq)] = Raw /\ SlotOf(enq) \in 0..(Size - 1)
      BY <1>2, <1>4, <2>1, NextSlotRaw, SlotRange
    <2>3. Live' = Live \cup {enq}
      <3>1. deq..enq = deq..(enq - 1) \cup {enq}
        BY <1>2
      <3>2. enq' - 1 = enq
        BY <1>2, <2>1
      <3> QED BY <2>1, <3>1, <3>2 DEF Live
    <2>4. LastClaimed'
      BY <1>1, <2>1 DEF LastClaimed
    <2>5. Live \in SUBSET Nat
      BY <1>1, OneLap
    <2>6. \A i \in Live : SlotOf(i) # SlotOf(enq)
      <3>1. \A i \in Live : slots[SlotOf(i)] # Raw
        BY <1>1, <2>5 DEF SlotsOK, Raw
      <3> QED BY <2>2, <3>1
    <2>7. \A i \in Live' : slots'[SlotOf(i)] = i
      BY <1>1, <2>1, <2>2, <2>3, <2>5, <2>6, SlotRange DEF SlotsOK, Local
    <2>8. \A s \in 0..(Size - 1) :
              slots'[s] # Raw => slots'[s] \in Live' /\ SlotOf(slots'[s]) = s
      BY <1>1, <2>1, <2>2, <2>3 DEF SlotsOK, Local
    <2> QED BY <2>4, <2>7, <2>8 DEF SlotsOK
  <1>5. CASE t \in Consumers /\ \E n \in PopCounts : AcquireFull(t, n)
    <2>1. todo[t] = {} /\ UNCHANGED <<slots, enq, deq, todo>>
      BY <1>1, <1>5 DEF AcquireFull, Local, PlacesOK
    <2>2. Live' = Live
      BY <2>1 DEF Live
    <2>3. LastClaimed'
      BY <1>5, <2>1 DEF LastClaimed, OneConsumer
    <2> QED BY <1>1, <2>1, <2>2, <2>3 DEF SlotsOK
  <1>6. CASE t \in Consumers /\ Claim(t)
    <2>1. /\ pc[t] = "claim" /\ todo[t] = {} /\ count[t] \in Nat
          /\ deq' = deq + count[t]
          /\ todo' = [todo EXCEPT ![t] = deq..(deq + count[t] - 1)]
          /\ UNCHANGED <<slots, enq, count>>
      BY <1>1, <1>6 DEF Claim, Local, PlacesOK, Using
    <2>2. deq' <= enq
      <3>1. Cardinality(InHand({"claim"})') \in Nat /\ Cardinality(At({"publish"})') \in Nat
            /\ Local' /\ TokensOK'
        BY StepTokens, PopTokens, HereStep, HandStep, <1>1, <1>6 DEF Local, Step, IInv
      <3>2. /\ deq' \in Nat /\ enq' \in Nat /\ full' \in Nat
            /\ full' + Cardinality(At({"publish"})') + Cardinality(InHand({"claim"})')
                 = enq' - deq'
        BY <3>1 DEF Local, TokensOK
      <3> QED BY <2>1, <3>1, <3>2
    <2>3. \A c \in Consumers : c = t
      BY <1>6 DEF OneConsumer
    <2>4. todo'[t] = deq..(deq + count[t] - 1)
      BY <1>1, <2>1 DEF Local
    <2>5. LastClaimed'
      BY <1>2, <2>1, <2>3, <2>4 DEF LastClaimed
    <2>6. Live' = Live
      <3>1. UNION {todo[c] : c \in Consumers} = {}
        BY <2>1, <2>3
      <3>2. UNION {todo'[c] : c \in Consumers} = deq..(deq + count[t] - 1)
        BY <1>6, <2>3, <2>4
      <3>3. deq'..(enq' - 1) \cup deq..(deq + count[t] - 1) = deq..(enq - 1)
        BY <1>2, <2>1, <2>2
      <3> QED BY <3>1, <3>2, <3>3 DEF Live
    <2> QED BY <1>1, <2>1, <2>5, <2>6 DEF SlotsOK
  <1>7. CASE t \in Consumers /\ Move(t)
    <2>1. UNCHANGED <<slots, enq, deq, todo, count>>
      BY <1>7 DEF Move
    <2>2. Live' = Live
      BY <2>1 DEF Live
    <2> QED BY <1>1, <2>1, <2>2 DEF LastClaimed, SlotsOK
  <1>8. CASE t \in Consumers /\ Destroy(t)
    <2> DEFINE i == First(todo[t])
    <2>1. /\ todo[t] # {} /\ UNCHANGED <<enq, deq, count>>
          /\ slots' = [slots EXCEPT ![SlotOf(i)] = Raw]
          /\ todo' = [todo EXCEPT ![t] = todo[t] \ {i}]
      BY <1>1, <1>8 DEF Destroy, Local, PlacesOK
    <2>2. i \in todo[t] /\ i \in Live /\ i \in Nat /\ slots[SlotOf(i)] = i
      BY <1>8, <2>1, FirstLive
    <2>3. SlotOf(i) \in 0..(Size - 1)
      BY <2>2, SlotRange
    <2> HIDE DEF i
    <2>4. \A c \in Consumers : c = t
      BY <1>8 DEF OneConsumer
    <2>5. todo'[t] = todo[t] \ {i}
      BY <1>1, <2>1 DEF Local
    <2>6. LastClaimed'
      BY <1>1, <2>1, <2>4, <2>5 DEF LastClaimed
    <2>7. Live' = Live \ {i}
      <3>1. i < deq
        BY <1>1, <1>8, <2>2 DEF Local, PlacesOK
      <3>2. i \notin deq..(enq - 1)
        BY <1>2, <2>2, <3>1
      <3> QED BY <1>8, <2>1, <2>4, <2>5, <3>2 DEF Live
    <2>8. Live \in SUBSET Nat /\ \A j \in Live : SlotOf(j) = SlotOf(i) => j = i
      BY <1>1, <2>2, OneLap
    <2>9. \A j \in Live' : slots'[SlotOf(j)] = j
      BY <1>1, <2>1, <2>3, <2>7, <2>8, SlotRange DEF SlotsOK, Local
    <2>10. \A s \in 0..(Size - 1) :
               slots'[s] # Raw => slots'[s] \in Live' /\ SlotOf(slots'[s]) = s
      <3>1. ASSUME NEW s \in 0..(Size - 1), slots'[s] # Raw
            PROVE  slots'[s] \in Live' /\ SlotOf(slots'[s]) = s
        <4>1. s # SlotOf(i) /\ slots'[s] = slots[s]
          BY <1>1, <2>1, <2>3, <3>1 DEF Local
        <4>2. slots[s] \in Live /\ SlotOf(slots[s]) = s
          BY <1>1, <3>1, <4>1 DEF SlotsOK
        <4> QED BY <2>7, <4>1, <4>2
      <3> QED BY <3>1
    <2> QED BY <2>6, <2>9, <2>10 DEF SlotsOK
  <1>9. CASE t \in Consumers /\ ReleaseEmpty(t)
    <2>1. todo[t] = {} /\ UNCHANGED <<slots, enq, deq, todo>>
      BY <1>1, <1>9 DEF ReleaseEmpty, Local, PlacesOK
    <2>2. Live' = Live
      BY <2>1 DEF Live
    <2>3. LastClaimed'
      BY <1>9, <2>1 DEF LastClaimed, OneConsumer
    <2> QED BY <1>1, <2>1, <2>2, <2>3 DEF SlotsOK
  <1> QED BY <1>3, <1>4, <1>5, <1>6, <1>7, <1>8, <1>9 DEF Step, PopStep

LEMMA InitIInv == Init => IInv
  <1> SUFFICES ASSUME Init
               PROVE  IInv
    OBVIOUS
  <1>1. Live = {}
    BY DEF Init, Live, Threads
  <1>2. LastClaimed /\ SlotsOK
    BY <1>1 DEF Init, LastClaimed, SlotsOK, Threads
  <1> QED BY <1>2, InitTokens DEF IInv

LEMMA NextIInv ==
  ASSUME OneConsumer
  PROVE  IInv /\ [Next]_vars => IInv'
  <1> SUFFICES ASSUME IInv, [Next]_vars
               PROVE  IInv'
    OBVIOUS
  <1>1. TokenInv'
    BY NextTokens DEF IInv
  <1>2. LastClaimed' /\ SlotsOK'
    <2>1. CASE Next
      BY <2>1, NextSteps, StepSlots
    <2>2. CASE UNCHANGED vars
      BY <2>2 DEF vars, IInv, LastClaimed, SlotsOK, Live
    <2> QED BY <2>1, <2>2
  <1> QED BY <1>1, <1>2 DEF IInv

LEMMA SlotsInvariant ==
  ASSUME OneConsumer
  PROVE  Spec => []IInv
  BY InitIInv, NextIInv, PTL DEF Spec

\* With one consumer, pop() finds in the slot of the position it has claimed the
\* very item that was pushed there, and not one of a later lap.
THEOREM PopsItsOwnItem ==
  ASSUME OneConsumer
  PROVE  Spec => []ReadsClaimedItem
  <1>1. IInv => ReadsClaimedItem
    <2> SUFFICES ASSUME IInv, NEW c \in Consumers, pc[c] = "move"
                 PROVE  slots[SlotOf(First(todo[c]))] = First(todo[c])
      BY DEF ReadsClaimedItem
    <2>1. todo[c] # {}
      BY DEF IInv, TokenInv, PlacesOK
    <2> QED BY <2>1, FirstLive
  <1> QED BY <1>1, SlotsInvariant, PTL

\* With one consumer, push() never constructs an item over one that has not been
\* destroyed.
THEOREM PushesIntoRawSlot ==
  ASSUME OneConsumer
  PROVE  Spec => []ConstructsInRawSlot
  <1>1. IInv => ConstructsInRawSlot
    BY NextSlotRaw DEF ConstructsInRawSlot
  <1> QED BY <1>1, SlotsInvariant, PTL
==============================================================================
