---------------------------- MODULE HandCounting ----------------------------
(***************************************************************************)
(* Counting what the threads of a finite set have in hand.                 *)
(*                                                                         *)
(* The semaphores of the queues are counters, and a thread that has taken  *)
(* tokens has them in hand until it gives them back.  What h says thread t *)
(* has in hand is the set of the pairs <<t, 1>> to <<t, h[t]>>: so the     *)
(* tokens of many threads are counted by the cardinality of one set, and   *)
(* what a step of one thread does to it follows from what it has itself.   *)
(***************************************************************************)
EXTENDS Integers, FiniteSets, FiniteSetTheorems, TLAPS

Pairs(S, h) == UNION {{t} \X (1..h[t]) : t \in S}

\* What some threads have in hand can be counted.
LEMMA PairsFinite ==
  ASSUME NEW U, IsFiniteSet(U), NEW S \in SUBSET U, NEW h \in [U -> Int]
  PROVE  IsFiniteSet(Pairs(S, h)) /\ Cardinality(Pairs(S, h)) \in Nat
  <1> DEFINE each == [t \in S |-> {t} \X (1..h[t])]
             T == {each[t] : t \in S}
  <1>1. IsFiniteSet(S)
    BY FS_Subset
  <1>2. each \in Surjection(S, T)
    BY DEF Surjection
  <1>3. IsFiniteSet(T)
    <2> HIDE DEF each, T
    <2> QED BY <1>1, <1>2, FS_Surjection
  <1>4. \A t \in S : IsFiniteSet({t} \X (1..h[t]))
    <2> TAKE t \in S
    <2>1. IsFiniteSet({t})
      BY FS_Singleton
    <2>2. IsFiniteSet(1..h[t])
      BY FS_Interval
    <2> QED BY <2>1, <2>2, FS_Product
  <1>5. IsFiniteSet(UNION T)
    <2>1. \A x \in T : IsFiniteSet(x)
      BY <1>4
    <2> QED BY <1>3, <2>1, FS_UNION
  <1>6. Pairs(S, h) = UNION T
    BY DEF Pairs
  <1> QED BY <1>5, <1>6, FS_CardinalityType

\* One thread more brings what it has in hand.
LEMMA PairsAdd ==
  ASSUME NEW U, IsFiniteSet(U), NEW S \in SUBSET U, NEW h \in [U -> Int],
         NEW t \in U, t \notin S, h[t] >= 0
  PROVE  Cardinality(Pairs(S \cup {t}, h)) = Cardinality(Pairs(S, h)) + h[t]
  <1> DEFINE new == {t} \X (1..h[t])
  <1>1. IsFiniteSet(new) /\ Cardinality(new) = h[t]
    <2>1. IsFiniteSet({t}) /\ Cardinality({t}) = 1
      BY FS_Singleton
    <2>2. IsFiniteSet(1..h[t]) /\ Cardinality(1..h[t]) = h[t]
      BY FS_Interval
    <2>3. IsFiniteSet(new) /\ Cardinality(new) = Cardinality({t}) * Cardinality(1..h[t])
      BY <2>1, <2>2, FS_Product
    <2>4. h[t] \in Int
      OBVIOUS
    <2> HIDE DEF new
    <2> QED BY <2>1, <2>2, <2>3, <2>4
  <1>2. Pairs(S \cup {t}, h) = Pairs(S, h) \cup new
    BY DEF Pairs
  <1>3. Pairs(S, h) \cap new = {}
    BY DEF Pairs
  <1>4. IsFiniteSet(Pairs(S, h)) /\ Cardinality(Pairs(S, h)) \in Nat
    BY PairsFinite
  <1> HIDE DEF new
  <1>5. Cardinality(Pairs(S, h) \cup new) = Cardinality(Pairs(S, h)) + h[t] - 0
    <2>1. Cardinality(Pairs(S, h) \cup new)
            = Cardinality(Pairs(S, h)) + Cardinality(new) - Cardinality(Pairs(S, h) \cap new)
      BY <1>1, <1>4, FS_Union, Zenon
    <2>2. Cardinality(Pairs(S, h) \cap new) = 0
      BY <1>3, FS_EmptySet, Zenon
    <2> QED BY <1>1, <2>1, <2>2, Zenon
  <1>6. Cardinality(Pairs(S \cup {t}, h)) = Cardinality(Pairs(S, h)) + h[t] - 0
    BY <1>2, <1>5, Zenon
  <1>7. h[t] \in Int
    OBVIOUS
  <1> QED BY <1>4, <1>6, <1>7

\* What is in hand is what t has, if it is one of them, and what the others have.
LEMMA PairsSplit ==
  ASSUME NEW U, IsFiniteSet(U), NEW S \in SUBSET U, NEW h \in [U -> Int],
         NEW t \in U, t \in S => h[t] >= 0
  PROVE  /\ Cardinality(Pairs(S, h)) \in Nat
         /\ Cardinality(Pairs(S \ {t}, h)) \in Nat
         /\ Cardinality(Pairs(S, h))
              = Cardinality(Pairs(S \ {t}, h)) + (IF t \in S THEN h[t] ELSE 0)
  <1>1. Cardinality(Pairs(S, h)) \in Nat /\ Cardinality(Pairs(S \ {t}, h)) \in Nat
    BY PairsFinite
  <1>2. CASE t \in S
    <2>1. S = (S \ {t}) \cup {t}
      BY <1>2
    <2>2. Cardinality(Pairs((S \ {t}) \cup {t}, h)) = Cardinality(Pairs(S \ {t}, h)) + h[t]
      <3>1. t \notin S \ {t} /\ h[t] >= 0 /\ S \ {t} \in SUBSET U
        BY <1>2
      <3> QED BY <3>1, PairsAdd
    <2>3. Cardinality(Pairs(S, h)) = Cardinality(Pairs(S \ {t}, h)) + h[t]
      BY <2>1, <2>2, Zenon
    <2> QED BY <1>1, <1>2, <2>3
  <1>3. CASE t \notin S
    <2>1. S = S \ {t}
      BY <1>3
    <2>2. Cardinality(Pairs(S, h)) = Cardinality(Pairs(S \ {t}, h))
      BY <2>1, Zenon
    <2> QED BY <1>1, <1>3, <2>2
  <1> QED BY <1>2, <1>3

\* A set that changes at most in t changes its size by whether t is in it.
LEMMA MembersStep ==
  ASSUME NEW U, IsFiniteSet(U), NEW S \in SUBSET U, NEW T \in SUBSET U, NEW t,
         S \ {t} = T \ {t}
  PROVE  /\ Cardinality(S) \in Nat /\ Cardinality(T) \in Nat
         /\ t \in S => Cardinality(S) >= 1
         /\ Cardinality(T) = Cardinality(S)
              - (IF t \in S THEN 1 ELSE 0) + (IF t \in T THEN 1 ELSE 0)
  <1>1. /\ IsFiniteSet(S) /\ Cardinality(S) \in Nat
        /\ IsFiniteSet(T) /\ Cardinality(T) \in Nat
    BY FS_Subset, FS_CardinalityType
  <1>2. /\ Cardinality(S \ {t}) = IF t \in S THEN Cardinality(S) - 1 ELSE Cardinality(S)
        /\ Cardinality(T \ {t}) = IF t \in T THEN Cardinality(T) - 1 ELSE Cardinality(T)
    BY <1>1, FS_RemoveElement
  <1>3. Cardinality(S \ {t}) = Cardinality(T \ {t})
    BY Zenon
  <1>4. t \in S => Cardinality(S) # 0
    BY <1>1, FS_EmptySet
  <1> QED BY <1>1, <1>2, <1>3, <1>4

\* Fewer threads have no more in hand.
LEMMA PairsSubset ==
  ASSUME NEW U, IsFiniteSet(U), NEW T \in SUBSET U, NEW S \in SUBSET T,
         NEW h \in [U -> Int]
  PROVE  Cardinality(Pairs(S, h)) <= Cardinality(Pairs(T, h))
  <1>1. Pairs(S, h) \subseteq Pairs(T, h)
    BY DEF Pairs
  <1>2. IsFiniteSet(Pairs(T, h))
    BY PairsFinite
  <1> QED BY <1>1, <1>2, FS_Subset

\* Threads with something in hand have one token each at the least.
LEMMA PairsBound ==
  ASSUME NEW U, IsFiniteSet(U), NEW S \in SUBSET U, NEW h \in [U -> Int],
         \A t \in S : h[t] >= 1
  PROVE  Cardinality(S) <= Cardinality(Pairs(S, h))
  <1> DEFINE first == [t \in S |-> <<t, 1>>]
  <1>1. \A t \in S : <<t, 1>> \in Pairs(S, h)
    BY DEF Pairs
  <1>2. first \in Injection(S, Pairs(S, h))
    BY <1>1 DEF Injection, IsInjective
  <1>3. IsFiniteSet(Pairs(S, h))
    BY PairsFinite
  <1> HIDE DEF first
  <1> QED BY <1>2, <1>3, FS_Injection

\* A set of threads that has nothing in hand.
LEMMA PairsEmpty ==
  ASSUME NEW U, IsFiniteSet(U), NEW S \in SUBSET U, NEW h \in [U -> Int],
         Cardinality(Pairs(S, h)) = 0, NEW t \in S
  PROVE  h[t] <= 0
  <1>1. Pairs(S, h) = {}
    BY PairsFinite, FS_EmptySet
  <1>2. h[t] >= 1 => <<t, 1>> \in Pairs(S, h)
    BY DEF Pairs
  <1> QED BY <1>1, <1>2
=============================================================================
