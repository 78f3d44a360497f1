--------------------------- MODULE ThreadPoolProofs ---------------------------
(***************************************************************************)
(* Proofs about ThreadPool for any callers and calls, any sizes and any    *)
(* capacity of the queue, whether or not starting a thread may throw.      *)
(*                                                                         *)
(* A worker is counted before it exists and until it has decided to go: so *)
(* the running count is that of the members of the pool and of those about *)
(* to be created, and while somebody is creating or serving it cannot drop *)
(* below zero.  A count that says "stopped" is never changed again; this   *)
(* is what keeps the lists of the destructor alone.                        *)
(***************************************************************************)
EXTENDS ThreadPool, HandCounting, WellFoundedInduction

-----------------------------------------------------------------------------
(* The inductive invariant *)

WorkerLabels == {"none", "boot", "launch", "create", "serve", "drop", "collect",
                 "join", "pop", "exec", "exit"}
CallerLabels == {"idle", "launch", "create", "resize", "force", "force_lock",
                 "force_push", "push", "clear", "stop", "close", "stop_store",
                 "close_push", "drain_lock", "drain", "destroy", "join_dropped",
                 "join_list"}

\* Where a thread may be, and what for.
CallerAt(l, f, n) ==
    /\ l \in CallerLabels
    /\ f \in Calls \cup {"none", "construct", "destroy"}
    /\ l = "idle" <=> f = "none"
    /\ l \in {"launch", "create"} => f \in {"construct", "resize"}
    /\ l = "resize" => f = "resize"
    /\ l \in {"destroy", "join_dropped", "join_list"} => f = "destroy"
    /\ l = "force_push" => n >= 1
WorkerAt(l, f) == /\ l \in WorkerLabels
                  /\ f \in {"none", "boot", "serve"}
                  /\ l \in {"launch", "create"} => f # "none"
                  /\ l = "boot" => f = "boot"
PlacesOK == /\ \A c \in Callers : CallerAt(pc[c], call[c], dismiss[c])
            /\ \A w \in Workers : WorkerAt(pc[w], call[w])

\* The constructor comes first and the destructor last, each of them alone.
PhaseOK ==
    \A c \in Callers :
        /\ call[c] = "construct" => phase \in {"constructing", "aborted"}
        /\ call[c] = "destroy" => phase \in {"alive", "destroying", "aborted"}
        /\ call[c] \in {"construct", "destroy"} =>
               \A d \in Callers \ {c} : pc[d] = "idle"

\* The destructor goes on when the pool has been stopped.
StoppedOK ==
    /\ phase = "destroying" => count = Stopped
    /\ \A c \in Callers : pc[c] = "destroy" => count = Stopped

\* How many more the running count says than there are.
Slack == count.running - Cardinality(Members) - Cardinality(Creating)
CountOK ==
    \/ count = Stopped
    \/ /\ Expected(count) >= 0
       /\ phase # "aborted" => Slack >= 0

\* The identities in use, and those that may still be asked for.
Used == {w \in Workers : pc[w] # "none"}
Resizing == {c \in Callers : pc[c] = "resize"}
Positive(n) == IF n > 0 THEN n ELSE 0
ResizesLeft == IF "resize" \in Calls THEN MaxCalls - calls + Cardinality(Resizing) ELSE 0
IdsOK == phase # "aborted" =>
             Cardinality(Used) + Cardinality(Creating) + Positive(count.pending)
               + MaxSize * ResizesLeft <= MaxWorkers

\* The handles: each in one place.
Handled(w) == w \in list \/ w \in dropped \/ \E t \in Threads : w \in joins[t]
HandlesOK ==
    /\ \A w \in Workers :
           /\ pc[w] # "none" <=> Handled(w)
           /\ pc[w] \notin {"none", "join", "exit"} => w \in list
           /\ w \in dropped => w \notin list
    /\ \A t \in Threads :
           /\ joins[t] # {} => pc[t] = "join"
           /\ joins[t] \cap (list \cup dropped) = {}
           /\ \A u \in Threads \ {t} : joins[t] \cap joins[u] = {}

IInv == /\ TypeOK /\ PlacesOK /\ PhaseOK /\ StoppedOK /\ CountOK /\ RunningExact
        /\ IdsOK /\ HandlesOK

-----------------------------------------------------------------------------
(* Where the threads are *)

USE CallersAssumption, SizesAssumption, CallsAssumption, ThrowsAssumption
USE DEF Threads

\* A step of t alone takes it to the label l, with the call f, or still with it.
Moves(t, l, f) == /\ pc' = [pc EXCEPT ![t] = l]
                  /\ call' = [call EXCEPT ![t] = f] \/ (call' = call /\ f = call[t])

\* The numbers of null tasks, but for those of t.
Dismisses(t) == /\ dismiss' \in [Callers -> Nat]
                /\ \A c \in Callers \ {t} : dismiss'[c] = dismiss[c]

LEMMA PlaceTyped ==
  ASSUME NEW l, NEW f, NEW n, CallerAt(l, f, n) \/ WorkerAt(l, f)
  PROVE  /\ l \in CallerLabels \cup WorkerLabels
         /\ f \in Calls \cup {"none", "construct", "destroy", "boot", "serve"}
  BY DEF CallerAt, WorkerAt

\* A step of one thread, to a place where it may be.
LEMMA MovesLocal ==
  ASSUME Typed, PlacesOK, NEW t \in Threads, NEW l, NEW f, Moves(t, l, f), Dismisses(t),
         t \in Callers => CallerAt(l, f, dismiss'[t]), t \in Workers => WorkerAt(l, f)
  PROVE  /\ PlacesOK'
         /\ pc'[t] = l /\ call'[t] = f
         /\ \A u \in Threads \ {t} : pc'[u] = pc[u] /\ call'[u] = call[u]
         /\ pc' \in [Threads -> CallerLabels \cup WorkerLabels]
         /\ call' \in [Threads -> Calls \cup {"none", "construct", "destroy", "boot",
                                                "serve"}]
  <1>1. /\ pc \in [Threads -> CallerLabels \cup WorkerLabels]
        /\ call \in [Threads -> Calls \cup {"none", "construct", "destroy", "boot",
                                              "serve"}]
    BY DEF Typed, CallerLabels, WorkerLabels
  <1>2. /\ l \in CallerLabels \cup WorkerLabels
        /\ f \in Calls \cup {"none", "construct", "destroy", "boot", "serve"}
    BY PlaceTyped
  <1>3. /\ pc'[t] = l /\ call'[t] = f
        /\ \A u \in Threads \ {t} : pc'[u] = pc[u] /\ call'[u] = call[u]
        /\ pc' \in [Threads -> CallerLabels \cup WorkerLabels]
        /\ call' \in [Threads -> Calls \cup {"none", "construct", "destroy", "boot",
                                               "serve"}]
    BY <1>1, <1>2 DEF Moves
  <1>4. ASSUME NEW c \in Callers
        PROVE  CallerAt(pc'[c], call'[c], dismiss'[c])
    <2>1. CASE c = t
      BY <1>3, <2>1
    <2>2. CASE c # t
      <3>1. pc'[c] = pc[c] /\ call'[c] = call[c] /\ dismiss'[c] = dismiss[c]
        BY <1>3, <2>2 DEF Dismisses
      <3> QED BY <3>1 DEF PlacesOK
    <2> QED BY <2>1, <2>2
  <1>5. ASSUME NEW w \in Workers
        PROVE  WorkerAt(pc'[w], call'[w])
    <2>1. CASE w = t
      BY <1>3, <2>1
    <2>2. CASE w # t
      <3>1. pc'[w] = pc[w] /\ call'[w] = call[w]
        BY <1>3, <2>2
      <3> QED BY <3>1 DEF PlacesOK
    <2> QED BY <2>1, <2>2
  <1>6. PlacesOK'
    BY <1>4, <1>5 DEF PlacesOK, CallerAt, WorkerAt
  <1> QED BY <1>3, <1>6

\* The phase stays as it is, but for the end of the construction.
LEMMA PhaseKept ==
  ASSUME PhaseOK, PlacesOK, NEW t \in Threads, NEW l, NEW f,
         pc'[t] = l, call'[t] = f, t \in Callers => pc[t] # "idle",
         \A u \in Threads \ {t} : pc'[u] = pc[u] /\ call'[u] = call[u],
         f \in {"none", "boot", "serve", call[t]},
         \/ phase' = phase
         \/ t \in Callers /\ call[t] = "construct" /\ f = "none"
  PROVE  PhaseOK'
  <1>1. CASE phase' = phase
    <2>1. ASSUME NEW c \in Callers
          PROVE  /\ call'[c] = "construct" => phase' \in {"constructing", "aborted"}
                 /\ call'[c] = "destroy" => phase' \in {"alive", "destroying", "aborted"}
      BY <1>1 DEF PhaseOK
    <2>2. ASSUME NEW c \in Callers, call'[c] \in {"construct", "destroy"},
                 NEW d \in Callers \ {c}
          PROVE  pc'[d] = "idle"
      <3>1. call[c] \in {"construct", "destroy"}
        BY <2>2
      <3>2. pc[d] = "idle"
        BY <3>1 DEF PhaseOK
      <3> QED BY <3>2
    <2> QED BY <2>1, <2>2 DEF PhaseOK
  <1>2. CASE t \in Callers /\ call[t] = "construct" /\ f = "none"
    <2>1. \A c \in Callers \ {t} : pc[c] = "idle"
      BY <1>2 DEF PhaseOK
    <2>2. \A c \in Callers \ {t} : call[c] = "none"
      BY <2>1 DEF PlacesOK, CallerAt
    <2>3. \A c \in Callers : call'[c] = "none"
      BY <1>2, <2>2
    <2> QED BY <2>3 DEF PhaseOK
  <1> QED BY <1>1, <1>2

\* A pool that has been stopped stays stopped.
LEMMA StoppedKept ==
  ASSUME StoppedOK, NEW t \in Threads, NEW l, pc'[t] = l,
         \A u \in Threads \ {t} : pc'[u] = pc[u],
         phase' = "destroying" => phase = "destroying", count = Stopped => count' = Stopped,
         l = "destroy" => count' = Stopped
  PROVE  StoppedOK'
  BY DEF StoppedOK

-----------------------------------------------------------------------------
(* Counting the threads *)

LEMMA ThreadsFinite == IsFiniteSet(Threads) /\ IsFiniteSet(Workers)
  <1>1. IsFiniteSet(Workers)
    BY FS_Interval DEF Workers
  <1> QED BY <1>1, FS_Union

LEMMA SetsCounted ==
  /\ Cardinality(Members) \in Nat /\ Cardinality(Creating) \in Nat
  /\ Cardinality(Used) \in Nat /\ Cardinality(Resizing) \in Nat
  /\ Cardinality(Members') \in Nat /\ Cardinality(Creating') \in Nat
  /\ Cardinality(Used') \in Nat /\ Cardinality(Resizing') \in Nat
  <1>1. /\ Members \in SUBSET Threads /\ Creating \in SUBSET Threads
        /\ Used \in SUBSET Threads /\ Resizing \in SUBSET Threads
        /\ Members' \in SUBSET Threads /\ Creating' \in SUBSET Threads
        /\ Used' \in SUBSET Threads /\ Resizing' \in SUBSET Threads
    BY DEF Members, Creating, Used, Resizing
  <1>2. \A S \in SUBSET Threads : Cardinality(S) \in Nat
    BY ThreadsFinite, FS_Subset, FS_CardinalityType
  <1> QED BY <1>1, <1>2

\* The sets whose members are counted, without t, are left alone.
OthersStay(t) == /\ Members' \ {t} = Members \ {t} /\ Creating' \ {t} = Creating \ {t}
                 /\ Used' \ {t} = Used \ {t} /\ Resizing' \ {t} = Resizing \ {t}

LEMMA OthersAlone ==
  ASSUME NEW t \in Threads, \A u \in Threads \ {t} : pc'[u] = pc[u],
         list' \ {t} = list \ {t}
  PROVE  OthersStay(t)
  BY DEF OthersStay, Members, Creating, Used, Resizing

In(t, S) == IF t \in S THEN 1 ELSE 0

LEMMA Counted ==
  ASSUME NEW t \in Threads, OthersStay(t)
  PROVE  /\ Cardinality(Members') = Cardinality(Members) - In(t, Members) + In(t, Members')
         /\ Cardinality(Creating') = Cardinality(Creating) - In(t, Creating) + In(t, Creating')
         /\ Cardinality(Used') = Cardinality(Used) - In(t, Used) + In(t, Used')
         /\ Cardinality(Resizing') = Cardinality(Resizing) - In(t, Resizing) + In(t, Resizing')
         /\ t \in Creating => Cardinality(Creating) >= 1
         /\ t \in Members => Cardinality(Members) >= 1
         /\ t \in Resizing => Cardinality(Resizing) >= 1
  <1>1. /\ Members \in SUBSET Threads /\ Creating \in SUBSET Threads
        /\ Used \in SUBSET Threads /\ Resizing \in SUBSET Threads
        /\ Members' \in SUBSET Threads /\ Creating' \in SUBSET Threads
        /\ Used' \in SUBSET Threads /\ Resizing' \in SUBSET Threads
    BY DEF Members, Creating, Used, Resizing
  <1>2. \A S, T \in SUBSET Threads :
            S \ {t} = T \ {t} =>
                /\ Cardinality(S) = Cardinality(T) - In(t, T) + In(t, S)
                /\ t \in T => Cardinality(T) >= 1
    BY ThreadsFinite, MembersStep DEF In
  <1> QED BY <1>1, <1>2 DEF OthersStay

\* The count stays right if it changes with the threads there are, or if the pool
\* is stopped.
LEMMA CountFits ==
  ASSUME Typed, CountOK, RunningExact, count' \in [running : Int, pending : Int],
         phase # "aborted",
         \/ count' = Stopped
         \/ /\ count # Stopped /\ Expected(count') >= 0
            /\ Slack' = Slack \/ (Slack' >= Slack /\ qstate' = "CLOSED"),
         qstate = "CLOSED" => qstate' = "CLOSED",
         phase' \in {"constructing", "alive"} => phase \in {"constructing", "alive"}
  PROVE  CountOK' /\ RunningExact'
  <1>1. /\ count.running \in Int /\ count'.running \in Int
        /\ Slack \in Int /\ Slack' \in Int
    BY SetsCounted DEF Slack, Typed
  <1>2. Stopped.running < 0
    BY DEF Stopped, Count
  <1>3. CASE count' = Stopped
    BY <1>1, <1>2, <1>3 DEF CountOK, RunningExact
  <1>4. CASE count' # Stopped
    <2>1. /\ count # Stopped /\ Expected(count') >= 0 /\ Slack >= 0 /\ Slack' >= 0
          /\ Slack' = Slack \/ qstate' = "CLOSED"
      BY <1>1, <1>4 DEF CountOK
    <2>2. CountOK'
      BY <2>1 DEF CountOK
    <2>3. count.running >= 0
      BY <1>1, <2>1, SetsCounted DEF Slack
    <2>4. ASSUME qstate' # "CLOSED", phase' \in {"constructing", "alive"}
          PROVE  Slack' = 0
      <3>1. count.running = Cardinality(Members) + Cardinality(Creating)
        BY <2>3, <2>4 DEF RunningExact
      <3> QED BY <1>1, <2>1, <2>4, <3>1, SetsCounted DEF Slack
    <2>5. RunningExact'
      BY <1>1, <2>4, SetsCounted DEF RunningExact, Slack
    <2> QED BY <2>2, <2>5
  <1> QED BY <1>3, <1>4

\* The identities suffice as long as no more of them are asked for.
LEMMA IdsFit ==
  ASSUME IdsOK, phase # "aborted", MaxSize * ResizesLeft \in Nat,
         count.pending \in Int, count'.pending \in Int,
         Cardinality(Used') + Cardinality(Creating') + Positive(count'.pending)
           + MaxSize * ResizesLeft'
         <= Cardinality(Used) + Cardinality(Creating) + Positive(count.pending)
              + MaxSize * ResizesLeft,
         MaxSize * ResizesLeft' \in Nat
  PROVE  IdsOK'
  <1>1. Positive(count.pending) \in Nat /\ Positive(count'.pending) \in Nat
    BY DEF Positive
  <1> QED BY <1>1, SetsCounted DEF IdsOK

LEMMA Products == \A n \in Nat : MaxSize * n \in Nat
  OBVIOUS

LEMMA ResizesLeftNat ==
  ASSUME calls \in 0..MaxCalls
  PROVE  ResizesLeft \in Nat /\ MaxSize * ResizesLeft \in Nat
  <1>1. ResizesLeft \in Nat
    BY SetsCounted DEF ResizesLeft
  <1> QED BY <1>1, Products, Zenon

LEMMA ResizesLeftNatNext ==
  ASSUME calls' \in 0..MaxCalls
  PROVE  ResizesLeft' \in Nat /\ MaxSize * ResizesLeft' \in Nat
  <1>1. ResizesLeft' \in Nat
    BY SetsCounted DEF ResizesLeft
  <1> QED BY <1>1, Products, Zenon

\* Whoever creates a thread finds an identity for it.
LEMMA IdsEnough ==
  ASSUME IdsOK', phase' # "aborted", calls' \in 0..MaxCalls, count'.pending \in Int
  PROVE  (Creating # {} => FreeIds # {})'
  <1> SUFFICES ASSUME Creating' # {}, FreeIds' = {}
               PROVE  FALSE
    OBVIOUS
  <1>1. Used' = Workers
    BY DEF FreeIds, Used
  <1>2. Cardinality(Workers) = MaxWorkers
    BY FS_Interval DEF Workers
  <1>3. Cardinality(Used') = MaxWorkers
    BY <1>1, <1>2, Zenon
  <1>4. Cardinality(Creating') # 0
    <2>1. Creating' \in SUBSET Threads
      BY DEF Creating
    <2> QED BY <2>1, ThreadsFinite, FS_Subset, FS_EmptySet
  <1>5. Positive(count'.pending) \in Nat
    BY DEF Positive
  <1>6. Cardinality(Used') + Cardinality(Creating') + Positive(count'.pending)
          + MaxSize * ResizesLeft' <= MaxWorkers
    BY DEF IdsOK
  <1>7. MaxSize * ResizesLeft' \in Nat /\ Cardinality(Creating') \in Nat
    BY SetsCounted, ResizesLeftNatNext
  <1> QED BY <1>3, <1>4, <1>5, <1>6, <1>7

\* The variables that a step hardly ever touches.
Others == <<count, list, dropped, joins, calls>>
TypedRest ==
    /\ mutex \in Callers \cup {NoOwner} /\ capmutex \in Callers \cup {NoOwner}
    /\ flag \in BOOLEAN
    /\ qstate \in {"OPEN", "FINALIZING", "CLOSED"}
    /\ items \in Nat /\ nulls \in Nat /\ items + nulls <= QueueCapacity
    /\ cur \in [Threads -> [running : Int, pending : Int]]
    /\ failed \in BOOLEAN /\ cleared \in BOOLEAN

LEMMA TypedSplit ==
  ASSUME Typed
  PROVE  /\ TypedRest
         /\ count \in [running : Int, pending : Int] /\ list \subseteq Workers
         /\ dropped \subseteq Workers /\ joins \in [Threads -> SUBSET Workers]
         /\ calls \in 0..MaxCalls /\ dismiss \in [Callers -> Nat]
         /\ phase \in {"constructing", "alive", "destroying", "destroyed", "aborted"}
  BY DEF Typed, TypedRest

LEMMA TypedJoin ==
  ASSUME TypedRest',
         count' \in [running : Int, pending : Int], list' \subseteq Workers,
         dropped' \subseteq Workers, joins' \in [Threads -> SUBSET Workers],
         calls' \in 0..MaxCalls, dismiss' \in [Callers -> Nat],
         phase' \in {"constructing", "alive", "destroying", "destroyed", "aborted"},
         pc' \in [Threads -> CallerLabels \cup WorkerLabels],
         call' \in [Threads -> Calls \cup {"none", "construct", "destroy", "boot", "serve"}]
  PROVE  Typed'
  BY DEF Typed, TypedRest, CallerLabels, WorkerLabels

\* The handles stay where they are.
LEMMA HandlesKept ==
  ASSUME HandlesOK, NEW t \in Threads, \A u \in Threads \ {t} : pc'[u] = pc[u],
         UNCHANGED <<list, dropped, joins>>, joins[t] = {},
         t \in Workers => /\ pc[t] # "none" /\ pc'[t] # "none"
                          /\ pc'[t] \notin {"join", "exit"} => t \in list
  PROVE  HandlesOK'
  <1>1. ASSUME NEW w \in Workers
        PROVE  Handled(w)' <=> Handled(w)
    BY DEF Handled
  <1>2. ASSUME NEW w \in Workers
        PROVE  /\ pc'[w] # "none" <=> Handled(w)'
               /\ pc'[w] \notin {"none", "join", "exit"} => w \in list'
               /\ w \in dropped' => w \notin list'
    BY <1>1 DEF HandlesOK
  <1>3. ASSUME NEW u \in Threads
        PROVE  /\ joins'[u] # {} => pc'[u] = "join"
               /\ joins'[u] \cap (list' \cup dropped') = {}
               /\ \A v \in Threads \ {u} : joins'[u] \cap joins'[v] = {}
    BY DEF HandlesOK
  <1> QED BY <1>2, <1>3 DEF HandlesOK, Handled

LEMMA ProductsGrow == \A m, n \in Nat : m <= n => MaxSize * m <= MaxSize * n
  <1> SUFFICES ASSUME NEW m \in Nat, NEW n \in Nat, m <= n
               PROVE  MaxSize * m <= MaxSize * n
    OBVIOUS
  <1>1. PICK d \in Nat : n = m + d
    <2>1. n - m \in Nat /\ n = m + (n - m)
      OBVIOUS
    <2> QED BY <2>1
  <1>2. MaxSize * (m + d) = (MaxSize * m) + (MaxSize * d)
    OBVIOUS
  <1>3. MaxSize * d \in Nat /\ MaxSize * m \in Nat
    BY Products
  <1> QED BY <1>1, <1>2, <1>3

\* Fewer calls of resize() to come.
LEMMA FewerResizes ==
  ASSUME calls \in 0..MaxCalls, calls' = calls, Cardinality(Resizing') <= Cardinality(Resizing)
  PROVE  MaxSize * ResizesLeft' <= MaxSize * ResizesLeft
  <1>1. ResizesLeft \in Nat /\ ResizesLeft' \in Nat
    BY ResizesLeftNat, ResizesLeftNatNext
  <1>2. ResizesLeft' <= ResizesLeft
    BY SetsCounted DEF ResizesLeft
  <1> QED BY <1>1, <1>2, ProductsGrow, Zenon

\* A step of one thread that touches neither the count nor the handles.
LEMMA QuietStep ==
  ASSUME IInv, phase # "aborted", NEW t \in Threads, NEW l, NEW f, Moves(t, l, f),
         Dismisses(t), UNCHANGED Others, TypedRest',
         t \in Callers => /\ CallerAt(l, f, dismiss'[t]) /\ pc[t] # "idle"
                          /\ l \notin {"create", "resize", "destroy"},
         t \in Workers => /\ WorkerAt(l, f) /\ l \notin {"none", "create", "drop", "join"}
                          /\ pc[t] \in {"boot", "launch", "create", "serve", "collect",
                                        "pop", "exec"}
                          /\ l = "exit" => qstate' = "CLOSED",
         pc[t] = "create" => count = Stopped,
         f \in {"none", "boot", "serve", call[t]},
         \/ phase' = phase
         \/ t \in Callers /\ call[t] = "construct" /\ f = "none" /\ phase' = "alive",
         qstate = "CLOSED" => qstate' = "CLOSED"
  PROVE  IInv'
  <1>1. /\ Typed /\ PlacesOK /\ PhaseOK /\ StoppedOK /\ CountOK /\ RunningExact /\ IdsOK
        /\ HandlesOK
    BY DEF IInv, TypeOK
  <1>2. /\ PlacesOK' /\ pc'[t] = l /\ call'[t] = f
        /\ \A u \in Threads \ {t} : pc'[u] = pc[u] /\ call'[u] = call[u]
        /\ pc' \in [Threads -> CallerLabels \cup WorkerLabels]
        /\ call' \in [Threads -> Calls \cup {"none", "construct", "destroy", "boot",
                                             "serve"}]
    BY <1>1, MovesLocal
  <1>3. PhaseOK'
    BY <1>1, <1>2, PhaseKept
  <1>4. UNCHANGED <<count, list, dropped, joins, calls>>
    BY DEF Others
  <1>5. /\ phase' # "aborted"
        /\ phase' \in {"constructing", "alive", "destroying", "destroyed", "aborted"}
        /\ phase' = "destroying" => phase = "destroying"
        /\ phase' \in {"constructing", "alive"} => phase \in {"constructing", "alive"}
    BY <1>1 DEF PhaseOK, Typed
  <1>6. StoppedOK'
    <2>1. l # "destroy"
      BY DEF WorkerAt, WorkerLabels
    <2> QED BY <1>1, <1>2, <1>4, <1>5, <2>1, StoppedKept
  <1>7. Typed'
    BY <1>1, <1>2, <1>4, <1>5, TypedSplit, TypedJoin DEF Dismisses
  <1>8. HandlesOK'
    <2>1. joins[t] = {}
      BY <1>1 DEF HandlesOK, PlacesOK, CallerAt, CallerLabels
    <2>2. t \in Workers => t \in list
      BY <1>1 DEF HandlesOK
    <2> QED BY <1>1, <1>2, <1>4, <2>1, <2>2, HandlesKept
  <1>9. OthersStay(t)
    BY <1>2, <1>4, OthersAlone
  <1>10. /\ In(t, Creating') = 0
         /\ pc[t] # "create" => In(t, Creating) = 0
         /\ In(t, Resizing') = 0
         /\ In(t, Used) = In(t, Used')
         /\ In(t, Members') <= In(t, Members)
         /\ qstate' # "CLOSED" => In(t, Members') = In(t, Members)
    <2>1. In(t, Creating') = 0 /\ (pc[t] # "create" => In(t, Creating) = 0)
      BY <1>2 DEF In, Creating
    <2>2. CASE t \in Callers
      BY <1>2, <2>1, <2>2 DEF In, Resizing, Used, Members
    <2>3. CASE t \in Workers
      BY <1>2, <2>1, <2>3 DEF In, Resizing, Used, Members
    <2> QED BY <2>2, <2>3
  <1>11. /\ In(t, Creating) \in {0, 1} /\ In(t, Resizing) \in {0, 1}
         /\ In(t, Members) \in {0, 1} /\ In(t, Members') \in {0, 1}
         /\ In(t, Used) \in {0, 1}
    BY DEF In
  <1>12. CountOK' /\ RunningExact'
    <2>1. count # Stopped => Expected(count') >= 0
      BY <1>1, <1>4 DEF CountOK
    <2>2. count # Stopped => Slack' >= Slack /\ (Slack' = Slack \/ qstate' = "CLOSED")
      BY <1>1, <1>4, <1>9, <1>10, <1>11, Counted, SetsCounted DEF Slack, Typed
    <2>3. count' = count /\ count' \in [running : Int, pending : Int]
      BY <1>4, <1>7 DEF Typed
    <2>4. \/ count' = Stopped
          \/ /\ count # Stopped /\ Expected(count') >= 0
             /\ Slack' = Slack \/ (Slack' >= Slack /\ qstate' = "CLOSED")
      BY <2>1, <2>2, <2>3
    <2> QED BY <1>1, <1>5, <2>3, <2>4, CountFits
  <1>13. IdsOK'
    <2>1. calls \in 0..MaxCalls /\ calls' = calls /\ count.pending \in Int
          /\ count'.pending = count.pending
      BY <1>1, <1>4 DEF Typed
    <2>2. /\ Cardinality(Used') = Cardinality(Used)
          /\ Cardinality(Creating') <= Cardinality(Creating)
          /\ Cardinality(Resizing') <= Cardinality(Resizing)
      BY <1>9, <1>10, <1>11, Counted, SetsCounted
    <2>3. /\ MaxSize * ResizesLeft' <= MaxSize * ResizesLeft
          /\ MaxSize * ResizesLeft \in Nat /\ MaxSize * ResizesLeft' \in Nat
      BY <2>1, <2>2, FewerResizes, ResizesLeftNat, ResizesLeftNatNext
    <2>4. Positive(count'.pending) = Positive(count.pending) /\ Positive(count.pending) \in Nat
      BY <2>1 DEF Positive
    <2>5. Cardinality(Used') + Cardinality(Creating') + Positive(count'.pending)
            + MaxSize * ResizesLeft'
          <= Cardinality(Used) + Cardinality(Creating) + Positive(count.pending)
               + MaxSize * ResizesLeft
      BY <2>2, <2>3, <2>4, SetsCounted
    <2> QED BY <1>1, <2>1, <2>3, <2>5, IdsFit
  <1>14. TypeOK'
    BY <1>5, <1>7, <1>13, IdsEnough DEF TypeOK, Typed
  <1> QED BY <1>2, <1>3, <1>6, <1>8, <1>12, <1>13, <1>14 DEF IInv

-----------------------------------------------------------------------------
(* The steps that touch neither the count nor the handles *)

\* A thread's place, its count and the state of the queue, as IInv has them.
LEMMA Places ==
  ASSUME IInv
  PROVE  /\ TypedRest /\ count \in [running : Int, pending : Int]
         /\ dismiss \in [Callers -> Nat] /\ call \in [Threads -> Calls \cup {"none",
                 "construct", "destroy", "boot", "serve"}]
         /\ \A c \in Callers : CallerAt(pc[c], call[c], dismiss[c])
         /\ \A w \in Workers : WorkerAt(pc[w], call[w])
         /\ phase # "aborted" /\ count.running < 0 => count = Stopped
  <1>1. phase # "aborted" /\ count # Stopped => count.running >= 0
    BY SetsCounted DEF IInv, TypeOK, Typed, CountOK, Slack
  <1> QED BY <1>1, TypedSplit DEF IInv, TypeOK, Typed, PlacesOK

\* check_launch_new_thread() returns: to whom, and where it goes on.
LEMMA LaunchReturns ==
  ASSUME IInv, NEW t \in Threads, pc[t] \in {"launch", "create"}, NEW more \in BOOLEAN,
         LaunchReturn(t, more)
  PROVE  /\ cur' \in [Threads -> [running : Int, pending : Int]]
         /\ \/ /\ t \in Workers /\ UNCHANGED <<call, phase>>
               /\ \E l \in {"boot", "serve", "collect"} :
                      Moves(t, l, call[t]) /\ WorkerAt(l, call[t])
            \/ /\ t \in Callers /\ Moves(t, "idle", "none")
               /\ phase' = phase \/ (call[t] = "construct" /\ phase' = "alive")
  <1>1. /\ t \in Callers => CallerAt(pc[t], call[t], dismiss[t])
        /\ t \in Workers => WorkerAt(pc[t], call[t])
        /\ cur \in [Threads -> [running : Int, pending : Int]]
    BY Places DEF TypedRest
  <1>2. cur' = [cur EXCEPT ![t] = NoCount]
    BY DEF LaunchReturn, Forget, Load
  <1>3. cur' \in [Threads -> [running : Int, pending : Int]]
    BY <1>1, <1>2 DEF NoCount, Count
  <1>4. CASE t \in Workers
    <2>1. call[t] \in {"boot", "serve"}
      BY <1>1, <1>4 DEF WorkerAt
    <2>2. \/ call[t] = "boot" /\ pc' = [pc EXCEPT ![t] = IF more THEN "boot" ELSE "serve"]
          \/ call[t] = "serve" /\ pc' = [pc EXCEPT ![t] = "collect"]
      BY <2>1 DEF LaunchReturn, Goto
    <2>3. UNCHANGED <<call, phase>>
      BY <2>1 DEF LaunchReturn
    <2>4. \E l \in {"boot", "serve", "collect"} :
              pc' = [pc EXCEPT ![t] = l] /\ WorkerAt(l, call[t])
      BY <2>1, <2>2 DEF WorkerAt, WorkerLabels
    <2> QED BY <1>3, <1>4, <2>3, <2>4 DEF Moves
  <1>5. CASE t \in Callers
    <2>1. call[t] \in {"construct", "resize"}
      BY <1>1, <1>5 DEF CallerAt
    <2>2. Finish(t) /\ (phase' = phase \/ (call[t] = "construct" /\ phase' = "alive"))
      BY <2>1 DEF LaunchReturn
    <2> QED BY <1>3, <1>5, <2>2 DEF Moves, Finish, Goto
  <1> QED BY <1>4, <1>5

\* It returns without having counted a thread, or without creating the one counted.
LEMMA LaunchQuiet ==
  ASSUME IInv, phase # "aborted", NEW t \in Threads, pc[t] \in {"launch", "create"},
         pc[t] = "create" => count = Stopped, NEW more \in BOOLEAN, LaunchReturn(t, more),
         UNCHANGED <<count, mutex, list, dropped, flag, queuevars, dismiss, joins, calls,
                     failed>>
  PROVE  IInv'
  <1>1. TypedRest'
    <2>1. cur' \in [Threads -> [running : Int, pending : Int]]
      BY LaunchReturns
    <2> QED BY <2>1, Places DEF TypedRest, queuevars
  <1>2. /\ Dismisses(t) /\ UNCHANGED Others /\ qstate' = qstate /\ dismiss' = dismiss
    BY Places DEF Dismisses, Others, queuevars
  <1>3. CASE t \in Workers
    <2>1. PICK l \in {"boot", "serve", "collect"} :
              Moves(t, l, call[t]) /\ WorkerAt(l, call[t]) /\ phase' = phase
      BY <1>3, LaunchReturns
    <2>2. t \notin Callers
      BY <1>3
    <2> QED BY <1>1, <1>2, <1>3, <2>1, <2>2, QuietStep
  <1>4. CASE t \in Callers
    <2>1. Moves(t, "idle", "none") /\ t \notin Workers
          /\ (phase' = phase \/ (call[t] = "construct" /\ phase' = "alive"))
      BY <1>4, LaunchReturns
    <2>2. CallerAt("idle", "none", dismiss'[t])
      BY DEF CallerAt, CallerLabels
    <2> QED BY <1>1, <1>2, <1>4, <2>1, <2>2, QuietStep
  <1> QED BY <1>3, <1>4

LEMMA LaunchNothingStep ==
  ASSUME IInv, phase # "aborted", NEW t \in Threads, LaunchNothing(t)
  PROVE  IInv'
  BY LaunchQuiet DEF LaunchNothing

LEMMA CreateStoppedStep ==
  ASSUME IInv, phase # "aborted", NEW t \in Threads, CreateStopped(t)
  PROVE  IInv'
  <1>1. count = Stopped
    BY Places DEF CreateStopped
  <1> QED BY <1>1, LaunchQuiet DEF CreateStopped

LEMMA LaunchCasFails ==
  ASSUME IInv, phase # "aborted", NEW t \in Threads, LaunchCas(t), count # cur[t]
  PROVE  IInv'
  <1>1. /\ LaunchReturn(t, count.pending > 0) /\ pc[t] = "launch"
        /\ UNCHANGED <<count, mutex, list, dropped, flag, queuevars, dismiss, joins, calls,
                       failed>>
    BY DEF LaunchCas
  <1>2. (count.pending > 0) \in BOOLEAN
    OBVIOUS
  <1> QED BY <1>1, <1>2, LaunchQuiet

LEMMA LoadTyped ==
  ASSUME IInv, NEW t \in Threads, Load(t, count)
  PROVE  cur' \in [Threads -> [running : Int, pending : Int]]
  BY Places DEF TypedRest, Load

\* The workers.
LEMMA BootStep ==
  ASSUME IInv, phase # "aborted", NEW w \in Workers, Boot(w)
  PROVE  IInv'
  <1>1. /\ pc[w] = "boot" /\ pc' = [pc EXCEPT ![w] = "launch"] /\ Load(w, count)
        /\ UNCHANGED <<count, poolvars, queuevars, call, dismiss, joins, calls, failed>>
    BY DEF Boot, Goto
  <1>2. WorkerAt("launch", call[w]) /\ w \notin Callers
    BY <1>1, Places DEF WorkerAt, WorkerLabels
  <1>3. Moves(w, "launch", call[w]) /\ Dismisses(w) /\ UNCHANGED Others
    BY <1>1, Places DEF Moves, Dismisses, Others, poolvars
  <1>4. TypedRest' /\ UNCHANGED <<phase, qstate>>
    <2>1. cur' \in [Threads -> [running : Int, pending : Int]]
      BY <1>1, LoadTyped
    <2> QED BY <1>1, <2>1, Places DEF TypedRest, poolvars, queuevars
  <1> QED BY <1>1, <1>2, <1>3, <1>4, QuietStep

LEMMA ServeOnStep ==
  ASSUME IInv, phase # "aborted", NEW w \in Workers, Serve(w), ~(count.pending < 0)
  PROVE  IInv'
  <1>1. /\ pc[w] = "serve" /\ pc' = [pc EXCEPT ![w] = "launch"] /\ Load(w, count)
        /\ call' = [call EXCEPT ![w] = "serve"]
        /\ UNCHANGED <<count, poolvars, queuevars, dismiss, joins, calls, failed>>
    BY DEF Serve, Goto
  <1>2. WorkerAt("launch", "serve") /\ w \notin Callers
    BY DEF WorkerAt, WorkerLabels
  <1>3. Moves(w, "launch", "serve") /\ Dismisses(w) /\ UNCHANGED Others
    BY <1>1, Places DEF Moves, Dismisses, Others, poolvars
  <1>4. TypedRest' /\ UNCHANGED <<phase, qstate>>
    <2>1. cur' \in [Threads -> [running : Int, pending : Int]]
      BY <1>1, LoadTyped
    <2> QED BY <1>1, <2>1, Places DEF TypedRest, poolvars, queuevars
  <1> QED BY <1>1, <1>2, <1>3, <1>4, QuietStep

LEMMA CollectNothingStep ==
  ASSUME IInv, phase # "aborted", NEW w \in Workers, Collect(w),
         ~(flag /\ mutex = NoOwner /\ phase # "destroying" /\ dropped # {})
  PROVE  IInv'
  <1>1. /\ pc[w] = "collect" /\ pc' = [pc EXCEPT ![w] = "pop"]
        /\ UNCHANGED <<count, mutex, list, dropped, flag, phase, queuevars, call, cur,
                       dismiss, joins, calls, failed>>
    BY DEF Collect, Goto
  <1>2. WorkerAt("pop", call[w]) /\ w \notin Callers
    BY <1>1, Places DEF WorkerAt, WorkerLabels
  <1>3. Moves(w, "pop", call[w]) /\ Dismisses(w) /\ UNCHANGED Others
    BY <1>1, Places DEF Moves, Dismisses, Others
  <1>4. TypedRest' /\ UNCHANGED <<phase, qstate>>
    BY <1>1, Places DEF TypedRest, queuevars
  <1> QED BY <1>1, <1>2, <1>3, <1>4, QuietStep

LEMMA PopStep ==
  ASSUME IInv, phase # "aborted", NEW w \in Workers, Pop(w)
  PROVE  IInv'
  <1>1. PICK l \in {"exit", "exec", "serve"} : /\ pc[w] = "pop" /\ pc' = [pc EXCEPT ![w] = l]
                                               /\ l = "exit" => qstate' = "CLOSED"
    BY DEF Pop, Goto
  <1>2. WorkerAt(l, call[w]) /\ w \notin Callers
    BY <1>1, Places DEF WorkerAt, WorkerLabels
  <1>3. UNCHANGED <<count, poolvars, capmutex, cleared, call, cur, dismiss, joins, calls,
                    failed>>
    BY DEF Pop
  <1>4. Moves(w, l, call[w]) /\ Dismisses(w) /\ UNCHANGED Others
    BY <1>1, <1>3, Places DEF Moves, Dismisses, Others, poolvars
  <1>5. /\ items' \in Nat /\ nulls' \in Nat /\ items' + nulls' <= QueueCapacity
        /\ qstate' \in {"OPEN", "FINALIZING", "CLOSED"}
        /\ qstate = "CLOSED" => qstate' = "CLOSED"
    BY Places DEF TypedRest, Pop, Left
  <1>6. TypedRest' /\ phase' = phase
    BY <1>3, <1>5, Places DEF TypedRest, poolvars
  <1> QED BY <1>1, <1>2, <1>4, <1>5, <1>6, QuietStep

LEMMA ExecStep ==
  ASSUME IInv, phase # "aborted", NEW w \in Workers, Exec(w)
  PROVE  IInv'
  <1>1. /\ pc[w] = "exec" /\ pc' = [pc EXCEPT ![w] = "serve"]
        /\ UNCHANGED <<count, poolvars, queuevars, call, cur, dismiss, joins, calls, failed>>
    BY DEF Exec, Goto
  <1>2. WorkerAt("serve", call[w]) /\ w \notin Callers
    BY <1>1, Places DEF WorkerAt, WorkerLabels
  <1>3. Moves(w, "serve", call[w]) /\ Dismisses(w) /\ UNCHANGED Others
    BY <1>1, Places DEF Moves, Dismisses, Others, poolvars
  <1>4. TypedRest' /\ UNCHANGED <<phase, qstate>>
    BY <1>1, Places DEF TypedRest, poolvars, queuevars
  <1> QED BY <1>1, <1>2, <1>3, <1>4, QuietStep

\* The callers: c goes on with its call, or returns from it.
LEMMA CallerQuiet ==
  ASSUME IInv, phase # "aborted", NEW c \in Callers, pc[c] \notin {"idle", "create"},
         NEW l \in {"idle", "force", "force_lock", "force_push", "stop_store", "close",
                    "close_push", "drain_lock", "drain"},
         \/ l = "idle" /\ Finish(c)
         \/ l # "idle" /\ Goto(c, l) /\ call' = call,
         l = "force_push" => dismiss'[c] >= 1, Dismisses(c),
         UNCHANGED Others, phase' = phase, TypedRest', qstate = "CLOSED" => qstate' = "CLOSED"
  PROVE  IInv'
  <1>1. CallerAt(pc[c], call[c], dismiss[c]) /\ c \notin Workers
    BY Places
  <1>2. CASE l = "idle" /\ Finish(c)
    <2>1. Moves(c, l, "none") /\ CallerAt(l, "none", dismiss'[c])
      BY <1>2 DEF Finish, Goto, Moves, CallerAt, CallerLabels
    <2> QED BY <1>1, <2>1, QuietStep
  <1>3. CASE l # "idle" /\ Goto(c, l) /\ call' = call
    <2>1. Moves(c, l, call[c])
      BY <1>3 DEF Goto, Moves
    <2>2. CallerAt(l, call[c], dismiss'[c])
      BY <1>1, <1>3 DEF CallerAt, CallerLabels
    <2> QED BY <1>1, <2>1, <2>2, QuietStep
  <1> QED BY <1>2, <1>3

LEMMA DismissesKept ==
  ASSUME IInv, dismiss' = dismiss, NEW c
  PROVE  Dismisses(c)
  BY Places DEF Dismisses

LEMMA ResizeNothingStep ==
  ASSUME IInv, phase # "aborted", NEW c \in Callers, NEW size \in 0..MaxSize,
         Resize(c, size), Expected(count) < 0 \/ Expected(count) = size
  PROVE  IInv'
  <1>1. /\ pc[c] = "resize" /\ Finish(c)
        /\ UNCHANGED <<count, cur, poolvars, queuevars, dismiss, joins, calls, failed>>
    BY DEF Resize
  <1>2. UNCHANGED Others /\ TypedRest' /\ UNCHANGED <<phase, qstate>> /\ Dismisses(c)
    BY <1>1, Places, DismissesKept DEF Others, TypedRest, poolvars, queuevars
  <1> QED BY <1>1, <1>2, CallerQuiet

\* The larger of a number and zero.
LEMMA MaxZero ==
  ASSUME NEW n \in Int
  PROVE  Max({n, 0}) \in Nat
  BY DEF Max

LEMMA ForceDismissStep ==
  ASSUME IInv, phase # "aborted", NEW c \in Callers, ForceDismiss(c)
  PROVE  IInv'
  <1>1. /\ pc[c] = "force" /\ Goto(c, "force_lock")
        /\ dismiss' = [dismiss EXCEPT ![c] = Max({-count.pending, 0})]
        /\ UNCHANGED <<count, poolvars, queuevars, call, cur, joins, calls, failed>>
    BY DEF ForceDismiss
  <1>2. Max({-count.pending, 0}) \in Nat
    <2>1. -count.pending \in Int
      BY Places
    <2> QED BY <2>1, MaxZero
  <1>3. Dismisses(c)
    BY <1>1, <1>2, Places DEF Dismisses
  <1>4. UNCHANGED Others /\ TypedRest' /\ UNCHANGED <<phase, qstate>>
    BY <1>1, Places DEF Others, TypedRest, poolvars, queuevars
  <1> QED BY <1>1, <1>3, <1>4, CallerQuiet

LEMMA ForceLockStep ==
  ASSUME IInv, phase # "aborted", NEW c \in Callers, ForceLock(c)
  PROVE  IInv'
  <1>1. /\ pc[c] = "force_lock" /\ mutex' \in {mutex, c}
        /\ UNCHANGED <<count, list, dropped, flag, phase, queuevars, cur, joins, calls,
                       failed>>
    BY DEF ForceLock
  <1>2. UNCHANGED Others /\ TypedRest' /\ UNCHANGED <<phase, qstate>>
    BY <1>1, Places DEF Others, TypedRest, queuevars
  <1>3. Dismisses(c) /\ dismiss[c] \in Nat
    BY Places DEF ForceLock, Dismisses
  <1>4. \/ Finish(c)
        \/ Goto(c, "force_push") /\ call' = call /\ dismiss'[c] >= 1
    BY <1>3 DEF ForceLock
  <1> QED BY <1>1, <1>2, <1>3, <1>4, CallerQuiet

LEMMA ForcePushStep ==
  ASSUME IInv, phase # "aborted", NEW c \in Callers, ForcePush(c)
  PROVE  IInv'
  <1>1. /\ pc[c] = "force_push" /\ mutex' = NoOwner
        /\ UNCHANGED <<count, list, dropped, flag, phase, qstate, items, capmutex, cleared,
                       cur, joins, calls, failed>>
        /\ nulls' = nulls \/ (items + nulls < QueueCapacity /\ nulls' = nulls + 1)
    BY DEF ForcePush
  <1>2. UNCHANGED Others /\ TypedRest' /\ UNCHANGED <<phase, qstate>>
    BY <1>1, Places DEF Others, TypedRest
  <1>3. dismiss[c] \in Nat /\ dismiss[c] >= 1
    BY <1>1, Places DEF CallerAt
  <1>4. Dismisses(c)
    BY <1>3, Places DEF ForcePush, Dismisses
  <1>5. \/ Finish(c)
        \/ Goto(c, "force_lock") /\ call' = call
    BY DEF ForcePush
  <1> QED BY <1>1, <1>2, <1>4, <1>5, CallerQuiet

LEMMA PushStep ==
  ASSUME IInv, phase # "aborted", NEW c \in Callers, Push(c)
  PROVE  IInv'
  <1>1. /\ pc[c] = "push" /\ Finish(c)
        /\ UNCHANGED <<count, poolvars, qstate, nulls, capmutex, cleared, cur, dismiss,
                       joins, calls, failed>>
        /\ items' = items \/ (items + nulls < QueueCapacity /\ items' = items + 1)
    BY DEF Push
  <1>2. UNCHANGED Others /\ TypedRest' /\ UNCHANGED <<phase, qstate>> /\ Dismisses(c)
    BY <1>1, Places, DismissesKept DEF Others, TypedRest, poolvars
  <1> QED BY <1>1, <1>2, CallerQuiet

LEMMA ClearStep ==
  ASSUME IInv, phase # "aborted", NEW c \in Callers, Clear(c)
  PROVE  IInv'
  <1>1. /\ pc[c] = "clear" /\ Finish(c)
        /\ UNCHANGED <<count, poolvars, capmutex, cur, dismiss, joins, calls, failed>>
    BY DEF Clear
  <1>2. /\ items' \in Nat /\ nulls' \in Nat /\ items' + nulls' <= QueueCapacity
        /\ qstate' \in {"OPEN", "FINALIZING", "CLOSED"} /\ cleared' \in BOOLEAN
        /\ qstate = "CLOSED" => qstate' = "CLOSED"
    <2>1. TypedRest
      BY Places
    <2>2. CASE qstate = "CLOSED"
      BY <2>1, <2>2 DEF TypedRest, Clear
    <2>3. CASE qstate # "CLOSED"
      <3>1. /\ items' = 0 /\ nulls' = 0 /\ cleared' = (cleared \/ nulls > 0)
            /\ qstate' \in {qstate, "CLOSED"}
        BY <2>3 DEF Clear, Left
      <3>2. cleared' \in BOOLEAN
        BY <3>1, Zenon
      <3> QED BY <2>1, <2>3, <3>1, <3>2 DEF TypedRest
    <2> QED BY <2>2, <2>3
  <1>3. UNCHANGED Others /\ TypedRest' /\ phase' = phase /\ Dismisses(c)
    BY <1>1, <1>2, Places, DismissesKept DEF Others, TypedRest, poolvars
  <1> QED BY <1>1, <1>2, <1>3, CallerQuiet

LEMMA StopLockStep ==
  ASSUME IInv, phase # "aborted", NEW c \in Callers, StopLock(c)
  PROVE  IInv'
  <1>1. /\ pc[c] = "stop" /\ mutex' = c
        /\ Goto(c, "close_push") \/ Goto(c, "close")
        /\ UNCHANGED <<count, list, dropped, flag, phase, queuevars, call, cur, dismiss,
                       joins, calls, failed>>
    BY DEF StopLock
  <1>2. UNCHANGED Others /\ TypedRest' /\ UNCHANGED <<phase, qstate>> /\ Dismisses(c)
    BY <1>1, Places, DismissesKept DEF Others, TypedRest, queuevars
  <1> QED BY <1>1, <1>2, CallerQuiet

LEMMA CloseStep ==
  ASSUME IInv, phase # "aborted", NEW c \in Callers, Close(c)
  PROVE  IInv'
  <1>1. /\ pc[c] = "close" /\ qstate' = "CLOSED" /\ Goto(c, "stop_store")
        /\ UNCHANGED <<count, poolvars, items, nulls, capmutex, cleared, call, cur, dismiss,
                       joins, calls, failed>>
    BY DEF Close
  <1>2. UNCHANGED Others /\ TypedRest' /\ phase' = phase /\ Dismisses(c)
    BY <1>1, Places, DismissesKept DEF Others, TypedRest, poolvars
  <1> QED BY <1>1, <1>2, CallerQuiet

LEMMA ClosePushStep ==
  ASSUME IInv, phase # "aborted", NEW c \in Callers, ClosePush(c)
  PROVE  IInv'
  <1>1. /\ pc[c] = "close_push" /\ mutex' \in {mutex, NoOwner}
        /\ qstate' \in {"FINALIZING", "CLOSED"} /\ (qstate = "CLOSED" => qstate' = "CLOSED")
        /\ UNCHANGED <<count, list, dropped, flag, phase, items, nulls, capmutex, cleared,
                       cur, dismiss, joins, calls, failed>>
    BY DEF ClosePush
  <1>2. UNCHANGED Others /\ TypedRest' /\ phase' = phase /\ Dismisses(c)
    BY <1>1, Places, DismissesKept DEF Others, TypedRest
  <1>3. \/ Finish(c)
        \/ Goto(c, "stop_store") /\ call' = call
        \/ Goto(c, "drain_lock") /\ call' = call
    BY DEF ClosePush
  <1> QED BY <1>1, <1>2, <1>3, CallerQuiet

LEMMA DrainLockStep ==
  ASSUME IInv, phase # "aborted", NEW c \in Callers, DrainLock(c)
  PROVE  IInv'
  <1>1. /\ pc[c] = "drain_lock" /\ capmutex' \in {capmutex, c}
        /\ UNCHANGED <<count, poolvars, qstate, items, nulls, cleared, cur, dismiss, joins,
                       calls, failed>>
        /\ Finish(c) \/ (Goto(c, "drain") /\ call' = call)
    BY DEF DrainLock
  <1>2. UNCHANGED Others /\ TypedRest' /\ UNCHANGED <<phase, qstate>> /\ Dismisses(c)
    BY <1>1, Places, DismissesKept DEF Others, TypedRest, poolvars
  <1> QED BY <1>1, <1>2, CallerQuiet

LEMMA DrainedStep ==
  ASSUME IInv, phase # "aborted", NEW c \in Callers, Drained(c)
  PROVE  IInv'
  <1>1. /\ pc[c] = "drain" /\ capmutex' = NoOwner /\ Finish(c)
        /\ UNCHANGED <<count, poolvars, qstate, items, nulls, cleared, cur, dismiss, joins,
                       calls, failed>>
    BY DEF Drained
  <1>2. UNCHANGED Others /\ TypedRest' /\ UNCHANGED <<phase, qstate>> /\ Dismisses(c)
    BY <1>1, Places, DismissesKept DEF Others, TypedRest, poolvars
  <1> QED BY <1>1, <1>2, CallerQuiet

-----------------------------------------------------------------------------
(* The steps of one thread that touch the count or the handles *)

\* The count changes with the place of t, and the identities still suffice.
LEMMA CountStep ==
  ASSUME IInv, phase # "aborted", NEW t \in Threads, NEW l, NEW f, Moves(t, l, f),
         Dismisses(t), TypedRest', count' \in [running : Int, pending : Int],
         t \in Callers => CallerAt(l, f, dismiss'[t]), t \in Workers => WorkerAt(l, f),
         list' \subseteq Workers, dropped' \subseteq Workers,
         joins' \in [Threads -> SUBSET Workers], calls' \in 0..MaxCalls,
         phase' \in {"constructing", "alive", "destroying", "destroyed"},
         phase' \in {"constructing", "alive"} => phase \in {"constructing", "alive"},
         PhaseOK', StoppedOK', HandlesOK', list' \ {t} = list \ {t},
         qstate = "CLOSED" => qstate' = "CLOSED",
         \/ count' = Stopped
         \/ /\ count # Stopped /\ Expected(count') >= 0
            /\ count'.running - In(t, Members') - In(t, Creating')
                 = count.running - In(t, Members) - In(t, Creating),
         In(t, Used') + In(t, Creating') + Positive(count'.pending) + MaxSize * ResizesLeft'
           <= In(t, Used) + In(t, Creating) + Positive(count.pending)
                + MaxSize * ResizesLeft
  PROVE  IInv'
  <1>1. /\ Typed /\ PlacesOK /\ CountOK /\ RunningExact /\ IdsOK
    BY DEF IInv, TypeOK
  <1>2. /\ PlacesOK' /\ pc'[t] = l /\ call'[t] = f
        /\ \A u \in Threads \ {t} : pc'[u] = pc[u] /\ call'[u] = call[u]
        /\ pc' \in [Threads -> CallerLabels \cup WorkerLabels]
        /\ call' \in [Threads -> Calls \cup {"none", "construct", "destroy", "boot",
                                             "serve"}]
    BY <1>1, MovesLocal
  <1>3. Typed'
    BY <1>2, TypedJoin DEF Dismisses
  <1>4. OthersStay(t)
    BY <1>2, OthersAlone
  <1>5. /\ In(t, Members) \in {0, 1} /\ In(t, Members') \in {0, 1}
        /\ In(t, Creating) \in {0, 1} /\ In(t, Creating') \in {0, 1}
        /\ In(t, Used) \in {0, 1} /\ In(t, Used') \in {0, 1}
    BY DEF In
  <1>6. /\ count.running \in Int /\ count'.running \in Int
        /\ count.pending \in Int /\ count'.pending \in Int /\ calls \in 0..MaxCalls
    BY <1>1 DEF Typed
  <1>7. CountOK' /\ RunningExact'
    <2>1. \/ count' = Stopped
          \/ count # Stopped /\ Expected(count') >= 0 /\ Slack' = Slack
      BY <1>4, <1>5, <1>6, Counted, SetsCounted DEF Slack
    <2> QED BY <1>1, <2>1, CountFits
  <1>8. IdsOK'
    <2>1. /\ MaxSize * ResizesLeft \in Nat /\ MaxSize * ResizesLeft' \in Nat
      BY <1>6, ResizesLeftNat, ResizesLeftNatNext
    <2>2. Positive(count.pending) \in Nat /\ Positive(count'.pending) \in Nat
      BY <1>6 DEF Positive
    <2>3. Cardinality(Used') + Cardinality(Creating') + Positive(count'.pending)
            + MaxSize * ResizesLeft'
          <= Cardinality(Used) + Cardinality(Creating) + Positive(count.pending)
               + MaxSize * ResizesLeft
      <3>1. /\ Cardinality(Used') = Cardinality(Used) - In(t, Used) + In(t, Used')
            /\ Cardinality(Creating')
                 = Cardinality(Creating) - In(t, Creating) + In(t, Creating')
        BY <1>4, Counted
      <3> QED BY <1>5, <2>1, <2>2, <3>1, SetsCounted
    <2> QED BY <1>1, <1>6, <2>1, <2>3, IdsFit
  <1>9. TypeOK'
    BY <1>3, <1>6, <1>8, IdsEnough DEF TypeOK
  <1> QED BY <1>2, <1>7, <1>8, <1>9 DEF IInv

\* The parts of IInv, for the steps that follow.
LEMMA Parts ==
  ASSUME IInv
  PROVE  /\ Typed /\ PlacesOK /\ PhaseOK /\ StoppedOK /\ CountOK /\ RunningExact /\ IdsOK
         /\ HandlesOK
         /\ count.running \in Int /\ count.pending \in Int /\ calls \in 0..MaxCalls
         /\ list \subseteq Workers /\ dropped \subseteq Workers
         /\ joins \in [Threads -> SUBSET Workers]
         /\ MaxSize * ResizesLeft \in Nat
  <1>1. Typed /\ calls \in 0..MaxCalls
    BY DEF IInv, TypeOK, Typed
  <1>2. MaxSize * ResizesLeft \in Nat
    BY <1>1, ResizesLeftNat
  <1> QED BY <1>1, <1>2 DEF IInv, Typed

\* Where t is says to which sets it belongs.
LEMMA Counts ==
  ASSUME NEW t \in Threads
  PROVE  /\ In(t, Creating) = IF pc[t] = "create" THEN 1 ELSE 0
         /\ In(t, Creating') = IF pc'[t] = "create" THEN 1 ELSE 0
         /\ In(t, Used) = IF t \in Workers /\ pc[t] # "none" THEN 1 ELSE 0
         /\ In(t, Used') = IF t \in Workers /\ pc'[t] # "none" THEN 1 ELSE 0
         /\ In(t, Members) = IF /\ t \in Workers /\ pc[t] \notin {"none", "exit", "drop"}
                                /\ pc[t] = "join" => t \in list
                             THEN 1 ELSE 0
         /\ In(t, Members') = IF /\ t \in Workers /\ pc'[t] \notin {"none", "exit", "drop"}
                                 /\ pc'[t] = "join" => t \in list'
                              THEN 1 ELSE 0
  BY DEF In, Creating, Used, Members

\* No call of resize() starts or ends.
LEMMA SameResizes ==
  ASSUME Typed, NEW t \in Threads, \A u \in Threads \ {t} : pc'[u] = pc[u],
         pc[t] # "resize", pc'[t] # "resize", calls' = calls
  PROVE  ResizesLeft' = ResizesLeft
  <1>1. Resizing' = Resizing
    BY DEF Resizing
  <1>2. Cardinality(Resizing') = Cardinality(Resizing)
    BY <1>1, Zenon
  <1> QED BY <1>2 DEF ResizesLeft

\* A thread is counted.
LEMMA LaunchCasStep ==
  ASSUME IInv, phase # "aborted", NEW t \in Threads, LaunchCas(t), count = cur[t]
  PROVE  IInv'
  <1>1. /\ pc[t] = "launch" /\ count.pending > 0 /\ count' = Delta(count, 1)
        /\ pc' = [pc EXCEPT ![t] = "create"]
        /\ UNCHANGED <<call, cur, phase, mutex, list, dropped, flag, queuevars, dismiss,
                       joins, calls, failed>>
    BY DEF LaunchCas, Goto
  <1>2. /\ count.running \in Int /\ count.pending \in Int
        /\ count'.running = count.running + 1 /\ count'.pending = count.pending - 1
        /\ count' \in [running : Int, pending : Int]
    BY <1>1, Parts DEF Delta, Count
  <1>3. /\ Moves(t, "create", call[t]) /\ Dismisses(t)
        /\ t \in Callers => CallerAt("create", call[t], dismiss'[t])
        /\ t \in Workers => WorkerAt("create", call[t])
    <2>1. Moves(t, "create", call[t]) /\ Dismisses(t)
      BY <1>1, Places DEF Moves, Dismisses
    <2>2. t \in Callers => CallerAt("create", call[t], dismiss'[t])
      BY <1>1, Places DEF CallerAt, CallerLabels
    <2>3. t \in Workers => WorkerAt("create", call[t])
      BY <1>1, Places DEF WorkerAt, WorkerLabels
    <2> QED BY <2>1, <2>2, <2>3
  <1>4. /\ pc'[t] = "create" /\ call'[t] = call[t]
        /\ \A u \in Threads \ {t} : pc'[u] = pc[u] /\ call'[u] = call[u]
    BY <1>3, Parts, MovesLocal
  <1>5. TypedRest'
    BY <1>1, Places DEF TypedRest, queuevars
  <1>6. PhaseOK'
    BY <1>1, <1>4, Parts, PhaseKept DEF PlacesOK, CallerAt
  <1>7. count # Stopped /\ StoppedOK'
    <2>1. count # Stopped
      BY <1>1 DEF Stopped, Count
    <2> QED BY <1>1, <1>4, <2>1, Parts, StoppedKept
  <1>8. HandlesOK'
    <2>1. joins[t] = {} /\ (t \in Workers => t \in list)
      BY <1>1, Parts DEF HandlesOK
    <2> QED BY <1>1, <1>4, <2>1, Parts, HandlesKept
  <1>9. /\ Expected(count') >= 0
        /\ count'.running - In(t, Members') - In(t, Creating')
             = count.running - In(t, Members) - In(t, Creating)
    <2>1. Expected(count) >= 0
      BY <1>7, Parts DEF CountOK
    <2>2. /\ In(t, Creating) = 0 /\ In(t, Creating') = 1
          /\ In(t, Members') = In(t, Members) /\ In(t, Members) \in {0, 1}
      BY <1>1, <1>4, Counts
    <2> QED BY <1>2, <2>1, <2>2 DEF Expected
  <1>10. In(t, Used') + In(t, Creating') + Positive(count'.pending) + MaxSize * ResizesLeft'
           <= In(t, Used) + In(t, Creating) + Positive(count.pending)
                + MaxSize * ResizesLeft
    <2>1. ResizesLeft' = ResizesLeft
      BY <1>1, <1>4, Parts, SameResizes
    <2>2. /\ In(t, Creating) = 0 /\ In(t, Creating') = 1
          /\ In(t, Used') = In(t, Used) /\ In(t, Used) \in {0, 1}
      BY <1>1, <1>4, Counts
    <2>3. Positive(count'.pending) = Positive(count.pending) - 1
          /\ Positive(count.pending) \in Nat
      BY <1>1, <1>2 DEF Positive
    <2>4. MaxSize * ResizesLeft \in Nat
      BY Parts
    <2> QED BY <2>1, <2>2, <2>3, <2>4
  <1>11. /\ phase' = phase /\ qstate' = qstate /\ list' = list /\ dropped' = dropped
         /\ joins' = joins /\ calls' = calls
         /\ phase \in {"constructing", "alive", "destroying", "destroyed"}
    BY <1>1, Parts DEF queuevars, Typed
  <1> QED BY <1>2, <1>3, <1>5, <1>6, <1>7, <1>8, <1>9, <1>10, <1>11, Parts, CountStep

\* What Delta does to a count when a thread is taken off it.
LEMMA TakenBack ==
  ASSUME NEW c \in [running : Int, pending : Int]
  PROVE  /\ Delta(c, -1) \in [running : Int, pending : Int]
         /\ Delta(c, -1).running = c.running - 1 /\ Delta(c, -1).pending = c.pending + 1
         /\ Expected(Delta(c, -1)) = Expected(c)
  <1>1. /\ Delta(c, -1) = [running |-> c.running - 1, pending |-> c.pending + 1]
        /\ c.running \in Int /\ c.pending \in Int
    <2>1. Delta(c, -1) = [running |-> c.running + (-1), pending |-> c.pending - (-1)]
      BY DEF Delta, Count
    <2>2. c.running \in Int /\ c.pending \in Int
      OBVIOUS
    <2>3. c.running + (-1) = c.running - 1 /\ c.pending - (-1) = c.pending + 1
      BY <2>2
    <2> QED BY <2>1, <2>2, <2>3
  <1>2. Expected(Delta(c, -1)) = (c.running - 1) + (c.pending + 1)
    BY <1>1 DEF Expected
  <1> QED BY <1>1, <1>2 DEF Expected

LEMMA StoppedCount == Stopped.running = -1 /\ Stopped.pending = 0
  BY DEF Stopped, Count

\* The thread counted could not be started, and the count is rolled back.
LEMMA CreateThrowsStep ==
  ASSUME IInv, phase # "aborted", NEW t \in Threads, CreateThrows(t), call[t] # "boot"
  PROVE  IInv'
  <1>1. /\ pc[t] = "create" /\ count.running >= 0 /\ count' = Delta(count, -1)
        /\ failed' = TRUE /\ Forget(t)
        /\ UNCHANGED <<mutex, list, dropped, flag, queuevars, dismiss, joins, calls>>
    BY DEF CreateThrows
  <1>2. PICK l, f :
            /\ Moves(t, l, f)
            /\ \/ t \in Workers /\ l = "collect" /\ f = call[t] /\ phase' = phase
               \/ /\ t \in Callers /\ l = "idle" /\ f = "none"
                  /\ \/ phase' = phase
                     \/ call[t] = "construct" /\ phase' = "destroyed"
    <2>1. CASE t \in Workers
      <3>1. call[t] = "serve"
        BY <1>1, <2>1, Places DEF WorkerAt
      <3>2. pc' = [pc EXCEPT ![t] = "collect"] /\ UNCHANGED <<call, phase>>
        BY <3>1 DEF CreateThrows, Goto
      <3>3. Moves(t, "collect", call[t])
        BY <3>2 DEF Moves
      <3> QED BY <2>1, <3>2, <3>3
    <2>2. CASE t \in Callers
      <3>1. call[t] \in {"construct", "resize"}
        BY <1>1, <2>2, Places DEF CallerAt
      <3>2. /\ Finish(t)
            /\ phase' = phase \/ (call[t] = "construct" /\ phase' = "destroyed")
        BY <3>1 DEF CreateThrows
      <3>3. Moves(t, "idle", "none")
        BY <3>2 DEF Finish, Goto, Moves
      <3> QED BY <2>2, <3>2, <3>3
    <2> QED BY <2>1, <2>2
  <1>3. /\ Dismisses(t)
        /\ t \in Callers => CallerAt(l, f, dismiss'[t])
        /\ t \in Workers => WorkerAt(l, f)
    <2>1. Dismisses(t)
      BY <1>1, Places DEF Dismisses
    <2>2. t \in Callers => CallerAt(l, f, dismiss'[t])
      BY <1>2 DEF CallerAt, CallerLabels
    <2>3. t \in Workers => WorkerAt(l, f)
      BY <1>1, <1>2, Places DEF WorkerAt, WorkerLabels
    <2> QED BY <2>1, <2>2, <2>3
  <1>4. /\ pc'[t] = l /\ call'[t] = f
        /\ \A u \in Threads \ {t} : pc'[u] = pc[u] /\ call'[u] = call[u]
    BY <1>2, <1>3, Parts, MovesLocal
  <1>5. /\ count \in [running : Int, pending : Int]
        /\ count.running \in Int /\ count.pending \in Int
        /\ count' \in [running : Int, pending : Int]
        /\ count'.running = count.running - 1 /\ count'.pending = count.pending + 1
        /\ Expected(count') = Expected(count)
    BY <1>1, Places, Parts, TakenBack
  <1>6. TypedRest'
    <2>1. cur' \in [Threads -> [running : Int, pending : Int]]
      BY <1>1, Places DEF TypedRest, Forget, Load, NoCount, Count
    <2> QED BY <1>1, <2>1, Places DEF TypedRest, queuevars
  <1>7. PhaseOK'
    BY <1>1, <1>2, <1>4, Parts, PhaseKept
  <1>8. count # Stopped /\ StoppedOK'
    <2>1. count # Stopped
      BY <1>1, StoppedCount
    <2>2. l # "destroy" /\ (phase' = "destroying" => phase = "destroying")
      BY <1>2
    <2> QED BY <1>4, <2>1, <2>2, Parts, StoppedKept
  <1>9. HandlesOK'
    <2>1. joins[t] = {} /\ (t \in Workers => t \in list)
      BY <1>1, Parts DEF HandlesOK
    <2> QED BY <1>1, <1>2, <1>4, <2>1, Parts, HandlesKept
  <1>10. /\ Expected(count') >= 0
         /\ count'.running - In(t, Members') - In(t, Creating')
              = count.running - In(t, Members) - In(t, Creating)
    <2>1. Expected(count') >= 0
      BY <1>5, <1>8, Parts DEF CountOK
    <2>2. /\ In(t, Creating) = 1 /\ In(t, Creating') = 0
          /\ In(t, Members') = In(t, Members) /\ In(t, Members) \in {0, 1}
      BY <1>1, <1>2, <1>4, Counts
    <2> QED BY <1>5, <2>1, <2>2
  <1>11. In(t, Used') + In(t, Creating') + Positive(count'.pending) + MaxSize * ResizesLeft'
           <= In(t, Used) + In(t, Creating) + Positive(count.pending)
                + MaxSize * ResizesLeft
    <2>1. ResizesLeft' = ResizesLeft
      BY <1>1, <1>2, <1>4, Parts, SameResizes
    <2>2. /\ In(t, Creating) = 1 /\ In(t, Creating') = 0
          /\ In(t, Used') = In(t, Used) /\ In(t, Used) \in {0, 1}
      BY <1>1, <1>2, <1>4, Counts
    <2>3. /\ Positive(count'.pending) <= Positive(count.pending) + 1
          /\ Positive(count.pending) \in Nat /\ Positive(count'.pending) \in Nat
      BY <1>5 DEF Positive
    <2>4. MaxSize * ResizesLeft \in Nat
      BY Parts
    <2> QED BY <2>1, <2>2, <2>3, <2>4
  <1>12. /\ qstate' = qstate /\ list' = list /\ dropped' = dropped
         /\ joins' = joins /\ calls' = calls
         /\ phase' \in {"constructing", "alive", "destroying", "destroyed"}
         /\ phase' \in {"constructing", "alive"} => phase' = phase
    BY <1>1, <1>2, Parts DEF queuevars, Typed
  <1> QED BY <1>2, <1>3, <1>5, <1>6, <1>7, <1>8, <1>9, <1>10, <1>11, <1>12, Parts, CountStep

\* The same out of the first loop of a worker: the process is at its end.
LEMMA CreateAbortsStep ==
  ASSUME IInv, phase # "aborted", NEW t \in Threads, CreateThrows(t), call[t] = "boot"
  PROVE  IInv'
  <1>1. /\ count.running >= 0 /\ count' = Delta(count, -1) /\ failed' = TRUE /\ Forget(t)
        /\ phase' = "aborted" /\ UNCHANGED <<pc, call>>
        /\ UNCHANGED <<mutex, list, dropped, flag, queuevars, dismiss, joins, calls>>
    BY DEF CreateThrows
  <1>2. /\ count' \in [running : Int, pending : Int]
        /\ Expected(count') = Expected(count)
    BY <1>1, Places, TakenBack
  <1>3. Typed'
    <2>1. cur' \in [Threads -> [running : Int, pending : Int]]
      BY <1>1, Places DEF TypedRest, Forget, Load, NoCount, Count
    <2> QED BY <1>1, <1>2, <2>1, Parts DEF Typed, queuevars
  <1>4. TypeOK'
    <2>1. Creating' = Creating /\ FreeIds' = FreeIds
      BY <1>1 DEF Creating, FreeIds
    <2> QED BY <1>3, <2>1 DEF TypeOK, IInv
  <1>5. PlacesOK' /\ PhaseOK'
    BY <1>1, Parts DEF PlacesOK, PhaseOK, CallerAt, WorkerAt
  <1>6. count # Stopped
    BY <1>1, StoppedCount
  <1>7. StoppedOK' /\ CountOK' /\ RunningExact' /\ IdsOK'
    <2>1. StoppedOK'
      BY <1>1, <1>6, Parts DEF StoppedOK
    <2>2. CountOK'
      BY <1>1, <1>2, <1>6, Parts DEF CountOK
    <2> QED BY <1>1, <2>1, <2>2 DEF RunningExact, IdsOK
  <1>8. HandlesOK'
    BY <1>1, Parts DEF HandlesOK, Handled
  <1> QED BY <1>4, <1>5, <1>7, <1>8 DEF IInv

\* A worker dismisses itself.
LEMMA ServeDismissStep ==
  ASSUME IInv, phase # "aborted", NEW w \in Workers, Serve(w), count.pending < 0
  PROVE  IInv'
  <1>1. /\ pc[w] = "serve" /\ count' = Delta(count, -1) /\ pc' = [pc EXCEPT ![w] = "drop"]
        /\ call' = [call EXCEPT ![w] = "serve"]
        /\ UNCHANGED <<cur, poolvars, queuevars, dismiss, joins, calls, failed>>
    BY DEF Serve, Goto
  <1>2. /\ w \in Threads /\ w \notin Callers /\ WorkerAt("drop", "serve")
        /\ Moves(w, "drop", "serve") /\ Dismisses(w)
    BY <1>1, Places DEF WorkerAt, WorkerLabels, Moves, Dismisses
  <1>3. /\ pc'[w] = "drop" /\ call'[w] = "serve"
        /\ \A u \in Threads \ {w} : pc'[u] = pc[u] /\ call'[u] = call[u]
    BY <1>2, Parts, MovesLocal
  <1>4. /\ count \in [running : Int, pending : Int]
        /\ count.running \in Int /\ count.pending \in Int
        /\ count' \in [running : Int, pending : Int]
        /\ count'.running = count.running - 1 /\ count'.pending = count.pending + 1
        /\ Expected(count') = Expected(count)
    BY <1>1, Places, Parts, TakenBack
  <1>5. TypedRest' /\ UNCHANGED <<phase, qstate, list, dropped>>
    BY <1>1, Places DEF TypedRest, poolvars, queuevars
  <1>6. PhaseOK'
    BY <1>2, <1>3, <1>5, Parts, PhaseKept
  <1>7. count # Stopped /\ StoppedOK'
    <2>1. count # Stopped
      BY StoppedCount
    <2> QED BY <1>2, <1>3, <1>5, <2>1, Parts, StoppedKept
  <1>8. HandlesOK'
    <2>1. joins[w] = {} /\ w \in list
      BY <1>1, <1>2, Parts DEF HandlesOK
    <2> QED BY <1>1, <1>2, <1>3, <1>5, <2>1, Parts, HandlesKept
  <1>9. /\ Expected(count') >= 0
        /\ count'.running - In(w, Members') - In(w, Creating')
             = count.running - In(w, Members) - In(w, Creating)
    <2>1. Expected(count') >= 0
      BY <1>4, <1>7, Parts DEF CountOK
    <2>2. /\ In(w, Creating) = 0 /\ In(w, Creating') = 0
          /\ In(w, Members') = 0 /\ In(w, Members) = 1
      BY <1>1, <1>2, <1>3, Counts
    <2> QED BY <1>4, <2>1, <2>2
  <1>10. In(w, Used') + In(w, Creating') + Positive(count'.pending) + MaxSize * ResizesLeft'
           <= In(w, Used) + In(w, Creating) + Positive(count.pending)
                + MaxSize * ResizesLeft
    <2>1. ResizesLeft' = ResizesLeft
      BY <1>1, <1>2, <1>3, Parts, SameResizes
    <2>2. /\ In(w, Creating) = 0 /\ In(w, Creating') = 0
          /\ In(w, Used') = 1 /\ In(w, Used) = 1
      BY <1>1, <1>2, <1>3, Counts
    <2>3. Positive(count'.pending) = 0 /\ Positive(count.pending) = 0
      BY <1>4 DEF Positive
    <2>4. MaxSize * ResizesLeft \in Nat
      BY Parts
    <2> QED BY <2>1, <2>2, <2>3, <2>4
  <1>11. phase' \in {"constructing", "alive", "destroying", "destroyed"}
    BY <1>5, Parts DEF Typed
  <1> QED BY <1>1, <1>2, <1>4, <1>5, <1>6, <1>7, <1>8, <1>9, <1>10, <1>11, Parts, CountStep

\* A worker moves a handle, its own or another's; the count and the identities stay
\* as they are.
LEMMA HandleStep ==
  ASSUME IInv, phase # "aborted", NEW w \in Workers, NEW l \in {"join", "exit"},
         Moves(w, l, call[w]), WorkerAt(l, call[w]), pc[w] \in {"drop", "collect"},
         UNCHANGED <<count, mutex, phase, queuevars, cur, dismiss, calls, failed>>,
         flag' \in BOOLEAN, list' \in {list, list \ {w}}, dropped' \subseteq Workers,
         joins' \in [Threads -> SUBSET Workers], HandlesOK',
         pc[w] = "drop" => (l = "exit" \/ w \notin list'),
         pc[w] = "collect" => (l = "join" /\ w \in list')
  PROVE  IInv'
  <1>1. w \in Threads /\ w \notin Callers /\ Dismisses(w)
    BY Places DEF Dismisses
  <1>2. /\ pc'[w] = l /\ call'[w] = call[w]
        /\ \A u \in Threads \ {w} : pc'[u] = pc[u] /\ call'[u] = call[u]
    BY <1>1, Parts, MovesLocal
  <1>3. TypedRest' /\ qstate' = qstate
    BY Places DEF TypedRest, queuevars
  <1>4. PhaseOK' /\ StoppedOK'
    <2>1. PhaseOK'
      BY <1>1, <1>2, Parts, PhaseKept
    <2>2. StoppedOK'
      BY <1>1, <1>2, Parts, StoppedKept
    <2> QED BY <2>1, <2>2
  <1>5. /\ In(w, Creating) = 0 /\ In(w, Creating') = 0
        /\ In(w, Used) = 1 /\ In(w, Used') = 1
        /\ In(w, Members') = In(w, Members) /\ In(w, Members) \in {0, 1}
    BY <1>1, <1>2, Counts
  <1>6. count # Stopped => /\ Expected(count') >= 0
                           /\ count'.running - In(w, Members') - In(w, Creating')
                                = count.running - In(w, Members) - In(w, Creating)
    <2>1. count # Stopped => Expected(count') >= 0
      BY Parts DEF CountOK
    <2> QED BY <1>5, <2>1
  <1>7. In(w, Used') + In(w, Creating') + Positive(count'.pending) + MaxSize * ResizesLeft'
          <= In(w, Used) + In(w, Creating) + Positive(count.pending)
               + MaxSize * ResizesLeft
    <2>1. ResizesLeft' = ResizesLeft
      BY <1>1, <1>2, Parts, SameResizes
    <2>2. count'.pending = count.pending /\ Positive(count.pending) \in Nat
      BY Parts DEF Positive
    <2>3. MaxSize * ResizesLeft \in Nat
      BY Parts
    <2> QED BY <1>5, <2>1, <2>2, <2>3
  <1>8. /\ phase' \in {"constructing", "alive", "destroying", "destroyed"}
        /\ count' \in [running : Int, pending : Int]
        /\ list' \subseteq Workers /\ list' \ {w} = list \ {w}
    BY Parts DEF Typed
  <1> QED BY <1>1, <1>3, <1>4, <1>6, <1>7, <1>8, Parts, CountStep

\* The destructor joins the dismissed worker: it leaves the lists alone.
LEMMA DropLateStep ==
  ASSUME IInv, phase # "aborted", NEW w \in Workers, Drop(w), phase = "destroying"
  PROVE  IInv'
  <1>1. /\ pc[w] = "drop" /\ pc' = [pc EXCEPT ![w] = "exit"]
        /\ UNCHANGED <<count, mutex, list, dropped, flag, phase, queuevars, call, cur,
                       dismiss, joins, calls, failed>>
    BY DEF Drop, Goto
  <1>2. /\ Moves(w, "exit", call[w]) /\ WorkerAt("exit", call[w]) /\ w \notin Callers
        /\ Dismisses(w)
    BY <1>1, Places DEF Moves, WorkerAt, WorkerLabels, Dismisses
  <1>3. pc'[w] = "exit" /\ \A u \in Threads \ {w} : pc'[u] = pc[u]
    BY <1>2, Parts, MovesLocal
  <1>4. HandlesOK'
    <2>1. joins[w] = {}
      BY <1>1, Parts DEF HandlesOK
    <2> QED BY <1>1, <1>3, <2>1, Parts, HandlesKept
  <1> QED BY <1>1, <1>2, <1>4, Places, Parts, HandleStep DEF TypedRest

\* The handle of w moves from the list to the place of the one dismissed before.
LEMMA DropStep ==
  ASSUME IInv, phase # "aborted", NEW w \in Workers, Drop(w), phase # "destroying"
  PROVE  IInv'
  <1>1. /\ pc[w] = "drop" /\ pc' = [pc EXCEPT ![w] = "join"]
        /\ list' = list \ {w} /\ dropped' = {w} /\ flag' = TRUE
        /\ joins' = [joins EXCEPT ![w] = dropped]
        /\ UNCHANGED <<count, mutex, phase, queuevars, call, cur, dismiss, calls, failed>>
    BY DEF Drop, Goto
  <1>2. /\ Moves(w, "join", call[w]) /\ WorkerAt("join", call[w]) /\ w \notin Callers
        /\ Dismisses(w)
    BY <1>1, Places DEF Moves, WorkerAt, WorkerLabels, Dismisses
  <1>3. pc'[w] = "join" /\ \A u \in Threads \ {w} : pc'[u] = pc[u]
    BY <1>2, Parts, MovesLocal
  <1>4. /\ joins' \in [Threads -> SUBSET Workers] /\ joins'[w] = dropped
        /\ \A u \in Threads \ {w} : joins'[u] = joins[u]
    BY <1>1, Parts
  <1>5. joins[w] = {} /\ w \in list /\ w \notin dropped
    BY <1>1, Parts DEF HandlesOK
  <1>6. \A v \in Workers : Handled(v)' <=> Handled(v)
    <2> SUFFICES ASSUME NEW v \in Workers
                 PROVE  Handled(v)' <=> Handled(v)
      OBVIOUS
    <2>1. (\E u \in Threads : v \in joins'[u])
            <=> (v \in dropped \/ \E u \in Threads : v \in joins[u])
      BY <1>4, <1>5
    <2>2. v \in list' \/ v \in dropped' <=> v \in list
      BY <1>1, <1>5
    <2> QED BY <2>1, <2>2 DEF Handled
  <1>7. ASSUME NEW v \in Workers
        PROVE  /\ pc'[v] # "none" <=> Handled(v)'
               /\ pc'[v] \notin {"none", "join", "exit"} => v \in list'
               /\ v \in dropped' => v \notin list'
    <2>1. pc'[v] # "none" <=> pc[v] # "none"
      BY <1>1, <1>3
    <2>2. pc'[v] # "none" <=> Handled(v)'
      BY <1>6, <2>1, Parts DEF HandlesOK
    <2>3. /\ pc'[v] \notin {"none", "join", "exit"} => v \in list'
          /\ v \in dropped' => v \notin list'
      BY <1>1, <1>3, Parts DEF HandlesOK
    <2> QED BY <2>2, <2>3
  <1>8. ASSUME NEW u \in Threads
        PROVE  /\ joins'[u] # {} => pc'[u] = "join"
               /\ joins'[u] \cap (list' \cup dropped') = {}
               /\ \A v \in Threads \ {u} : joins'[u] \cap joins'[v] = {}
    <2>1. \A v \in Threads : /\ joins[v] # {} => pc[v] = "join"
                             /\ joins[v] \cap (list \cup dropped) = {}
                             /\ \A x \in Threads \ {v} : joins[v] \cap joins[x] = {}
      BY Parts DEF HandlesOK
    <2>2. \A v \in Workers : v \in dropped => v \notin list
      BY Parts DEF HandlesOK
    <2>3. dropped \subseteq Workers
      BY Parts
    <2>4. joins'[u] # {} => pc'[u] = "join"
      BY <1>3, <1>4, <2>1
    <2>5. joins'[u] \cap (list' \cup dropped') = {}
      BY <1>1, <1>4, <1>5, <2>1, <2>2, <2>3
    <2>6. \A v \in Threads \ {u} : joins'[u] \cap joins'[v] = {}
      BY <1>4, <2>1
    <2> QED BY <2>4, <2>5, <2>6
  <1>9. HandlesOK'
    BY <1>7, <1>8 DEF HandlesOK, Handled
  <1> QED BY <1>1, <1>2, <1>4, <1>9, HandleStep

\* A worker that goes on takes the handle of the one dismissed.
LEMMA CollectStep ==
  ASSUME IInv, phase # "aborted", NEW w \in Workers, Collect(w),
         flag /\ mutex = NoOwner /\ phase # "destroying" /\ dropped # {}
  PROVE  IInv'
  <1>1. /\ pc[w] = "collect" /\ pc' = [pc EXCEPT ![w] = "join"]
        /\ list' = list /\ dropped' = {} /\ flag' = FALSE
        /\ joins' = [joins EXCEPT ![w] = dropped]
        /\ UNCHANGED <<count, mutex, phase, queuevars, call, cur, dismiss, calls, failed>>
    BY DEF Collect, Goto
  <1>2. /\ Moves(w, "join", call[w]) /\ WorkerAt("join", call[w]) /\ w \notin Callers
        /\ Dismisses(w)
    BY <1>1, Places DEF Moves, WorkerAt, WorkerLabels, Dismisses
  <1>3. pc'[w] = "join" /\ \A u \in Threads \ {w} : pc'[u] = pc[u]
    BY <1>2, Parts, MovesLocal
  <1>4. /\ joins' \in [Threads -> SUBSET Workers] /\ joins'[w] = dropped
        /\ \A u \in Threads \ {w} : joins'[u] = joins[u]
    BY <1>1, Parts
  <1>5. joins[w] = {} /\ w \in list
    BY <1>1, Parts DEF HandlesOK
  <1>6. \A v \in Workers : Handled(v)' <=> Handled(v)
    <2> SUFFICES ASSUME NEW v \in Workers
                 PROVE  Handled(v)' <=> Handled(v)
      OBVIOUS
    <2>1. (\E u \in Threads : v \in joins'[u])
            <=> (v \in dropped \/ \E u \in Threads : v \in joins[u])
      BY <1>4, <1>5
    <2> QED BY <1>1, <2>1 DEF Handled
  <1>7. ASSUME NEW v \in Workers
        PROVE  /\ pc'[v] # "none" <=> Handled(v)'
               /\ pc'[v] \notin {"none", "join", "exit"} => v \in list'
               /\ v \in dropped' => v \notin list'
    <2>1. pc'[v] # "none" <=> pc[v] # "none"
      BY <1>1, <1>3
    <2>2. pc'[v] # "none" <=> Handled(v)'
      BY <1>6, <2>1, Parts DEF HandlesOK
    <2>3. /\ pc'[v] \notin {"none", "join", "exit"} => v \in list'
          /\ v \in dropped' => v \notin list'
      BY <1>1, <1>3, Parts DEF HandlesOK
    <2> QED BY <2>2, <2>3
  <1>8. ASSUME NEW u \in Threads
        PROVE  /\ joins'[u] # {} => pc'[u] = "join"
               /\ joins'[u] \cap (list' \cup dropped') = {}
               /\ \A v \in Threads \ {u} : joins'[u] \cap joins'[v] = {}
    <2>1. \A v \in Threads : /\ joins[v] # {} => pc[v] = "join"
                             /\ joins[v] \cap (list \cup dropped) = {}
                             /\ \A x \in Threads \ {v} : joins[v] \cap joins[x] = {}
      BY Parts DEF HandlesOK
    <2>2. \A v \in Workers : v \in dropped => v \notin list
      BY Parts DEF HandlesOK
    <2>3. dropped \subseteq Workers
      BY Parts
    <2>4. joins'[u] # {} => pc'[u] = "join"
      BY <1>3, <1>4, <2>1
    <2>5. joins'[u] \cap (list' \cup dropped') = {}
      BY <1>1, <1>4, <2>1, <2>2, <2>3
    <2>6. \A v \in Threads \ {u} : joins'[u] \cap joins'[v] = {}
      BY <1>4, <2>1
    <2> QED BY <2>4, <2>5, <2>6
  <1>9. HandlesOK'
    BY <1>7, <1>8 DEF HandlesOK, Handled
  <1> QED BY <1>1, <1>2, <1>4, <1>5, <1>9, HandleStep

\* A caller is neither a worker nor about to create one, before and after a step of
\* its own that is none of launching.
LEMMA CallerCounts ==
  ASSUME NEW c \in Callers, pc[c] # "create", pc'[c] # "create"
  PROVE  /\ In(c, Creating) = 0 /\ In(c, Creating') = 0
         /\ In(c, Members) = 0 /\ In(c, Members') = 0
         /\ In(c, Used) = 0 /\ In(c, Used') = 0
  <1>1. c \in Threads /\ c \notin Workers
    OBVIOUS
  <1> QED BY <1>1, Counts

\* The number wanted is set.
LEMMA ResizeStep ==
  ASSUME IInv, phase # "aborted", NEW c \in Callers, NEW size \in 0..MaxSize,
         Resize(c, size), ~(Expected(count) < 0 \/ Expected(count) = size)
  PROVE  IInv'
  <1>1. /\ pc[c] = "resize" /\ count' = Count(count.running, size - count.running)
        /\ call' = call /\ cur' \in {cur, [cur EXCEPT ![c] = count']}
        /\ UNCHANGED <<poolvars, queuevars, dismiss, joins, calls, failed>>
    BY DEF Resize, Load
  <1>2. PICK l \in {"launch", "force"} : pc' = [pc EXCEPT ![c] = l]
    BY DEF Resize, Goto
  <1>3. call[c] = "resize" /\ "resize" \in Calls /\ c \in Threads /\ c \notin Workers
    BY <1>1, Places DEF CallerAt
  <1>4. /\ Moves(c, l, call[c]) /\ Dismisses(c) /\ CallerAt(l, call[c], dismiss'[c])
    <2>1. Moves(c, l, call[c])
      BY <1>1, <1>2 DEF Moves
    <2>2. CallerAt(l, call[c], dismiss'[c])
      BY <1>3 DEF CallerAt, CallerLabels
    <2> QED BY <1>1, <2>1, <2>2, DismissesKept
  <1>5. /\ pc'[c] = l /\ call'[c] = call[c]
        /\ \A u \in Threads \ {c} : pc'[u] = pc[u] /\ call'[u] = call[u]
    BY <1>3, <1>4, Parts, MovesLocal
  <1>6. /\ count.running \in Int /\ count.pending \in Int /\ size \in Int
        /\ count'.running = count.running /\ count'.pending = size - count.running
        /\ count' \in [running : Int, pending : Int] /\ Expected(count') = size
    <2>1. count.running \in Int /\ count.pending \in Int /\ size \in Int
      BY Parts
    <2>2. count' = [running |-> count.running, pending |-> size - count.running]
      BY <1>1 DEF Count
    <2>3. count.running + (size - count.running) = size
      BY <2>1
    <2> QED BY <2>1, <2>2, <2>3 DEF Expected
  <1>7. count # Stopped /\ count.running >= 0
    <2>1. Expected(Stopped) = -1
      BY StoppedCount DEF Expected
    <2>2. count # Stopped
      BY <2>1
    <2> QED BY <1>6, <2>2, Places
  <1>8. TypedRest' /\ UNCHANGED <<phase, qstate, list, dropped>>
    <2>1. cur' \in [Threads -> [running : Int, pending : Int]]
      <3>1. cur \in [Threads -> [running : Int, pending : Int]]
        BY Places DEF TypedRest
      <3> QED BY <1>1, <1>3, <1>6, <3>1
    <2> QED BY <1>1, <2>1, Places DEF TypedRest, poolvars, queuevars
  <1>9. PhaseOK' /\ StoppedOK'
    <2>1. PhaseOK'
      BY <1>1, <1>3, <1>5, <1>8, Parts, PhaseKept
    <2>2. StoppedOK'
      BY <1>3, <1>5, <1>7, <1>8, Parts, StoppedKept
    <2> QED BY <2>1, <2>2
  <1>10. HandlesOK'
    <2>1. joins[c] = {}
      BY <1>1, <1>3, Parts DEF HandlesOK
    <2> QED BY <1>1, <1>3, <1>5, <1>8, <2>1, Parts, HandlesKept
  <1>11. /\ In(c, Creating) = 0 /\ In(c, Creating') = 0
         /\ In(c, Members) = 0 /\ In(c, Members') = 0
         /\ In(c, Used) = 0 /\ In(c, Used') = 0
    BY <1>1, <1>5, CallerCounts
  <1>12. /\ Expected(count') >= 0
         /\ count'.running - In(c, Members') - In(c, Creating')
              = count.running - In(c, Members) - In(c, Creating)
    BY <1>6, <1>11
  <1>13. In(c, Used') + In(c, Creating') + Positive(count'.pending) + MaxSize * ResizesLeft'
           <= In(c, Used) + In(c, Creating) + Positive(count.pending)
                + MaxSize * ResizesLeft
    <2>1. Cardinality(Resizing') = Cardinality(Resizing) - 1
      <3>1. OthersStay(c)
        BY <1>3, <1>5, <1>8, OthersAlone
      <3>2. In(c, Resizing) = 1 /\ In(c, Resizing') = 0
        BY <1>1, <1>5 DEF In, Resizing
      <3>3. Cardinality(Resizing')
              = Cardinality(Resizing) - In(c, Resizing) + In(c, Resizing')
        BY <1>3, <3>1, Counted
      <3> QED BY <3>2, <3>3, SetsCounted
    <2>2. /\ ResizesLeft \in Nat /\ ResizesLeft' \in Nat
          /\ ResizesLeft = ResizesLeft' + 1
      <3>1. calls \in 0..MaxCalls /\ calls' = calls
        BY <1>1, Parts
      <3>2. /\ ResizesLeft = MaxCalls - calls + Cardinality(Resizing)
            /\ ResizesLeft' = MaxCalls - calls + Cardinality(Resizing')
        BY <1>3, <3>1 DEF ResizesLeft
      <3>3. MaxCalls - calls \in Nat
        BY <3>1
      <3>4. ResizesLeft \in Nat /\ ResizesLeft' \in Nat
        BY <3>1, ResizesLeftNat, ResizesLeftNatNext
      <3> QED BY <2>1, <3>2, <3>3, <3>4, SetsCounted
    <2>3. MaxSize * (ResizesLeft' + 1) = (MaxSize * ResizesLeft') + MaxSize
      BY <2>2
    <2>4. MaxSize * ResizesLeft = (MaxSize * ResizesLeft') + MaxSize
      BY <2>2, <2>3, Zenon
    <2>5. MaxSize * ResizesLeft \in Nat /\ MaxSize * ResizesLeft' \in Nat
      BY <2>2, Products
    <2>6. /\ Positive(count'.pending) <= MaxSize
          /\ Positive(count'.pending) \in Nat /\ Positive(count.pending) \in Nat
      BY <1>6, <1>7 DEF Positive
    <2> QED BY <1>11, <2>4, <2>5, <2>6
  <1>14. /\ phase' \in {"constructing", "alive", "destroying", "destroyed"}
         /\ joins' = joins /\ calls' = calls
    BY <1>1, <1>8, Parts DEF Typed
  <1> QED BY <1>3, <1>4, <1>6, <1>7, <1>8, <1>9, <1>10, <1>12, <1>13, <1>14, Parts, CountStep

\* A caller goes on, or begins or ends, with a call that starts no thread: what is
\* left is to show the phases and, if the pool is stopped, that it is.
LEMMA CallerStepFits ==
  ASSUME IInv, phase # "aborted", NEW c \in Callers, NEW l, NEW f, Moves(c, l, f),
         CallerAt(l, f, dismiss'[c]), l # "create", pc[c] # "create",
         UNCHANGED <<list, dropped, joins, dismiss>>, TypedRest', qstate' = qstate,
         count' \in {count, Stopped}, calls' \in 0..MaxCalls,
         MaxSize * ResizesLeft' <= MaxSize * ResizesLeft,
         phase' \in {"constructing", "alive", "destroying", "destroyed"},
         phase' \in {"constructing", "alive"} => phase \in {"constructing", "alive"},
         PhaseOK', StoppedOK'
  PROVE  IInv'
  <1>1. c \in Threads /\ c \notin Workers /\ Dismisses(c)
    BY DismissesKept
  <1>2. pc'[c] = l /\ \A u \in Threads \ {c} : pc'[u] = pc[u]
    BY <1>1, Parts, MovesLocal
  <1>3. HandlesOK'
    <2>1. joins[c] = {}
      BY <1>1, Parts DEF HandlesOK, PlacesOK, CallerAt, CallerLabels
    <2> QED BY <1>1, <1>2, <2>1, Parts, HandlesKept
  <1>4. /\ In(c, Creating) = 0 /\ In(c, Creating') = 0
        /\ In(c, Members) = 0 /\ In(c, Members') = 0
        /\ In(c, Used) = 0 /\ In(c, Used') = 0
    BY <1>2, CallerCounts
  <1>5. count' \in [running : Int, pending : Int]
    BY Parts DEF Typed, Stopped, Count
  <1>6. \/ count' = Stopped
        \/ /\ count # Stopped /\ Expected(count') >= 0
           /\ count'.running - In(c, Members') - In(c, Creating')
                = count.running - In(c, Members) - In(c, Creating)
    BY <1>4, Parts DEF CountOK
  <1>7. In(c, Used') + In(c, Creating') + Positive(count'.pending) + MaxSize * ResizesLeft'
          <= In(c, Used) + In(c, Creating) + Positive(count.pending)
               + MaxSize * ResizesLeft
    <2>1. /\ Positive(count'.pending) <= Positive(count.pending)
          /\ Positive(count.pending) \in Nat /\ Positive(count'.pending) \in Nat
      BY Parts, StoppedCount DEF Positive
    <2>2. MaxSize * ResizesLeft \in Nat /\ MaxSize * ResizesLeft' \in Nat
      BY Parts, ResizesLeftNatNext
    <2> QED BY <1>4, <2>1, <2>2
  <1>8. list' \subseteq Workers /\ dropped' \subseteq Workers
        /\ joins' \in [Threads -> SUBSET Workers]
    BY Parts
  <1> QED BY <1>1, <1>3, <1>5, <1>6, <1>7, <1>8, CountStep

\* The pool is stopped; the destructor goes on.
LEMMA StopStoreStep ==
  ASSUME IInv, phase # "aborted", NEW c \in Callers, StopStore(c)
  PROVE  IInv'
  <1>1. /\ pc[c] = "stop_store" /\ count' = Stopped /\ mutex' = NoOwner
        /\ UNCHANGED <<list, dropped, flag, phase, queuevars, cur, dismiss, joins, calls,
                       failed>>
    BY DEF StopStore
  <1>2. CallerAt(pc[c], call[c], dismiss[c]) /\ c \in Threads /\ c \notin Workers
    BY Places
  <1>3. PICK l, f : /\ Moves(c, l, f) /\ f \in {"none", call[c]}
                    /\ \/ l = "destroy" /\ f = "destroy"
                       \/ l = "idle" /\ f = "none"
    <2>1. CASE call[c] = "destroy"
      <3>1. Moves(c, "destroy", call[c])
        BY <2>1 DEF StopStore, Goto, Moves
      <3> QED BY <2>1, <3>1
    <2>2. CASE call[c] # "destroy"
      <3>1. Moves(c, "idle", "none")
        BY <2>2 DEF StopStore, Finish, Goto, Moves
      <3> QED BY <3>1
    <2> QED BY <2>1, <2>2
  <1>4. CallerAt(l, f, dismiss'[c])
    BY <1>3 DEF CallerAt, CallerLabels
  <1>5. Dismisses(c)
    BY <1>1, DismissesKept
  <1>6. /\ pc'[c] = l /\ call'[c] = f
        /\ \A u \in Threads \ {c} : pc'[u] = pc[u] /\ call'[u] = call[u]
    BY <1>2, <1>3, <1>4, <1>5, Parts, MovesLocal
  <1>7. PhaseOK' /\ StoppedOK'
    <2>1. PhaseOK'
      BY <1>1, <1>2, <1>3, <1>6, Parts, PhaseKept
    <2>2. StoppedOK'
      BY <1>1, <1>2, <1>6, Parts, StoppedKept
    <2> QED BY <2>1, <2>2
  <1>8. ResizesLeft' = ResizesLeft
    BY <1>1, <1>2, <1>3, <1>6, Parts, SameResizes
  <1>9. MaxSize * ResizesLeft' <= MaxSize * ResizesLeft
    BY <1>8, Parts
  <1>10. TypedRest' /\ qstate' = qstate
    BY <1>1, Places DEF TypedRest, queuevars
  <1>11. phase' \in {"constructing", "alive", "destroying", "destroyed"}
         /\ calls' \in 0..MaxCalls
    BY <1>1, Parts DEF Typed
  <1> QED BY <1>1, <1>3, <1>4, <1>7, <1>9, <1>10, <1>11, CallerStepFits

\* The pool was stopped before: _destroying is set.
LEMMA DestroyStep ==
  ASSUME IInv, phase # "aborted", NEW c \in Callers, Destroy(c)
  PROVE  IInv'
  <1>1. /\ pc[c] = "destroy" /\ phase' = "destroying"
        /\ pc' = [pc EXCEPT ![c] = "join_dropped"]
        /\ UNCHANGED <<count, mutex, list, dropped, flag, queuevars, call, cur, dismiss,
                       joins, calls, failed>>
    BY DEF Destroy, Goto
  <1>2. /\ call[c] = "destroy" /\ c \in Threads /\ c \notin Workers /\ count = Stopped
        /\ \A d \in Callers \ {c} : pc[d] = "idle" /\ call[d] = "none"
    <2>1. call[c] = "destroy" /\ count = Stopped
      BY <1>1, Places, Parts DEF CallerAt, StoppedOK
    <2>2. \A d \in Callers \ {c} : pc[d] = "idle"
      BY <2>1, Parts DEF PhaseOK
    <2> QED BY <2>1, <2>2, Places DEF CallerAt
  <1>3. Moves(c, "join_dropped", call[c]) /\ CallerAt("join_dropped", call[c], dismiss'[c])
    BY <1>1, <1>2 DEF Moves, CallerAt, CallerLabels
  <1>4. Dismisses(c)
    BY <1>1, DismissesKept
  <1>5. /\ pc'[c] = "join_dropped" /\ call'[c] = call[c]
        /\ \A u \in Threads \ {c} : pc'[u] = pc[u] /\ call'[u] = call[u]
    BY <1>2, <1>3, <1>4, Parts, MovesLocal
  <1>6. PhaseOK'
    BY <1>1, <1>2, <1>5 DEF PhaseOK
  <1>7. StoppedOK'
    BY <1>1, <1>2 DEF StoppedOK
  <1>8. ResizesLeft' = ResizesLeft
    BY <1>1, <1>2, <1>5, Parts, SameResizes
  <1>9. MaxSize * ResizesLeft' <= MaxSize * ResizesLeft
    BY <1>8, Parts
  <1>10. TypedRest' /\ qstate' = qstate
    BY <1>1, Places DEF TypedRest, queuevars
  <1> QED BY <1>1, <1>3, <1>6, <1>7, <1>9, <1>10, Parts, CallerStepFits

\* A call starts: one of those that were still allowed.
LEMMA StartCallStep ==
  ASSUME IInv, NEW c \in Callers, NEW f \in Calls, StartCall(c, f)
  PROVE  IInv'
  <1> DEFINE l == IF f = "complete" THEN "stop" ELSE f
  <1>1. /\ phase = "alive" /\ pc[c] = "idle" /\ calls < MaxCalls
        /\ \A d \in Callers : call[d] # "destroy"
        /\ calls' = calls + 1 /\ call' = [call EXCEPT ![c] = f]
        /\ pc' = [pc EXCEPT ![c] = l]
        /\ UNCHANGED <<count, poolvars, queuevars, cur, dismiss, joins, failed>>
    BY DEF StartCall, Goto
  <1>2. /\ f \in {"resize", "push", "clear", "stop", "complete"}
        /\ c \in Threads /\ c \notin Workers
    OBVIOUS
  <1>3. Moves(c, l, f) /\ CallerAt(l, f, dismiss'[c])
    BY <1>1, <1>2 DEF Moves, CallerAt, CallerLabels
  <1>4. l \notin {"create", "destroy"} /\ (l = "resize" <=> f = "resize")
    BY <1>2
  <1> HIDE DEF l
  <1>5. Dismisses(c)
    BY <1>1, DismissesKept
  <1>6. /\ pc'[c] = l /\ call'[c] = f
        /\ \A u \in Threads \ {c} : pc'[u] = pc[u] /\ call'[u] = call[u]
    BY <1>2, <1>3, <1>5, Parts, MovesLocal
  <1>7. phase' = phase /\ list' = list /\ dropped' = dropped /\ qstate' = qstate
    BY <1>1 DEF poolvars, queuevars
  <1>8. PhaseOK'
    <2>1. \A d \in Callers : call[d] # "construct"
      BY <1>1, Parts DEF PhaseOK
    <2>2. \A d \in Callers : call'[d] \notin {"construct", "destroy"}
      BY <1>1, <1>2, <1>6, <2>1
    <2> QED BY <2>2 DEF PhaseOK
  <1>9. StoppedOK'
    BY <1>1, <1>2, <1>4, <1>6, <1>7, Parts, StoppedKept
  <1>10. calls \in 0..MaxCalls /\ calls' \in 0..MaxCalls
    BY <1>1, Parts
  <1>11. MaxSize * ResizesLeft' <= MaxSize * ResizesLeft
    <2>1. ResizesLeft \in Nat /\ ResizesLeft' \in Nat
      BY <1>10, ResizesLeftNat, ResizesLeftNatNext
    <2>2. Cardinality(Resizing') <= Cardinality(Resizing) + 1
      <3>1. OthersStay(c)
        BY <1>2, <1>6, <1>7, OthersAlone
      <3>2. In(c, Resizing) = 0 /\ In(c, Resizing') \in {0, 1}
        BY <1>1 DEF In, Resizing
      <3>3. Cardinality(Resizing')
              = Cardinality(Resizing) - In(c, Resizing) + In(c, Resizing')
        BY <1>2, <3>1, Counted
      <3> QED BY <3>2, <3>3, SetsCounted
    <2>3. ResizesLeft' <= ResizesLeft
      BY <1>1, <1>10, <2>2, SetsCounted DEF ResizesLeft
    <2> QED BY <2>1, <2>3, ProductsGrow, Zenon
  <1>12. TypedRest'
    BY <1>1, Places DEF TypedRest, poolvars, queuevars
  <1> QED BY <1>1, <1>3, <1>4, <1>7, <1>8, <1>9, <1>10, <1>11, <1>12, CallerStepFits

\* The destructor starts, with nobody else inside.
LEMMA StartDestroyStep ==
  ASSUME IInv, NEW c \in Callers, StartDestroy(c)
  PROVE  IInv'
  <1>1. /\ phase = "alive" /\ \A d \in Callers : pc[d] = "idle"
        /\ call' = [call EXCEPT ![c] = "destroy"] /\ pc' = [pc EXCEPT ![c] = "stop"]
        /\ UNCHANGED <<count, poolvars, queuevars, cur, dismiss, joins, calls, failed>>
    BY DEF StartDestroy, Goto
  <1>2. c \in Threads /\ c \notin Workers /\ \A d \in Callers : call[d] = "none"
    BY <1>1, Places DEF CallerAt
  <1>3. Moves(c, "stop", "destroy") /\ CallerAt("stop", "destroy", dismiss'[c])
    BY <1>1 DEF Moves, CallerAt, CallerLabels
  <1>4. Dismisses(c)
    BY <1>1, DismissesKept
  <1>5. /\ pc'[c] = "stop" /\ call'[c] = "destroy"
        /\ \A u \in Threads \ {c} : pc'[u] = pc[u] /\ call'[u] = call[u]
    BY <1>2, <1>3, <1>4, Parts, MovesLocal
  <1>6. phase' = phase /\ list' = list /\ dropped' = dropped /\ qstate' = qstate
    BY <1>1 DEF poolvars, queuevars
  <1>7. PhaseOK'
    BY <1>1, <1>2, <1>5, <1>6 DEF PhaseOK
  <1>8. StoppedOK'
    BY <1>1, <1>2, <1>5, <1>6, Parts, StoppedKept
  <1>9. ResizesLeft' = ResizesLeft
    BY <1>1, <1>2, <1>5, Parts, SameResizes
  <1>10. MaxSize * ResizesLeft' <= MaxSize * ResizesLeft
    BY <1>9, Parts
  <1>11. TypedRest'
    BY <1>1, Places DEF TypedRest, poolvars, queuevars
  <1> QED BY <1>1, <1>3, <1>6, <1>7, <1>8, <1>10, <1>11, Parts, CallerStepFits

-----------------------------------------------------------------------------
(* The steps of several threads *)

\* The sets that are counted change by known amounts.
LEMMA SetsStep ==
  ASSUME IInv, phase # "aborted", Typed', PlacesOK', PhaseOK', StoppedOK', HandlesOK',
         count' = count, calls' = calls, qstate' = qstate, phase' # "aborted",
         phase' \in {"constructing", "alive"} => phase \in {"constructing", "alive"},
         Cardinality(Members') + Cardinality(Creating')
           = Cardinality(Members) + Cardinality(Creating),
         Cardinality(Used') + Cardinality(Creating')
           <= Cardinality(Used) + Cardinality(Creating),
         Resizing' = Resizing
  PROVE  IInv'
  <1>1. /\ count.running \in Int /\ count.pending \in Int /\ calls \in 0..MaxCalls
        /\ CountOK /\ RunningExact /\ IdsOK /\ Typed
    BY Parts
  <1>2. CountOK' /\ RunningExact'
    <2>1. Slack' = Slack
      BY <1>1, SetsCounted DEF Slack
    <2>2. count # Stopped => Expected(count') >= 0
      BY <1>1 DEF CountOK
    <2>3. count' \in [running : Int, pending : Int]
      BY <1>1 DEF Typed
    <2> QED BY <1>1, <2>1, <2>2, <2>3, CountFits
  <1>3. ResizesLeft' = ResizesLeft
    <2>1. Cardinality(Resizing') = Cardinality(Resizing)
      BY Zenon
    <2> QED BY <2>1 DEF ResizesLeft
  <1>4. IdsOK'
    <2>1. Positive(count.pending) \in Nat /\ Positive(count'.pending) = Positive(count.pending)
      BY <1>1 DEF Positive
    <2>2. MaxSize * ResizesLeft \in Nat /\ MaxSize * ResizesLeft' = MaxSize * ResizesLeft
      BY <1>3, Parts
    <2>3. Cardinality(Used') + Cardinality(Creating') + Positive(count'.pending)
            + MaxSize * ResizesLeft'
          <= Cardinality(Used) + Cardinality(Creating) + Positive(count.pending)
               + MaxSize * ResizesLeft
      BY <2>1, <2>2, SetsCounted
    <2> QED BY <1>1, <2>2, <2>3, IdsFit
  <1>5. TypeOK'
    BY <1>1, <1>4, IdsEnough DEF TypeOK
  <1> QED BY <1>2, <1>4, <1>5 DEF IInv

\* The handles ws have been joined by t.
LEMMA JoinAllStep ==
  ASSUME IInv, phase # "aborted", NEW t \in Threads, NEW ws \in SUBSET Workers, Ended(ws),
         NEW l, JoinAll(t, ws, l), pc[t] # "exit", l \notin {"none", "create", "resize"},
         t \in Workers => pc[t] = "join" /\ WorkerAt(l, call[t]) /\ call' = call,
         t \in Callers => /\ pc[t] \notin {"create", "resize"}
                          /\ \/ CallerAt(l, call[t], dismiss[t]) /\ call' = call
                             \/ /\ CallerAt(l, "none", dismiss[t])
                                /\ call' = [call EXCEPT ![t] = "none"]
  PROVE  /\ \A u \in Threads \ {t} : pc'[u] = IF u \in ws THEN "none" ELSE pc[u]
         /\ pc'[t] = l /\ t \notin ws
         /\ \A u \in Threads \ {t} : call'[u] = call[u]
         /\ pc' \in [Threads -> CallerLabels \cup WorkerLabels]
         /\ call' \in [Threads -> Calls \cup {"none", "construct", "destroy", "boot",
                                              "serve"}]
         /\ dismiss' = dismiss => PlacesOK'
         /\ Creating' = Creating /\ Resizing' = Resizing
         /\ Cardinality(Used') <= Cardinality(Used)
  <1>1. /\ pc \in [Threads -> CallerLabels \cup WorkerLabels]
        /\ call \in [Threads -> Calls \cup {"none", "construct", "destroy", "boot", "serve"}]
    BY Parts DEF Typed, CallerLabels, WorkerLabels
  <1>2. t \notin ws
    BY DEF Ended
  <1>3. /\ l \in CallerLabels \cup WorkerLabels
    BY PlaceTyped
  <1>4. /\ pc' = [u \in Threads |-> IF u \in ws THEN "none"
                                    ELSE IF u = t THEN l ELSE pc[u]]
    BY DEF JoinAll
  <1>5. /\ \A u \in Threads \ {t} : pc'[u] = IF u \in ws THEN "none" ELSE pc[u]
        /\ pc'[t] = l
    BY <1>2, <1>4
  <1>6. pc' \in [Threads -> CallerLabels \cup WorkerLabels]
    <2>1. "none" \in CallerLabels \cup WorkerLabels
      BY DEF WorkerLabels
    <2> QED BY <1>1, <1>3, <1>4, <2>1
  <1>7. /\ \A u \in Threads \ {t} : call'[u] = call[u]
        /\ call' \in [Threads -> Calls \cup {"none", "construct", "destroy", "boot",
                                             "serve"}]
    BY <1>1
  <1>8. ASSUME dismiss' = dismiss
        PROVE  PlacesOK'
    <2>1. ASSUME NEW c \in Callers
          PROVE  CallerAt(pc'[c], call'[c], dismiss'[c])
      <3>1. c \in Threads /\ c \notin ws
        OBVIOUS
      <3>2. CASE c = t
        BY <1>1, <1>5, <1>8, <3>1, <3>2
      <3>3. CASE c # t
        BY <1>5, <1>7, <1>8, <3>1, <3>3, Places
      <3> QED BY <3>2, <3>3
    <2>2. ASSUME NEW w \in Workers
          PROVE  WorkerAt(pc'[w], call'[w])
      <3>1. CASE w = t
        BY <1>5, <3>1
      <3>2. CASE w # t /\ w \notin ws
        BY <1>5, <1>7, <3>2, Places
      <3>3. CASE w # t /\ w \in ws
        <4>1. pc'[w] = "none" /\ call'[w] = call[w] /\ WorkerAt(pc[w], call[w])
          BY <1>5, <1>7, <3>3, Places
        <4> QED BY <4>1 DEF WorkerAt, WorkerLabels
      <3> QED BY <3>1, <3>2, <3>3
    <2> QED BY <2>1, <2>2 DEF PlacesOK, CallerAt, WorkerAt
  <1>9. Creating' = Creating
    BY <1>5 DEF Creating, Ended
  <1>10. Resizing' = Resizing
    BY <1>5 DEF Resizing
  <1>11. Cardinality(Used') <= Cardinality(Used)
    <2>1. Used' \subseteq Used
      BY <1>5, Places DEF Used, Ended
    <2>2. IsFiniteSet(Used)
      BY ThreadsFinite, FS_Subset DEF Used
    <2> QED BY <2>1, <2>2, FS_Subset
  <1> QED BY <1>2, <1>5, <1>6, <1>7, <1>8, <1>9, <1>10, <1>11

\* The threads are counted as before.
LEMMA SameSums ==
  ASSUME Members' = Members, Creating' = Creating, Cardinality(Used') <= Cardinality(Used)
  PROVE  /\ Cardinality(Members') + Cardinality(Creating')
              = Cardinality(Members) + Cardinality(Creating)
         /\ Cardinality(Used') + Cardinality(Creating')
              <= Cardinality(Used) + Cardinality(Creating)
  <1>1. Cardinality(Members') = Cardinality(Members)
        /\ Cardinality(Creating') = Cardinality(Creating)
    BY Zenon
  <1> QED BY <1>1, SetsCounted

\* A worker joins the handles that it has taken.
LEMMA JoinStep ==
  ASSUME IInv, phase # "aborted", NEW w \in Workers, Join(w)
  PROVE  IInv'
  <1> DEFINE ws == joins[w]
             l == IF w \in list THEN "pop" ELSE "exit"
  <1>1. /\ pc[w] = "join" /\ Ended(ws) /\ JoinAll(w, ws, l)
        /\ joins' = [joins EXCEPT ![w] = {}]
        /\ UNCHANGED <<count, poolvars, queuevars, call, cur, dismiss, calls, failed>>
    BY DEF Join
  <1>2. ws \in SUBSET Workers /\ w \in Threads /\ w \notin Callers
    BY Parts
  <1>3. WorkerAt(l, call[w]) /\ l \notin {"none", "create", "resize"}
    BY <1>1, Places DEF WorkerAt, WorkerLabels
  <1>4. l = "pop" <=> w \in list
    OBVIOUS
  <1>5. l \in {"pop", "exit"}
    OBVIOUS
  <1>6. \A v \in ws : /\ v \notin list /\ v \notin dropped
                      /\ \A u \in Threads \ {w} : v \notin joins[u]
    BY <1>2, Parts DEF HandlesOK
  <1>7. UNCHANGED <<list, dropped, phase, qstate, flag, mutex>>
    BY <1>1 DEF poolvars, queuevars
  <1> HIDE DEF l
  <1>8. /\ \A u \in Threads \ {w} : pc'[u] = IF u \in ws THEN "none" ELSE pc[u]
        /\ pc'[w] = l /\ w \notin ws
        /\ \A u \in Threads \ {w} : call'[u] = call[u]
        /\ pc' \in [Threads -> CallerLabels \cup WorkerLabels]
        /\ call' \in [Threads -> Calls \cup {"none", "construct", "destroy", "boot",
                                             "serve"}]
        /\ PlacesOK'
        /\ Creating' = Creating /\ Resizing' = Resizing
        /\ Cardinality(Used') <= Cardinality(Used)
    <2>1. call' = call /\ dismiss' = dismiss /\ pc[w] # "exit"
      BY <1>1
    <2>2. Ended(ws) /\ JoinAll(w, ws, l) /\ pc[w] = "join"
      BY <1>1
    <2>3. w \in Workers => pc[w] = "join" /\ WorkerAt(l, call[w]) /\ call' = call
      BY <1>3, <2>1, <2>2
    <2>4. w \in Callers => /\ pc[w] \notin {"create", "resize"}
                           /\ \/ CallerAt(l, call[w], dismiss[w]) /\ call' = call
                              \/ /\ CallerAt(l, "none", dismiss[w])
                                 /\ call' = [call EXCEPT ![w] = "none"]
      BY <1>2
    <2> HIDE DEF ws
    <2> QED BY <1>2, <1>3, <2>1, <2>2, <2>3, <2>4, JoinAllStep
  <1>9. \A u \in Callers : pc'[u] = pc[u] /\ call'[u] = call[u]
    BY <1>1, <1>2, <1>8
  <1>10. PhaseOK' /\ StoppedOK'
    BY <1>1, <1>7, <1>9, Parts DEF PhaseOK, StoppedOK
  <1>11. joins' \in [Threads -> SUBSET Workers] /\ joins'[w] = {}
         /\ \A u \in Threads \ {w} : joins'[u] = joins[u]
    BY <1>1, <1>2, Parts
  <1>12. Typed'
    <2>1. TypedRest'
      BY <1>1, <1>7, Places DEF TypedRest, queuevars
    <2>2. dismiss' \in [Callers -> Nat]
      BY <1>1, Places
    <2>3. phase' \in {"constructing", "alive", "destroying", "destroyed", "aborted"}
          /\ count' \in [running : Int, pending : Int]
      BY <1>1, <1>7, Parts DEF Typed
    <2> QED BY <1>1, <1>7, <1>8, <1>11, <2>1, <2>2, <2>3, Parts, TypedJoin
  <1>13. HandlesOK'
    <2>1. \A v \in Workers : Handled(v)' <=> Handled(v) /\ v \notin ws
      BY <1>2, <1>6, <1>7, <1>11 DEF Handled
    <2>2. ASSUME NEW v \in Workers
          PROVE  /\ pc'[v] # "none" <=> Handled(v)'
                 /\ pc'[v] \notin {"none", "join", "exit"} => v \in list'
                 /\ v \in dropped' => v \notin list'
      <3>1. /\ pc[v] # "none" <=> Handled(v)
            /\ pc[v] \notin {"none", "join", "exit"} => v \in list
            /\ v \in dropped => v \notin list
        BY Parts DEF HandlesOK
      <3>2. CASE v = w
        BY <1>1, <1>3, <1>4, <1>5, <1>7, <1>8, <2>1, <3>1, <3>2
      <3>3. CASE v # w
        BY <1>7, <1>8, <2>1, <3>1, <3>3
      <3> QED BY <3>2, <3>3
    <2>3. ASSUME NEW u \in Threads
          PROVE  /\ joins'[u] # {} => pc'[u] = "join"
                 /\ joins'[u] \cap (list' \cup dropped') = {}
                 /\ \A v \in Threads \ {u} : joins'[u] \cap joins'[v] = {}
      <3>1. \A v \in Threads : /\ joins[v] # {} => pc[v] = "join"
                               /\ joins[v] \cap (list \cup dropped) = {}
                               /\ \A x \in Threads \ {v} : joins[v] \cap joins[x] = {}
        BY Parts DEF HandlesOK
      <3>2. joins'[u] # {} => pc'[u] = "join"
        BY <1>1, <1>8, <1>11, <3>1 DEF Ended
      <3>3. joins'[u] \cap (list' \cup dropped') = {}
        BY <1>7, <1>11, <3>1
      <3>4. \A v \in Threads \ {u} : joins'[u] \cap joins'[v] = {}
        BY <1>11, <3>1
      <3> QED BY <3>2, <3>3, <3>4
    <2> QED BY <2>2, <2>3 DEF HandlesOK, Handled
  <1>14. Members' = Members
    <2>1. ASSUME NEW v \in Workers
          PROVE  v \in Members' <=> v \in Members
      <3>1. CASE v = w
        BY <1>1, <1>4, <1>5, <1>7, <1>8, <3>1 DEF Members
      <3>2. CASE v # w
        BY <1>1, <1>7, <1>8, <3>2 DEF Members, Ended
      <3> QED BY <3>1, <3>2
    <2> QED BY <2>1 DEF Members
  <1>15. count' = count /\ calls' = calls
    BY <1>1
  <1> HIDE DEF ws
  <1> QED BY <1>7, <1>8, <1>10, <1>12, <1>13, <1>14, <1>15, SameSums, SetsStep

\* The destructor joins the handles of ws, one of its lists, which is emptied.
LEMMA DestructorJoins ==
  ASSUME IInv, phase # "aborted", NEW c \in Callers, NEW ws \in {list, dropped}, Ended(ws),
         NEW l, JoinAll(c, ws, l), pc[c] \in {"join_dropped", "join_list"},
         l \in {"idle", "join_list"},
         l = "idle" => phase' = "destroyed" /\ call' = [call EXCEPT ![c] = "none"],
         l = "join_list" => phase' = phase /\ call' = call,
         \/ ws = list /\ list' = {} /\ dropped' = dropped
         \/ ws = dropped /\ dropped' = {} /\ list' = list,
         UNCHANGED <<count, mutex, flag, queuevars, cur, dismiss, joins, calls, failed>>
  PROVE  IInv'
  <1>1. /\ ws \in SUBSET Workers /\ c \in Threads /\ c \notin Workers
        /\ call[c] = "destroy"
        /\ \A d \in Callers \ {c} : pc[d] = "idle" /\ call[d] = "none"
    <2>1. call[c] = "destroy"
      BY Places DEF CallerAt
    <2>2. \A d \in Callers \ {c} : pc[d] = "idle"
      BY <2>1, Parts DEF PhaseOK
    <2> QED BY <2>1, <2>2, Places, Parts DEF CallerAt
  <1>2. /\ CallerAt("join_list", call[c], dismiss[c]) /\ CallerAt("idle", "none", dismiss[c])
    BY <1>1 DEF CallerAt, CallerLabels
  <1>3. /\ \A u \in Threads \ {c} : pc'[u] = IF u \in ws THEN "none" ELSE pc[u]
        /\ pc'[c] = l /\ c \notin ws
        /\ \A u \in Threads \ {c} : call'[u] = call[u]
        /\ pc' \in [Threads -> CallerLabels \cup WorkerLabels]
        /\ call' \in [Threads -> Calls \cup {"none", "construct", "destroy", "boot",
                                             "serve"}]
        /\ PlacesOK'
        /\ Creating' = Creating /\ Resizing' = Resizing
        /\ Cardinality(Used') <= Cardinality(Used)
    <2>1. \/ CallerAt(l, call[c], dismiss[c]) /\ call' = call
          \/ /\ CallerAt(l, "none", dismiss[c])
             /\ call' = [call EXCEPT ![c] = "none"]
      BY <1>2
    <2> QED BY <1>1, <2>1, JoinAllStep
  <1>4. \A d \in Callers \ {c} : pc'[d] = pc[d] /\ call'[d] = call[d]
    BY <1>1, <1>3
  <1>5. call'[c] = IF l = "idle" THEN "none" ELSE "destroy"
    BY <1>1, Places
  <1>6. PhaseOK' /\ StoppedOK'
    <2>1. PhaseOK'
      BY <1>1, <1>4, <1>5, Parts DEF PhaseOK
    <2>2. StoppedOK'
      BY <1>3, <1>4, Parts DEF StoppedOK
    <2> QED BY <2>1, <2>2
  <1>7. phase' \in {"constructing", "alive", "destroying", "destroyed"}
        /\ (phase' \in {"constructing", "alive"} => phase \in {"constructing", "alive"})
        /\ phase' # "aborted"
    BY Parts DEF Typed
  <1>8. Typed'
    <2>1. TypedRest' /\ dismiss' \in [Callers -> Nat]
          /\ count' \in [running : Int, pending : Int]
      BY Places DEF TypedRest, queuevars
    <2>2. list' \subseteq Workers /\ dropped' \subseteq Workers
          /\ joins' \in [Threads -> SUBSET Workers] /\ calls' \in 0..MaxCalls
      BY Parts
    <2> QED BY <1>3, <1>7, <2>1, <2>2, TypedJoin
  <1>9. HandlesOK'
    <2>1. /\ \A v \in Workers : /\ pc[v] # "none" <=> Handled(v)
                                /\ pc[v] \notin {"none", "join", "exit"} => v \in list
                                /\ v \in dropped => v \notin list
          /\ \A v \in Threads : /\ joins[v] # {} => pc[v] = "join"
                                /\ joins[v] \cap (list \cup dropped) = {}
                                /\ \A x \in Threads \ {v} : joins[v] \cap joins[x] = {}
      BY Parts DEF HandlesOK
    <2>2. \A v \in Workers : Handled(v)' <=> Handled(v) /\ v \notin ws
      BY <2>1 DEF Handled
    <2>3. ASSUME NEW v \in Workers
          PROVE  /\ pc'[v] # "none" <=> Handled(v)'
                 /\ pc'[v] \notin {"none", "join", "exit"} => v \in list'
                 /\ v \in dropped' => v \notin list'
      <3>1. pc'[v] = IF v \in ws THEN "none" ELSE pc[v]
        BY <1>1, <1>3
      <3>2. pc'[v] # "none" <=> Handled(v)'
        BY <2>1, <2>2, <3>1
      <3>3. pc'[v] \notin {"none", "join", "exit"} => v \in list'
        BY <2>1, <3>1
      <3>4. v \in dropped' => v \notin list'
        BY <2>1
      <3> QED BY <3>2, <3>3, <3>4
    <2>4. ASSUME NEW u \in Threads
          PROVE  /\ joins'[u] # {} => pc'[u] = "join"
                 /\ joins'[u] \cap (list' \cup dropped') = {}
                 /\ \A v \in Threads \ {u} : joins'[u] \cap joins'[v] = {}
      <3>1. joins'[u] # {} => pc'[u] = "join"
        BY <1>3, <2>1 DEF Ended
      <3>2. joins'[u] \cap (list' \cup dropped') = {}
        BY <2>1
      <3>3. \A v \in Threads \ {u} : joins'[u] \cap joins'[v] = {}
        BY <2>1
      <3> QED BY <3>1, <3>2, <3>3
    <2> QED BY <2>3, <2>4 DEF HandlesOK, Handled
  <1>10. Members' = Members
    <2>1. ASSUME NEW v \in Workers
          PROVE  v \in Members' <=> v \in Members
      <3>1. pc'[v] = IF v \in ws THEN "none" ELSE pc[v]
        BY <1>1, <1>3
      <3>2. v \in ws => pc[v] = "exit"
        BY DEF Ended
      <3>3. CASE list' = list
        BY <3>1, <3>2, <3>3 DEF Members
      <3>4. CASE ws = list /\ list' = {}
        <4>1. pc[v] \notin {"none", "join", "exit"} => v \in list
          BY Parts DEF HandlesOK
        <4>2. v \notin Members
          BY <3>2, <3>4, <4>1 DEF Members
        <4>3. v \notin Members'
          BY <3>1, <3>2, <3>4, <4>1 DEF Members
        <4> QED BY <4>2, <4>3
      <3> QED BY <3>3, <3>4
    <2> QED BY <2>1 DEF Members
  <1>11. qstate' = qstate /\ calls' = calls /\ count' = count
    BY DEF queuevars
  <1> QED BY <1>3, <1>6, <1>7, <1>8, <1>9, <1>10, <1>11, SameSums, SetsStep

LEMMA JoinDroppedStep ==
  ASSUME IInv, phase # "aborted", NEW c \in Callers, JoinDropped(c)
  PROVE  IInv'
  BY DestructorJoins DEF JoinDropped

LEMMA JoinListStep ==
  ASSUME IInv, phase # "aborted", NEW c \in Callers, JoinList(c)
  PROVE  IInv'
  BY DestructorJoins DEF JoinList

\* The smallest one of some identities is one of them.
LEMMA SmallestId ==
  ASSUME NEW S \in SUBSET Nat, S # {}
  PROVE  Min(S) \in S
  <1> DEFINE R == OpToRel(<, Nat)
  <1>1. PICK m \in S : \A i \in S : ~(<<i, m>> \in R)
    <2> HIDE DEF R
    <2>1. IsWellFoundedOn(R, Nat)
      BY NatLessThanWellFounded DEF R
    <2> QED BY <2>1, WFMin
  <1>2. \A i \in S : ~(i < m)
    BY <1>1 DEF OpToRel
  <1>3. \A i \in S : m =< i
    BY <1>2
  <1> QED BY <1>3 DEF Min

\* A worker is put into the list and started.
LEMMA CreateStep ==
  ASSUME IInv, phase # "aborted", NEW t \in Threads, Create(t)
  PROVE  IInv'
  <1> DEFINE w == Min(FreeIds)
             next == CASE call[t] = "boot" -> "boot"
                       [] call[t] = "serve" -> "collect"
                       [] OTHER -> "idle"
             f == IF t \in Callers THEN "none" ELSE call[t]
  <1>1. /\ pc[t] = "create" /\ mutex = NoOwner /\ count.running >= 0
        /\ list' = list \cup {w} /\ pc' = [pc EXCEPT ![w] = "boot", ![t] = next]
        /\ call' = [call EXCEPT ![w] = "boot", ![t] = IF t \in Callers THEN "none" ELSE @]
        /\ phase' = (IF call[t] = "construct" THEN "alive" ELSE phase)
        /\ Forget(t)
        /\ UNCHANGED <<count, mutex, dropped, flag, queuevars, dismiss, joins, calls,
                       failed>>
    BY DEF Create, StartWorker
  <1>2. w \in Workers /\ pc[w] = "none" /\ w # t /\ w \in Threads /\ w \notin Callers
    <2>1. FreeIds # {}
      BY <1>1 DEF IInv, TypeOK, Creating
    <2>2. FreeIds \in SUBSET Nat
      BY DEF FreeIds, Workers
    <2>3. w \in FreeIds
      BY <2>1, <2>2, SmallestId
    <2> QED BY <1>1, <2>3 DEF FreeIds
  <1>3. /\ t \in Workers => next \in {"boot", "collect"} /\ WorkerAt(next, f)
        /\ t \in Callers => /\ next = "idle" /\ f = "none" /\ CallerAt(next, f, dismiss'[t])
                            /\ call[t] \in {"construct", "resize"}
    <2>1. CASE t \in Workers
      <3>1. call[t] \in {"boot", "serve"} /\ f = call[t]
        BY <1>1, <2>1, Places DEF WorkerAt
      <3> QED BY <2>1, <3>1 DEF WorkerAt, WorkerLabels
    <2>2. CASE t \in Callers
      <3>1. call[t] \in {"construct", "resize"} /\ f = "none"
        BY <1>1, <2>2, Places DEF CallerAt
      <3> QED BY <2>2, <3>1 DEF CallerAt, CallerLabels
    <2> QED BY <2>1, <2>2
  <1>4. next \in {"boot", "collect", "idle"} /\ f \in {"none", call[t]}
    BY <1>3
  <1>5. call' = [call EXCEPT ![w] = "boot", ![t] = f]
    BY <1>1, <1>2
  <1> HIDE DEF w, next, f
  <1>6. /\ pc \in [Threads -> CallerLabels \cup WorkerLabels]
        /\ call \in [Threads -> Calls \cup {"none", "construct", "destroy", "boot", "serve"}]
    BY Parts DEF Typed, CallerLabels, WorkerLabels
  <1>7. /\ pc'[t] = next /\ call'[t] = f /\ pc'[w] = "boot" /\ call'[w] = "boot"
        /\ \A u \in Threads \ {t, w} : pc'[u] = pc[u] /\ call'[u] = call[u]
    BY <1>1, <1>2, <1>5, <1>6
  <1>8. /\ pc' \in [Threads -> CallerLabels \cup WorkerLabels]
        /\ call' \in [Threads -> Calls \cup {"none", "construct", "destroy", "boot", "serve"}]
    <2>1. "boot" \in WorkerLabels /\ next \in CallerLabels \cup WorkerLabels
      BY <1>4 DEF WorkerLabels, CallerLabels
    <2>2. pc' \in [Threads -> CallerLabels \cup WorkerLabels]
      BY <1>1, <1>6, <2>1
    <2>3. f \in Calls \cup {"none", "construct", "destroy", "boot", "serve"}
      BY <1>4, <1>6
    <2>4. call' \in [Threads -> Calls \cup {"none", "construct", "destroy", "boot", "serve"}]
      BY <1>5, <1>6, <2>3
    <2> QED BY <2>2, <2>4
  <1>9. PlacesOK'
    <2>1. ASSUME NEW c \in Callers
          PROVE  CallerAt(pc'[c], call'[c], dismiss'[c])
      <3>1. CASE c = t
        BY <1>3, <1>7, <3>1
      <3>2. CASE c # t
        BY <1>1, <1>2, <1>7, <3>2, Places
      <3> QED BY <3>1, <3>2
    <2>2. ASSUME NEW v \in Workers
          PROVE  WorkerAt(pc'[v], call'[v])
      <3>1. CASE v = t
        BY <1>3, <1>7, <3>1
      <3>2. CASE v = w
        BY <1>7, <3>2 DEF WorkerAt, WorkerLabels
      <3>3. CASE v \notin {t, w}
        BY <1>7, <3>3, Places
      <3> QED BY <3>1, <3>2, <3>3
    <2> QED BY <2>1, <2>2 DEF PlacesOK, CallerAt, WorkerAt
  <1>10. /\ \A c \in Callers \ {t} : pc'[c] = pc[c] /\ call'[c] = call[c]
         /\ t \in Callers => call'[t] = "none" /\ pc'[t] = "idle"
    BY <1>2, <1>3, <1>7
  <1>11. PhaseOK'
    <2>1. CASE phase' = phase
      <3>1. \A c \in Callers : call'[c] \in {"construct", "destroy"} => call'[c] = call[c]
        BY <1>10
      <3>2. \A c \in Callers : pc[c] = "idle" => pc'[c] = "idle"
        BY <1>10
      <3> QED BY <2>1, <3>1, <3>2, Parts DEF PhaseOK
    <2>2. CASE phase' # phase
      <3>1. call[t] = "construct" /\ t \in Callers
        BY <1>1, <2>2, Places DEF WorkerAt
      <3>2. \A c \in Callers \ {t} : call[c] = "none"
        BY <3>1, Places, Parts DEF PhaseOK, CallerAt
      <3> QED BY <1>10, <3>1, <3>2 DEF PhaseOK
    <2> QED BY <2>1, <2>2
  <1>12. StoppedOK'
    <2>1. count # Stopped
      BY <1>1, StoppedCount
    <2>2. phase' # "destroying" /\ \A c \in Callers : pc[c] # "destroy"
      BY <1>1, <2>1, Parts DEF StoppedOK
    <2> QED BY <1>10, <2>2 DEF StoppedOK
  <1>13. /\ phase' \in {"constructing", "alive", "destroying", "destroyed"}
         /\ phase' # "aborted"
         /\ phase' \in {"constructing", "alive"} => phase \in {"constructing", "alive"}
    <2>1. phase \in {"constructing", "alive", "destroying", "destroyed"}
      BY Parts DEF Typed
    <2>2. call[t] = "construct" => phase = "constructing"
      BY Places, Parts DEF PhaseOK, WorkerAt
    <2> QED BY <1>1, <2>1, <2>2
  <1>14. Typed'
    <2>1. cur' \in [Threads -> [running : Int, pending : Int]]
      BY <1>1, Places DEF TypedRest, Forget, Load, NoCount, Count
    <2>2. TypedRest' /\ dismiss' \in [Callers -> Nat]
      BY <1>1, <2>1, Places DEF TypedRest, queuevars
    <2>3. list' \subseteq Workers /\ dropped' \subseteq Workers
          /\ joins' \in [Threads -> SUBSET Workers] /\ calls' \in 0..MaxCalls
      BY <1>1, <1>2, Parts
    <2>4. count' \in [running : Int, pending : Int]
      BY <1>1, Places
    <2> QED BY <1>8, <1>13, <2>2, <2>3, <2>4, TypedJoin
  <1>15. HandlesOK'
    <2>1. /\ \A v \in Workers : /\ pc[v] # "none" <=> Handled(v)
                                /\ pc[v] \notin {"none", "join", "exit"} => v \in list
                                /\ v \in dropped => v \notin list
          /\ \A v \in Threads : /\ joins[v] # {} => pc[v] = "join"
                                /\ joins[v] \cap (list \cup dropped) = {}
                                /\ \A x \in Threads \ {v} : joins[v] \cap joins[x] = {}
      BY Parts DEF HandlesOK
    <2>2. \A v \in Workers : Handled(v)' <=> Handled(v) \/ v = w
      BY <1>1 DEF Handled
    <2>3. w \notin dropped /\ \A v \in Threads : w \notin joins[v]
      BY <1>2, <2>1 DEF Handled
    <2>4. ASSUME NEW v \in Workers
          PROVE  /\ pc'[v] # "none" <=> Handled(v)'
                 /\ pc'[v] \notin {"none", "join", "exit"} => v \in list'
                 /\ v \in dropped' => v \notin list'
      <3>1. CASE v = w
        BY <1>1, <1>7, <2>2, <2>3, <3>1
      <3>2. CASE v = t /\ v # w
        BY <1>1, <1>3, <1>7, <2>1, <2>2, <3>2
      <3>3. CASE v \notin {t, w}
        <4>1. pc'[v] = pc[v]
          BY <1>7, <3>3
        <4>2. list' = list \cup {w} /\ dropped' = dropped
          BY <1>1
        <4> QED BY <2>1, <2>2, <3>3, <4>1, <4>2
      <3> QED BY <3>1, <3>2, <3>3
    <2>5. ASSUME NEW u \in Threads
          PROVE  /\ joins'[u] # {} => pc'[u] = "join"
                 /\ joins'[u] \cap (list' \cup dropped') = {}
                 /\ \A v \in Threads \ {u} : joins'[u] \cap joins'[v] = {}
      <3>1. joins'[u] # {} => pc'[u] = "join"
        <4>1. pc[t] # "join" /\ pc[w] # "join" /\ joins' = joins
          BY <1>1, <1>2
        <4>2. joins[u] # {} => pc[u] = "join" /\ u \notin {t, w}
          BY <2>1, <4>1
        <4> QED BY <1>7, <4>1, <4>2
      <3>2. joins'[u] \cap (list' \cup dropped') = {}
        <4>1. joins' = joins /\ list' = list \cup {w} /\ dropped' = dropped
          BY <1>1
        <4>2. joins[u] \cap (list \cup dropped) = {} /\ w \notin joins[u]
          BY <2>1, <2>3
        <4> QED BY <4>1, <4>2
      <3>3. \A v \in Threads \ {u} : joins'[u] \cap joins'[v] = {}
        <4>1. joins' = joins
          BY <1>1
        <4> QED BY <2>1, <4>1
      <3> QED BY <3>1, <3>2, <3>3
    <2> QED BY <2>4, <2>5 DEF HandlesOK, Handled
  <1>16. /\ Cardinality(Members') = Cardinality(Members) + 1
         /\ Cardinality(Used') = Cardinality(Used) + 1
         /\ Cardinality(Creating') = Cardinality(Creating) - 1
    <2>1. Members' = Members \cup {w} /\ w \notin Members
      <3>1. ASSUME NEW v \in Workers
            PROVE  v \in Members' <=> v \in Members \/ v = w
        <4>1. CASE v = w
          BY <1>7, <4>1 DEF Members
        <4>2. CASE v = t /\ v # w
          BY <1>1, <1>3, <1>7, <4>2 DEF Members
        <4>3. CASE v \notin {t, w}
          BY <1>1, <1>7, <4>3 DEF Members
        <4> QED BY <4>1, <4>2, <4>3
      <3> QED BY <1>2, <3>1 DEF Members
    <2>2. Used' = Used \cup {w} /\ w \notin Used
      <3>1. ASSUME NEW v \in Workers
            PROVE  v \in Used' <=> v \in Used \/ v = w
        <4>1. CASE v = w
          BY <1>7, <4>1 DEF Used
        <4>2. CASE v = t /\ v # w
          BY <1>1, <1>3, <1>7, <4>2 DEF Used
        <4>3. CASE v \notin {t, w}
          BY <1>7, <4>3 DEF Used
        <4> QED BY <4>1, <4>2, <4>3
      <3> QED BY <1>2, <3>1 DEF Used
    <2>3. Creating' = Creating \ {t} /\ t \in Creating
      BY <1>1, <1>2, <1>4, <1>7 DEF Creating
    <2>4. IsFiniteSet(Members) /\ IsFiniteSet(Used) /\ IsFiniteSet(Creating)
      BY ThreadsFinite, FS_Subset DEF Members, Used, Creating
    <2>5. Cardinality(Members \cup {w}) = Cardinality(Members) + 1
      BY <2>1, <2>4, FS_AddElement
    <2>6. Cardinality(Used \cup {w}) = Cardinality(Used) + 1
      BY <2>2, <2>4, FS_AddElement
    <2>7. Cardinality(Creating \ {t}) = Cardinality(Creating) - 1
      BY <2>3, <2>4, FS_RemoveElement
    <2> QED BY <2>1, <2>2, <2>3, <2>5, <2>6, <2>7, Zenon
  <1>17. Resizing' = Resizing
    BY <1>1, <1>2, <1>4, <1>7 DEF Resizing
  <1>18. count' = count /\ calls' = calls /\ qstate' = qstate
    BY <1>1 DEF queuevars
  <1>19. /\ Cardinality(Members') + Cardinality(Creating')
              = Cardinality(Members) + Cardinality(Creating)
         /\ Cardinality(Used') + Cardinality(Creating')
              <= Cardinality(Used) + Cardinality(Creating)
    BY <1>16, SetsCounted
  <1> QED BY <1>9, <1>11, <1>12, <1>13, <1>14, <1>15, <1>17, <1>18, <1>19, SetsStep

-----------------------------------------------------------------------------
(* The theorems *)

LEMMA InitIInv ==
  ASSUME Init
  PROVE  IInv
  <1>1. PICK size \in 0..MaxSize : count = Count(0, size)
    BY DEF Init
  <1>2. /\ mutex = NoOwner /\ list = {} /\ dropped = {} /\ flag = FALSE
        /\ phase = "constructing" /\ qstate = "OPEN" /\ items = 0 /\ nulls = 0
        /\ capmutex = NoOwner
        /\ pc = [t \in Threads |-> IF t = Creator THEN "launch"
                                   ELSE IF t \in Callers THEN "idle" ELSE "none"]
        /\ call = [t \in Threads |-> IF t = Creator THEN "construct" ELSE "none"]
        /\ cur = [t \in Threads |-> IF t = Creator THEN count ELSE NoCount]
        /\ dismiss = [c \in Callers |-> 0] /\ joins = [t \in Threads |-> {}]
        /\ calls = 0 /\ failed = FALSE /\ cleared = FALSE
    BY DEF Init
  <1>3. /\ count.running = 0 /\ count.pending = size /\ size \in Nat /\ size <= MaxSize
        /\ count \in [running : Int, pending : Int] /\ count # Stopped
        /\ NoCount \in [running : Int, pending : Int]
    <2>1. /\ count = [running |-> 0, pending |-> size] /\ size \in Nat /\ size <= MaxSize
          /\ NoCount = [running |-> 0, pending |-> 0]
      BY <1>1 DEF Count, NoCount
    <2> QED BY <2>1, StoppedCount
  <1>4. /\ \A c \in Callers : /\ pc[c] = IF c = Creator THEN "launch" ELSE "idle"
                              /\ call[c] = IF c = Creator THEN "construct" ELSE "none"
        /\ \A w \in Workers : pc[w] = "none" /\ call[w] = "none"
    BY <1>2
  <1>5. Typed
    <2>1. cur \in [Threads -> [running : Int, pending : Int]]
      BY <1>2, <1>3
    <2>2. /\ pc \in [Threads -> CallerLabels \cup WorkerLabels]
          /\ call \in [Threads -> Calls \cup {"none", "construct", "destroy", "boot",
                                              "serve"}]
      BY <1>2 DEF CallerLabels, WorkerLabels
    <2>3. TypedRest
      <3>1. /\ mutex = NoOwner /\ capmutex = NoOwner /\ flag = FALSE /\ qstate = "OPEN"
            /\ items = 0 /\ nulls = 0 /\ failed = FALSE /\ cleared = FALSE
        BY <1>2
      <3>2. items \in Nat /\ nulls \in Nat /\ items + nulls <= QueueCapacity
        BY <3>1
      <3> QED BY <2>1, <3>1, <3>2 DEF TypedRest
    <2>4. /\ dismiss \in [Callers -> Nat] /\ joins \in [Threads -> SUBSET Workers]
          /\ calls \in 0..MaxCalls /\ list \subseteq Workers /\ dropped \subseteq Workers
      BY <1>2
    <2> QED BY <1>2, <1>3, <2>2, <2>3, <2>4 DEF Typed, TypedRest, CallerLabels, WorkerLabels
  <1>6. Creating = {} /\ Members = {} /\ Used = {} /\ Resizing = {}
    BY <1>4 DEF Creating, Members, Used, Resizing
  <1>7. /\ Cardinality(Creating) = 0 /\ Cardinality(Members) = 0
        /\ Cardinality(Used) = 0 /\ Cardinality(Resizing) = 0
    BY <1>6, FS_EmptySet, Zenon
  <1>8. TypeOK
    BY <1>5, <1>6 DEF TypeOK
  <1>9. PlacesOK /\ PhaseOK /\ StoppedOK
    <2>1. PlacesOK
      BY <1>4 DEF PlacesOK, CallerAt, WorkerAt, CallerLabels, WorkerLabels
    <2>2. PhaseOK
      BY <1>2, <1>4 DEF PhaseOK
    <2>3. StoppedOK
      BY <1>2, <1>4 DEF StoppedOK
    <2> QED BY <2>1, <2>2, <2>3
  <1>10. CountOK /\ RunningExact
    BY <1>3, <1>7 DEF CountOK, RunningExact, Slack, Expected
  <1>11. IdsOK
    <2>1. ResizesLeft = MaxResizes /\ MaxResizes \in Nat
      BY <1>2, <1>7 DEF ResizesLeft, MaxResizes
    <2>2. MaxSize * (MaxResizes + 1) = (MaxSize * MaxResizes) + MaxSize
      BY <2>1
    <2>3. MaxSize * MaxResizes \in Nat
      BY <2>1, Products
    <2>4. MaxSize * ResizesLeft = MaxSize * MaxResizes
      BY <2>1
    <2>5. Positive(count.pending) <= MaxSize /\ Positive(count.pending) \in Nat
      BY <1>3 DEF Positive
    <2> QED BY <1>7, <2>2, <2>3, <2>4, <2>5 DEF IdsOK
  <1>12. HandlesOK
    BY <1>2, <1>4 DEF HandlesOK, Handled
  <1> QED BY <1>8, <1>9, <1>10, <1>11, <1>12 DEF IInv

LEMMA NextIInv ==
  ASSUME IInv, [Next]_vars
  PROVE  IInv'
  <1>1. CASE UNCHANGED vars
    BY <1>1 DEF vars, IInv, TypeOK, Typed, PlacesOK, CallerAt, WorkerAt, PhaseOK, StoppedOK,
                CountOK, Slack, RunningExact, IdsOK, Used, Resizing, ResizesLeft, HandlesOK,
                Handled, Members, Creating, FreeIds
  <1>2. ASSUME NEW c \in Callers, NEW f \in Calls, StartCall(c, f)
        PROVE  IInv'
    BY <1>2, StartCallStep
  <1>3. ASSUME NEW c \in Callers, StartDestroy(c)
        PROVE  IInv'
    BY <1>3, StartDestroyStep
  <1>4. ASSUME NEW t \in Threads, phase # "aborted", CreateThrows(t)
        PROVE  IInv'
    BY <1>4, CreateThrowsStep, CreateAbortsStep
  <1>5. ASSUME NEW t \in Threads, phase # "aborted", LaunchStep(t)
        PROVE  IInv'
    BY <1>5, LaunchNothingStep, LaunchCasStep, LaunchCasFails, CreateStoppedStep, CreateStep
       DEF LaunchStep
  <1>6. ASSUME NEW w \in Workers, phase # "aborted", WorkerStep(w)
        PROVE  IInv'
    <2>1. CASE Serve(w)
      BY <1>6, <2>1, ServeOnStep, ServeDismissStep
    <2>2. CASE Drop(w)
      BY <1>6, <2>2, DropLateStep, DropStep
    <2>3. CASE Collect(w)
      BY <1>6, <2>3, CollectNothingStep, CollectStep
    <2>4. CASE Boot(w) \/ Join(w) \/ Pop(w) \/ Exec(w)
      BY <1>6, <2>4, BootStep, JoinStep, PopStep, ExecStep
    <2> QED BY <1>6, <2>1, <2>2, <2>3, <2>4 DEF WorkerStep
  <1>7. ASSUME NEW c \in Callers, phase # "aborted", CallerStep(c)
        PROVE  IInv'
    <2>1. ASSUME NEW size \in 0..MaxSize, Resize(c, size)
          PROVE  IInv'
      BY <1>7, <2>1, ResizeNothingStep, ResizeStep
    <2>2. CASE ForceDismiss(c) \/ ForceLock(c) \/ ForcePush(c) \/ Push(c) \/ Clear(c)
      BY <1>7, <2>2, ForceDismissStep, ForceLockStep, ForcePushStep, PushStep, ClearStep
    <2>3. CASE StopLock(c) \/ Close(c) \/ StopStore(c) \/ ClosePush(c) \/ DrainLock(c)
      BY <1>7, <2>3, StopLockStep, CloseStep, StopStoreStep, ClosePushStep, DrainLockStep
    <2>4. CASE Drained(c) \/ Destroy(c) \/ JoinDropped(c) \/ JoinList(c)
      BY <1>7, <2>4, DrainedStep, DestroyStep, JoinDroppedStep, JoinListStep
    <2> QED BY <1>7, <2>1, <2>2, <2>3, <2>4 DEF CallerStep
  <1> QED BY <1>1, <1>2, <1>3, <1>4, <1>5, <1>6, <1>7 DEF Next, Continue

LEMMA AlwaysIInv == Spec => []IInv
  <1>1. Init => IInv
    BY InitIInv
  <1>2. IInv /\ [Next]_vars => IInv'
    BY NextIInv
  <1> QED BY <1>1, <1>2, PTL DEF Spec

\* The variables of the pool keep their types, and whoever is about to create a thread
\* finds an identity for it.
THEOREM TypeCorrect == Spec => []TypeOK
  <1>1. IInv => TypeOK
    BY DEF IInv
  <1> QED BY <1>1, AlwaysIInv, PTL

\* While the pool is open, the running half of its count is exactly the number of
\* workers there are and are about to be, with any interleaving of launches, failed
\* launches, dismissals and resizes: nobody is counted twice or forgotten.
THEOREM RunningIsExact == Spec => []RunningExact
  <1>1. IInv => RunningExact
    BY DEF IInv
  <1> QED BY <1>1, AlwaysIInv, PTL

\* The PCOMN_VERIFY of check_dismiss_itself() never fails: a negative difference never
\* takes the number of threads below zero, whoever stops or resizes the pool meanwhile.
THEOREM VerifyNeverFails == Spec => []VerifyExpected
  <1>1. IInv => VerifyExpected
    BY Parts, StoppedCount DEF CountOK, VerifyExpected
  <1> QED BY <1>1, AlwaysIInv, PTL

\* Each thread started and not yet joined has its handle in exactly one place, and no
\* other thread has one: every thread is joined once.
THEOREM HandleInOnePlace == Spec => []OneHandle
  <1>1. ASSUME IInv
        PROVE  OneHandle
    <2> SUFFICES ASSUME NEW w \in Workers
                 PROVE  Cardinality({t \in Threads : w \in joins[t]})
                          + Cardinality({s \in {1} : w \in list})
                          + Cardinality({s \in {1} : w \in dropped})
                        = IF pc[w] = "none" THEN 0 ELSE 1
      BY DEF OneHandle
    <2> DEFINE holders == {t \in Threads : w \in joins[t]}
               inList == {s \in {1} : w \in list}
               inDropped == {s \in {1} : w \in dropped}
    <2>1. /\ pc[w] # "none" <=> Handled(w)
          /\ w \in dropped => w \notin list
          /\ \A t \in Threads : /\ joins[t] \cap (list \cup dropped) = {}
                                /\ \A u \in Threads \ {t} : joins[t] \cap joins[u] = {}
      BY <1>1, Parts DEF HandlesOK
    <2>2. Cardinality(inList) = IF w \in list THEN 1 ELSE 0
      <3>1. CASE w \in list
        <4>1. inList = {1}
          BY <3>1
        <4> QED BY <3>1, <4>1, FS_Singleton
      <3>2. CASE w \notin list
        <4>1. inList = {}
          BY <3>2
        <4> QED BY <3>2, <4>1, FS_EmptySet
      <3> QED BY <3>1, <3>2
    <2>3. Cardinality(inDropped) = IF w \in dropped THEN 1 ELSE 0
      <3>1. CASE w \in dropped
        <4>1. inDropped = {1}
          BY <3>1
        <4> QED BY <3>1, <4>1, FS_Singleton
      <3>2. CASE w \notin dropped
        <4>1. inDropped = {}
          BY <3>2
        <4> QED BY <3>2, <4>1, FS_EmptySet
      <3> QED BY <3>1, <3>2
    <2>4. Cardinality(holders) = IF \E t \in Threads : w \in joins[t] THEN 1 ELSE 0
      <3>1. CASE \E t \in Threads : w \in joins[t]
        <4>1. PICK t \in Threads : w \in joins[t]
          BY <3>1
        <4>2. holders = {t}
          BY <2>1, <4>1
        <4>3. Cardinality({t}) = 1
          BY FS_Singleton
        <4> QED BY <3>1, <4>2, <4>3, Zenon
      <3>2. CASE ~ \E t \in Threads : w \in joins[t]
        <4>1. holders = {}
          BY <3>2
        <4> QED BY <3>2, <4>1, FS_EmptySet
      <3> QED BY <3>1, <3>2
    <2> HIDE DEF holders, inList, inDropped
    <2>5. Cardinality(holders) + Cardinality(inList) + Cardinality(inDropped)
            = IF pc[w] = "none" THEN 0 ELSE 1
      <3>1. CASE w \in list
        BY <2>1, <2>2, <2>3, <2>4, <3>1 DEF Handled
      <3>2. CASE w \in dropped
        BY <2>1, <2>2, <2>3, <2>4, <3>2 DEF Handled
      <3>3. CASE w \notin list /\ w \notin dropped
        BY <2>1, <2>2, <2>3, <2>4, <3>3 DEF Handled
      <3> QED BY <3>1, <3>2, <3>3
    <2> QED BY <2>5 DEF holders, inList, inDropped
  <1> QED BY <1>1, AlwaysIInv, PTL

\* The destructor walks its lists without the mutex: once _destroying is set, no step
\* of any other thread puts a handle into them or takes one out.
THEOREM DestructorListsFrozen == Spec => ListsFrozen
  <1> DEFINE frozen == phase = "destroying" =>
                           list' \in {list, {}} /\ dropped' \in {dropped, {}}
  <1>1. ASSUME IInv, Next, phase = "destroying"
        PROVE  list' \in {list, {}} /\ dropped' \in {dropped, {}}
    <2>1. count.running < 0
      BY <1>1, Parts, StoppedCount DEF StoppedOK
    <2>2. ASSUME NEW c \in Callers, NEW f \in Calls, StartCall(c, f)
          PROVE  UNCHANGED <<list, dropped>>
      BY <2>2 DEF StartCall, poolvars
    <2>3. ASSUME NEW c \in Callers, StartDestroy(c)
          PROVE  UNCHANGED <<list, dropped>>
      BY <2>3 DEF StartDestroy, poolvars
    <2>4. ASSUME NEW t \in Threads, CreateThrows(t) \/ LaunchStep(t)
          PROVE  UNCHANGED <<list, dropped>>
      <3>1. ~Create(t)
        BY <1>1, <2>1, Parts DEF Create
      <3> QED BY <2>4, <3>1 DEF CreateThrows, LaunchStep, LaunchNothing, LaunchCas,
                                CreateStopped
    <2>5. ASSUME NEW w \in Workers, WorkerStep(w)
          PROVE  UNCHANGED <<list, dropped>>
      BY <1>1, <2>5 DEF WorkerStep, Boot, Serve, Drop, Collect, Join, Pop, Exec, poolvars
    <2>6. ASSUME NEW c \in Callers, CallerStep(c)
          PROVE  list' \in {list, {}} /\ dropped' \in {dropped, {}}
      <3>1. ASSUME NEW size \in 0..MaxSize, Resize(c, size)
            PROVE  UNCHANGED <<list, dropped>>
        BY <3>1 DEF Resize, poolvars
      <3>2. CASE ForceDismiss(c) \/ ForceLock(c) \/ ForcePush(c) \/ Push(c) \/ Clear(c)
        BY <3>2 DEF ForceDismiss, ForceLock, ForcePush, Push, Clear, poolvars
      <3>3. CASE StopLock(c) \/ Close(c) \/ StopStore(c) \/ ClosePush(c) \/ DrainLock(c)
        BY <3>3 DEF StopLock, Close, StopStore, ClosePush, DrainLock, poolvars
      <3>4. CASE Drained(c) \/ Destroy(c) \/ JoinDropped(c) \/ JoinList(c)
        BY <3>4 DEF Drained, Destroy, JoinDropped, JoinList, poolvars
      <3> QED BY <2>6, <3>1, <3>2, <3>3, <3>4 DEF CallerStep
    <2> QED BY <1>1, <2>2, <2>3, <2>4, <2>5, <2>6 DEF Next, Continue
  <1>2. IInv /\ [Next]_vars => [frozen]_vars
    BY <1>1
  <1> QED BY <1>2, AlwaysIInv, PTL DEF Spec, ListsFrozen
==============================================================================
