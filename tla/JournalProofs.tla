----------------------------- MODULE JournalProofs -----------------------------
(***************************************************************************)
(* Proofs about Journal for any number of operations and of segments.      *)
(*                                                                         *)
(* What a restore delivers is one long concatenation.  Few facts about it  *)
(* are needed: segments that deliver nothing do not count, and what comes  *)
(* after the last one that does may be created, given a header, replaced   *)
(* or removed without a trace; a record appended to the last one comes     *)
(* last.  The rest of the argument says that the storage keeps to that:    *)
(* what it writes to is on the chain of the checkpoint, and nothing after  *)
(* it delivers anything.                                                   *)
(***************************************************************************)
EXTENDS Journal, Integers, FiniteSetTheorems, SequenceTheorems, WellFoundedInduction, TLAPS

\* A storage is not closed while a checkpoint other than the first is left open.
NoCloseLeftOpen == ~CloseLeftOpen

-----------------------------------------------------------------------------
(* The inductive invariant *)

NewSegment == {"new_segment", "init_segment", "use_segment"}
Writing == {"init_checkpoint", "save_checkpoint", "commit"}

\* Where the process may be in which state of the storage and the Journallable.
PhaseOK ==
    /\ pc \in {"idle", "apply"} <=> call = "none"
    /\ pc = "apply" => state = "active" /\ applied \in Ops
    /\ storage \in {"none", "created", "readable", "closed"} => seg = None
    /\ storage \in {"none", "created"} => pc = "idle" /\ state = "initial"
    /\ storage \in {"created", "readable"} => cp # None
    /\ storage = "readable" => /\ state \in {"initial", "restored"}
                               /\ pc # "idle" => pc \in NewSegment /\ state = "restored"
    /\ storage = "closed" => pc = "idle" /\ state = "restored"
    /\ state = "active" => seg # None
    /\ call = "restore" => storage = "readable"
    /\ call = "checkpoint" => state = "active"
    /\ call = "set" => state # "active"
    /\ pc \in {"init_segment", "use_segment"} =>
           /\ Target \in Ids /\ segs[Target] # None
           /\ pc = "use_segment" => segs[Target].ok
    /\ pc \in {"create_checkpoint", "rename", "sync", "clean"} => seg # None
    /\ pc \in Writing => storage = "writable" /\ File # None
    /\ pc = "rename" => taking # None

TInv == TypeOK /\ PhaseOK

\* The segments from n on deliver nothing.
Quiet(i) == segs[i] = None \/ Records(i) = <<>>
QuietFrom(n) == \A i \in Ids : i >= n => Quiet(i)

\* No record is out of reach.
ReachedOK == IF Opens THEN \A i \in Ids : i >= cp.next => i \in Chain \/ Quiet(i)
                      ELSE QuietFrom(0)

Blank == [next |-> 0, gen |-> 0, content |-> <<>>, ok |-> FALSE]

\* Before there has been a segment.
FirstOK ==
    /\ storage = "none" => mem = <<>> /\ lastgen = 0
    /\ storage = "created" => cp = Blank /\ mem = <<>> /\ lastgen = 0
    /\ storage = "writable" /\ seg = None =>
           /\ mem = <<>> /\ lastgen = 0 /\ state = "initial" /\ QuietFrom(0)
           /\ pc \in {"idle"} \cup Writing \cup NewSegment
           /\ pc = "idle" => ~Opens
           /\ pc \in Writing => cp = Blank
           /\ pc \in NewSegment => cp = [Blank EXCEPT !.ok = TRUE]
    /\ seg # None /\ state = "initial" => pc \in {"sync", "clean", "idle"}

\* Between restore_from() and make_writable(): where the next segment goes.
RestoredOK ==
    /\ storage = "readable" => Opens
    /\ storage = "readable" /\ state = "restored" =>
           /\ lastgen = cp.gen + Len(Replayed)
           /\ lastid >= cp.next /\ QuietFrom(lastid)
           /\ cp.next..(lastid - 1) \subseteq Chain

\* The segment in use.
SegmentOK ==
    seg # None => /\ Opens /\ seg \in Chain /\ QuietFrom(seg + 1)
                  /\ \A k \in DOMAIN segs[seg].recs : segs[seg].recs[k] # Torn
                  /\ lastgen = cp.gen + Len(Replayed)

\* The files being written.
FilesOK ==
    /\ pc \in {"init_segment", "use_segment"} =>
           segs[Target].recs = <<>> /\ segs[Target].gen = lastgen
    /\ pc \in {"create_checkpoint", "rename"} \/ (pc \in Writing /\ seg # None) =>
           segs[seg].recs = <<>> /\ segs[seg].gen = lastgen
    /\ pc = "rename" \/ (pc \in Writing /\ seg # None) =>
           taking = [next |-> seg, gen |-> lastgen, ok |-> pc = "rename",
                     content |-> IF pc \in {"commit", "rename"} THEN mem ELSE <<>>]
    /\ pc \in {"sync", "clean"} => cp.next = seg /\ Recovered = mem

\* What the Journallable holds and the program knows.
MemoryOK ==
    /\ state = "active" => /\ acked = mem
                           /\ Recovered = IF pc = "apply" THEN Append(mem, applied)
                                                          ELSE mem
    /\ state = "restored" => IsPrefix(Recovered, mem)
    /\ call = "restore" => mem = Recovered /\ acked = mem
    /\ IsPrefix(acked, Recovered)

IInv == /\ TInv /\ ReachedOK /\ FirstOK /\ RestoredOK /\ SegmentOK /\ FilesOK
        /\ MemoryOK

-----------------------------------------------------------------------------
(* Least numbers, and the concatenation of a list of sequences *)

LEMMA Least ==
  ASSUME NEW S \in SUBSET Nat, S # {}
  PROVE  \E m \in S : \A i \in S : m <= i
  <1> DEFINE R == OpToRel(<, Nat)
  <1>1. PICK m \in S : \A i \in S : ~(<<i, m>> \in R)
    <2> HIDE DEF R
    <2>1. IsWellFoundedOn(R, Nat)
      BY NatLessThanWellFounded DEF R
    <2> QED BY <2>1, WFMin
  <1>2. \A i \in S : ~(i < m)
    BY <1>1 DEF OpToRel
  <1>3. \A i \in S : m <= i
    BY <1>2
  <1> QED BY <1>3

\* f[i] is the concatenation of the first i members of s.
Flattens(f, s, n) == f = [i \in 1..n |-> IF i = 1 THEN s[i] ELSE f[i - 1] \o s[i]]

LEMMA FlattensExists ==
  ASSUME NEW s, NEW n \in Nat
  PROVE  \E f : Flattens(f, s, n)
  <1> DEFINE Bad == {m \in Nat : ~\E f : Flattens(f, s, m)}
  <1>1. SUFFICES ASSUME Bad # {} PROVE FALSE
    OBVIOUS
  <1>2. PICK m \in Bad : \A i \in Bad : m <= i
    <2>1. Bad \in SUBSET Nat
      OBVIOUS
    <2> HIDE DEF Bad
    <2> QED BY <1>1, <2>1, Least
  <1>3. m \in Nat /\ ~\E f : Flattens(f, s, m)
    OBVIOUS
  <1>4. CASE m = 0
    <2>1. Flattens(<<>>, s, 0)
      BY DEF Flattens
    <2> QED BY <1>3, <1>4, <2>1
  <1>5. CASE m # 0
    <2>1. m - 1 \in Nat /\ m - 1 \notin Bad
      BY <1>2, <1>3, <1>5
    <2>2. PICK f : Flattens(f, s, m - 1)
      BY <2>1
    <2> DEFINE g == [i \in 1..m |-> IF i = 1 THEN s[i] ELSE f[i - 1] \o s[i]]
    <2>3. \A i \in 1..(m - 1) : f[i] = g[i]
      <3>1. \A i \in 1..(m - 1) : f[i] = IF i = 1 THEN s[i] ELSE f[i - 1] \o s[i]
        BY <2>1, <2>2 DEF Flattens
      <3>2. \A i \in 1..(m - 1) : i \in 1..m
        BY <1>3
      <3> QED BY <3>1, <3>2
    <2>4. \A i \in 1..m : i # 1 => i - 1 \in 1..(m - 1)
      BY <1>3
    <2>5. g = [i \in 1..m |-> IF i = 1 THEN s[i] ELSE g[i - 1] \o s[i]]
      BY <2>3, <2>4, Zenon
    <2>6. Flattens(g, s, m)
      BY <2>5, Zenon DEF Flattens
    <2> QED BY <1>3, <2>6
  <1> QED BY <1>4, <1>5

LEMMA FlattensUnique ==
  ASSUME NEW n \in Nat, NEW m \in Nat, n <= m, NEW s, NEW t, NEW f, NEW g,
         Flattens(f, s, n), Flattens(g, t, m), \A i \in 1..n : s[i] = t[i]
  PROVE  \A i \in 1..n : f[i] = g[i]
  <1> DEFINE Bad == {i \in 1..n : f[i] # g[i]}
  <1>1. SUFFICES ASSUME Bad # {} PROVE FALSE
    OBVIOUS
  <1>2. PICK i \in Bad : \A j \in Bad : i <= j
    <2>1. Bad \in SUBSET Nat
      OBVIOUS
    <2> HIDE DEF Bad
    <2> QED BY <1>1, <2>1, Least
  <1>3. i \in 1..n /\ i \in 1..m /\ s[i] = t[i] /\ f[i] # g[i]
    OBVIOUS
  <1>4. /\ f[i] = IF i = 1 THEN s[i] ELSE f[i - 1] \o s[i]
        /\ g[i] = IF i = 1 THEN t[i] ELSE g[i - 1] \o t[i]
    BY <1>3 DEF Flattens
  <1>5. CASE i = 1
    BY <1>3, <1>4, <1>5
  <1>6. CASE i # 1
    <2>1. i - 1 \in 1..n /\ i - 1 \notin Bad
      BY <1>2, <1>3, <1>6
    <2>2. f[i - 1] = g[i - 1]
      BY <2>1
    <2> QED BY <1>3, <1>4, <1>6, <2>2, Zenon
  <1> QED BY <1>5, <1>6

LEMMA FlattenDef ==
  ASSUME NEW s, NEW n \in Nat \ {0}, Len(s) = n
  PROVE  \E f : Flattens(f, s, n) /\ FlattenSeq(s) = f[n]
  <1>1. FlattenSeq(s) = (CHOOSE f : Flattens(f, s, n))[n]
    BY DEF FlattenSeq, Flattens
  <1>2. Flattens(CHOOSE f : Flattens(f, s, n), s, n)
    BY FlattensExists
  <1> QED BY <1>1, <1>2

\* The last member comes last.
LEMMA FlattenStep ==
  ASSUME NEW T, NEW n \in Nat, NEW s \in [1..(n + 1) -> Seq(T)],
         NEW t \in [1..n -> Seq(T)], \A i \in 1..n : t[i] = s[i]
  PROVE  FlattenSeq(s) = FlattenSeq(t) \o s[n + 1]
  <1>1. s \in Seq(Seq(T)) /\ Len(s) = n + 1 /\ t \in Seq(Seq(T)) /\ Len(t) = n
    OBVIOUS
  <1>2. PICK f : Flattens(f, s, n + 1) /\ FlattenSeq(s) = f[n + 1]
    BY <1>1, FlattenDef
  <1>3. f[n + 1] = IF n + 1 = 1 THEN s[n + 1] ELSE f[n] \o s[n + 1]
    <2>1. n + 1 \in 1..(n + 1) /\ (n + 1) - 1 = n
      OBVIOUS
    <2>2. f[n + 1] = IF n + 1 = 1 THEN s[n + 1] ELSE f[(n + 1) - 1] \o s[n + 1]
      BY <1>2, <2>1, Zenon DEF Flattens
    <2> QED BY <2>1, <2>2, Zenon
  <1>4. s[n + 1] \in Seq(T)
    OBVIOUS
  <1>5. CASE n = 0
    <2>1. FlattenSeq(t) = <<>>
      BY <1>1, <1>5 DEF FlattenSeq
    <2>2. FlattenSeq(s) = s[n + 1]
      BY <1>2, <1>3, <1>5
    <2> QED BY <1>4, <2>1, <2>2, ConcatEmptySeq
  <1>6. CASE n # 0
    <2>1. PICK g : Flattens(g, t, n) /\ FlattenSeq(t) = g[n]
      BY <1>1, <1>6, FlattenDef
    <2>2. \A i \in 1..n : g[i] = f[i]
      <3>1. n <= n + 1 /\ n + 1 \in Nat
        OBVIOUS
      <3>2. Flattens(f, s, n + 1)
        BY <1>2
      <3>3. Flattens(g, t, n)
        BY <2>1
      <3>4. n \in Nat /\ \A i \in 1..n : t[i] = s[i]
        OBVIOUS
      <3> HIDE DEF Flattens
      <3> DEFINE m == n + 1
      <3>5. Flattens(f, s, m) /\ n <= m /\ m \in Nat
        BY <3>1, <3>2
      <3> HIDE DEF m
      <3> QED BY <3>3, <3>4, <3>5, FlattensUnique
    <2>3. g[n] = f[n]
      BY <1>6, <2>2
    <2>4. f[n + 1] = f[n] \o s[n + 1]
      <3>1. n + 1 # 1
        BY <1>6
      <3> QED BY <1>3, <3>1, Zenon
    <2> QED BY <1>2, <2>1, <2>3, <2>4, Zenon
  <1> QED BY <1>5, <1>6

-----------------------------------------------------------------------------
(* What files deliver: the operators of Journal, of any files c and s *)

Files(c, s) == /\ c \in Checkpoints /\ DOMAIN s = Ids
               /\ \A i \in Ids : s[i] \in Segments \cup {None}

NoTorn(f) == \A k \in DOMAIN f.recs : f.recs[k] # Torn

RecordsOf(f) == LET recs == f.recs
                    torn == {k \in DOMAIN recs : recs[k] = Torn}
                IN IF torn = {} THEN recs ELSE SubSeq(recs, 1, Min(torn) - 1)

ChainOf(c, s) ==
    {i \in Ids :
        /\ i >= c.next
        /\ \A j \in c.next..i :
               /\ s[j] # None /\ s[j].ok
               /\ (\A k \in c.next..(j - 1) : s[k].recs = <<>>) => s[j].gen = c.gen}

\* What the first n segments after c deliver.
Delivered(c, s, n) == FlattenSeq([k \in 1..n |-> RecordsOf(s[c.next + k - 1])])
ReplayedOf(c, s) == Delivered(c, s, Cardinality(ChainOf(c, s)))

QuietIn(s, i) == s[i] = None \/ RecordsOf(s[i]) = <<>>

LEMMA OfFiles ==
  /\ \A i : Records(i) = RecordsOf(segs[i])
  /\ Chain = ChainOf(cp, segs)
  /\ Replayed = ReplayedOf(cp, segs)
  /\ \A i : Quiet(i) <=> QuietIn(segs, i)
  <1>1. \A i : Records(i) = RecordsOf(segs[i])
    BY DEF Records, RecordsOf
  <1>2. Chain = ChainOf(cp, segs)
    BY DEF Chain, ChainOf
  <1> QED BY <1>1, <1>2 DEF Replayed, ReplayedOf, Delivered, Quiet, QuietIn

LEMMA RecordsType ==
  ASSUME NEW f \in Segments
  PROVE  /\ RecordsOf(f) \in Seq(Ops)
         /\ NoTorn(f) => RecordsOf(f) = f.recs
         /\ f.recs = <<>> => RecordsOf(f) = <<>>
  <1> DEFINE recs == f.recs
             torn == {k \in DOMAIN recs : recs[k] = Torn}
  <1>1. recs \in Seq(Ops \cup {Torn}) /\ DOMAIN recs = 1..Len(recs) /\ Len(recs) \in Nat
    BY DEF Segments
  <1>2. RecordsOf(f) = IF torn = {} THEN recs ELSE SubSeq(recs, 1, Min(torn) - 1)
    BY DEF RecordsOf
  <1>3. CASE torn = {}
    <2>1. \A k \in 1..Len(recs) : recs[k] \in Ops
      BY <1>1, <1>3
    <2>2. recs \in Seq(Ops)
      BY <1>1, <2>1
    <2> QED BY <1>2, <1>3, <2>2 DEF NoTorn
  <1>4. CASE torn # {}
    <2>1. torn \in SUBSET Nat
      BY <1>1
    <2>2. PICK m \in torn : \A k \in torn : m <= k
      <3> HIDE DEF torn
      <3> QED BY <1>4, <2>1, Least
    <2>3. Min(torn) \in torn /\ \A k \in torn : Min(torn) <= k
      <3> HIDE DEF torn
      <3> QED BY <2>2 DEF Min
    <2>4. Min(torn) \in 1..Len(recs)
      BY <1>1, <2>3
    <2>5. \A k \in 1..(Min(torn) - 1) : recs[k] \in Ops
      <3> SUFFICES ASSUME NEW k \in 1..(Min(torn) - 1) PROVE recs[k] \in Ops
        OBVIOUS
      <3>1. k \in 1..Len(recs) /\ ~(Min(torn) <= k)
        BY <1>1, <2>4
      <3>2. k \notin torn
        BY <2>3, <3>1
      <3> QED BY <1>1, <3>1, <3>2
    <2>6. SubSeq(recs, 1, Min(torn) - 1) \in Seq(Ops)
      BY <2>4, <2>5, SubSeqProperties
    <2>7. ~NoTorn(f) /\ recs # <<>>
      BY <1>1, <1>4 DEF NoTorn
    <2> QED BY <1>2, <1>4, <2>6, <2>7
  <1> QED BY <1>3, <1>4

\* A torn record and what would follow it are not read.
LEMMA RecordsTorn ==
  ASSUME NEW f \in Segments, NEW g \in Segments, NoTorn(f),
         g.recs = Append(f.recs, Torn)
  PROVE  RecordsOf(g) = f.recs
  <1> DEFINE recs == g.recs
             torn == {k \in DOMAIN recs : recs[k] = Torn}
             n == Len(f.recs)
  <1>1. f.recs \in Seq(Ops \cup {Torn}) /\ n \in Nat /\ DOMAIN f.recs = 1..n
    BY DEF Segments
  <1>2. /\ DOMAIN recs = 1..(n + 1) /\ recs[n + 1] = Torn
        /\ \A k \in 1..n : recs[k] = f.recs[k]
    BY <1>1, AppendProperties
  <1>3. torn = {n + 1}
    <2>1. \A k \in 1..n : recs[k] # Torn
      BY <1>1, <1>2 DEF NoTorn
    <2>2. n + 1 \in 1..(n + 1) /\ \A k \in 1..(n + 1) : k # n + 1 => k \in 1..n
      BY <1>1
    <2> QED BY <1>2, <2>1, <2>2
  <1>4. Min(torn) = n + 1
    <2>1. \A y \in {n + 1} : n + 1 <= y
      BY <1>1
    <2> QED BY <1>3, <2>1 DEF Min
  <1>5. RecordsOf(g) = SubSeq(recs, 1, Min(torn) - 1)
    BY <1>3 DEF RecordsOf
  <1>6. SubSeq(recs, 1, n) = f.recs
    BY <1>1
  <1>7. (n + 1) - 1 = n
    BY <1>1
  <1> QED BY <1>4, <1>5, <1>6, <1>7, Zenon

\* A chain has no gaps.
LEMMA ChainDown ==
  ASSUME NEW c, NEW s, Files(c, s), NEW i \in ChainOf(c, s), NEW j \in c.next..i
  PROVE  j \in ChainOf(c, s)
  <1>1. c.next \in Nat /\ i \in Ids /\ MaxSegment \in Nat
    BY BoundsAssumption DEF Files, Checkpoints, ChainOf, Ids
  <1>2. j \in Ids /\ j >= c.next
    BY <1>1 DEF Ids
  <1>3. \A k \in c.next..j : k \in c.next..i
    BY <1>1, <1>2 DEF Ids
  <1> QED BY <1>2, <1>3 DEF ChainOf

LEMMA ChainBelow ==
  ASSUME NEW c, NEW s, Files(c, s), NEW T \in Nat
  PROVE  \E n \in Nat : {i \in ChainOf(c, s) : i < T} = c.next..(c.next + n - 1)
  <1> DEFINE B == {i \in ChainOf(c, s) : i < T}
             Out == {i \in Nat : i >= c.next /\ i \notin B}
  <1>1. c.next \in Nat /\ MaxSegment \in Nat /\ B \subseteq Nat
    BY BoundsAssumption DEF Files, Checkpoints, ChainOf, Ids
  <1>2. PICK m \in Out : \A i \in Out : m <= i
    <2>1. c.next + T \in Out
      BY <1>1
    <2> HIDE DEF B
    <2>2. Out \in SUBSET Nat
      OBVIOUS
    <2> HIDE DEF Out
    <2> QED BY <2>1, <2>2, Least
  <1>3. m \in Nat /\ m >= c.next /\ m \notin B
    OBVIOUS
  <1>4. ASSUME NEW i \in B PROVE i \in c.next..(m - 1)
    <2>1. i \in ChainOf(c, s) /\ i < T /\ i \in Nat /\ i >= c.next
      BY <1>1 DEF ChainOf
    <2>2. SUFFICES ASSUME i >= m PROVE FALSE
      BY <1>1, <1>3, <2>1
    <2>3. m \in c.next..i /\ m < T
      BY <1>1, <1>3, <2>1, <2>2
    <2>4. m \in ChainOf(c, s)
      BY <2>1, <2>3, ChainDown
    <2> QED BY <1>3, <2>3, <2>4
  <1>5. ASSUME NEW i \in c.next..(m - 1) PROVE i \in B
    <2>1. i \in Nat /\ i >= c.next /\ ~(m <= i)
      BY <1>1, <1>3
    <2> QED BY <1>2, <2>1
  <1>6. B = c.next..(m - 1)
    <2> HIDE DEF B
    <2> QED BY <1>4, <1>5
  <1> DEFINE n == m - c.next
  <1>7. n \in Nat /\ c.next + n - 1 = m - 1
    BY <1>1, <1>3
  <1> HIDE DEF B, n
  <1>8. B = c.next..(c.next + n - 1)
    BY <1>6, <1>7
  <1> QED BY <1>7, <1>8 DEF B

\* Whether a segment is on the chain depends on those before it.
LEMMA SameChainBelow ==
  ASSUME NEW c, NEW s, NEW t, NEW T \in Nat, Files(c, s),
         \A i \in Ids : i < T => s[i] = t[i]
  PROVE  {i \in ChainOf(c, s) : i < T} = {i \in ChainOf(c, t) : i < T}
  <1>1. c.next \in Nat /\ MaxSegment \in Nat
    BY BoundsAssumption DEF Files, Checkpoints, Ids
  <1>2. ASSUME NEW i \in Ids, i >= c.next, i < T
        PROVE  i \in ChainOf(c, s) <=> i \in ChainOf(c, t)
    <2>1. \A j \in c.next..i : s[j] = t[j]
      BY <1>1, <1>2 DEF Ids
    <2>2. \A j \in c.next..i : \A k \in c.next..(j - 1) : s[k] = t[k]
      <3>1. \A j \in c.next..i : \A k \in c.next..(j - 1) : k \in c.next..i
        BY <1>1, <1>2 DEF Ids
      <3> QED BY <2>1, <3>1
    <2>3. i \in ChainOf(c, s) <=>
            \A j \in c.next..i :
               /\ s[j] # None /\ s[j].ok
               /\ (\A k \in c.next..(j - 1) : s[k].recs = <<>>) => s[j].gen = c.gen
      BY <1>2 DEF ChainOf
    <2>4. i \in ChainOf(c, t) <=>
            \A j \in c.next..i :
               /\ t[j] # None /\ t[j].ok
               /\ (\A k \in c.next..(j - 1) : t[k].recs = <<>>) => t[j].gen = c.gen
      BY <1>2 DEF ChainOf
    <2> QED BY <2>1, <2>2, <2>3, <2>4, Zenon
  <1>3. \A i : i \in ChainOf(c, s) \/ i \in ChainOf(c, t) => i \in Ids /\ i >= c.next
    BY DEF ChainOf
  <1> QED BY <1>2, <1>3

-----------------------------------------------------------------------------
(* What segments deliver *)

\* The first n segments after c are there.
There(c, s, n) == \A k \in 1..n : s[c.next + k - 1] \in Segments

LEMMA DeliveredNone ==
  ASSUME NEW c, NEW s
  PROVE  Delivered(c, s, 0) = <<>>
  <1>1. [k \in 1..0 |-> RecordsOf(s[c.next + k - 1])] = <<>>
    OBVIOUS
  <1> QED BY <1>1 DEF Delivered, FlattenSeq

LEMMA DeliveredStep ==
  ASSUME NEW c, NEW s, c.next \in Nat, NEW n \in Nat, There(c, s, n + 1)
  PROVE  Delivered(c, s, n + 1) = Delivered(c, s, n) \o RecordsOf(s[c.next + n])
  <1> DEFINE F(m) == [k \in 1..m |-> RecordsOf(s[c.next + k - 1])]
  <1>1. \A k \in 1..(n + 1) : RecordsOf(s[c.next + k - 1]) \in Seq(Ops)
    BY RecordsType DEF There
  <1>2. F(n + 1) \in [1..(n + 1) -> Seq(Ops)]
    BY <1>1
  <1>3. \A k \in 1..n : k \in 1..(n + 1)
    OBVIOUS
  <1>4. F(n) \in [1..n -> Seq(Ops)]
    BY <1>1, <1>3
  <1>5. \A k \in 1..n : F(n)[k] = F(n + 1)[k]
    BY <1>3
  <1>6. F(n + 1)[n + 1] = RecordsOf(s[c.next + n])
    <2>1. n + 1 \in 1..(n + 1) /\ c.next + (n + 1) - 1 = c.next + n
      OBVIOUS
    <2>2. F(n + 1)[n + 1] = RecordsOf(s[c.next + (n + 1) - 1])
      BY <2>1
    <2> QED BY <2>1, <2>2, Zenon
  <1> DEFINE a == F(n + 1)
             b == F(n)
  <1>7. Delivered(c, s, n + 1) = FlattenSeq(a) /\ Delivered(c, s, n) = FlattenSeq(b)
    BY DEF Delivered
  <1>8. /\ a \in [1..(n + 1) -> Seq(Ops)] /\ b \in [1..n -> Seq(Ops)]
        /\ \A k \in 1..n : b[k] = a[k]
        /\ a[n + 1] = RecordsOf(s[c.next + n])
    BY <1>2, <1>4, <1>5, <1>6
  <1> HIDE DEF F, a, b
  <1>9. FlattenSeq(a) = FlattenSeq(b) \o a[n + 1]
    BY <1>8, FlattenStep
  <1> QED BY <1>7, <1>8, <1>9, Zenon

LEMMA DeliveredType ==
  ASSUME NEW c, NEW s, c.next \in Nat, NEW n \in Nat, There(c, s, n)
  PROVE  Delivered(c, s, n) \in Seq(Ops)
  <1> DEFINE Bad == {m \in Nat : m <= n /\ Delivered(c, s, m) \notin Seq(Ops)}
  <1>1. SUFFICES ASSUME Bad # {} PROVE FALSE
    OBVIOUS
  <1>2. PICK m \in Bad : \A i \in Bad : m <= i
    <2>1. Bad \in SUBSET Nat
      OBVIOUS
    <2> HIDE DEF Bad
    <2> QED BY <1>1, <2>1, Least
  <1>3. m \in Nat /\ m <= n /\ Delivered(c, s, m) \notin Seq(Ops)
    OBVIOUS
  <1>4. CASE m = 0
    <2>1. Delivered(c, s, m) = <<>>
      BY <1>4, DeliveredNone
    <2>2. <<>> \in Seq(Ops)
      OBVIOUS
    <2> QED BY <1>3, <2>1, <2>2
  <1>5. CASE m # 0
    <2> DEFINE l == m - 1
    <2>1. l \in Nat /\ l <= n /\ l + 1 = m /\ l \notin Bad
      BY <1>2, <1>3, <1>5
    <2>2. Delivered(c, s, l) \in Seq(Ops)
      BY <2>1
    <2>3. There(c, s, l + 1)
      BY <1>3, <2>1 DEF There
    <2> HIDE DEF l, Bad
    <2>4. Delivered(c, s, m) = Delivered(c, s, l) \o RecordsOf(s[c.next + l])
      BY <2>1, <2>3, DeliveredStep
    <2>5. l + 1 \in 1..(l + 1) /\ c.next + (l + 1) - 1 = c.next + l
      BY <2>1
    <2>6. s[c.next + (l + 1) - 1] \in Segments
      BY <2>3, <2>5, Zenon DEF There
    <2>7. RecordsOf(s[c.next + l]) \in Seq(Ops)
      BY <2>5, <2>6, RecordsType
    <2>8. Delivered(c, s, l) \o RecordsOf(s[c.next + l]) \in Seq(Ops)
      BY <2>2, <2>7, ConcatProperties
    <2> QED BY <1>3, <2>4, <2>8
  <1> QED BY <1>4, <1>5

\* Segments that deliver nothing do not count.
LEMMA DeliveredQuiet ==
  ASSUME NEW c, NEW s, c.next \in Nat, NEW m \in Nat, NEW n \in Nat, m <= n,
         There(c, s, n), \A k \in m..(n - 1) : RecordsOf(s[c.next + k]) = <<>>
  PROVE  Delivered(c, s, n) = Delivered(c, s, m)
  <1> DEFINE D == Delivered(c, s, m)
             Bad == {i \in Nat : m <= i /\ i <= n /\ Delivered(c, s, i) # D}
  <1>1. SUFFICES ASSUME Bad # {} PROVE FALSE
    <2> HIDE DEF D
    <2> QED BY DEF D
  <1>2. PICK i \in Bad : \A j \in Bad : i <= j
    <2>1. Bad \in SUBSET Nat
      OBVIOUS
    <2> HIDE DEF Bad
    <2> QED BY <1>1, <2>1, Least
  <1>3. i \in Nat /\ m <= i /\ i <= n /\ Delivered(c, s, i) # D
    OBVIOUS
  <1>4. i # m
    BY <1>3
  <1> DEFINE l == i - 1
  <1>5. l \in Nat /\ m <= l /\ l < n /\ l + 1 = i /\ l \notin Bad
    BY <1>2, <1>3, <1>4
  <1>6. Delivered(c, s, l) = D
    BY <1>5
  <1>7. There(c, s, l + 1) /\ There(c, s, l)
    BY <1>5 DEF There
  <1> HIDE DEF l, Bad
  <1>8. Delivered(c, s, i) = Delivered(c, s, l) \o RecordsOf(s[c.next + l])
    BY <1>5, <1>7, DeliveredStep
  <1>9. RecordsOf(s[c.next + l]) = <<>>
    <2>1. l \in m..(n - 1)
      BY <1>5
    <2> QED BY <2>1
  <1>10. Delivered(c, s, l) \o <<>> = Delivered(c, s, l)
    BY <1>5, <1>7, DeliveredType, ConcatEmptySeq
  <1> QED BY <1>3, <1>6, <1>8, <1>9, <1>10, Zenon

\* It takes nothing else to know what they deliver.
LEMMA DeliveredSame ==
  ASSUME NEW c, NEW s, NEW t, NEW n,
         \A k \in 1..n : RecordsOf(s[c.next + k - 1]) = RecordsOf(t[c.next + k - 1])
  PROVE  Delivered(c, s, n) = Delivered(c, t, n)
  BY DEF Delivered

LEMMA ChainThere ==
  ASSUME NEW c, NEW s, Files(c, s), NEW n \in Nat,
         c.next..(c.next + n - 1) \subseteq ChainOf(c, s)
  PROVE  There(c, s, n)
  <1>1. c.next \in Nat
    BY DEF Files, Checkpoints, Ids
  <1>2. SUFFICES ASSUME NEW k \in 1..n PROVE s[c.next + k - 1] \in Segments
    BY DEF There
  <1> DEFINE i == c.next + k - 1
  <1>3. i \in c.next..(c.next + n - 1)
    BY <1>1
  <1>4. i \in ChainOf(c, s)
    BY <1>3
  <1>5. i \in c.next..i
    BY <1>1
  <1> HIDE DEF i
  <1>6. i \in Ids /\ s[i] # None
    BY <1>4, <1>5 DEF ChainOf
  <1>7. s[i] \in Segments
    BY <1>6 DEF Files
  <1> QED BY <1>7 DEF i

\* If segments deliver nothing from T on, what is delivered comes from those
\* before T.
LEMMA ReplayedBelow ==
  ASSUME NEW c, NEW s, Files(c, s), NEW T \in Nat, NEW m \in Nat,
         \A i \in Ids : i >= T => QuietIn(s, i),
         {i \in ChainOf(c, s) : i < T} = c.next..(c.next + m - 1)
  PROVE  /\ ReplayedOf(c, s) = Delivered(c, s, m)
         /\ There(c, s, m)
         /\ ReplayedOf(c, s) \in Seq(Ops)
  <1>1. c.next \in Nat /\ MaxSegment \in Nat
    BY BoundsAssumption DEF Files, Checkpoints, Ids
  <1>2. PICK n \in Nat :
          {i \in ChainOf(c, s) : i < MaxSegment + 1} = c.next..(c.next + n - 1)
    BY <1>1, ChainBelow
  <1>3. ChainOf(c, s) = c.next..(c.next + n - 1)
    <2>1. \A i \in ChainOf(c, s) : i < MaxSegment + 1
      BY <1>1 DEF ChainOf, Ids
    <2> QED BY <1>2, <2>1
  <1>4. Cardinality(ChainOf(c, s)) = n
    <2>1. Cardinality(c.next..(c.next + n - 1))
            = IF c.next > c.next + n - 1 THEN 0
              ELSE (c.next + n - 1) - c.next + 1
      BY <1>1, FS_Interval
    <2> QED BY <1>1, <1>3, <2>1
  <1>5. ReplayedOf(c, s) = Delivered(c, s, n)
    BY <1>4 DEF ReplayedOf
  <1>6. There(c, s, n)
    BY <1>3, ChainThere
  <1>7. c.next..(c.next + m - 1) \subseteq c.next..(c.next + n - 1)
    BY <1>3
  <1>8. m <= n
    <2>1. CASE m = 0
      BY <2>1
    <2>2. CASE m # 0
      <3>1. c.next + m - 1 \in c.next..(c.next + m - 1)
        BY <1>1, <2>2
      <3>2. c.next + m - 1 \in c.next..(c.next + n - 1)
        BY <1>7, <3>1
      <3> QED BY <1>1, <3>2
    <2> QED BY <2>1, <2>2
  <1>9. ASSUME NEW k \in m..(n - 1)
        PROVE  RecordsOf(s[c.next + k]) = <<>>
    <2> DEFINE i == c.next + k
    <2>1. i \in c.next..(c.next + n - 1) /\ i \notin c.next..(c.next + m - 1)
      BY <1>1
    <2>2. i \in ChainOf(c, s) /\ ~(i < T) /\ i \in Nat
      <3>1. i \in ChainOf(c, s)
        BY <1>3, <2>1
      <3>2. ~(i < T)
        BY <2>1, <3>1
      <3> QED BY <1>1, <3>1, <3>2
    <2>3. i \in Ids /\ s[i] # None
      <3>1. i \in c.next..i
        BY <1>1
      <3> HIDE DEF i
      <3> QED BY <2>2, <3>1 DEF ChainOf
    <2>4. QuietIn(s, i)
      BY <2>2, <2>3
    <2> QED BY <2>3, <2>4 DEF QuietIn
  <1>10. There(c, s, m)
    BY <1>6, <1>8 DEF There
  <1>11. Delivered(c, s, n) = Delivered(c, s, m)
    BY <1>1, <1>6, <1>8, <1>9, DeliveredQuiet
  <1>12. Delivered(c, s, n) \in Seq(Ops)
    BY <1>1, <1>6, DeliveredType
  <1> QED BY <1>5, <1>10, <1>11, <1>12

-----------------------------------------------------------------------------
(* What the changes of files do to it *)

LEMMA ReplayedType ==
  ASSUME NEW c, NEW s, Files(c, s)
  PROVE  ReplayedOf(c, s) \in Seq(Ops)
  <1> DEFINE T == MaxSegment + 1
  <1>1. T \in Nat /\ \A i \in Ids : ~(i >= T)
    BY BoundsAssumption DEF Ids
  <1> HIDE DEF T
  <1>2. PICK n \in Nat : {i \in ChainOf(c, s) : i < T} = c.next..(c.next + n - 1)
    BY <1>1, ChainBelow
  <1> QED BY <1>1, <1>2, ReplayedBelow

\* What comes after the last record may come and go.
LEMMA SameReplay ==
  ASSUME NEW c, NEW s, NEW t, Files(c, s), Files(c, t), NEW T \in Nat,
         \A i \in Ids : i < T => s[i] = t[i],
         \A i \in Ids : i >= T => QuietIn(s, i) /\ QuietIn(t, i)
  PROVE  ReplayedOf(c, t) = ReplayedOf(c, s)
  <1>1. PICK n \in Nat : {i \in ChainOf(c, s) : i < T} = c.next..(c.next + n - 1)
    BY ChainBelow
  <1>2. {i \in ChainOf(c, t) : i < T} = c.next..(c.next + n - 1)
    BY <1>1, SameChainBelow
  <1>3. ReplayedOf(c, s) = Delivered(c, s, n)
    BY <1>1, ReplayedBelow
  <1>4. ReplayedOf(c, t) = Delivered(c, t, n)
    BY <1>2, ReplayedBelow
  <1>5. \A k \in 1..n : s[c.next + k - 1] = t[c.next + k - 1]
    <2>1. SUFFICES ASSUME NEW k \in 1..n PROVE s[c.next + k - 1] = t[c.next + k - 1]
      OBVIOUS
    <2>2. c.next \in Nat
      BY DEF Files, Checkpoints, Ids
    <2>3. c.next + k - 1 \in c.next..(c.next + n - 1)
      BY <2>2
    <2>4. c.next + k - 1 \in ChainOf(c, s) /\ c.next + k - 1 < T
      BY <1>1, <2>3
    <2>5. c.next + k - 1 \in Ids
      BY <2>4 DEF ChainOf
    <2> QED BY <2>4, <2>5
  <1>6. Delivered(c, s, n) = Delivered(c, t, n)
    BY <1>5, DeliveredSame
  <1> QED BY <1>3, <1>4, <1>6

\* What comes before the checkpoint may go.
LEMMA SameBeyond ==
  ASSUME NEW c, NEW s, NEW t, Files(c, s), Files(c, t),
         \A i \in Ids : i >= c.next => s[i] = t[i]
  PROVE  ChainOf(c, t) = ChainOf(c, s) /\ ReplayedOf(c, t) = ReplayedOf(c, s)
  <1>1. c.next \in Nat /\ MaxSegment \in Nat
    BY BoundsAssumption DEF Files, Checkpoints, Ids
  <1>2. \A i \in Ids : \A j \in c.next..i : s[j] = t[j]
    BY <1>1 DEF Ids
  <1>3. \A i \in Ids : \A j \in c.next..i : \A k \in c.next..(j - 1) : s[k] = t[k]
    <2>1. \A i \in Ids : \A j \in c.next..i : \A k \in c.next..(j - 1) : k \in c.next..i
      BY <1>1 DEF Ids
    <2> QED BY <1>2, <2>1
  <1>4. ChainOf(c, s) = ChainOf(c, t)
    <2>1. ASSUME NEW i \in Ids PROVE i \in ChainOf(c, s) <=> i \in ChainOf(c, t)
      <3> DEFINE P(j) == /\ s[j] # None /\ s[j].ok
                         /\ (\A k \in c.next..(j - 1) : s[k].recs = <<>>)
                               => s[j].gen = c.gen
                 Q(j) == /\ t[j] # None /\ t[j].ok
                         /\ (\A k \in c.next..(j - 1) : t[k].recs = <<>>)
                               => t[j].gen = c.gen
      <3>1. i \in ChainOf(c, s) <=> i >= c.next /\ \A j \in c.next..i : P(j)
        BY <2>1 DEF ChainOf
      <3>2. i \in ChainOf(c, t) <=> i >= c.next /\ \A j \in c.next..i : Q(j)
        BY <2>1 DEF ChainOf
      <3>3. ASSUME NEW j \in c.next..i PROVE P(j) <=> Q(j)
        <4>1. s[j] = t[j] /\ \A k \in c.next..(j - 1) : s[k] = t[k]
          BY <1>2, <1>3, <2>1
        <4>2. (\A k \in c.next..(j - 1) : s[k].recs = <<>>)
                <=> (\A k \in c.next..(j - 1) : t[k].recs = <<>>)
          BY <4>1
        <4> QED BY <4>1, <4>2
      <3> HIDE DEF P, Q
      <3> QED BY <3>1, <3>2, <3>3
    <2>2. ChainOf(c, s) \subseteq Ids /\ ChainOf(c, t) \subseteq Ids
      BY DEF ChainOf
    <2> QED BY <2>1, <2>2, Zenon
  <1> DEFINE T == MaxSegment + 1
  <1>5. T \in Nat /\ \A i \in Ids : i < T /\ ~(i >= T)
    BY <1>1 DEF Ids
  <1> HIDE DEF T
  <1>6. PICK n \in Nat : {i \in ChainOf(c, s) : i < T} = c.next..(c.next + n - 1)
    BY <1>5, ChainBelow
  <1>7. ReplayedOf(c, s) = Delivered(c, s, n)
    BY <1>5, <1>6, ReplayedBelow
  <1>8. ReplayedOf(c, t) = Delivered(c, t, n)
    BY <1>4, <1>5, <1>6, ReplayedBelow
  <1>9. \A k \in 1..n : s[c.next + k - 1] = t[c.next + k - 1]
    <2>1. SUFFICES ASSUME NEW k \in 1..n PROVE s[c.next + k - 1] = t[c.next + k - 1]
      OBVIOUS
    <2>2. c.next + k - 1 \in c.next..(c.next + n - 1) /\ c.next + k - 1 >= c.next
      BY <1>1
    <2>3. c.next + k - 1 \in ChainOf(c, s)
      BY <1>6, <2>2
    <2>4. c.next + k - 1 \in Ids
      BY <2>3 DEF ChainOf
    <2> QED BY <2>2, <2>4
  <1>10. Delivered(c, s, n) = Delivered(c, t, n)
    BY <1>9, DeliveredSame
  <1> QED BY <1>4, <1>7, <1>8, <1>10

\* Nothing is delivered.
LEMMA QuietReplay ==
  ASSUME NEW c, NEW s, Files(c, s), \A i \in Ids : i >= c.next => QuietIn(s, i)
  PROVE  ReplayedOf(c, s) = <<>>
  <1>1. c.next \in Nat /\ 0 \in Nat
    BY DEF Files, Checkpoints, Ids
  <1>2. {i \in ChainOf(c, s) : i < c.next} = {}
    BY <1>1 DEF ChainOf, Ids
  <1>3. c.next..(c.next + 0 - 1) = {}
    BY <1>1
  <1>4. ReplayedOf(c, s) = Delivered(c, s, 0)
    BY <1>1, <1>2, <1>3, ReplayedBelow
  <1> QED BY <1>4, DeliveredNone

\* The last segment that delivers anything is i or one before it; its records
\* come last.
LEMMA LastReplayed ==
  ASSUME NEW c, NEW s, Files(c, s), NEW i \in ChainOf(c, s),
         \A k \in Ids : k >= i + 1 => QuietIn(s, k)
  PROVE  /\ i \in Ids /\ i - c.next \in Nat /\ s[i] \in Segments
         /\ {k \in ChainOf(c, s) : k < i + 1} = c.next..i
         /\ ReplayedOf(c, s) = Delivered(c, s, i - c.next) \o RecordsOf(s[i])
         /\ Delivered(c, s, i - c.next) \in Seq(Ops)
         /\ RecordsOf(s[i]) \in Seq(Ops)
  <1> DEFINE n == i - c.next
  <1>1. i \in Ids /\ i >= c.next /\ c.next \in Ids /\ i \in Nat /\ c.next \in Nat
    BY DEF ChainOf, Files, Checkpoints, Ids
  <1>2. n \in Nat /\ c.next + (n + 1) - 1 = i /\ c.next + n = i /\ n + 1 \in Nat
    BY <1>1
  <1>3. {k \in ChainOf(c, s) : k < i + 1} = c.next..i
    <2>1. \A k \in c.next..i : k \in ChainOf(c, s) /\ k < i + 1
      BY <1>1, ChainDown
    <2>2. \A k \in ChainOf(c, s) : k < i + 1 => k \in c.next..i
      BY <1>1 DEF ChainOf, Ids
    <2> QED BY <2>1, <2>2
  <1>4. i + 1 \in Nat
    BY <1>1
  <1> HIDE DEF n
  <1>5. {k \in ChainOf(c, s) : k < i + 1} = c.next..(c.next + (n + 1) - 1)
    BY <1>2, <1>3
  <1>6. ReplayedOf(c, s) = Delivered(c, s, n + 1) /\ There(c, s, n + 1)
    BY <1>2, <1>4, <1>5, ReplayedBelow
  <1>7. ReplayedOf(c, s) = Delivered(c, s, n) \o RecordsOf(s[i])
    <2>1. Delivered(c, s, n + 1) = Delivered(c, s, n) \o RecordsOf(s[c.next + n])
      BY <1>1, <1>2, <1>6, DeliveredStep
    <2> QED BY <1>2, <1>6, <2>1
  <1>8. There(c, s, n)
    BY <1>2, <1>6 DEF There
  <1>9. Delivered(c, s, n) \in Seq(Ops)
    BY <1>1, <1>2, <1>8, DeliveredType
  <1>10. s[i] \in Segments
    <2>1. n + 1 \in 1..(n + 1)
      BY <1>2
    <2>2. s[c.next + (n + 1) - 1] \in Segments
      BY <1>6, <2>1 DEF There
    <2> QED BY <1>2, <2>2
  <1> QED BY <1>1, <1>2, <1>3, <1>7, <1>9, <1>10, RecordsType DEF n

\* The last segment is given other records.
LEMMA RewriteLast ==
  ASSUME NEW c, NEW s, NEW t, Files(c, s), Files(c, t), NEW i \in ChainOf(c, s),
         \A k \in Ids : k >= i + 1 => QuietIn(s, k),
         t[i] \in Segments, t[i].gen = s[i].gen, t[i].ok = s[i].ok,
         \A k \in Ids \ {i} : t[k] = s[k]
  PROVE  /\ i \in ChainOf(c, t)
         /\ \A k \in Ids : k >= i + 1 => QuietIn(t, k)
         /\ Delivered(c, t, i - c.next) = Delivered(c, s, i - c.next)
  <1>1. i \in Ids /\ i >= c.next /\ c.next \in Nat /\ i \in Nat
    BY DEF ChainOf, Files, Checkpoints, Ids
  <1>2. \A k \in Ids : k # i => t[k] = s[k]
    OBVIOUS
  <1>3. i \in ChainOf(c, t)
    <2>1. \A j \in c.next..i : \A k \in c.next..(j - 1) : k \in Ids /\ k # i
      BY <1>1, BoundsAssumption DEF Ids
    <2>2. \A j \in c.next..i : j # i => t[j] = s[j]
      BY <1>1, <1>2, BoundsAssumption DEF Ids
    <2>3. ASSUME NEW j \in c.next..i
          PROVE  /\ t[j] # None /\ t[j].ok
                 /\ (\A k \in c.next..(j - 1) : t[k].recs = <<>>) => t[j].gen = c.gen
      <3>1. /\ s[j] # None /\ s[j].ok
            /\ (\A k \in c.next..(j - 1) : s[k].recs = <<>>) => s[j].gen = c.gen
        BY DEF ChainOf
      <3>2. \A k \in c.next..(j - 1) : t[k] = s[k]
        BY <1>2, <2>1
      <3>3. CASE j # i
        BY <2>2, <3>1, <3>2, <3>3
      <3>4. CASE j = i
        <4>1. t[j] # None
          BY <1>1, <1>2, <3>4, NoneAssumption
        <4> QED BY <1>2, <3>1, <3>2, <3>4, <4>1
      <3> QED BY <3>3, <3>4
    <2> QED BY <1>1, <2>3 DEF ChainOf
  <1>4. \A k \in Ids : k >= i + 1 => QuietIn(t, k)
    <2>1. SUFFICES ASSUME NEW k \in Ids, k >= i + 1 PROVE QuietIn(t, k)
      OBVIOUS
    <2>2. k # i
      BY <1>1, <2>1 DEF Ids
    <2> QED BY <1>2, <2>1, <2>2 DEF QuietIn
  <1>5. /\ {k \in ChainOf(c, s) : k < i + 1} = c.next..i
        /\ i - c.next \in Nat
    BY LastReplayed
  <1>6. /\ {k \in ChainOf(c, t) : k < i + 1} = c.next..i
        /\ ReplayedOf(c, t) = Delivered(c, t, i - c.next) \o RecordsOf(t[i])
    BY <1>3, <1>4, LastReplayed
  <1>7. Delivered(c, t, i - c.next) = Delivered(c, s, i - c.next)
    <2>1. \A k \in 1..(i - c.next) : c.next + k - 1 \in Ids /\ c.next + k - 1 # i
      BY <1>1, BoundsAssumption DEF Ids
    <2>2. \A k \in 1..(i - c.next) : t[c.next + k - 1] = s[c.next + k - 1]
      BY <1>2, <2>1
    <2> QED BY <2>2, DeliveredSame
  <1> QED BY <1>2, <1>3, <1>4, <1>5, <1>6, <1>7

\* A new segment continues the chain.
LEMMA NewOnChain ==
  ASSUME NEW c, NEW s, Files(c, s), NEW T \in Ids, T >= c.next,
         c.next..(T - 1) \subseteq ChainOf(c, s),
         \A i \in Ids : i >= T => QuietIn(s, i),
         s[T] \in Segments, s[T].ok, s[T].gen = c.gen + Len(ReplayedOf(c, s))
  PROVE  T \in ChainOf(c, s)
  <1>1. T \in Nat /\ c.next \in Nat /\ MaxSegment \in Nat /\ c.gen \in Nat
    BY BoundsAssumption DEF Files, Checkpoints, Ids
  <1> DEFINE n == T - c.next
  <1>2. n \in Nat /\ c.next + n - 1 = T - 1
    BY <1>1
  <1>3. s[T] # None
    BY NoneAssumption
  <1>4. ASSUME \A k \in c.next..(T - 1) : s[k].recs = <<>>
        PROVE  s[T].gen = c.gen
    <2>1. \A i \in Ids : i >= c.next => QuietIn(s, i)
      <3>1. SUFFICES ASSUME NEW i \in Ids, i >= c.next, i < T PROVE QuietIn(s, i)
        <4>1. \A i \in Ids : i < T \/ i >= T
          BY <1>1 DEF Ids
        <4> QED BY <4>1
      <3>2. i \in c.next..(T - 1)
        BY <1>1, <3>1 DEF Ids
      <3>3. s[i].recs = <<>> /\ s[i] \in Segments \cup {None}
        BY <1>4, <3>2 DEF Files
      <3> QED BY <3>3, RecordsType DEF QuietIn
    <2>2. ReplayedOf(c, s) = <<>>
      BY <2>1, QuietReplay
    <2>3. Len(ReplayedOf(c, s)) = 0
      BY <2>2
    <2> QED BY <1>1, <2>3
  <1>5. ASSUME NEW j \in c.next..T
        PROVE  /\ s[j] # None /\ s[j].ok
               /\ (\A k \in c.next..(j - 1) : s[k].recs = <<>>) => s[j].gen = c.gen
    <2>1. CASE j = T
      BY <1>3, <1>4, <2>1
    <2>2. CASE j # T
      <3>1. j \in c.next..(T - 1) /\ j \in c.next..j
        BY <1>1, <2>2
      <3>2. j \in ChainOf(c, s)
        BY <3>1
      <3> QED BY <3>1, <3>2 DEF ChainOf
    <2> QED BY <2>1, <2>2
  <1> QED BY <1>5 DEF ChainOf

\* The number after the last segment that delivers anything.
LEMMA NextIdIs ==
  ASSUME Files(cp, segs)
  PROVE  /\ NextId \in cp.next..(MaxSegment + 1)
         /\ cp.next..(NextId - 1) \subseteq Chain
         /\ (\A i \in Ids : i >= cp.next => i \in Chain \/ Quiet(i)) => QuietFrom(NextId)
  <1> DEFINE Reached == \A i \in Ids : i >= cp.next => i \in Chain \/ Quiet(i)
             D == {i \in Chain : Records(i) # <<>>}
  <1>1. cp.next \in Ids /\ cp.next \in Nat /\ MaxSegment \in Nat
    BY BoundsAssumption DEF Files, Checkpoints, Ids
  <1>2. \A i \in Chain : i \in Ids /\ i \in Nat /\ i >= cp.next /\ i <= MaxSegment
    BY DEF Chain, Ids
  <1>3. CASE D = {}
    <2>1. NextId = cp.next
      BY <1>3 DEF NextId
    <2>2. Reached => QuietFrom(cp.next)
      BY <1>3 DEF QuietFrom, Quiet
    <2>3. cp.next..(cp.next - 1) = {}
      BY <1>1
    <2> QED BY <1>1, <2>1, <2>2, <2>3 DEF Ids
  <1>4. CASE D # {}
    <2> DEFINE R == {MaxSegment - i : i \in D}
    <2>1. PICK r \in R : \A q \in R : r <= q
      <3>1. R \in SUBSET Nat /\ R # {}
        <4>1. \A i \in D : MaxSegment - i \in Nat
          BY <1>1, <1>2
        <4> HIDE DEF D
        <4> QED BY <1>4, <4>1
      <3> HIDE DEF R
      <3> QED BY <3>1, Least
    <2>2. PICK m \in D : r = MaxSegment - m
      BY <2>1
    <2>3. \A i \in D : m >= i
      <3>1. SUFFICES ASSUME NEW i \in D PROVE m >= i
        OBVIOUS
      <3>2. MaxSegment - i \in R
        BY <3>1
      <3>3. MaxSegment - m <= MaxSegment - i
        BY <2>1, <2>2, <3>2
      <3> QED BY <1>1, <1>2, <3>3
    <2>4. Max(D) \in D /\ \A i \in D : Max(D) >= i
      <3> HIDE DEF D
      <3> QED BY <2>3 DEF Max
    <2> DEFINE x == Max(D)
    <2>5. x \in Chain /\ x \in Ids /\ x \in Nat /\ x >= cp.next /\ x <= MaxSegment
      BY <1>2, <2>4
    <2>6. NextId = x + 1
      BY <1>4 DEF NextId
    <2>7. \A i \in Chain : i >= x + 1 => Records(i) = <<>>
      <3>1. SUFFICES ASSUME NEW i \in Chain, i >= x + 1, i \in D PROVE FALSE
        OBVIOUS
      <3>2. x >= i
        BY <2>4, <3>1
      <3> HIDE DEF x, D
      <3> QED BY <1>2, <2>5, <3>1, <3>2
    <2> HIDE DEF x, D
    <2>8. \A i \in Ids : i >= x + 1 => i >= cp.next
      BY <1>1, <2>5 DEF Ids
    <2>9. Reached => QuietFrom(x + 1)
      BY <2>7, <2>8 DEF QuietFrom, Quiet
    <2>10. cp.next..((x + 1) - 1) \subseteq Chain
      <3>1. (x + 1) - 1 = x
        BY <2>5
      <3> QED BY <2>5, <3>1, ChainDown, OfFiles
    <2>11. x + 1 \in cp.next..(MaxSegment + 1)
      BY <1>1, <2>5
    <2> QED BY <2>6, <2>9, <2>10, <2>11
  <1> QED BY <1>3, <1>4

-----------------------------------------------------------------------------
(* Prefixes *)

LEMMA PrefixIs ==
  ASSUME NEW T, NEW s \in Seq(T), NEW t \in Seq(T)
  PROVE  IsPrefix(s, t) <=> /\ Len(s) <= Len(t)
                            /\ \A i \in 1..Len(s) : s[i] = t[i]
  <1>1. ASSUME Len(s) <= Len(t)
        PROVE  /\ SubSeq(t, 1, Len(s)) \in Seq(T)
               /\ Len(SubSeq(t, 1, Len(s))) = Len(s)
               /\ \A i \in 1..Len(s) : SubSeq(t, 1, Len(s))[i] = t[i]
    BY <1>1
  <1>2. SubSeq(s, 1, Len(s)) = s
    OBVIOUS
  <1>3. ASSUME Len(s) <= Len(t)
        PROVE  (s = SubSeq(t, 1, Len(s))) <=> \A i \in 1..Len(s) : s[i] = t[i]
    <2>1. ASSUME \A i \in 1..Len(s) : s[i] = t[i]
          PROVE  s = SubSeq(t, 1, Len(s))
      <3> DEFINE u == SubSeq(t, 1, Len(s))
      <3>1. u \in Seq(T) /\ Len(s) = Len(u) /\ \A i \in 1..Len(s) : s[i] = u[i]
        BY <1>1, <1>3, <2>1
      <3> HIDE DEF u
      <3>2. s = u
        BY <3>1, SeqEqual
      <3> QED BY <3>2 DEF u
    <2>2. ASSUME s = SubSeq(t, 1, Len(s))
          PROVE  \A i \in 1..Len(s) : s[i] = t[i]
      <3>1. \A i \in 1..Len(s) : SubSeq(t, 1, Len(s))[i] = t[i]
        BY <1>1, <1>3
      <3> QED BY <2>2, <3>1, Zenon
    <2> QED BY <2>1, <2>2
  <1> QED BY <1>2, <1>3 DEF IsPrefix

LEMMA PrefixSelf ==
  ASSUME NEW T, NEW s \in Seq(T) PROVE IsPrefix(s, s) /\ IsPrefix(<<>>, s)
  <1>1. <<>> \in Seq(T) /\ Len(<<>>) = 0 /\ Len(s) \in Nat
    OBVIOUS
  <1>2. Len(s) <= Len(s) /\ \A i \in 1..Len(s) : s[i] = s[i]
    BY <1>1
  <1>3. Len(<<>>) <= Len(s) /\ \A i \in 1..Len(<<>>) : <<>>[i] = s[i]
    BY <1>1
  <1>4. IsPrefix(s, s)
    BY <1>2, PrefixIs
  <1>5. IsPrefix(<<>>, s)
    BY <1>1, <1>3, PrefixIs
  <1> QED BY <1>4, <1>5

LEMMA PrefixTrans ==
  ASSUME NEW T, NEW s \in Seq(T), NEW t \in Seq(T), NEW u \in Seq(T),
         IsPrefix(s, t), IsPrefix(t, u)
  PROVE  IsPrefix(s, u)
  <1>1. Len(s) \in Nat /\ Len(t) \in Nat /\ Len(u) \in Nat
    OBVIOUS
  <1>2. Len(s) <= Len(t) /\ \A i \in 1..Len(s) : s[i] = t[i]
    BY PrefixIs
  <1>3. Len(t) <= Len(u) /\ \A i \in 1..Len(t) : t[i] = u[i]
    BY PrefixIs
  <1>4. Len(s) <= Len(u) /\ \A i \in 1..Len(s) : s[i] = u[i]
    BY <1>1, <1>2, <1>3
  <1> QED BY <1>4, PrefixIs

LEMMA PrefixAppend ==
  ASSUME NEW T, NEW s \in Seq(T), NEW e \in T
  PROVE  IsPrefix(s, Append(s, e)) /\ s # Append(s, e)
  <1>1. /\ Append(s, e) \in Seq(T) /\ Len(Append(s, e)) = Len(s) + 1 /\ Len(s) \in Nat
        /\ \A i \in 1..Len(s) : Append(s, e)[i] = s[i]
    OBVIOUS
  <1>2. Len(s) <= Len(s) + 1 /\ Len(s) # Len(s) + 1
    BY <1>1
  <1> QED BY <1>1, <1>2, PrefixIs

-----------------------------------------------------------------------------
(* Types *)

SegsOK(s) == DOMAIN s = Ids /\ \A i \in Ids : s[i] \in Segments \cup {None}

LEMMA SegmentTypes ==
  /\ <<>> \in Seq(Ops) /\ <<>> \in Seq(Ops \cup {Torn})
  /\ \A g \in Nat, b \in BOOLEAN : [gen |-> g, recs |-> <<>>, ok |-> b] \in Segments
  /\ \A f \in Segments : [f EXCEPT !.ok = TRUE] \in Segments
  /\ \A f \in Segments, r \in Ops \cup {Torn} :
        /\ [f EXCEPT !.recs = Append(@, r)] \in Segments
        /\ [f EXCEPT !.recs = Append(@, r)].recs = Append(f.recs, r)
        /\ [f EXCEPT !.recs = Append(@, r)].gen = f.gen
        /\ [f EXCEPT !.recs = Append(@, r)].ok = f.ok
  <1>1. <<>> \in Seq(Ops) /\ <<>> \in Seq(Ops \cup {Torn})
    OBVIOUS
  <1>2. \A f \in Segments, r \in Ops \cup {Torn} : Append(f.recs, r) \in Seq(Ops \cup {Torn})
    BY AppendProperties DEF Segments
  <1>3. \A g \in Nat, b \in BOOLEAN : [gen |-> g, recs |-> <<>>, ok |-> b] \in Segments
    BY <1>1 DEF Segments
  <1>4. \A f \in Segments : [f EXCEPT !.ok = TRUE] \in Segments
    BY DEF Segments
  <1>5. \A f \in Segments, r \in Ops \cup {Torn} :
          /\ [f EXCEPT !.recs = Append(@, r)] \in Segments
          /\ [f EXCEPT !.recs = Append(@, r)].recs = Append(f.recs, r)
          /\ [f EXCEPT !.recs = Append(@, r)].gen = f.gen
          /\ [f EXCEPT !.recs = Append(@, r)].ok = f.ok
    <2>1. SUFFICES ASSUME NEW f \in Segments, NEW r \in Ops \cup {Torn}
                   PROVE  /\ [f EXCEPT !.recs = Append(@, r)] \in Segments
                          /\ [f EXCEPT !.recs = Append(@, r)].recs = Append(f.recs, r)
                          /\ [f EXCEPT !.recs = Append(@, r)].gen = f.gen
                          /\ [f EXCEPT !.recs = Append(@, r)].ok = f.ok
      OBVIOUS
    <2> DEFINE q == Append(f.recs, r)
    <2>2. q \in Seq(Ops \cup {Torn})
      BY <1>2
    <2> HIDE DEF q
    <2>3. /\ [f EXCEPT !.recs = q] \in Segments
          /\ [f EXCEPT !.recs = q].recs = q
          /\ [f EXCEPT !.recs = q].gen = f.gen
          /\ [f EXCEPT !.recs = q].ok = f.ok
      BY <2>2 DEF Segments
    <2> QED BY <2>3 DEF q
  <1> QED BY <1>1, <1>3, <1>4, <1>5

LEMMA CheckpointTypes ==
  /\ \A n \in Ids, g \in Nat, b \in BOOLEAN :
        [next |-> n, gen |-> g, content |-> <<>>, ok |-> b] \in Checkpoints
  /\ \A c \in Checkpoints, m \in Seq(Ops) :
        [c EXCEPT !.content = m] \in Checkpoints /\ [c EXCEPT !.ok = TRUE] \in Checkpoints
  /\ Blank \in Checkpoints /\ [Blank EXCEPT !.ok = TRUE] \in Checkpoints
  <1>1. \A n \in Ids, g \in Nat, b \in BOOLEAN :
          [next |-> n, gen |-> g, content |-> <<>>, ok |-> b] \in Checkpoints
    BY SegmentTypes DEF Checkpoints
  <1>2. \A c \in Checkpoints, m \in Seq(Ops) :
          [c EXCEPT !.content = m] \in Checkpoints /\ [c EXCEPT !.ok = TRUE] \in Checkpoints
    BY DEF Checkpoints
  <1>3. 0 \in Ids /\ 0 \in Nat
    BY BoundsAssumption DEF Ids
  <1>4. Blank \in Checkpoints
    BY <1>1, <1>3 DEF Blank
  <1>5. [Blank EXCEPT !.ok = TRUE] \in Checkpoints
    BY <1>4 DEF Checkpoints
  <1> QED BY <1>1, <1>2, <1>4, <1>5

LEMMA FilesTyped ==
  ASSUME TypeOK
  PROVE  /\ SegsOK(segs)
         /\ cp # None => Files(cp, segs) /\ cp \in Checkpoints
         /\ taking # None => Files(taking, segs) /\ taking \in Checkpoints
  BY DEF TypeOK, SegsOK, Files

\* A record is appended to the segment in use.
LEMMA WriteIs ==
  ASSUME TypeOK, seg # None, NEW r \in Ops \cup {Torn}, Write(seg, r)
  PROVE  LET f == [segs[seg] EXCEPT !.recs = Append(@, r)]
         IN /\ seg \in Ids /\ segs[seg] \in Segments /\ f \in Segments
            /\ f.recs = Append(segs[seg].recs, r)
            /\ f.gen = segs[seg].gen /\ f.ok = segs[seg].ok
            /\ segs' = [segs EXCEPT ![seg] = f]
            /\ SegsOK(segs') /\ segs'[seg] = f
            /\ \A j \in Ids \ {seg} : segs'[j] = segs[j]
  <1> DEFINE f == [segs[seg] EXCEPT !.recs = Append(@, r)]
  <1>1. seg \in Ids /\ segs[seg] \in Segments /\ SegsOK(segs)
    BY DEF TypeOK, SegsOK
  <1>2. /\ f \in Segments /\ f.recs = Append(segs[seg].recs, r)
        /\ f.gen = segs[seg].gen /\ f.ok = segs[seg].ok
    BY <1>1, SegmentTypes
  <1>3. segs' = [segs EXCEPT ![seg] = f]
    BY DEF Write
  <1> HIDE DEF f
  <1>4. SegsOK(segs') /\ segs'[seg] = f /\ \A j \in Ids \ {seg} : segs'[j] = segs[j]
    <2>1. f \in Segments \cup {None} /\ seg \in Ids /\ SegsOK(segs)
      BY <1>1, <1>2
    <2>2. /\ DOMAIN segs' = Ids /\ segs'[seg] = f
          /\ \A j \in Ids \ {seg} : segs'[j] = segs[j]
      BY <1>3, <2>1 DEF SegsOK
    <2> QED BY <2>1, <2>2 DEF SegsOK
  <1> QED BY <1>1, <1>2, <1>3, <1>4 DEF f

LEMMA ReplayedInFiles ==
  ASSUME TypeOK, Opens
  PROVE  Replayed \in Seq(Ops) /\ Recovered \in Seq(Ops) /\ cp.content \in Seq(Ops)
  <1>1. Files(cp, segs)
    BY FilesTyped DEF Opens
  <1>2. Replayed \in Seq(Ops) /\ cp.content \in Seq(Ops)
    BY <1>1, OfFiles, ReplayedType DEF Files, Checkpoints
  <1> QED BY <1>2, ConcatProperties DEF Recovered, Opens

LEMMA RecoveredType ==
  ASSUME TypeOK PROVE Recovered \in Seq(Ops)
  <1>1. CASE Opens
    BY <1>1, ReplayedInFiles
  <1>2. CASE ~Opens
    BY <1>2, SegmentTypes DEF Recovered
  <1> QED BY <1>1, <1>2

\* The other changes of a segment: it is put, given its header, or removed.
LEMMA SegmentsTyped ==
  ASSUME TInv,
         \/ CreateSegment \/ InitSegment \/ ReplaceSegment \/ SegmentFails \/ Close \/ Clean
  PROVE  SegsOK(segs')
  <1>1. SegsOK(segs) /\ lastgen \in Nat
    BY DEF TInv, TypeOK, SegsOK
  <1>2. CASE CreateSegment \/ ReplaceSegment
    <2>1. PICK b \in BOOLEAN :
            segs' = [segs EXCEPT ![Target] = [gen |-> lastgen, recs |-> <<>>, ok |-> b]]
      BY <1>2 DEF CreateSegment, ReplaceSegment
    <2>2. [gen |-> lastgen, recs |-> <<>>, ok |-> b] \in Segments
      BY <1>1, SegmentTypes
    <2> QED BY <1>1, <2>1, <2>2 DEF SegsOK
  <1>3. CASE InitSegment
    <2>1. Target \in Ids /\ segs[Target] \in Segments
      BY <1>1, <1>3 DEF InitSegment, TInv, PhaseOK, SegsOK
    <2>2. [segs[Target] EXCEPT !.ok = TRUE] \in Segments
      BY <2>1, SegmentTypes
    <2> DEFINE f == [segs[Target] EXCEPT !.ok = TRUE]
    <2>3. segs' = [segs EXCEPT ![Target] = f]
      BY <1>3 DEF InitSegment
    <2> HIDE DEF f
    <2>4. f \in Segments
      BY <2>2 DEF f
    <2> QED BY <1>1, <2>1, <2>3, <2>4 DEF SegsOK
  <1>4. CASE SegmentFails \/ Close \/ Clean
    <2>1. segs' = segs \/ \E i : segs' = [segs EXCEPT ![i] = None]
      BY <1>4 DEF SegmentFails, Close, Clean, Unlink
    <2> QED BY <1>1, <2>1 DEF SegsOK
  <1> QED BY <1>2, <1>3, <1>4

LEMMA GoneTyped ==
  ASSUME TInv, Gone, SegsOK(segs'), cp' \in Checkpoints \cup {None},
         taking' \in Checkpoints \cup {None}
  PROVE  TInv'
  <1> USE BoundsAssumption DEF TInv, TypeOK, PhaseOK, Gone
  <1>1. mem' \in Seq(Ops)
    BY SegmentTypes, Zenon
  <1>2. acked' \in Seq(Ops) /\ applied' \in 0..MaxOps
    OBVIOUS
  <1>3. /\ storage' \in {"none", "created", "readable", "writable", "closed"}
        /\ state' \in {"initial", "restored", "active"}
        /\ call' \in {"none", "restore", "set", "checkpoint"}
        /\ pc' = "idle"
    OBVIOUS
  <1>4. seg' = None /\ own' \in BOOLEAN /\ lastgen' \in Nat
    OBVIOUS
  <1>5. lastid' \in 0..(MaxSegment + 1)
    OBVIOUS
  <1>6. DOMAIN segs' = Ids /\ \A i \in Ids : segs'[i] \in Segments \cup {None}
    BY DEF SegsOK
  <1>7. TypeOK'
    BY <1>1, <1>2, <1>3, <1>4, <1>5, <1>6
  <1>8. PhaseOK'
    BY <1>3, <1>4 DEF Writing
  <1> QED BY <1>7, <1>8

LEMMA FilesKept ==
  ASSUME TInv, UNCHANGED files,
         \/ Open \/ SetJournal \/ DropJournal \/ ApplyOnly \/ Apply \/ UseSegment
         \/ TakeCheckpoint \/ CreateCheckpointFails \/ InitCheckpoint \/ InitCheckpointFails
         \/ Sync \/ Crash
         \/ \E connect \in BOOLEAN : Restore(connect)
  PROVE  TInv'
  <1> USE NoneAssumption, BoundsAssumption DEF TInv, TypeOK, PhaseOK, Ids, Ops, files, Gone,
          Return, Target, File, First, NewSegment, Writing
  <1>1. CASE Open
    BY <1>1 DEF Open, Opens, Checkpoints
  <1>2. CASE SetJournal \/ DropJournal \/ TakeCheckpoint
    BY <1>2 DEF SetJournal, DropJournal, TakeCheckpoint
  <1>3. CASE ApplyOnly \/ Apply
    <2>1. applied < MaxOps /\ applied \in Nat => applied + 1 \in Ops
      OBVIOUS
    <2>2. applied \in Ops => applied \in 0..MaxOps
      OBVIOUS
    <2> HIDE DEF Ops
    <2>3. /\ \A e \in Ops : Append(mem, e) \in Seq(Ops) /\ Append(acked, e) \in Seq(Ops)
          /\ applied \in Nat
      BY AppendProperties
    <2>4. mem' \in Seq(Ops) /\ acked' \in Seq(Ops)
      <3>1. CASE ApplyOnly
        <4>1. mem' = Append(mem, applied + 1) /\ acked' = acked /\ applied < MaxOps
          BY <3>1 DEF ApplyOnly
        <4> QED BY <2>1, <2>3, <4>1
      <3>2. CASE Apply
        <4>1. mem' = Append(mem, applied) /\ acked' = Append(acked, applied)
          BY <3>2 DEF Apply
        <4>2. applied \in Ops
          BY <3>2 DEF Apply
        <4> QED BY <2>3, <4>1, <4>2
      <3> QED BY <1>3, <3>1, <3>2
    <2>5. applied' \in 0..MaxOps
      BY <1>3 DEF ApplyOnly, Apply
    <2>6. TypeOK'
      BY <1>3, <2>4, <2>5 DEF ApplyOnly, Apply
    <2>7. PhaseOK'
      BY <1>3 DEF ApplyOnly, Apply
    <2> QED BY <2>6, <2>7
  <1>4. CASE UseSegment
    BY <1>4 DEF UseSegment, Checkpoints
  <1>5. CASE CreateCheckpointFails \/ InitCheckpoint \/ InitCheckpointFails
    BY <1>5 DEF CreateCheckpointFails, InitCheckpoint, InitCheckpointFails
  <1>6. CASE Sync
    BY <1>6 DEF Sync
  <1>7. CASE Crash
    BY <1>7, GoneTyped DEF Crash, SegsOK
  <1>8. ASSUME NEW connect \in BOOLEAN, Restore(connect) PROVE TInv'
    <2>1. cp # None /\ cp \in Checkpoints
      BY <1>8 DEF Restore
    <2>2. Recovered \in Seq(Ops)
      BY RecoveredType
    <2>3. Replayed \in Seq(Ops) /\ Len(Replayed) \in Nat
      <3>1. Files(cp, segs)
        BY <2>1, FilesTyped
      <3>2. Replayed \in Seq(Ops)
        BY <3>1, OfFiles, ReplayedType
      <3> QED BY <3>2
    <2>4. cp.gen \in Nat
      BY <2>1 DEF Checkpoints
    <2>5. NextId \in 0..(MaxSegment + 1)
      <3>1. Files(cp, segs)
        BY <2>1, FilesTyped
      <3>2. NextId \in cp.next..(MaxSegment + 1) /\ cp.next \in Nat
        BY <2>1, <3>1, NextIdIs DEF Checkpoints
      <3> QED BY <3>2
    <2> HIDE DEF Ops
    <2> QED BY <1>8, <2>1, <2>2, <2>3, <2>4, <2>5 DEF Restore
  <1> QED BY <1>1, <1>2, <1>3, <1>4, <1>5, <1>6, <1>7, <1>8

LEMMA SegmentsMove ==
  ASSUME TInv,
         CreateSegment \/ InitSegment \/ ReplaceSegment \/ SegmentFails \/ Clean
  PROVE  TInv'
  <1>1. DOMAIN segs' = Ids /\ \A i \in Ids : segs'[i] \in Segments \cup {None}
    BY SegmentsTyped DEF SegsOK
  <1>2. MaxSegment \in Nat /\ None \notin Ids /\ None \notin Segments
    BY NoneAssumption, BoundsAssumption
  <1> USE DEF TInv, PhaseOK, Target, File, First, NewSegment, Writing, Return
  <1>3. CASE CreateSegment \/ InitSegment \/ ReplaceSegment
    <2>1. Target' = Target /\ Target \in Ids /\ segs'[Target] # None
      <3>1. Target' = Target /\ Target \in Ids
        BY <1>3 DEF CreateSegment, InitSegment, ReplaceSegment
      <3>2. /\ [gen |-> lastgen, recs |-> <<>>, ok |-> TRUE] \in Segments
            /\ [gen |-> lastgen, recs |-> <<>>, ok |-> FALSE] \in Segments
        BY SegmentTypes DEF TypeOK
      <3>3. CASE CreateSegment
        BY <1>2, <3>1, <3>2, <3>3 DEF CreateSegment, TypeOK
      <3>4. CASE ReplaceSegment
        BY <1>2, <3>1, <3>2, <3>4 DEF ReplaceSegment, TypeOK
      <3>5. CASE InitSegment
        <4>1. segs[Target] \in Segments
          BY <3>1, <3>5 DEF InitSegment, TypeOK
        <4>2. [segs[Target] EXCEPT !.ok = TRUE] \in Segments
          BY <4>1, SegmentTypes
        <4>3. segs'[Target] = [segs[Target] EXCEPT !.ok = TRUE]
          BY <3>1, <3>5 DEF InitSegment, TypeOK
        <4> QED BY <1>2, <3>1, <4>2, <4>3
      <3> QED BY <1>3, <3>1, <3>3, <3>4, <3>5
    <2>2. pc' = "use_segment" => segs'[Target].ok
      <3>1. CASE InitSegment
        <4>1. segs[Target] \in Segments
          BY <2>1, <3>1 DEF InitSegment, TypeOK
        <4> QED BY <2>1, <3>1, <4>1 DEF InitSegment, TypeOK, Segments
      <3>2. CASE CreateSegment \/ ReplaceSegment
        BY <2>1, <3>2 DEF CreateSegment, ReplaceSegment, TypeOK
      <3> QED BY <1>3, <3>1, <3>2
    <2>3. seg # None => segs'[seg] # None /\ segs'[seg].ok
      <3>1. seg # None => Target # seg
        BY <1>2, <1>3 DEF CreateSegment, InitSegment, ReplaceSegment, TypeOK, Ids
      <3>2. seg # None => segs'[seg] = segs[seg]
        BY <1>3, <2>1, <3>1 DEF CreateSegment, InitSegment, ReplaceSegment, TypeOK
      <3> QED BY <3>2 DEF TypeOK
    <2>4. TypeOK'
      BY <1>1, <1>3, <2>3 DEF CreateSegment, InitSegment, ReplaceSegment, TypeOK
    <2> HIDE DEF Target
    <2>5. PhaseOK'
      BY <1>3, <2>1, <2>2 DEF CreateSegment, InitSegment, ReplaceSegment
    <2> QED BY <2>4, <2>5
  <1>4. CASE SegmentFails
    <2>1. seg # None => Target # seg
      BY <1>2, <1>4 DEF SegmentFails, TypeOK, Ids
    <2>2. seg # None => segs'[seg] = segs[seg]
      BY <1>4, <2>1 DEF SegmentFails, TypeOK
    <2>3. TypeOK'
      BY <1>1, <1>4, <2>2 DEF SegmentFails, TypeOK
    <2>4. PhaseOK'
      BY <1>4 DEF SegmentFails
    <2> QED BY <2>3, <2>4
  <1>5. CASE Clean
    <2>1. segs'[seg] = segs[seg] /\ seg \in Ids
      BY <1>2, <1>5 DEF Clean, TypeOK, Ids
    <2>2. lastid' \in 0..(MaxSegment + 1)
      BY <1>2, <1>5, <2>1 DEF Clean, TypeOK, Ids
    <2>3. TypeOK'
      BY <1>1, <1>5, <2>1, <2>2 DEF Clean, TypeOK
    <2>4. PhaseOK'
      BY <1>5, <2>1 DEF Clean
    <2> QED BY <2>3, <2>4
  <1> QED BY <1>3, <1>4, <1>5

LEMMA CheckpointsMove ==
  ASSUME TInv,
         \/ Create \/ CreateCheckpoint \/ SaveCheckpoint \/ Commit \/ Rename
         \/ CheckpointFails \/ RollbackFails \/ SyncFails
  PROVE  TInv'
  <1>1. MaxSegment \in Nat /\ None \notin Ids /\ None \notin Checkpoints
    BY NoneAssumption, BoundsAssumption
  <1> USE DEF TInv, PhaseOK, Target, File, First, NewSegment, Writing, Return, SetFile
  <1>2. CASE Create
    <2>1. cp' \in Checkpoints /\ cp' # None
      BY <1>1, <1>2, CheckpointTypes DEF Create, Blank
    <2>2. TypeOK'
      BY <1>2, <2>1 DEF Create, TypeOK
    <2>3. PhaseOK'
      BY <1>2, <2>1 DEF Create
    <2> QED BY <2>2, <2>3
  <1>3. CASE CreateCheckpoint
    <2>1. taking' \in Checkpoints /\ taking' # None
      <3>1. seg \in Ids /\ lastgen \in Nat
        BY <1>3 DEF CreateCheckpoint, TypeOK
      <3>2. taking' \in Checkpoints
        BY <1>3, <3>1, CheckpointTypes DEF CreateCheckpoint
      <3> QED BY <1>1, <3>2
    <2>2. TypeOK'
      BY <1>3, <2>1 DEF CreateCheckpoint, TypeOK
    <2>3. storage' = "writable"
      BY <1>3 DEF CreateCheckpoint, TypeOK
    <2>4. PhaseOK'
      BY <1>3, <2>1, <2>3 DEF CreateCheckpoint
    <2> QED BY <2>2, <2>4
  <1>4. CASE SaveCheckpoint \/ Commit
    <2>1. File \in Checkpoints
      BY <1>4 DEF SaveCheckpoint, Commit, TypeOK
    <2>2. PICK f \in Checkpoints : SetFile(f)
      <3>1. /\ [File EXCEPT !.content = mem] \in Checkpoints
            /\ [File EXCEPT !.ok = TRUE] \in Checkpoints
        BY <2>1, CheckpointTypes DEF TypeOK
      <3> HIDE DEF File, SetFile
      <3> QED BY <1>4, <3>1 DEF SaveCheckpoint, Commit
    <2>3. /\ cp' \in Checkpoints \cup {None} /\ taking' \in Checkpoints \cup {None}
          /\ File' # None /\ (cp # None => cp' # None) /\ (~First => taking' # None)
      <3>1. seg' = seg
        BY <1>4 DEF SaveCheckpoint, Commit
      <3> QED BY <1>1, <2>2, <3>1 DEF TypeOK
    <2> HIDE DEF SetFile
    <2>4. TypeOK'
      BY <1>4, <2>3 DEF SaveCheckpoint, Commit, TypeOK
    <2>5. PhaseOK'
      BY <1>4, <2>3 DEF SaveCheckpoint, Commit
    <2> QED BY <2>4, <2>5
  <1>5. CASE Rename
    <2>1. TypeOK'
      BY <1>5 DEF Rename, TypeOK
    <2>2. PhaseOK'
      BY <1>5 DEF Rename
    <2> QED BY <2>1, <2>2
  <1>6. CASE CheckpointFails \/ RollbackFails
    <2>1. TypeOK'
      BY <1>6 DEF CheckpointFails, RollbackFails, TypeOK
    <2>2. storage = "writable"
      BY <1>6 DEF CheckpointFails, RollbackFails, TypeOK
    <2>3. PhaseOK'
      BY <1>6, <2>2 DEF CheckpointFails, RollbackFails
    <2> QED BY <2>1, <2>3
  <1>7. CASE SyncFails
    <2>1. TypeOK'
      BY <1>7 DEF SyncFails, TypeOK
    <2>2. PhaseOK'
      BY <1>7 DEF SyncFails
    <2> QED BY <2>1, <2>2
  <1> QED BY <1>2, <1>3, <1>4, <1>5, <1>6, <1>7

LEMMA StoreTyped ==
  ASSUME TInv, Store
  PROVE  TInv'
  <1>1. applied + 1 \in Ops /\ seg # None
    <2>1. applied \in 0..MaxOps /\ applied < MaxOps /\ seg # None
      BY DEF TInv, PhaseOK, Store, TypeOK
    <2> QED BY <2>1, BoundsAssumption DEF Ops
  <1> DEFINE f == [segs[seg] EXCEPT !.recs = Append(@, applied + 1)]
  <1>2. /\ seg \in Ids /\ f \in Segments /\ f.ok = segs[seg].ok
        /\ SegsOK(segs') /\ segs'[seg] = f
    BY <1>1, WriteIs DEF TInv, Store
  <1> HIDE DEF f
  <1>3. segs'[seg] # None /\ segs'[seg].ok
    BY <1>1, <1>2, NoneAssumption DEF TInv, TypeOK
  <1>4. TypeOK'
    BY <1>1, <1>2, <1>3, BoundsAssumption DEF TInv, Store, TypeOK, SegsOK
  <1>5. PhaseOK'
    BY <1>1 DEF TInv, Store, PhaseOK, Target, Writing, NewSegment
  <1> QED BY <1>4, <1>5 DEF TInv

LEMMA InitTInv == Init => TInv
  <1> SUFFICES ASSUME Init PROVE TInv
    OBVIOUS
  <1>1. mem \in Seq(Ops) /\ acked \in Seq(Ops)
    BY SegmentTypes, Zenon DEF Init
  <1>2. DOMAIN segs = Ids /\ \A i \in Ids : segs[i] \in Segments \cup {None}
    BY DEF Init
  <1>3. lastid \in 0..(MaxSegment + 1) /\ applied \in 0..MaxOps
    BY BoundsAssumption DEF Init
  <1>4. TypeOK
    BY <1>1, <1>2, <1>3 DEF Init, TypeOK
  <1>5. PhaseOK
    BY DEF Init, PhaseOK, Writing
  <1> QED BY <1>4, <1>5 DEF TInv

LEMMA NextTInv == TInv /\ [Next]_vars => TInv'
  <1> SUFFICES ASSUME TInv, [Next]_vars PROVE TInv'
    OBVIOUS
  <1>1. CASE UNCHANGED vars
    BY <1>1 DEF vars, TInv, TypeOK, PhaseOK, Target, File, First
  <1>2. ASSUME \/ Open \/ SetJournal \/ DropJournal \/ ApplyOnly \/ Apply \/ UseSegment
               \/ TakeCheckpoint \/ CreateCheckpointFails \/ InitCheckpoint
               \/ InitCheckpointFails \/ Sync \/ Crash
               \/ \E connect \in BOOLEAN : Restore(connect)
        PROVE  TInv'
    <2>1. UNCHANGED files
      BY <1>2 DEF Open, SetJournal, DropJournal, ApplyOnly, Apply, UseSegment,
                  TakeCheckpoint, CreateCheckpointFails, InitCheckpoint,
                  InitCheckpointFails, Sync, Crash, Restore
    <2> QED BY <1>2, <2>1, FilesKept
  <1>3. CASE CreateSegment \/ InitSegment \/ ReplaceSegment \/ SegmentFails \/ Clean
    BY <1>3, SegmentsMove
  <1>4. CASE \/ Create \/ CreateCheckpoint \/ SaveCheckpoint \/ Commit \/ Rename
             \/ CheckpointFails \/ RollbackFails \/ SyncFails
    BY <1>4, CheckpointsMove
  <1>5. CASE Store
    BY <1>5, StoreTyped
  <1>6. CASE Close
    <2>1. SegsOK(segs') /\ Gone
      BY <1>6, SegmentsTyped DEF Close
    <2>2. cp' \in Checkpoints \cup {None} /\ taking' \in Checkpoints \cup {None}
      BY <1>6 DEF Close, TInv, TypeOK
    <2> QED BY <2>1, <2>2, GoneTyped
  <1>7. CASE CrashInRecord
    <2>1. Write(seg, Torn) /\ seg # None /\ Gone /\ Torn \in Ops \cup {Torn}
      BY <1>7 DEF CrashInRecord, TInv, PhaseOK
    <2>2. SegsOK(segs')
      BY <2>1, WriteIs DEF TInv
    <2>3. cp' \in Checkpoints \cup {None} /\ taking' \in Checkpoints \cup {None}
      BY <1>7 DEF CrashInRecord, TInv, TypeOK
    <2> QED BY <2>1, <2>2, <2>3, GoneTyped
  <1> QED BY <1>1, <1>2, <1>3, <1>4, <1>5, <1>6, <1>7 DEF Next

\* A Journallable, its storage and the files keep the shapes that the calls and
\* the recovery rely on, for any number of operations and segments, any failures
\* and whatever is closed: who journals has a segment file with a header to write to.
THEOREM TypeCorrect == Spec => []TypeOK
  <1>1. TInv => TypeOK
    BY DEF TInv
  <1> QED BY <1>1, InitTInv, NextTInv, PTL DEF Spec

-----------------------------------------------------------------------------
(* The files before and after a step *)

LEMMA OfFilesNext ==
  /\ Chain' = ChainOf(cp', segs')
  /\ Replayed' = ReplayedOf(cp', segs')
  /\ \A i : Quiet(i)' <=> QuietIn(segs', i)
  BY DEF Chain, ChainOf, Replayed, ReplayedOf, Delivered, Quiet, QuietIn, Records, RecordsOf

LEMMA SameFiles ==
  ASSUME UNCHANGED <<cp, segs>>
  PROVE  /\ Chain' = Chain /\ Replayed' = Replayed /\ Recovered' = Recovered
         /\ Opens' = Opens /\ ReachedOK' = ReachedOK
         /\ \A n : QuietFrom(n)' <=> QuietFrom(n)
  <1>1. Chain' = Chain /\ Replayed' = Replayed
    BY OfFiles, OfFilesNext
  <1>2. \A i : Quiet(i)' <=> Quiet(i)
    BY OfFiles, OfFilesNext
  <1>3. Opens' = Opens
    BY DEF Opens
  <1>4. Recovered' = Recovered
    BY <1>1, <1>3 DEF Recovered
  <1>5. \A n : QuietFrom(n)' <=> QuietFrom(n)
    BY <1>2 DEF QuietFrom
  <1>6. ReachedOK' = ReachedOK
    BY <1>1, <1>2, <1>3, <1>5 DEF ReachedOK
  <1> QED BY <1>1, <1>3, <1>4, <1>5, <1>6

\* Segments that deliver nothing are added, given a header, replaced or removed
\* after the last one that delivers something.
LEMMA QuietChange ==
  ASSUME TInv, SegsOK(segs'), cp' = cp, NEW T \in Nat,
         \A i \in Ids : i < T => segs'[i] = segs[i],
         QuietFrom(T), QuietFrom(T)'
  PROVE  /\ Recovered' = Recovered /\ Opens' = Opens
         /\ Opens => /\ Replayed' = Replayed
                     /\ {i \in Chain' : i < T} = {i \in Chain : i < T}
         /\ \A i \in Ids : i < T => (Quiet(i)' <=> Quiet(i))
         /\ ReachedOK => ReachedOK'
  <1>1. \A i \in Ids : i >= T => QuietIn(segs, i) /\ QuietIn(segs', i)
    BY OfFiles, OfFilesNext DEF QuietFrom
  <1>2. ASSUME Opens
        PROVE  Replayed' = Replayed /\ {i \in Chain' : i < T} = {i \in Chain : i < T}
    <2>1. Files(cp, segs) /\ Files(cp, segs')
      BY <1>2, FilesTyped DEF Opens, TInv, Files, SegsOK
    <2>2. ReplayedOf(cp, segs') = ReplayedOf(cp, segs)
      BY <1>1, <2>1, SameReplay
    <2>3. {i \in ChainOf(cp, segs') : i < T} = {i \in ChainOf(cp, segs) : i < T}
      BY <2>1, SameChainBelow
    <2> QED BY <2>2, <2>3, OfFiles, OfFilesNext
  <1>3. Opens' = Opens
    BY DEF Opens
  <1>4. Recovered' = Recovered
    BY <1>2, <1>3 DEF Recovered
  <1>5. \A i \in Ids : i < T => (Quiet(i)' <=> Quiet(i))
    BY OfFiles, OfFilesNext DEF QuietIn
  <1>6. ASSUME ReachedOK PROVE ReachedOK'
    <2>1. \A i \in Ids : i < T \/ i >= T
      BY DEF Ids
    <2>2. CASE Opens
      <3>1. SUFFICES ASSUME NEW i \in Ids, i >= cp.next PROVE i \in Chain' \/ Quiet(i)'
        BY <1>3, <2>2 DEF ReachedOK
      <3>2. i \in Chain \/ Quiet(i)
        BY <1>6, <2>2, <3>1 DEF ReachedOK
      <3>3. CASE i < T
        BY <1>2, <1>5, <2>2, <3>2, <3>3
      <3>4. CASE i >= T
        BY <3>4 DEF QuietFrom
      <3> QED BY <2>1, <3>3, <3>4
    <2>3. CASE ~Opens
      <3>1. QuietFrom(0)
        BY <1>6, <2>3 DEF ReachedOK
      <3>2. QuietFrom(0)'
        BY <1>5, <2>1, <3>1 DEF QuietFrom
      <3> QED BY <1>3, <2>3, <3>2 DEF ReachedOK
    <2> QED BY <2>2, <2>3
  <1> QED BY <1>2, <1>3, <1>4, <1>5, <1>6

\* Nothing has been journalled before there has been a segment.
LEMMA NothingYet ==
  ASSUME IInv, storage = "writable", seg = None
  PROVE  Recovered = <<>> /\ acked = <<>>
  <1>1. acked = <<>> \/ Recovered # <<>>
    <2>1. SUFFICES ASSUME Recovered = <<>> PROVE acked = <<>>
      OBVIOUS
    <2>2. acked \in Seq(Ops) /\ Len(<<>>) = 0 /\ <<>> \in Seq(Ops)
      BY SegmentTypes DEF IInv, TInv, TypeOK
    <2>3. IsPrefix(acked, <<>>)
      BY <2>1 DEF IInv, MemoryOK
    <2>4. Len(acked) <= 0
      BY <2>2, <2>3, PrefixIs
    <2> QED BY <2>2, <2>4
  <1>2. CASE ~Opens
    BY <1>1, <1>2 DEF Recovered
  <1>3. CASE Opens
    <2>1. cp = [Blank EXCEPT !.ok = TRUE]
      BY <1>3 DEF IInv, FirstOK, Opens, Blank
    <2>2. Files(cp, segs)
      BY <1>3, FilesTyped DEF Opens, IInv, TInv
    <2>3. \A i \in Ids : i >= cp.next => QuietIn(segs, i)
      BY <2>1, OfFiles DEF IInv, FirstOK, QuietFrom, Blank
    <2>4. Replayed = <<>>
      BY <2>2, <2>3, OfFiles, QuietReplay
    <2>5. cp.content = <<>>
      BY <2>1 DEF Blank
    <2> QED BY <1>1, <1>3, <2>4, <2>5, ConcatEmptySeq, SegmentTypes DEF Recovered
  <1> QED BY <1>2, <1>3

-----------------------------------------------------------------------------
(* Steps that leave the files alone *)

LogStep == [Log!Next]_(Log!vars)

LEMMA Stutter ==
  ASSUME Recovered' = Recovered, acked' = acked \/ acked' = Recovered
  PROVE  LogStep
  BY DEF LogStep, Log!Next, Log!Acknowledge, Log!vars

LEMMA OpenStep ==
  ASSUME IInv, TInv', Open
  PROVE  IInv' /\ LogStep
  <1>1. UNCHANGED <<cp, segs>>
    BY DEF Open, files
  <1> USE <1>1, SameFiles DEF IInv, TInv, PhaseOK, Open, files
  <1>2. ReachedOK'
    OBVIOUS
  <1>3. FirstOK' /\ RestoredOK'
    BY DEF FirstOK, RestoredOK
  <1>4. SegmentOK' /\ FilesOK'
    BY DEF SegmentOK, FilesOK, Writing
  <1>5. MemoryOK'
    BY DEF MemoryOK
  <1> QED BY <1>2, <1>3, <1>4, <1>5, Stutter

LEMMA RestoreStep ==
  ASSUME IInv, TInv', NEW connect \in BOOLEAN, Restore(connect)
  PROVE  IInv' /\ LogStep
  <1>1. UNCHANGED <<cp, segs>>
    BY DEF Restore, files
  <1>2. Opens /\ Files(cp, segs)
    BY FilesTyped DEF Opens, IInv, TInv, RestoredOK, Restore
  <1>3. /\ NextId \in cp.next..(MaxSegment + 1) /\ QuietFrom(NextId)
        /\ cp.next..(NextId - 1) \subseteq Chain /\ cp.next \in Nat
    BY <1>2, NextIdIs DEF IInv, ReachedOK, Files, Checkpoints, Ids
  <1> USE <1>1, SameFiles DEF IInv, TInv, PhaseOK, Restore, files
  <1>4. ReachedOK' /\ FirstOK'
    BY DEF FirstOK
  <1>5. RestoredOK'
    BY <1>2, <1>3, BoundsAssumption DEF RestoredOK
  <1>6. SegmentOK' /\ FilesOK'
    BY DEF SegmentOK, FilesOK, Writing
  <1>7. MemoryOK'
    <2>1. Recovered \in Seq(Ops)
      BY RecoveredType
    <2>2. IsPrefix(Recovered, Recovered)
      BY <2>1, PrefixSelf
    <2> QED BY <2>2 DEF MemoryOK
  <1> QED BY <1>4, <1>5, <1>6, <1>7, Stutter

LEMMA SetJournalStep ==
  ASSUME IInv, TInv', SetJournal
  PROVE  IInv' /\ LogStep
  <1>1. UNCHANGED <<cp, segs>>
    BY DEF SetJournal, files
  <1>2. storage = "created" => QuietFrom(0)
    BY DEF IInv, FirstOK, ReachedOK, Opens, Blank
  <1> USE <1>1, SameFiles DEF IInv, TInv, PhaseOK, SetJournal, files
  <1>3. ReachedOK'
    OBVIOUS
  <1>4. FirstOK' /\ RestoredOK'
    BY <1>2 DEF FirstOK, RestoredOK, Writing, NewSegment
  <1>5. SegmentOK' /\ FilesOK'
    BY DEF SegmentOK, FilesOK, Writing
  <1>6. MemoryOK'
    BY DEF MemoryOK
  <1> QED BY <1>3, <1>4, <1>5, <1>6, Stutter

LEMMA IdleStep ==
  ASSUME IInv, TInv', DropJournal \/ TakeCheckpoint
  PROVE  IInv' /\ LogStep
  <1>1. UNCHANGED <<cp, segs>>
    BY DEF DropJournal, TakeCheckpoint, files
  <1>2. Recovered = mem /\ state = "active" => IsPrefix(Recovered, mem)
    BY PrefixSelf DEF IInv, TInv, TypeOK
  <1> USE <1>1, SameFiles DEF IInv, TInv, PhaseOK, DropJournal, TakeCheckpoint, files
  <1>3. ReachedOK'
    OBVIOUS
  <1>4. FirstOK' /\ RestoredOK'
    BY DEF FirstOK, RestoredOK, Writing, NewSegment
  <1>5. SegmentOK' /\ FilesOK'
    BY DEF SegmentOK, FilesOK, Writing
  <1>6. MemoryOK'
    BY <1>2 DEF MemoryOK
  <1> QED BY <1>3, <1>4, <1>5, <1>6, Stutter

LEMMA ApplyOnlyStep ==
  ASSUME IInv, TInv', ApplyOnly
  PROVE  IInv' /\ LogStep
  <1>1. UNCHANGED <<cp, segs>>
    BY DEF ApplyOnly, files
  <1>2. IsPrefix(Recovered, mem')
    <2>1. /\ Recovered \in Seq(Ops) /\ mem \in Seq(Ops) /\ mem' \in Seq(Ops)
          /\ IsPrefix(Recovered, mem)
      BY RecoveredType DEF IInv, TInv, TypeOK, MemoryOK, ApplyOnly
    <2>2. applied + 1 \in Ops
      <3>1. applied \in 0..MaxOps /\ applied < MaxOps
        BY DEF IInv, TInv, TypeOK, ApplyOnly
      <3> QED BY <3>1, BoundsAssumption DEF Ops
    <2>3. IsPrefix(mem, mem')
      BY <2>1, <2>2, PrefixAppend DEF ApplyOnly
    <2> QED BY <2>1, <2>3, PrefixTrans
  <1> USE <1>1, SameFiles DEF IInv, TInv, PhaseOK, ApplyOnly, files
  <1>3. ReachedOK'
    OBVIOUS
  <1>4. FirstOK' /\ RestoredOK'
    BY DEF FirstOK, RestoredOK, Writing, NewSegment
  <1>5. SegmentOK' /\ FilesOK'
    BY DEF SegmentOK, FilesOK, Writing
  <1>6. MemoryOK'
    BY <1>2 DEF MemoryOK
  <1> QED BY <1>3, <1>4, <1>5, <1>6, Stutter

LEMMA ApplyStep ==
  ASSUME IInv, TInv', Apply
  PROVE  IInv' /\ LogStep
  <1>1. UNCHANGED <<cp, segs>>
    BY DEF Apply, files
  <1>2. acked = mem /\ Recovered = Append(mem, applied) /\ state = "active"
    BY DEF IInv, TInv, PhaseOK, MemoryOK, Apply
  <1>3. IsPrefix(Recovered, Recovered)
    BY RecoveredType, PrefixSelf DEF IInv, TInv
  <1>4. acked' = Recovered /\ mem' = Recovered /\ Recovered' = Recovered
    BY <1>1, <1>2, SameFiles DEF Apply
  <1> USE <1>1, SameFiles DEF IInv, TInv, PhaseOK, Apply, files
  <1>5. ReachedOK'
    OBVIOUS
  <1>6. FirstOK' /\ RestoredOK'
    BY DEF FirstOK, RestoredOK, Writing, NewSegment
  <1>7. SegmentOK' /\ FilesOK'
    BY DEF SegmentOK, FilesOK, Writing
  <1>8. MemoryOK'
    BY <1>2, <1>3, <1>4 DEF MemoryOK
  <1> QED BY <1>4, <1>5, <1>6, <1>7, <1>8, Stutter

LEMMA CheckpointQuietStep ==
  ASSUME IInv, TInv',
         CreateCheckpointFails \/ InitCheckpoint \/ InitCheckpointFails \/ Sync \/ SyncFails
  PROVE  IInv' /\ LogStep
  <1>1. UNCHANGED <<cp, segs>>
    BY DEF CreateCheckpointFails, InitCheckpoint, InitCheckpointFails, Sync, SyncFails,
           files
  <1> USE <1>1, SameFiles DEF IInv, TInv, PhaseOK, CreateCheckpointFails, InitCheckpoint,
          InitCheckpointFails, Sync, SyncFails, Return, files, First
  <1>2. ReachedOK'
    OBVIOUS
  <1>3. InitCheckpointFails /\ seg = None => cp = Blank /\ ~Opens
    BY DEF FirstOK, Writing, Opens, Blank
  <1>4. FirstOK' /\ RestoredOK'
    BY <1>3 DEF FirstOK, RestoredOK, Writing, NewSegment
  <1>5. SegmentOK' /\ FilesOK'
    BY <1>3 DEF SegmentOK, FilesOK, Writing
  <1>6. MemoryOK'
    BY <1>3 DEF MemoryOK
  <1> QED BY <1>2, <1>4, <1>5, <1>6, Stutter

LEMMA CrashStep ==
  ASSUME IInv, TInv', Crash
  PROVE  IInv' /\ LogStep
  <1>1. UNCHANGED <<cp, segs>>
    BY DEF Crash, files
  <1> USE <1>1, SameFiles DEF IInv, TInv, PhaseOK, Crash, Gone, files
  <1>2. ReachedOK'
    OBVIOUS
  <1>3. FirstOK' /\ RestoredOK'
    BY DEF FirstOK, RestoredOK
  <1>4. SegmentOK' /\ FilesOK'
    BY DEF SegmentOK, FilesOK, Writing
  <1>5. MemoryOK'
    BY DEF MemoryOK
  <1> QED BY <1>2, <1>3, <1>4, <1>5, Stutter

-----------------------------------------------------------------------------
(* Steps that change a segment *)

\* Nothing is delivered from the place of the next segment on.
LEMMA TargetQuiet ==
  ASSUME IInv, pc \in NewSegment
  PROVE  /\ QuietFrom(Target) /\ Target \in Nat
         /\ Opens /\ Target >= cp.next /\ cp.next..(Target - 1) \subseteq Chain
         /\ lastgen = cp.gen + Len(Replayed)
  <1>1. storage \in {"readable", "writable"}
    BY DEF IInv, TInv, TypeOK, PhaseOK, NewSegment
  <1>2. CASE storage = "readable"
    <2>1. state = "restored" /\ Target = lastid
      BY <1>2 DEF IInv, TInv, PhaseOK, NewSegment, Target
    <2> QED BY <1>2, <2>1 DEF IInv, TInv, TypeOK, RestoredOK
  <1>3. CASE storage = "writable" /\ seg = None
    <2>1. /\ Target = 0 /\ cp = [Blank EXCEPT !.ok = TRUE]
          /\ lastgen = 0 /\ QuietFrom(0)
      BY <1>3 DEF IInv, FirstOK, Target
    <2>2. cp.next = 0 /\ cp.gen = 0 /\ cp.ok
      BY <2>1 DEF Blank
    <2>3. cp # None
      BY <2>1, CheckpointTypes, NoneAssumption DEF Blank, Checkpoints
    <2>4. Files(cp, segs)
      BY <2>3, FilesTyped DEF IInv, TInv
    <2>5. \A i \in Ids : i >= cp.next => QuietIn(segs, i)
      BY <2>1, <2>2, OfFiles DEF QuietFrom
    <2>6. Replayed = <<>>
      BY <2>4, <2>5, OfFiles, QuietReplay
    <2>7. Len(Replayed) = 0 /\ cp.next..(0 - 1) = {}
      BY <2>2, <2>6
    <2> QED BY <2>1, <2>2, <2>3, <2>7 DEF Opens
  <1>4. CASE storage = "writable" /\ seg # None
    <2>1. /\ Target = seg + 1 /\ seg \in Ids /\ Opens /\ seg \in Chain
          /\ QuietFrom(seg + 1) /\ lastgen = cp.gen + Len(Replayed)
      BY <1>4 DEF IInv, TInv, TypeOK, SegmentOK, Target
    <2>3. Files(cp, segs)
      BY <2>1, FilesTyped DEF IInv, TInv, Opens
    <2>4. seg >= cp.next /\ cp.next \in Nat /\ seg \in Nat
      BY <2>1, <2>3 DEF Chain, Files, Checkpoints, Ids
    <2>5. cp.next..seg \subseteq Chain
      BY <2>1, <2>3, ChainDown, OfFiles
    <2>6. (seg + 1) - 1 = seg /\ seg + 1 >= cp.next /\ seg + 1 \in Nat
      BY <2>4
    <2> QED BY <2>1, <2>5, <2>6
  <1> QED BY <1>1, <1>2, <1>3, <1>4

LEMMA NewSegmentStep ==
  ASSUME IInv, TInv', CreateSegment \/ InitSegment \/ ReplaceSegment
  PROVE  IInv' /\ LogStep
  <1>1. pc \in NewSegment /\ pc' \in NewSegment /\ Target \in Ids /\ Target' = Target
    BY DEF CreateSegment, InitSegment, ReplaceSegment, NewSegment, Target, IInv, TInv,
           PhaseOK
  <1>2. PICK T \in Nat : /\ T = Target /\ T = Target' /\ T \in Ids /\ QuietFrom(T)
                          /\ Opens /\ cp.next..(T - 1) \subseteq Chain
    BY <1>1, TargetQuiet
  <1>3. SegsOK(segs') /\ SegsOK(segs)
    BY SegmentsTyped DEF IInv, TInv, TypeOK, SegsOK
  <1>4. \A i \in Ids : i # T => segs'[i] = segs[i]
    BY <1>2, <1>3 DEF CreateSegment, InitSegment, ReplaceSegment, SegsOK
  <1>5. segs'[T].recs = <<>> /\ segs'[T].gen = lastgen
    <2>1. CASE CreateSegment \/ ReplaceSegment
      BY <1>2, <1>3, <2>1 DEF CreateSegment, ReplaceSegment, SegsOK
    <2>2. CASE InitSegment
      <3>1. segs[T] \in Segments /\ segs[T].recs = <<>> /\ segs[T].gen = lastgen
        BY <1>2, <1>3, <2>2 DEF InitSegment, IInv, TInv, PhaseOK, FilesOK, SegsOK
      <3>2. segs'[T] = [segs[T] EXCEPT !.ok = TRUE]
        BY <1>2, <1>3, <2>2 DEF InitSegment, SegsOK
      <3> QED BY <3>1, <3>2 DEF Segments
    <2> QED BY <2>1, <2>2
  <1>6. QuietFrom(T)'
    <2>1. QuietIn(segs', T)
      <3>1. segs'[T] \in Segments \/ segs'[T] = None
        BY <1>2, <1>3 DEF SegsOK
      <3> QED BY <1>5, <3>1, RecordsType DEF QuietIn
    <2>2. \A i \in Ids : i >= T /\ i # T => QuietIn(segs', i)
      BY <1>2, <1>4, OfFiles DEF QuietFrom, QuietIn
    <2>3. \A i \in Ids : i >= T => QuietIn(segs', i)
      BY <2>1, <2>2
    <2> QED BY <1>2, <2>3, OfFilesNext DEF QuietFrom
  <1>7. cp' = cp
    BY DEF CreateSegment, InitSegment, ReplaceSegment
  <1>8. \A i \in Ids : i < T => segs'[i] = segs[i]
    BY <1>2, <1>4
  <1>9. /\ Recovered' = Recovered /\ Opens' = Opens /\ Replayed' = Replayed
        /\ {i \in Chain' : i < T} = {i \in Chain : i < T}
        /\ \A i \in Ids : i < T => (Quiet(i)' <=> Quiet(i))
        /\ ReachedOK'
    BY <1>2, <1>3, <1>6, <1>7, <1>8, QuietChange DEF IInv
  <1>10. UNCHANGED <<cp, taking, storage, state, mem, seg, own, lastid, lastgen, call,
                     applied, acked>>
    BY DEF CreateSegment, InitSegment, ReplaceSegment
  <1>11. \A n \in Nat : QuietFrom(n) => QuietFrom(n)'
    <2>1. SUFFICES ASSUME NEW n \in Nat, QuietFrom(n), NEW i \in Ids, i >= n
                   PROVE  Quiet(i)'
      BY DEF QuietFrom
    <2>2. CASE i < T
      BY <1>9, <2>1, <2>2 DEF QuietFrom
    <2>3. CASE i >= T
      BY <1>6, <2>3 DEF QuietFrom
    <2> QED BY <1>2, <2>2, <2>3 DEF Ids
  <1>12. FirstOK'
    BY <1>1, <1>10, <1>11 DEF IInv, FirstOK, Writing, NewSegment
  <1>13. RestoredOK'
    <2>1. CASE storage = "readable"
      <3>1. T = lastid /\ state = "restored"
        BY <1>1, <1>2, <2>1 DEF Target, IInv, TInv, PhaseOK, NewSegment
      <3>2. cp.next..(lastid - 1) \subseteq Chain'
        <4>1. \A i \in cp.next..(lastid - 1) : i < T
          BY <1>2, <3>1 DEF Ids
        <4> QED BY <1>2, <1>9, <3>1, <4>1
      <3> QED BY <1>6, <1>9, <1>10, <3>1, <3>2 DEF IInv, RestoredOK
    <2>2. CASE storage # "readable"
      BY <1>10, <2>2 DEF RestoredOK
    <2> QED BY <2>1, <2>2
  <1>14. SegmentOK'
    <2>1. SUFFICES ASSUME seg # None PROVE SegmentOK'
      BY <1>10 DEF SegmentOK
    <2>2. T = seg + 1 /\ seg \in Ids
      BY <1>2, <2>1 DEF Target, IInv, TInv, TypeOK, PhaseOK
    <2>3. seg < T /\ seg # T
      BY <2>2 DEF Ids
    <2>4. seg \in Chain' /\ segs'[seg] = segs[seg]
      BY <1>4, <1>9, <2>1, <2>2, <2>3 DEF IInv, SegmentOK
    <2> QED BY <1>2, <1>6, <1>9, <1>10, <2>1, <2>2, <2>4 DEF IInv, SegmentOK
  <1>15. FilesOK'
    BY <1>1, <1>2, <1>5, <1>10 DEF FilesOK, NewSegment, Writing
  <1>16. MemoryOK'
    BY <1>1, <1>9, <1>10 DEF IInv, MemoryOK, NewSegment
  <1> QED BY <1>9, <1>10, <1>12, <1>13, <1>14, <1>15, <1>16, Stutter DEF IInv

LEMMA UseSegmentStep ==
  ASSUME IInv, TInv', UseSegment
  PROVE  IInv' /\ LogStep
  <1>1. UNCHANGED <<cp, segs>> /\ pc = "use_segment" /\ seg' = Target
    BY DEF UseSegment, files
  <1>2. PICK T \in Nat :
          /\ T = Target /\ seg' = T /\ T \in Ids /\ QuietFrom(T) /\ Opens
          /\ T >= cp.next /\ cp.next..(T - 1) \subseteq Chain
          /\ lastgen = cp.gen + Len(Replayed)
    BY <1>1, TargetQuiet DEF NewSegment, IInv, TInv, PhaseOK
  <1>3. /\ segs[T] \in Segments /\ segs[T].ok /\ segs[T].recs = <<>>
        /\ segs[T].gen = lastgen
    BY <1>1, <1>2 DEF IInv, TInv, TypeOK, PhaseOK, FilesOK
  <1>4. T \in Chain
    <2>1. Files(cp, segs)
      BY <1>2, FilesTyped DEF IInv, TInv, Opens
    <2>2. /\ \A i \in Ids : i >= T => QuietIn(segs, i)
          /\ cp.next..(T - 1) \subseteq ChainOf(cp, segs)
          /\ segs[T].gen = cp.gen + Len(ReplayedOf(cp, segs))
      BY <1>2, <1>3, OfFiles DEF QuietFrom
    <2> QED BY <1>2, <1>3, <2>1, <2>2, NewOnChain, OfFiles
  <1>5. QuietFrom(T + 1)
    BY <1>2 DEF QuietFrom, Ids
  <1>6. /\ Chain' = Chain /\ Replayed' = Replayed /\ Recovered' = Recovered
        /\ Opens' = Opens /\ ReachedOK' = ReachedOK
        /\ \A n : QuietFrom(n)' <=> QuietFrom(n)
    BY <1>1, SameFiles
  <1>7. seg' # None /\ storage' = "writable"
    <2>1. storage \in {"readable", "writable"}
      BY <1>1 DEF IInv, TInv, TypeOK, PhaseOK
    <2> QED BY <1>2, <2>1, NoneAssumption DEF UseSegment
  <1>8. /\ UNCHANGED <<mem, own, lastgen, applied, acked, taking>>
        /\ pc' \in {"idle", "new_segment", "sync", "create_checkpoint"}
        /\ state' = state \/ (state' = "active" /\ call = "restore")
        /\ call' = call \/ call' = "none"
    BY DEF UseSegment, Return, files
  <1>9. FirstOK'
    <2>1. state' = "initial" => pc' = "sync"
      <3>1. state' = "initial" => state = "initial"
        BY <1>8
      <3>2. state = "initial" => storage = "writable" /\ seg = None
        BY <1>1 DEF IInv, TInv, TypeOK, PhaseOK, FirstOK, NewSegment
      <3> QED BY <3>1, <3>2 DEF UseSegment
    <2> QED BY <1>7, <2>1 DEF FirstOK
  <1>10. RestoredOK'
    BY <1>7 DEF RestoredOK
  <1>11. SegmentOK'
    <2>1. \A k \in DOMAIN segs[T].recs : segs[T].recs[k] # Torn
      <3>1. DOMAIN <<>> = {}
        OBVIOUS
      <3> QED BY <1>3, <3>1
    <2>2. /\ segs'[seg'] = segs[T] /\ seg' \in Chain' /\ QuietFrom(T + 1)'
          /\ cp' = cp /\ Opens' /\ lastgen' = cp'.gen + Len(Replayed')
      BY <1>1, <1>2, <1>4, <1>5, <1>6, <1>8 DEF IInv, TInv, TypeOK
    <2> QED BY <1>2, <2>1, <2>2 DEF SegmentOK, QuietFrom
  <1>12. FilesOK'
    <2>1. pc' = "sync" => cp.next = T /\ Recovered = mem
      <3>1. SUFFICES ASSUME pc' = "sync" PROVE cp.next = T /\ Recovered = mem
        OBVIOUS
      <3>2. storage = "writable" /\ seg = None
        BY <3>1 DEF UseSegment, Return
      <3>3. Recovered = <<>>
        BY <3>2, NothingYet
      <3>4. mem = <<>> /\ cp.next = 0 /\ T = 0
        BY <1>1, <1>2, <3>2 DEF IInv, FirstOK, NewSegment, Blank, Target
      <3> QED BY <3>3, <3>4
    <2>2. segs'[seg'].recs = <<>> /\ segs'[seg'].gen = lastgen'
      BY <1>1, <1>2, <1>3, <1>8
    <2> QED BY <1>1, <1>2, <1>6, <1>8, <2>1, <2>2 DEF FilesOK, Writing
  <1>13. MemoryOK'
    <2>1. state' = "active" => acked = mem /\ Recovered = mem
      BY <1>1, <1>8 DEF IInv, MemoryOK
    <2>2. call' # "restore"
      <3>1. call = "restore" => storage = "readable"
        BY DEF IInv, TInv, PhaseOK
      <3> QED BY <3>1 DEF UseSegment, Return
    <2>3. /\ IsPrefix(acked, Recovered)
          /\ state' = "restored" => IsPrefix(Recovered, mem)
      BY <1>8 DEF IInv, MemoryOK
    <2> QED BY <1>6, <1>8, <2>1, <2>2, <2>3 DEF MemoryOK
  <1> QED BY <1>6, <1>8, <1>9, <1>10, <1>11, <1>12, <1>13, Stutter DEF IInv

LEMMA SegmentFailsStep ==
  ASSUME IInv, TInv', SegmentFails
  PROVE  IInv' /\ LogStep
  <1>1. pc \in NewSegment /\ pc' = "idle" /\ call' = "none" /\ SegsOK(segs')
    BY SegmentsTyped DEF SegmentFails, NewSegment, Return, IInv
  <1>2. PICK T \in Nat : T = Target /\ QuietFrom(T) /\ Opens
    BY <1>1, TargetQuiet
  <1>3. UNCHANGED <<taking, mem, seg, own, lastid, lastgen, applied, acked, state>>
    BY DEF SegmentFails, Return
  <1>4. \A i \in Ids : segs'[i] = segs[i] \/ (i = T /\ segs'[i] = None)
    BY <1>2 DEF SegmentFails, IInv, TInv, TypeOK
  <1>5. \A n \in Nat : QuietFrom(n) => QuietFrom(n)'
    <2>1. \A i \in Ids : QuietIn(segs, i) => QuietIn(segs', i)
      BY <1>4 DEF QuietIn
    <2>2. \A i \in Ids : Quiet(i) => Quiet(i)'
      BY <2>1, OfFiles, OfFilesNext
    <2> QED BY <2>2 DEF QuietFrom
  <1>6. storage \in {"readable", "writable"}
    BY <1>1 DEF IInv, TInv, TypeOK, PhaseOK, NewSegment
  <1>7. CASE storage = "writable" /\ seg = None
    <2>1. cp' = None /\ storage' = "writable" /\ state = "initial"
      BY <1>7 DEF SegmentFails, IInv, FirstOK
    <2>2. ~Opens' /\ QuietFrom(0)' /\ Recovered' = <<>>
      <3>1. ~Opens' /\ Recovered' = <<>>
        BY <2>1 DEF Opens, Recovered
      <3> QED BY <1>5, <1>7, <3>1 DEF IInv, FirstOK
    <2>3. Recovered = <<>>
      BY <1>7, NothingYet
    <2>4. ReachedOK'
      BY <2>2 DEF ReachedOK
    <2>5. FirstOK'
      BY <1>1, <1>3, <1>7, <2>1, <2>2 DEF IInv, FirstOK, Writing, NewSegment
    <2>6. RestoredOK' /\ SegmentOK' /\ FilesOK'
      BY <1>1, <1>3, <1>7, <2>1 DEF RestoredOK, SegmentOK, FilesOK, Writing
    <2>7. MemoryOK'
      BY <1>1, <1>3, <2>1, <2>2, <2>3 DEF IInv, MemoryOK
    <2> QED BY <1>3, <2>2, <2>3, <2>4, <2>5, <2>6, <2>7, Stutter DEF IInv
  <1>8. CASE storage = "readable" \/ seg # None
    <2>1. cp' = cp /\ (seg # None => storage = "writable" /\ storage' = "writable")
      BY <1>6, <1>8 DEF SegmentFails, IInv, TInv, PhaseOK
    <2>2. storage' # "readable" /\ (storage = "readable" => storage' = "closed" /\ seg = None)
      BY <1>6 DEF SegmentFails, IInv, TInv, PhaseOK
    <2>3. \A i \in Ids : i < T => segs'[i] = segs[i]
      BY <1>2, <1>4
    <2>4. /\ Recovered' = Recovered /\ Opens' = Opens /\ Replayed' = Replayed
          /\ {i \in Chain' : i < T} = {i \in Chain : i < T}
          /\ ReachedOK'
      BY <1>1, <1>2, <1>5, <2>1, <2>3, QuietChange DEF IInv
    <2>5. FirstOK'
      <3>1. storage' \in {"closed", "writable"} /\ (storage' = "writable" => seg # None)
        BY <1>6, <1>8, <2>1, <2>2
      <3>2. state = "initial" => seg = None
        BY <1>1 DEF IInv, FirstOK, NewSegment
      <3> QED BY <1>3, <3>1, <3>2 DEF FirstOK
    <2>6. RestoredOK' /\ FilesOK'
      BY <1>1, <2>2 DEF RestoredOK, FilesOK, Writing
    <2>7. SegmentOK'
      <3>1. SUFFICES ASSUME seg # None PROVE SegmentOK'
        BY <1>3 DEF SegmentOK
      <3>2. T = seg + 1 /\ seg \in Ids
        BY <1>2, <2>1, <3>1 DEF Target, IInv, TInv, TypeOK
      <3>3. seg < T /\ seg # T
        BY <3>2 DEF Ids
      <3>4. seg \in Chain' /\ segs'[seg] = segs[seg]
        BY <1>2, <1>4, <2>4, <3>1, <3>2, <3>3 DEF IInv, SegmentOK
      <3>5. QuietFrom(T)'
        BY <1>2, <1>5
      <3>6. QuietFrom(seg + 1)'
        BY <1>3, <3>2, <3>5 DEF QuietFrom
      <3> QED BY <1>2, <1>3, <2>1, <2>4, <3>1, <3>4, <3>6 DEF IInv, SegmentOK
    <2>8. MemoryOK'
      BY <1>1, <1>3, <2>4 DEF IInv, MemoryOK, NewSegment
    <2> QED BY <1>3, <2>4, <2>5, <2>6, <2>7, <2>8, Stutter DEF IInv
  <1> QED BY <1>6, <1>7, <1>8

LEMMA CleanStep ==
  ASSUME IInv, TInv', Clean
  PROVE  IInv' /\ LogStep
  <1>1. /\ seg # None /\ seg \in Ids /\ cp.next = seg /\ Recovered = mem
        /\ Opens /\ pc = "clean" /\ storage = "writable"
    BY DEF Clean, IInv, TInv, TypeOK, PhaseOK, SegmentOK, FilesOK, Writing
  <1>2. UNCHANGED <<cp, taking, storage, mem, seg, own, lastgen, applied>>
    BY DEF Clean
  <1>3. CASE lastid < seg
    <2>1. segs' = [segs EXCEPT ![lastid] = None] /\ UNCHANGED <<pc, call, state, acked>>
      BY <1>3 DEF Clean
    <2>2. SegsOK(segs') /\ SegsOK(segs)
      BY SegmentsTyped DEF IInv, TInv, TypeOK, SegsOK
    <2>3. \A i \in Ids : segs'[i] = segs[i] \/ (i = lastid /\ segs'[i] = None)
      BY <2>1, <2>2 DEF SegsOK
    <2>4. \A i \in Ids : i >= cp.next => segs'[i] = segs[i]
      <3>1. lastid \in Nat /\ seg \in Nat /\ \A i \in Ids : i >= seg => i # lastid
        BY <1>1, <1>3, BoundsAssumption DEF IInv, TInv, TypeOK, Ids
      <3> QED BY <1>1, <2>3, <3>1
    <2>5. Chain' = Chain /\ Replayed' = Replayed
      <3>1. Files(cp, segs) /\ Files(cp, segs')
        BY <1>1, <2>2, FilesTyped DEF IInv, TInv, Opens, Files, SegsOK
      <3> QED BY <1>2, <2>4, <3>1, SameBeyond, OfFiles, OfFilesNext
    <2>6. Opens' = Opens /\ Recovered' = Recovered
      BY <1>2, <2>5 DEF Opens, Recovered
    <2>7. \A i \in Ids : Quiet(i) => Quiet(i)'
      BY <2>3, OfFiles, OfFilesNext DEF QuietIn
    <2>8. ReachedOK'
      BY <1>1, <1>2, <2>5, <2>6, <2>7 DEF IInv, ReachedOK
    <2>9. FirstOK' /\ RestoredOK'
      BY <1>1, <1>2, <2>1 DEF IInv, FirstOK, RestoredOK
    <2>10. SegmentOK'
      <3>1. segs'[seg] = segs[seg]
        <4>1. seg >= cp.next
          BY <1>1 DEF Ids
        <4> QED BY <1>1, <2>4, <4>1
      <3>2. QuietFrom(seg + 1)'
        BY <1>1, <1>2, <2>7 DEF IInv, SegmentOK, QuietFrom
      <3> QED BY <1>1, <1>2, <2>1, <2>5, <2>6, <3>1, <3>2 DEF IInv, SegmentOK
    <2>11. FilesOK'
      BY <1>1, <1>2, <2>1, <2>6 DEF FilesOK, Writing
    <2>12. MemoryOK'
      BY <1>2, <2>1, <2>6 DEF IInv, MemoryOK
    <2> QED BY <2>1, <2>6, <2>8, <2>9, <2>10, <2>11, <2>12, Stutter DEF IInv
  <1>4. CASE ~(lastid < seg)
    <2>1. /\ pc' = "idle" /\ call' = "none" /\ state' = "active" /\ acked' = mem
          /\ UNCHANGED <<segs, lastid>>
      BY <1>4 DEF Clean, Return
    <2> USE <1>1, <1>2, <2>1, SameFiles DEF IInv
    <2>2. ReachedOK' /\ FirstOK' /\ RestoredOK'
      BY DEF FirstOK, RestoredOK
    <2>3. SegmentOK' /\ FilesOK'
      BY DEF SegmentOK, FilesOK, Writing
    <2>4. MemoryOK'
      <3>1. IsPrefix(Recovered, Recovered)
        BY RecoveredType, PrefixSelf DEF TInv
      <3> QED BY <3>1 DEF MemoryOK
    <2> QED BY <2>2, <2>3, <2>4, Stutter
  <1> QED BY <1>3, <1>4

\* A record is written to the segment in use.
LEMMA Written ==
  ASSUME IInv, state = "active", pc = "idle", UNCHANGED cp,
         NEW r \in Ops \cup {Torn}, Write(seg, r)
  PROVE  /\ Opens' /\ seg \in Chain' /\ QuietFrom(seg + 1) /\ seg \in Ids
         /\ \A i \in Ids : i >= seg + 1 => Quiet(i)'
         /\ segs'[seg].recs = Append(segs[seg].recs, r)
         /\ segs'[seg] \in Segments /\ segs[seg] \in Segments
         /\ ReachedOK'
         /\ Replayed \in Seq(Ops)
         /\ r = Torn => Replayed' = Replayed
         /\ r # Torn => Replayed' = Append(Replayed, r)
  <1>1. /\ seg # None /\ Opens /\ seg \in Chain /\ QuietFrom(seg + 1)
        /\ NoTorn(segs[seg])
    BY DEF IInv, TInv, PhaseOK, SegmentOK, NoTorn
  <1> DEFINE f == [segs[seg] EXCEPT !.recs = Append(@, r)]
  <1>2. /\ seg \in Ids /\ segs[seg] \in Segments /\ f \in Segments
        /\ f.recs = Append(segs[seg].recs, r)
        /\ f.gen = segs[seg].gen /\ f.ok = segs[seg].ok
        /\ SegsOK(segs') /\ segs'[seg] = f
        /\ \A k \in Ids \ {seg} : segs'[k] = segs[k]
    BY <1>1, WriteIs DEF IInv, TInv
  <1> HIDE DEF f
  <1>3. Files(cp, segs) /\ Files(cp, segs') /\ cp' = cp /\ seg \in Nat
    BY <1>1, <1>2, FilesTyped DEF IInv, TInv, Opens, Files, SegsOK, Ids
  <1>4. \A k \in Ids : k >= seg + 1 => QuietIn(segs, k)
    BY <1>1, OfFiles DEF QuietFrom
  <1>5. seg \in ChainOf(cp, segs)
    BY <1>1, OfFiles
  <1>6. /\ seg \in ChainOf(cp, segs')
        /\ \A k \in Ids : k >= seg + 1 => QuietIn(segs', k)
        /\ ReplayedOf(cp, segs') = Delivered(cp, segs, seg - cp.next) \o RecordsOf(f)
    <2>1. /\ segs'[seg] \in Segments
          /\ segs'[seg].gen = segs[seg].gen /\ segs'[seg].ok = segs[seg].ok
          /\ \A k \in Ids \ {seg} : segs'[k] = segs[k]
      BY <1>2
    <2>2. Files(cp, segs) /\ Files(cp, segs')
      BY <1>3
    <2>3. seg \in ChainOf(cp, segs')
      BY <1>4, <1>5, <2>1, <2>2, RewriteLast, Zenon
    <2>4. \A k \in Ids : k >= seg + 1 => QuietIn(segs', k)
      BY <1>4, <1>5, <2>1, <2>2, RewriteLast, Zenon
    <2>5. Delivered(cp, segs', seg - cp.next) = Delivered(cp, segs, seg - cp.next)
      BY <1>4, <1>5, <2>1, <2>2, RewriteLast, Zenon
    <2>6. ReplayedOf(cp, segs') = Delivered(cp, segs', seg - cp.next) \o RecordsOf(segs'[seg])
      BY <2>2, <2>3, <2>4, LastReplayed, Zenon
    <2> QED BY <1>2, <2>3, <2>4, <2>5, <2>6, Zenon
  <1> DEFINE d == Delivered(cp, segs, seg - cp.next)
  <1>7. /\ Replayed = d \o RecordsOf(segs[seg])
        /\ d \in Seq(Ops) /\ RecordsOf(segs[seg]) \in Seq(Ops)
    BY <1>3, <1>4, <1>5, LastReplayed, OfFiles
  <1> HIDE DEF d
  <1>8. RecordsOf(segs[seg]) = segs[seg].recs
    BY <1>1, <1>2, RecordsType
  <1>9. Replayed' = d \o RecordsOf(f)
    BY <1>3, <1>6, OfFilesNext DEF d
  <1>10. Replayed \in Seq(Ops)
    BY <1>7, ConcatProperties
  <1>11. ASSUME r = Torn PROVE Replayed' = Replayed
    <2>1. RecordsOf(f) = segs[seg].recs
      BY <1>1, <1>2, <1>11, RecordsTorn
    <2> QED BY <1>7, <1>8, <1>9, <2>1
  <1>12. ASSUME r # Torn PROVE Replayed' = Append(Replayed, r)
    <2> DEFINE q == segs[seg].recs
    <2>1. q \in Seq(Ops) /\ r \in Ops
      BY <1>7, <1>8, <1>12
    <2>2. NoTorn(f)
      <3>1. /\ DOMAIN f.recs = 1..(Len(q) + 1) /\ Len(q) \in Nat /\ f.recs[Len(q) + 1] = r
            /\ \A k \in 1..Len(q) : f.recs[k] = q[k] /\ q[k] # Torn
        <4>1. f.recs = Append(q, r) /\ DOMAIN q = 1..Len(q) /\ \A k \in DOMAIN q : q[k] # Torn
          BY <1>1, <1>2, <2>1 DEF NoTorn
        <4> HIDE DEF q
        <4> QED BY <2>1, <4>1, AppendProperties
      <3> HIDE DEF q
      <3>2. \A k \in 1..(Len(q) + 1) : k \in 1..Len(q) \/ k = Len(q) + 1
        BY <3>1
      <3> QED BY <1>12, <3>1, <3>2 DEF NoTorn
    <2>3. RecordsOf(f) = Append(q, r)
      BY <1>2, <2>2, RecordsType
    <2> HIDE DEF q
    <2>4. d \o Append(q, r) = Append(d \o q, r)
      BY <1>7, <2>1
    <2>5. Replayed = d \o q
      BY <1>7, <1>8 DEF q
    <2> QED BY <1>9, <2>3, <2>4, <2>5
  <1>13. \A i \in Ids : i >= seg + 1 => Quiet(i)'
    BY <1>6, OfFilesNext
  <1>14. Opens' /\ seg \in Chain'
    BY <1>1, <1>3, <1>6, OfFilesNext DEF Opens
  <1>15. ReachedOK'
    <2>1. SUFFICES ASSUME NEW i \in Ids, i >= cp.next PROVE i \in Chain' \/ Quiet(i)'
      BY <1>3, <1>14 DEF ReachedOK
    <2>2. i < seg + 1 \/ i >= seg + 1
      BY <1>3 DEF Ids
    <2>3. CASE i < seg + 1
      <3>1. i \in cp.next..seg
        BY <1>3, <2>1, <2>3 DEF Ids
      <3>2. i \in ChainOf(cp, segs')
        BY <1>3, <1>6, <3>1, ChainDown
      <3> QED BY <1>3, <3>2, OfFilesNext
    <2> QED BY <1>13, <2>2, <2>3
  <1> QED BY <1>1, <1>2, <1>10, <1>11, <1>12, <1>13, <1>14, <1>15

LEMMA Extends ==
  ASSUME NEW l \in Seq(Ops), Recovered' = l, Recovered \in Seq(Ops),
         IsPrefix(Recovered, l), acked' = acked
  PROVE  LogStep
  <1>1. CASE l = Recovered
    BY <1>1, Stutter
  <1>2. CASE l # Recovered
    <2>1. IsStrictPrefix(Recovered, Recovered')
      BY <1>2 DEF IsStrictPrefix
    <2>2. Range(Recovered') \subseteq Ops
      BY RangeOfSeq
    <2>3. Log!IsStrictPrefix(Recovered, Recovered') /\ Log!Range(Recovered') \subseteq Ops
      BY <2>1, <2>2 DEF Range, IsStrictPrefix, IsPrefix, Log!IsStrictPrefix, Log!IsPrefix,
                        Log!Range
    <2> QED BY <2>3 DEF LogStep, Log!Next, Log!Extend
  <1> QED BY <1>1, <1>2

LEMMA StoreStep ==
  ASSUME IInv, TInv', Store
  PROVE  IInv' /\ LogStep
  <1> DEFINE r == applied + 1
  <1>1. r \in Ops /\ r # Torn
    <2>1. applied \in 0..MaxOps /\ applied < MaxOps
      BY DEF IInv, TInv, TypeOK, Store
    <2> QED BY <2>1, BoundsAssumption DEF Ops, Torn
  <1>2. /\ state = "active" /\ pc = "idle" /\ pc' = "apply" /\ applied' = r
        /\ lastgen' = lastgen + 1 /\ Write(seg, r)
        /\ UNCHANGED <<cp, taking, storage, state, mem, seg, own, lastid, call, acked>>
    BY DEF Store
  <1> HIDE DEF r
  <1>3. /\ Opens' /\ seg \in Chain' /\ QuietFrom(seg + 1) /\ seg \in Ids
        /\ \A i \in Ids : i >= seg + 1 => Quiet(i)'
        /\ segs'[seg].recs = Append(segs[seg].recs, r)
        /\ segs[seg] \in Segments
        /\ ReachedOK'
        /\ Replayed \in Seq(Ops)
        /\ Replayed' = Append(Replayed, r)
    BY <1>1, <1>2, Written
  <1>4. /\ seg # None /\ Opens /\ lastgen = cp.gen + Len(Replayed)
        /\ \A k \in DOMAIN segs[seg].recs : segs[seg].recs[k] # Torn
        /\ storage = "writable" /\ acked = mem /\ Recovered = mem
    BY <1>2 DEF IInv, TInv, TypeOK, PhaseOK, SegmentOK, MemoryOK, Writing
  <1>5. cp.content \in Seq(Ops) /\ cp.gen \in Nat /\ mem \in Seq(Ops)
    BY <1>4 DEF IInv, TInv, TypeOK, Opens, Checkpoints
  <1>6. Recovered' = Append(mem, r)
    <2>1. Recovered' = cp.content \o Append(Replayed, r)
      BY <1>2, <1>3 DEF Recovered
    <2>2. mem = cp.content \o Replayed
      BY <1>4 DEF Recovered
    <2>3. cp.content \o Append(Replayed, r) = Append(cp.content \o Replayed, r)
      <3> DEFINE a == cp.content
                 b == Replayed
      <3>1. a \in Seq(Ops) /\ b \in Seq(Ops) /\ r \in Ops
        BY <1>1, <1>3, <1>5
      <3> HIDE DEF a, b
      <3>2. a \o Append(b, r) = Append(a \o b, r)
        BY <3>1
      <3> QED BY <3>2 DEF a, b
    <2> QED BY <2>1, <2>2, <2>3, Zenon
  <1>7. IsPrefix(mem, Append(mem, r)) /\ Append(mem, r) \in Seq(Ops)
    BY <1>1, <1>5, PrefixAppend, AppendProperties
  <1>8. FirstOK' /\ RestoredOK'
    BY <1>2, <1>4 DEF IInv, FirstOK, RestoredOK
  <1>9. SegmentOK'
    <2>1. Len(Replayed') = Len(Replayed) + 1 /\ Len(Replayed) \in Nat
      BY <1>1, <1>3, AppendProperties
    <2>2. lastgen' = cp'.gen + Len(Replayed')
      BY <1>2, <1>4, <1>5, <2>1
    <2>3. \A k \in DOMAIN segs'[seg].recs : segs'[seg].recs[k] # Torn
      <3> DEFINE q == segs[seg].recs
      <3>1. /\ q \in Seq(Ops \cup {Torn}) /\ r \in Ops \cup {Torn}
            /\ segs'[seg].recs = Append(q, r)
        BY <1>1, <1>3 DEF Segments
      <3>2. \A k \in DOMAIN q : q[k] # Torn
        BY <1>4
      <3> HIDE DEF q
      <3>3. /\ DOMAIN q = 1..Len(q) /\ DOMAIN Append(q, r) = 1..(Len(q) + 1) /\ Len(q) \in Nat
            /\ Append(q, r)[Len(q) + 1] = r
            /\ \A k \in 1..Len(q) : Append(q, r)[k] = q[k]
        BY <3>1, AppendProperties
      <3>4. \A k \in 1..(Len(q) + 1) : k \in 1..Len(q) \/ k = Len(q) + 1
        BY <3>3
      <3> QED BY <1>1, <3>1, <3>2, <3>3, <3>4
    <2>4. QuietFrom(seg + 1)'
      BY <1>2, <1>3 DEF QuietFrom
    <2> QED BY <1>2, <1>3, <1>4, <2>2, <2>3, <2>4 DEF SegmentOK
  <1>10. FilesOK'
    BY <1>2 DEF FilesOK, Writing
  <1>11. MemoryOK'
    <2>1. call # "restore"
      BY <1>2 DEF IInv, TInv, PhaseOK
    <2> QED BY <1>2, <1>4, <1>6, <1>7, <2>1 DEF MemoryOK
  <1>12. LogStep
    BY <1>2, <1>4, <1>5, <1>6, <1>7, Extends
  <1> QED BY <1>3, <1>8, <1>9, <1>10, <1>11, <1>12 DEF IInv

LEMMA CrashInRecordStep ==
  ASSUME IInv, TInv', CrashInRecord
  PROVE  IInv' /\ LogStep
  <1>1. /\ state = "active" /\ pc = "idle" /\ Write(seg, Torn) /\ Gone
        /\ UNCHANGED <<cp, taking, applied, acked>>
    BY DEF CrashInRecord, Gone
  <1>2. Opens' /\ ReachedOK' /\ Replayed' = Replayed
    BY <1>1, Written
  <1>3. Recovered' = Recovered
    <2>1. Opens
      BY <1>1, <1>2 DEF Opens
    <2> QED BY <1>1, <1>2, <2>1 DEF Recovered
  <1>4. FirstOK' /\ RestoredOK'
    BY <1>1 DEF FirstOK, RestoredOK, Gone
  <1>5. SegmentOK' /\ FilesOK'
    BY <1>1 DEF SegmentOK, FilesOK, Writing, Gone
  <1>6. MemoryOK'
    BY <1>1, <1>3 DEF IInv, MemoryOK, Gone
  <1> QED BY <1>1, <1>2, <1>3, <1>4, <1>5, <1>6, Stutter DEF IInv

LEMMA CloseStep ==
  ASSUME NoCloseLeftOpen, IInv, TInv', Close
  PROVE  IInv' /\ LogStep
  <1>1. /\ storage # "none" /\ pc = "idle" /\ Gone /\ UNCHANGED <<taking, applied, acked>>
        /\ SegsOK(segs') /\ SegsOK(segs)
    BY SegmentsTyped DEF Close, Gone, IInv, TInv, TypeOK, SegsOK
  <1>2. FirstOK' /\ RestoredOK'
    BY <1>1 DEF FirstOK, RestoredOK, Gone
  <1>3. SegmentOK' /\ FilesOK'
    BY <1>1 DEF SegmentOK, FilesOK, Writing, Gone
  <1>4. ASSUME Recovered' = Recovered
        PROVE  MemoryOK' /\ LogStep
    BY <1>1, <1>4, Stutter DEF IInv, MemoryOK, Gone
  <1>5. \A i \in Ids : segs'[i] = segs[i] \/ segs'[i] = None
    BY <1>1 DEF Close, Unlink, SegsOK
  <1>6. \A n : QuietFrom(n) => QuietFrom(n)'
    <2>1. \A i \in Ids : QuietIn(segs, i) => QuietIn(segs', i)
      BY <1>5 DEF QuietIn
    <2>2. \A i \in Ids : Quiet(i) => Quiet(i)'
      BY <2>1, OfFiles, OfFilesNext
    <2> QED BY <2>2 DEF QuietFrom
  <1>7. CASE cp' = None
    <2>1. storage = "created" \/ (storage = "writable" /\ seg = None) \/ cp = None
      BY <1>1, <1>7 DEF Close, First, NoCloseLeftOpen
    <2>2. Recovered = <<>> /\ QuietFrom(0)
      <3>1. CASE storage = "created" \/ cp = None
        <4>1. ~Opens
          BY <3>1 DEF IInv, FirstOK, Opens, Blank
        <4> QED BY <4>1 DEF IInv, ReachedOK, Recovered
      <3>2. CASE storage = "writable" /\ seg = None
        BY <3>2, NothingYet DEF IInv, FirstOK
      <3> QED BY <2>1, <3>1, <3>2
    <2>3. ~Opens' /\ Recovered' = <<>>
      BY <1>7 DEF Opens, Recovered
    <2>4. ReachedOK'
      BY <1>6, <2>2, <2>3 DEF ReachedOK
    <2> QED BY <1>2, <1>3, <1>4, <2>2, <2>3, <2>4 DEF IInv
  <1>8. CASE cp' = cp /\ segs' = segs
    BY <1>2, <1>3, <1>4, <1>8, SameFiles DEF IInv
  <1>9. CASE storage = "writable" /\ ~own /\ seg # None /\ segs[seg].recs = <<>>
    <2>1. cp' = cp /\ Unlink(seg)
      BY <1>9 DEF Close
    <2>2. PICK T \in Nat : T = seg /\ T \in Ids
      BY <1>9 DEF IInv, TInv, TypeOK, Ids
    <2>3. QuietFrom(T)
      <3>1. segs[T] \in Segments
        BY <1>9, <2>2 DEF IInv, TInv, TypeOK
      <3>2. Quiet(T)
        BY <1>9, <2>2, <3>1, RecordsType, OfFiles DEF QuietIn
      <3>3. QuietFrom(T + 1)
        BY <1>9, <2>2 DEF IInv, SegmentOK
      <3>4. \A i \in Ids : i >= T => i = T \/ i >= T + 1
        BY <2>2 DEF Ids
      <3> QED BY <3>2, <3>3, <3>4 DEF QuietFrom
    <2>4. QuietFrom(T)'
      BY <1>6, <2>3
    <2>5. \A i \in Ids : i < T => segs'[i] = segs[i]
      BY <1>1, <2>1, <2>2 DEF Unlink, SegsOK
    <2>6. Recovered' = Recovered /\ ReachedOK'
      BY <1>1, <2>1, <2>3, <2>4, <2>5, QuietChange DEF IInv
    <2> QED BY <1>2, <1>3, <1>4, <2>6 DEF IInv
  <1> QED BY <1>1, <1>7, <1>8, <1>9 DEF Close

-----------------------------------------------------------------------------
(* Steps that change a checkpoint *)

LEMMA CreateStep ==
  ASSUME IInv, TInv', Create
  PROVE  IInv' /\ LogStep
  <1>1. /\ storage = "none" /\ cp = None /\ cp' = Blank /\ storage' = "created" /\ own'
        /\ UNCHANGED <<taking, segs, state, mem, seg, lastid, lastgen, pc, call, applied,
                       acked>>
    BY DEF Create, Blank
  <1>2. ~Opens /\ ~Opens' /\ Recovered' = Recovered
    BY <1>1 DEF Opens, Recovered, Blank
  <1>3. ReachedOK'
    <2>1. \A i : Quiet(i)' <=> Quiet(i)
      BY <1>1, OfFiles, OfFilesNext
    <2> QED BY <1>2, <2>1 DEF IInv, ReachedOK, QuietFrom
  <1>4. pc = "idle" /\ state = "initial" /\ seg = None
    BY <1>1 DEF IInv, TInv, PhaseOK
  <1>5. FirstOK' /\ RestoredOK'
    BY <1>1, <1>4 DEF IInv, FirstOK, RestoredOK
  <1>6. SegmentOK' /\ FilesOK'
    BY <1>1, <1>4 DEF SegmentOK, FilesOK, Writing
  <1>7. MemoryOK'
    BY <1>1, <1>2, <1>4 DEF IInv, MemoryOK
  <1> QED BY <1>1, <1>2, <1>3, <1>5, <1>6, <1>7, Stutter DEF IInv

LEMMA CreateCheckpointStep ==
  ASSUME IInv, TInv', CreateCheckpoint
  PROVE  IInv' /\ LogStep
  <1>1. /\ pc = "create_checkpoint" /\ pc' = "init_checkpoint" /\ own' /\ seg # None
        /\ taking' = [next |-> seg, gen |-> lastgen, content |-> <<>>, ok |-> FALSE]
        /\ UNCHANGED <<cp, segs, storage, state, mem, seg, lastid, lastgen, call, applied,
                       acked>>
    BY DEF CreateCheckpoint, IInv, TInv, PhaseOK
  <1> USE <1>1, SameFiles DEF IInv
  <1>2. ReachedOK'
    OBVIOUS
  <1>3. FirstOK' /\ RestoredOK'
    <2>1. storage = "writable"
      BY DEF TInv, TypeOK, PhaseOK
    <2> QED BY <2>1 DEF FirstOK, RestoredOK
  <1>4. SegmentOK' /\ FilesOK'
    BY DEF SegmentOK, FilesOK, Writing
  <1>5. MemoryOK'
    BY DEF MemoryOK
  <1> QED BY <1>2, <1>3, <1>4, <1>5, Stutter

LEMMA SaveCheckpointStep ==
  ASSUME IInv, TInv', SaveCheckpoint
  PROVE  IInv' /\ LogStep
  <1>1. /\ pc = "save_checkpoint" /\ pc' = "commit"
        /\ UNCHANGED <<segs, storage, state, mem, seg, own, lastid, lastgen, call, applied,
                       acked>>
        /\ storage = "writable"
    BY DEF SaveCheckpoint, IInv, TInv, PhaseOK, Writing
  <1>2. cp' = cp
    <2>1. CASE seg = None
      <3>1. cp = Blank /\ mem = <<>>
        BY <1>1, <2>1 DEF IInv, FirstOK, Writing
      <3>2. cp' = [cp EXCEPT !.content = mem]
        BY <2>1 DEF SaveCheckpoint, SetFile, First, File
      <3> QED BY <3>1, <3>2 DEF Blank
    <2>2. CASE seg # None
      BY <2>2 DEF SaveCheckpoint, SetFile, First
    <2> QED BY <2>1, <2>2
  <1>3. seg # None => taking' = [taking EXCEPT !.content = mem]
    BY DEF SaveCheckpoint, SetFile, First, File
  <1> USE <1>1, <1>2, SameFiles DEF IInv
  <1>4. ReachedOK'
    OBVIOUS
  <1>5. FirstOK' /\ RestoredOK'
    BY DEF FirstOK, RestoredOK, Writing, NewSegment
  <1>6. SegmentOK'
    BY DEF SegmentOK, Writing
  <1>7. FilesOK'
    BY <1>3 DEF FilesOK, Writing
  <1>8. MemoryOK'
    BY DEF MemoryOK
  <1> QED BY <1>4, <1>5, <1>6, <1>7, <1>8, Stutter

LEMMA CommitStep ==
  ASSUME IInv, TInv', Commit
  PROVE  IInv' /\ LogStep
  <1>1. /\ pc = "commit" /\ own' = FALSE /\ storage = "writable"
        /\ pc' = IF seg = None THEN "new_segment" ELSE "rename"
        /\ UNCHANGED <<segs, storage, state, mem, seg, lastid, lastgen, call, applied,
                       acked>>
    BY DEF Commit, IInv, TInv, PhaseOK, Writing, First
  <1>2. CASE seg = None
    <2>1. cp = Blank /\ mem = <<>> /\ lastgen = 0 /\ state = "initial" /\ QuietFrom(0)
      BY <1>1, <1>2 DEF IInv, FirstOK, Writing
    <2>2. cp' = [Blank EXCEPT !.ok = TRUE] /\ taking' = taking
      BY <1>2, <2>1 DEF Commit, SetFile, First, File
    <2>3. /\ cp' \in Checkpoints /\ cp' # None /\ cp'.ok /\ cp'.next = 0
          /\ cp'.content = <<>>
      <3>1. cp' \in Checkpoints
        BY <2>2, CheckpointTypes
      <3> QED BY <2>2, <3>1, NoneAssumption DEF Blank
    <2>4. \A i \in Ids : Quiet(i)'
      <3>1. \A i \in Ids : i >= 0
        BY DEF Ids
      <3> QED BY <1>1, <2>1, <3>1, OfFiles, OfFilesNext DEF QuietFrom
    <2>5. Replayed' = <<>>
      <3>1. Files(cp', segs')
        BY <2>3 DEF Files, TInv, TypeOK
      <3> QED BY <2>4, <3>1, OfFilesNext, QuietReplay
    <2>6. Opens' /\ Recovered' = <<>>
      BY <2>3, <2>5, ConcatEmptySeq, SegmentTypes DEF Opens, Recovered
    <2>7. Recovered' = Recovered
      BY <1>1, <1>2, <2>6, NothingYet
    <2>8. ReachedOK' /\ QuietFrom(0)'
      BY <2>4, <2>6 DEF ReachedOK, QuietFrom
    <2>9. FirstOK' /\ RestoredOK'
      BY <1>1, <1>2, <2>1, <2>2, <2>8 DEF IInv, FirstOK, RestoredOK, Writing, NewSegment
    <2>10. SegmentOK' /\ FilesOK'
      BY <1>1, <1>2 DEF SegmentOK, FilesOK, Writing
    <2>11. MemoryOK'
      BY <1>1, <2>1, <2>7 DEF IInv, MemoryOK
    <2> QED BY <1>1, <2>7, <2>8, <2>9, <2>10, <2>11, Stutter DEF IInv
  <1>3. CASE seg # None
    <2>1. cp' = cp /\ taking' = [taking EXCEPT !.ok = TRUE]
      BY <1>3 DEF Commit, SetFile, First, File
    <2> USE <1>1, <1>3, <2>1, SameFiles DEF IInv
    <2>2. ReachedOK'
      OBVIOUS
    <2>3. FirstOK' /\ RestoredOK'
      BY DEF FirstOK, RestoredOK, Writing
    <2>4. SegmentOK'
      BY DEF SegmentOK, Writing
    <2>5. FilesOK'
      <3>1. taking = [next |-> seg, gen |-> lastgen, ok |-> FALSE, content |-> mem]
        BY DEF FilesOK, Writing
      <3>2. taking' = [next |-> seg, gen |-> lastgen, ok |-> TRUE, content |-> mem]
        BY <3>1
      <3> QED BY <3>2 DEF FilesOK, Writing
    <2>6. MemoryOK'
      BY DEF MemoryOK
    <2> QED BY <2>2, <2>3, <2>4, <2>5, <2>6, Stutter
  <1> QED BY <1>2, <1>3

LEMMA RenameStep ==
  ASSUME IInv, TInv', Rename
  PROVE  IInv' /\ LogStep
  <1>1. /\ pc = "rename" /\ pc' = "sync" /\ cp' = taking /\ taking' = None
        /\ UNCHANGED <<segs, storage, state, mem, seg, own, lastid, lastgen, call, applied,
                       acked>>
    BY DEF Rename
  <1>2. /\ seg \in Ids /\ seg # None /\ storage = "writable"
        /\ QuietFrom(seg + 1) /\ segs[seg] \in Segments /\ segs[seg].ok
        /\ segs[seg].recs = <<>> /\ segs[seg].gen = lastgen
        /\ taking = [next |-> seg, gen |-> lastgen, ok |-> TRUE, content |-> mem]
        /\ lastgen \in Nat /\ mem \in Seq(Ops) /\ state \in {"restored", "active"}
    BY <1>1 DEF IInv, TInv, TypeOK, PhaseOK, SegmentOK, FilesOK, FirstOK, Writing
  <1>3. /\ cp'.next = seg /\ cp'.gen = lastgen /\ cp'.content = mem /\ cp'.ok
        /\ cp' # None /\ Files(cp', segs')
    <2>1. cp' # None /\ cp' \in Checkpoints
      BY <1>1 DEF IInv, TInv, TypeOK, PhaseOK
    <2> QED BY <1>1, <1>2, <2>1 DEF Files, TInv, TypeOK
  <1>4. \A i \in Ids : i >= seg => QuietIn(segs', i) /\ Quiet(i)'
    <2>1. QuietIn(segs, seg)
      BY <1>2, RecordsType DEF QuietIn
    <2>2. \A i \in Ids : i >= seg + 1 => QuietIn(segs, i)
      BY <1>2, OfFiles DEF QuietFrom
    <2>3. \A i \in Ids : i >= seg => i = seg \/ i >= seg + 1
      BY <1>2 DEF Ids
    <2> QED BY <1>1, <2>1, <2>2, <2>3, OfFilesNext
  <1>5. ReplayedOf(cp', segs') = <<>>
    BY <1>3, <1>4, QuietReplay
  <1>6. Replayed' = <<>> /\ Opens' /\ Recovered' = mem
    BY <1>2, <1>3, <1>5, OfFilesNext, ConcatEmptySeq DEF Opens, Recovered
  <1>7. seg \in Chain'
    <2>1. seg >= cp'.next /\ cp'.next..(seg - 1) = {}
      BY <1>2, <1>3 DEF Ids
    <2>2. Len(ReplayedOf(cp', segs')) = 0
      BY <1>5
    <2>3. segs'[seg] \in Segments /\ segs'[seg].ok
      BY <1>1, <1>2
    <2>4. segs'[seg].gen = cp'.gen + Len(ReplayedOf(cp', segs'))
      BY <1>1, <1>2, <1>3, <2>2
    <2>5. cp'.next..(seg - 1) \subseteq ChainOf(cp', segs')
      BY <2>1
    <2>6. \A i \in Ids : i >= seg => QuietIn(segs', i)
      BY <1>4
    <2>7. seg \in ChainOf(cp', segs')
      BY <1>2, <1>3, <2>1, <2>3, <2>4, <2>5, <2>6, NewOnChain
    <2> QED BY <2>7, OfFilesNext
  <1>8. ReachedOK'
    BY <1>3, <1>4, <1>6 DEF ReachedOK
  <1>9. FirstOK' /\ RestoredOK'
    BY <1>1, <1>2 DEF FirstOK, RestoredOK
  <1>10. SegmentOK'
    <2>1. QuietFrom(seg + 1)'
      <3>1. \A i \in Ids : i >= seg + 1 => i >= seg
        BY <1>2 DEF Ids
      <3> QED BY <1>1, <1>4, <3>1 DEF QuietFrom
    <2>2. lastgen' = cp'.gen + Len(Replayed')
      BY <1>1, <1>2, <1>3, <1>6
    <2>3. \A k \in DOMAIN segs'[seg'].recs : segs'[seg'].recs[k] # Torn
      BY <1>1, <1>2 DEF IInv, SegmentOK
    <2> QED BY <1>1, <1>2, <1>6, <1>7, <2>1, <2>2, <2>3 DEF SegmentOK
  <1>11. FilesOK'
    BY <1>1, <1>3, <1>6 DEF FilesOK, Writing
  <1>12. IsPrefix(Recovered, mem) /\ IsPrefix(acked, Recovered)
    <2>1. state = "active" => Recovered = mem
      BY <1>1 DEF IInv, MemoryOK
    <2> QED BY <1>2, <2>1, PrefixSelf DEF IInv, MemoryOK
  <1>13. /\ Recovered \in Seq(Ops) /\ acked \in Seq(Ops)
         /\ IsPrefix(acked, mem) /\ IsPrefix(mem, mem)
    <2>1. Recovered \in Seq(Ops) /\ acked \in Seq(Ops)
      BY RecoveredType DEF IInv, TInv, TypeOK
    <2> QED BY <1>2, <1>12, <2>1, PrefixTrans, PrefixSelf
  <1>14. MemoryOK'
    <2>1. call # "restore" /\ (state = "active" => acked = mem)
      BY <1>2 DEF IInv, TInv, PhaseOK, MemoryOK
    <2> QED BY <1>1, <1>6, <1>13, <2>1 DEF MemoryOK
  <1>15. LogStep
    BY <1>1, <1>2, <1>6, <1>12, <1>13, Extends
  <1> QED BY <1>8, <1>9, <1>10, <1>11, <1>14, <1>15 DEF IInv

LEMMA CheckpointFailsStep ==
  ASSUME IInv, TInv', CheckpointFails \/ RollbackFails
  PROVE  IInv' /\ LogStep
  <1>1. /\ pc \in {"save_checkpoint", "commit", "rename"} /\ pc' = "idle"
        /\ call' = "none" /\ storage = "writable"
        /\ UNCHANGED <<segs, storage, state, mem, seg, lastid, lastgen, applied, acked>>
    BY DEF CheckpointFails, RollbackFails, Return, IInv, TInv, TypeOK, PhaseOK, Writing
  <1>2. CASE seg = None
    <2>1. cp' = None /\ QuietFrom(0) /\ state = "initial" /\ mem = <<>> /\ lastgen = 0
      BY <1>1, <1>2 DEF CheckpointFails, RollbackFails, SetFile, First, IInv, FirstOK
    <2>2. ~Opens' /\ Recovered' = <<>> /\ Recovered = <<>>
      BY <1>1, <1>2, <2>1, NothingYet DEF Opens, Recovered
    <2>3. QuietFrom(0)'
      BY <1>1, <2>1, OfFiles, OfFilesNext DEF QuietFrom
    <2>4. ReachedOK' /\ FirstOK' /\ RestoredOK'
      BY <1>1, <1>2, <2>1, <2>2, <2>3 DEF ReachedOK, FirstOK, RestoredOK, Writing, NewSegment
    <2>5. SegmentOK' /\ FilesOK'
      BY <1>1, <1>2 DEF SegmentOK, FilesOK, Writing
    <2>6. MemoryOK'
      BY <1>1, <2>1, <2>2 DEF IInv, MemoryOK
    <2> QED BY <1>1, <2>2, <2>4, <2>5, <2>6, Stutter DEF IInv
  <1>3. CASE seg # None
    <2>1. cp' = cp
      BY <1>3 DEF CheckpointFails, RollbackFails, SetFile, First
    <2> USE <1>1, <1>3, <2>1, SameFiles DEF IInv
    <2>2. ReachedOK'
      OBVIOUS
    <2>3. FirstOK' /\ RestoredOK'
      BY DEF FirstOK, RestoredOK
    <2>4. SegmentOK' /\ FilesOK'
      BY DEF SegmentOK, FilesOK, Writing
    <2>5. MemoryOK'
      BY DEF MemoryOK
    <2> QED BY <2>2, <2>3, <2>4, <2>5, Stutter
  <1> QED BY <1>2, <1>3

-----------------------------------------------------------------------------
(* The theorems *)

LEMMA InitIInv == Init => IInv /\ Log!Init
  <1> SUFFICES ASSUME Init PROVE IInv /\ Log!Init
    OBVIOUS
  <1>1. TInv
    BY InitTInv
  <1>2. ~Opens /\ Recovered = <<>>
    BY DEF Init, Opens, Recovered
  <1>3. ReachedOK
    BY <1>2 DEF Init, ReachedOK, QuietFrom, Quiet
  <1>4. FirstOK /\ RestoredOK /\ SegmentOK /\ FilesOK
    BY DEF Init, FirstOK, RestoredOK, SegmentOK, FilesOK, Writing
  <1>5. IsPrefix(<<>>, <<>>)
    BY SegmentTypes, PrefixSelf
  <1>6. MemoryOK /\ Log!Init
    BY <1>2, <1>5 DEF Init, MemoryOK, Log!Init
  <1> QED BY <1>1, <1>3, <1>4, <1>6 DEF IInv

LEMMA NextIInv == NoCloseLeftOpen /\ IInv /\ [Next]_vars => IInv' /\ LogStep
  <1> SUFFICES ASSUME NoCloseLeftOpen, IInv, [Next]_vars PROVE IInv' /\ LogStep
    OBVIOUS
  <1>1. TInv'
    BY NextTInv DEF IInv
  <1>2. CASE UNCHANGED vars
    <2>1. UNCHANGED <<cp, segs>>
      BY <1>2 DEF vars
    <2>2. ReachedOK' /\ FirstOK' /\ RestoredOK'
      BY <1>2, <2>1, SameFiles DEF vars, IInv, FirstOK, RestoredOK
    <2>3. SegmentOK' /\ FilesOK'
      BY <1>2, <2>1, SameFiles DEF vars, IInv, SegmentOK, FilesOK, Target
    <2>4. MemoryOK'
      BY <1>2, <2>1, SameFiles DEF vars, IInv, MemoryOK
    <2> QED BY <1>1, <1>2, <2>1, <2>2, <2>3, <2>4, SameFiles, Stutter DEF vars, IInv
  <1>3. CASE Open \/ SetJournal \/ DropJournal \/ ApplyOnly \/ Apply \/ TakeCheckpoint
    BY <1>1, <1>3, OpenStep, SetJournalStep, IdleStep, ApplyOnlyStep, ApplyStep
  <1>4. ASSUME NEW connect \in BOOLEAN, Restore(connect) PROVE IInv' /\ LogStep
    BY <1>1, <1>4, RestoreStep
  <1>5. CASE Store \/ Clean \/ Close \/ Crash \/ CrashInRecord
    BY <1>1, <1>5, StoreStep, CleanStep, CloseStep, CrashStep, CrashInRecordStep
  <1>6. CASE CreateSegment \/ InitSegment \/ ReplaceSegment \/ UseSegment \/ SegmentFails
    BY <1>1, <1>6, NewSegmentStep, UseSegmentStep, SegmentFailsStep
  <1>7. CASE \/ CreateCheckpointFails \/ InitCheckpoint \/ InitCheckpointFails
             \/ Sync \/ SyncFails
    BY <1>1, <1>7, CheckpointQuietStep
  <1>8. CASE \/ Create \/ CreateCheckpoint \/ SaveCheckpoint \/ Commit \/ Rename
             \/ CheckpointFails \/ RollbackFails
    BY <1>1, <1>8, CreateStep, CreateCheckpointStep, SaveCheckpointStep, CommitStep,
       RenameStep, CheckpointFailsStep
  <1> QED BY <1>2, <1>3, <1>4, <1>5, <1>6, <1>7, <1>8 DEF Next

\* What is applied while a journal is active is what a restore would deliver,
\* however often checkpoints failed, records were torn, or the process died and
\* started again before, for any number of operations and segments: as long as no
\* storage is closed while a later checkpoint is left open.
THEOREM RestoreDeliversMemory ==
  ASSUME NoCloseLeftOpen
  PROVE  Spec => []MemoryIsRecoverable
  <1>1. IInv => MemoryIsRecoverable
    BY DEF IInv, MemoryOK, MemoryIsRecoverable
  <1>2. IInv /\ [Next]_vars => IInv'
    BY NextIInv
  <1>3. Init => IInv
    BY InitIInv
  <1> QED BY <1>1, <1>2, <1>3, PTL DEF Spec

\* The files are a log that only grows: whatever fails, wherever the process
\* dies, no step takes back what a restore would deliver, and what was reported
\* as journalled is a prefix of it, as long as no storage is closed while a later
\* checkpoint is left open.
THEOREM JournalIsDurable ==
  ASSUME NoCloseLeftOpen
  PROVE  Spec => Implements
  <1>1. IInv /\ [Next]_vars => IInv' /\ [Log!Next]_(Log!vars)
    BY NextIInv DEF LogStep
  <1> QED BY <1>1, InitIInv, PTL DEF Spec, Implements, Log!Spec

\* Once an operation was reported as journalled there is a consistent checkpoint
\* file at every moment, the renaming of checkpoints included, as long as no
\* storage is closed while a later checkpoint is left open.
THEOREM ConsistentCheckpointKept ==
  ASSUME NoCloseLeftOpen
  PROVE  Spec => []OneConsistent
  <1>1. IInv => OneConsistent
    <2>1. SUFFICES ASSUME IInv, ~Opens PROVE acked = <<>>
      BY DEF OneConsistent
    <2>2. IsPrefix(acked, <<>>)
      BY <2>1 DEF IInv, MemoryOK, Recovered
    <2>3. acked \in Seq(Ops) /\ <<>> \in Seq(Ops) /\ Len(<<>>) = 0
      BY <2>1, SegmentTypes DEF IInv, TInv, TypeOK
    <2>4. Len(acked) <= 0
      BY <2>2, <2>3, PrefixIs
    <2> QED BY <2>3, <2>4
  <1>2. IInv /\ [Next]_vars => IInv'
    BY NextIInv
  <1>3. Init => IInv
    BY InitIInv
  <1> QED BY <1>1, <1>2, <1>3, PTL DEF Spec
=============================================================================
