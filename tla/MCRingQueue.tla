----------------------------- MODULE MCRingQueue -----------------------------
(***************************************************************************)
(* Instances of RingQueue for TLC.                                         *)
(***************************************************************************)
EXTENDS RingQueue, TLC

Alike == Permutations(Producers) \cup Permutations(Consumers)
==============================================================================
