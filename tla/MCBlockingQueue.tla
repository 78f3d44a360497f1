--------------------------- MODULE MCBlockingQueue ---------------------------
(***************************************************************************)
(* Instances of BlockingQueue for TLC.                                     *)
(***************************************************************************)
EXTENDS BlockingQueue, TLC

Alike == Permutations(Producers) \cup Permutations(Consumers)
             \cup Permutations(Controllers)
==============================================================================
