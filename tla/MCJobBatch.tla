------------------------------ MODULE MCJobBatch ------------------------------
(***************************************************************************)
(* Instances of JobBatch for TLC.                                          *)
(***************************************************************************)
EXTENDS JobBatch

\* The waits go through run().
WaitAndStop == {"wait", "try_wait", "wait_for", "stop"}
==============================================================================
