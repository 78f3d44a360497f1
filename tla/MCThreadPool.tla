----------------------------- MODULE MCThreadPool -----------------------------
(***************************************************************************)
(* Instances of ThreadPool for TLC.                                        *)
(***************************************************************************)
EXTENDS ThreadPool

EveryCall == {"resize", "push", "clear", "stop", "complete"}
PushAndStop == {"push", "stop", "complete"}
==============================================================================
