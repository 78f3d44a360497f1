------------------------------- MODULE MCJournal -------------------------------
(***************************************************************************)
(* Instances of Journal for TLC.                                           *)
(***************************************************************************)
EXTENDS Journal
==============================================================================
