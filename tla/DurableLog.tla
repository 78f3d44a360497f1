------------------------------ MODULE DurableLog ------------------------------
(***************************************************************************)
(* What a journal promises (pcomn_journal/journal.h): the operations that  *)
(* a restore would deliver form a log that only grows, whatever is written, *)
(* cleaned up, interrupted or reopened in between, and every operation     *)
(* that was reported as applied is in it.                                  *)
(***************************************************************************)
EXTENDS Sequences, SequencesExt

CONSTANT Ops \* the operations, each applied at most once

VARIABLES log,   \* what a restore would deliver
          acked  \* what the program has been told is in the journal

vars == <<log, acked>>

Init == log = <<>> /\ acked = <<>>

\* An operation is written, or a checkpoint with operations that were not.
Extend == /\ IsStrictPrefix(log, log')
          /\ Range(log') \subseteq Ops
          /\ UNCHANGED acked

\* The program learns of everything written so far.
Acknowledge == acked' = log /\ UNCHANGED log

Next == Extend \/ Acknowledge

Spec == Init /\ [][Next]_vars
==============================================================================
