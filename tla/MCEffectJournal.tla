---------------------------- MODULE MCEffectJournal ----------------------------
(* Three invocations of one effect key. *)
EXTENDS EffectJournal, TLC

CONSTANTS c1, c2, c3

MCCall == {c1, c2, c3}
Symmetry == Permutations(MCCall)
================================================================================
