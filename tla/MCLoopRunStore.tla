---------------------------- MODULE MCLoopRunStore -----------------------------
(* Two drivers and one control command on one loop_runs row. *)
EXTENDS LoopRunStore, TLC

CONSTANTS d1, d2, c1

MCDriver == {d1, d2}
MCController == {c1}
MCEvidence == {{}, {"retry", "delivery"}, {"resource"}}
Symmetry == Permutations(MCDriver)
================================================================================
