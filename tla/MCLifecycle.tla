------------------------------ MODULE MCLifecycle ------------------------------
(* Lifecycle with the stop states that project differently. *)
EXTENDS Lifecycle, TLC

MCOutcome == {"converged", "waiting_approval"}

DriverSymmetry == Permutations(Driver)

================================================================================
