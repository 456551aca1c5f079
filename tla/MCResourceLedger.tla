--------------------------- MODULE MCResourceLedger ----------------------------
(* Value sets for the runs of ResourceLedger. *)
EXTENDS ResourceLedger

CONSTANTS d1, d2, g1, g2, g3

TwoDrivers == {d1, d2}
ThreeGrants == {g1, g2, g3}

\* An estimate, and usage below and above it.
Requests == {[tokens |-> 2, cost |-> 1]}
Reports == {[tokens |-> 1, cost |-> 0], [tokens |-> 3, cost |-> 2]}
================================================================================
