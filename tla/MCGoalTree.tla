----------------------------- MODULE MCGoalTree -----------------------------
(* One recurring template that always has a next run and one that runs     *)
(* out of them, a goal that delegates, two callers.  The budgets are the   *)
(* cases: schedules that are changed, stopped or met by a crash, agents    *)
(* that are spawned at the same time, after a crash or after one has been  *)
(* stopped, events that are compacted.                                     *)
EXTENDS GoalTree

AnyValue == [kind |-> "any", step |-> 0, values |-> {}]
Only(v) == [kind |-> "list", step |-> 0, values |-> {v}]

Often  == [minute |-> [kind |-> "step", step |-> 2, values |-> {}], hour |-> AnyValue]
Rarely == [minute |-> Only(1), hour |-> Only(0)]

MCSchedule == {Often, Rarely}

NoBudget == [kind \in {"opens", "updates", "cancels", "spawns", "events",
                       "turns", "faults", "crashes"} |-> 0]

MCBudgets ==
    {[NoBudget EXCEPT !.opens = 1, !.updates = 1, !.crashes = 1],
     [NoBudget EXCEPT !.opens = 1, !.cancels = 2],
     [NoBudget EXCEPT !.opens = 1, !.turns = 1, !.faults = 1],
     [NoBudget EXCEPT !.opens = 1, !.spawns = 1],
     [NoBudget EXCEPT !.spawns = 2, !.crashes = 1],
     [NoBudget EXCEPT !.spawns = 2, !.turns = 1],
     [NoBudget EXCEPT !.spawns = 1, !.events = 2, !.turns = 1, !.faults = 1]}
=============================================================================
