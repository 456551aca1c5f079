------------------------------- MODULE LoopGraph -------------------------------
(****************************************************************************)
(* The vocabulary of the loop contracts: graph nodes, persisted stop states *)
(* and the edges of the default state graph (loop_contracts.py).  Every     *)
(* LoopRun is created with this graph, and LoopRunStore.transition refuses  *)
(* a step that is not one of its edges.                                     *)
(****************************************************************************)

\* LoopNode: where an active LoopRun stands.
LoopNode == {"plan", "execute", "evaluate", "reflect", "escalate", "pause"}

\* SUSPENDED_LOOP_STATES: parked, may be reopened by an explicit resume.
Suspended == {"paused", "waiting_approval"}

\* FINAL_LOOP_STATES: every other persisted stop state.
Final == {"converged", "blocked", "failed", "cancelled", "superseded",
          "conflicted", "timed_out"}

\* The empty terminal_state column of an active run.
Active == ""

\* LoopTerminalState, with the empty value of an active run.
TerminalState == {Active} \cup Suspended \cup Final

\* LoopRunState.is_stopped: final or suspended.
IsStopped(terminal) == terminal \in Suspended \cup Final

\* default_state_graph: <<source, target, condition>>.
BaseEdges ==
  { <<"plan", "execute", "plan_ready">>,
    <<"plan", "escalate", "needs_user_or_approval">>,
    <<"plan", "pause", "resource_pause">>,
    <<"plan", "escalate", "resource_escalate">>,
    <<"plan", "blocked", "resource_blocked">>,
    <<"plan", "reflect", "planner_failed">>,
    <<"plan", "failed", "planner_failed">>,
    <<"execute", "evaluate", "side_effect_recorded">>,
    <<"execute", "reflect", "capability_failed">>,
    <<"execute", "timed_out", "hard_timeout">>,
    <<"execute", "pause", "resource_pause">>,
    <<"execute", "escalate", "resource_escalate">>,
    <<"execute", "escalate", "approval_required">>,
    <<"execute", "blocked", "repeated_progress_signature">>,
    <<"execute", "blocked", "resource_blocked">>,
    <<"evaluate", "converged", "checker_passed">>,
    <<"evaluate", "plan", "continue_iteration">>,
    <<"evaluate", "reflect", "checker_failed">>,
    <<"evaluate", "conflicted", "merge_conflict">>,
    <<"evaluate", "timed_out", "hard_timeout">>,
    <<"evaluate", "pause", "resource_pause">>,
    <<"evaluate", "escalate", "resource_escalate">>,
    <<"evaluate", "escalate", "side_effect_commit_required">>,
    <<"evaluate", "blocked", "resource_blocked">>,
    <<"evaluate", "blocked", "no_route_available">>,
    <<"reflect", "plan", "new_route_available">>,
    <<"reflect", "blocked", "no_route_available">>,
    <<"reflect", "failed", "checker_rejected">>,
    <<"escalate", "waiting_approval", "approval_required">>,
    <<"escalate", "waiting_approval", "resource_escalate">>,
    <<"pause", "paused", "resource_or_user_pause">> }

ControlEdges ==
  { <<n, "cancelled", "cancel_requested">> : n \in LoopNode }
    \cup { <<n, "superseded", "superseded">> : n \in LoopNode }

DefaultStateGraph == BaseEdges \cup ControlEdges

\* _transition_allowed without a condition: some edge joins the two.
Connected(source, target) ==
  \E e \in DefaultStateGraph : e[1] = source /\ e[2] = target

\* _transition_allowed with the condition the caller names.
TransitionAllowed(source, target, condition) ==
  <<source, target, condition>> \in DefaultStateGraph

================================================================================
