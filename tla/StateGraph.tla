------------------------------ MODULE StateGraph -------------------------------
(****************************************************************************)
(* DurableStateGraphRunner (state_graph.py): how one LoopRun is driven      *)
(* through PLAN, EXECUTE, EVALUATE and REFLECT, what it persists on the     *)
(* way, and what a later driver finds when the run was paused, handed to a  *)
(* user, or its process died.                                               *)
(*                                                                          *)
(* LoopRunStoreProofs shows that one driver at a time advances a LoopRun    *)
(* and that its transitions are indivisible, so there is one driver here    *)
(* and each transition is one step.  A phase of the graph decides at once   *)
(* which transitions it will write; they are then written one by one        *)
(* (`chain`), and the process may die between any two of them.              *)
(*                                                                          *)
(* Of the durable evidence the module keeps the four keys recovery reads.   *)
(* Plans are numbered in the order they are made, and a capability result,  *)
(* a candidate response and a released response carry the number of their   *)
(* plan (0: there is none).                                                 *)
(****************************************************************************)
EXTENDS Integers, Sequences, LoopGraph

CONSTANTS
  MaxAttempts,  \* retry_policy.max_attempts
  MaxRetries,   \* provider_transport_max_retries
  RepeatLimit,  \* executions with one progress signature that block a loop
  PhaseGates,   \* account_phase_gates: phase gates reserve resources
  Modes,        \* execution modes the loop may have been created with
  Resumable,    \* the kinds of suspension a user or an approval resumes
  MaxDenials,   \* bound on refusals of the resource gateway
  MaxCrashes,   \* bound on process deaths
  MaxResumes,   \* bound on resumes by a user or an approval
  MaxPlans      \* bound on the plans made

Why == {"none", "resource", "transport", "lock", "yield", "approval"}

ASSUME BoundAssumption ==
  /\ MaxAttempts \in Nat \ {0} /\ MaxRetries \in Nat /\ RepeatLimit \in Nat
  /\ MaxDenials \in Nat /\ MaxCrashes \in Nat /\ MaxResumes \in Nat
  /\ MaxPlans \in Nat
ASSUME ChoiceAssumption ==
  /\ PhaseGates \in BOOLEAN
  /\ Modes \subseteq {"background", "foreground"}
  /\ Resumable \subseteq Why

VARIABLES
  row,      \* the LoopRun: node, stop state, attempt, durable evidence
  ckpt,     \* planned_capability of the latest EXECUTE checkpoint
  mode,     \* execution_mode of the loop
  ladder,   \* its verification ladder: one command, or the semantic checker
  driving,  \* a driver runs the loop
  mem,      \* the driver's planned step and collected_evidence
  chain,    \* transitions the driver has decided on and not written yet
  why,      \* what the last suspension was about (history)
  plans,    \* plans made so far (history)
  last,     \* the last capability call: its attempt and its plan (history)
  spent     \* refusals, deaths and resumes so far (bounds)

vars == <<row, ckpt, mode, ladder, driving, mem, chain, why, plans, last, spent>>

PhaseNode == {"plan", "execute", "evaluate"}

NoGate == [role |-> "none", count |-> 0]

\* retry_gate: whose provider call failed, and how often in a row.
Gate == {NoGate} \cup [role: {"planner", "checker"}, count: Nat \ {0}]

\* A capability result; chat: a response that is a candidate for the user.
Result == [plan: Nat, chat: BOOLEAN]

NoResult == [plan |-> 0, chat |-> FALSE]

\* planned_capability, executor, retry_gate, and the resume node of a
\* resource_grant whose decision is to pause.
Evidence == [planned: Nat, executor: Result, gate: Gate,
             grant: PhaseNode \cup {"none"}]

Row == [node: LoopNode, terminal: TerminalState, attempt: Nat,
        evidence: Evidence]

\* responded: released to the user; runs: length of attempt_history.
Memory == [plan: Nat, result: Result, candidate: Nat, responded: Nat,
           gate: Gate, runs: Nat]

NoMemory == [plan |-> 0, result |-> NoResult, candidate |-> 0, responded |-> 0,
             gate |-> NoGate, runs |-> 0]

\* The conditions the runner names on its transitions.
Condition ==
  { "plan_ready", "planner_failed", "missing_planned_capability",
    "side_effect_recorded", "capability_failed", "repeated_progress_signature",
    "checker_passed", "checker_failed", "checker_rejected", "merge_conflict",
    "side_effect_commit_required", "approval_required", "hard_timeout",
    "continue_iteration", "new_route_available", "no_route_available",
    "resource_pause", "resource_or_user_pause", "resource_escalate",
    "resource_blocked" }

\* A decided transition: target, edge condition, the evidence after it.
Step == [to: LoopNode \cup Suspended \cup Final, condition: Condition,
         evidence: Evidence]

Init ==
  /\ row = [node |-> "plan", terminal |-> Active, attempt |-> 1,
            evidence |-> [planned |-> 0, executor |-> NoResult,
                          gate |-> NoGate, grant |-> "none"]]
  /\ ckpt = 0
  /\ mode \in Modes
  /\ ladder \in {"command", "checker"}
  /\ driving = FALSE
  /\ mem = NoMemory
  /\ chain = <<>>
  /\ why = "none"
  /\ plans = 0
  /\ last = [attempt |-> 0, plan |-> 0]
  /\ spent = [denials |-> 0, crashes |-> 0, resumes |-> 0]

--------------------------------------------------------------------------------
\* Writing transitions.

T(to, condition, evidence) ==
  [to |-> to, condition |-> condition, evidence |-> evidence]

\* Mutant: only REFLECT -> PLAN consumes an attempt.
NextAttemptReflectOnly(to) ==
  IF row.node = "reflect" /\ to = "plan" THEN row.attempt + 1 ELSE row.attempt

\* REFLECT -> PLAN and EVALUATE -> PLAN consume an attempt.
NextAttempt(to) ==
  IF row.node \in {"reflect", "evaluate"} /\ to = "plan"
  THEN row.attempt + 1 ELSE row.attempt

\* _transition of the next decided step.
Transition ==
  /\ driving /\ chain # <<>>
  /\ LET t == Head(chain) IN
       /\ TransitionAllowed(row.node, t.to, t.condition)
       /\ row' = [node     |-> IF t.to \in LoopNode THEN t.to ELSE row.node,
                  terminal |-> IF t.to \in LoopNode THEN Active ELSE t.to,
                  attempt  |-> NextAttempt(t.to),
                  evidence |-> t.evidence]
  /\ chain' = Tail(chain)
  /\ UNCHANGED <<ckpt, mode, ladder, driving, mem, why, plans, last, spent>>

\* The run raised: fail_active_run stops the loop.
Failed ==
  /\ row' = [row EXCEPT !.terminal = "failed"]
  /\ driving' = FALSE
  /\ chain' = <<>>
  /\ mem' = NoMemory

\* "LoopRun transition is not allowed by LoopSpec.state_graph".
Refused ==
  /\ driving /\ chain # <<>>
  /\ ~TransitionAllowed(row.node, Head(chain).to, Head(chain).condition)
  /\ Failed
  /\ UNCHANGED <<ckpt, mode, ladder, why, plans, last, spent>>

\* The driver stands at the beginning of a phase.
At(node) == driving /\ chain = <<>> /\ row.terminal = Active /\ row.node = node

\* An exception no phase handles.
Raises ==
  /\ \E node \in PhaseNode : At(node)
  /\ Failed
  /\ UNCHANGED <<ckpt, mode, ladder, why, plans, last, spent>>

PauseWith(evidence) ==
  << T("pause", "resource_pause", evidence),
     T("paused", "resource_or_user_pause", evidence) >>

\* REFLECT, and another planning pass or a stop state.
ReflectThen(condition, replan, stop, stopCondition, evidence) ==
  << T("reflect", condition, evidence),
     IF replan THEN T("plan", "new_route_available", evidence)
               ELSE T(stop, stopCondition, evidence) >>

AttemptsLeft == row.attempt < MaxAttempts

\* _stop_for_resource_grant: resource_grant is overwritten whatever it decided.
Denied(node) ==
  /\ At(node)
  /\ spent.denials < MaxDenials
  /\ spent' = [spent EXCEPT !.denials = @ + 1]
  /\ LET paused  == [row.evidence EXCEPT !.grant = node]
         refused == [row.evidence EXCEPT !.grant = "none"]
     IN  \/ chain' = PauseWith(paused) /\ why' = "resource"
         \/ /\ chain' = << T("escalate", "resource_escalate", refused),
                           T("waiting_approval", "resource_escalate", refused) >>
            /\ why' = "approval"
         \/ /\ chain' = << T("blocked", "resource_blocked", refused) >>
            /\ UNCHANGED why
  /\ UNCHANGED <<row, ckpt, mode, ladder, driving, mem, plans, last>>

--------------------------------------------------------------------------------
\* Provider transport retries.

\* Mutant: a further failure starts counting again.
NextRetryGateForgetful(role) == [role |-> role, count |-> 1]

\* _next_provider_transport_retry_gate_for_facts of a retryable failure:
\* role-scoped and bounded.
NextRetryGate(role) ==
  LET prior == IF mem.gate.role = role THEN mem.gate.count ELSE 0
  IN  IF prior >= MaxRetries THEN NoGate ELSE [role |-> role, count |-> prior + 1]

\* Mutant: a recovered role's gate is archived in memory and stays in the row.
ClearanceForgotten(role, evidence) == evidence

\* The persisted gate once the role recovered: cleared where the driver knew
\* of it (_clear_provider_transport_retry_gate and its clearance evidence).
Clearance(role, evidence) ==
  IF mem.gate.role = role THEN [evidence EXCEPT !.gate = NoGate] ELSE evidence

Recovered(role) == IF mem.gate.role = role THEN NoGate ELSE mem.gate

\* _pause_for_provider_transport_retry
TransportPause(role, evidence) ==
  /\ NextRetryGate(role) # NoGate
  /\ chain' = PauseWith([evidence EXCEPT !.gate = NextRetryGate(role)])
  /\ mem' = [mem EXCEPT !.gate = NextRetryGate(role)]
  /\ why' = "transport"

--------------------------------------------------------------------------------
\* PLAN

\* Mutant: a step left over from an earlier pass is kept.
PlanReadyKeepingStep ==
  /\ At("plan")
  /\ plans < MaxPlans
  /\ plans' = plans + 1
  /\ chain' = << T("execute", "plan_ready",
                   Clearance("planner", [row.evidence EXCEPT !.planned = plans + 1])) >>
  /\ mem' = [mem EXCEPT !.plan = IF @ = 0 THEN plans + 1 ELSE @,
                        !.gate = Recovered("planner")]
  /\ UNCHANGED <<row, ckpt, mode, ladder, driving, why, last, spent>>

\* The planner returns one step.
PlanReady ==
  /\ At("plan")
  /\ plans < MaxPlans
  /\ plans' = plans + 1
  /\ chain' = << T("execute", "plan_ready",
                   Clearance("planner", [row.evidence EXCEPT !.planned = plans + 1])) >>
  /\ mem' = [mem EXCEPT !.plan = plans + 1, !.gate = Recovered("planner")]
  /\ UNCHANGED <<row, ckpt, mode, ladder, driving, why, last, spent>>

\* A transport failure pauses the loop while the role's budget lasts; after
\* that, and when it is not retryable, the loop fails.
PlannerTransportFailure ==
  /\ At("plan")
  /\ \/ TransportPause("planner", row.evidence)
     \/ /\ chain' = << T("failed", "planner_failed", row.evidence) >>
        /\ UNCHANGED <<mem, why>>
  /\ UNCHANGED <<row, ckpt, mode, ladder, driving, plans, last, spent>>

\* Malformed structured output uses the ordinary attempt budget.
PlannerMalformed ==
  /\ At("plan")
  /\ chain' = IF AttemptsLeft
              THEN ReflectThen("planner_failed", TRUE, "failed", "planner_failed",
                               row.evidence)
              ELSE << T("failed", "planner_failed", row.evidence) >>
  /\ UNCHANGED <<row, ckpt, mode, ladder, driving, mem, why, plans, last, spent>>

--------------------------------------------------------------------------------
\* EXECUTE

\* No planned step could be restored.
MissingPlan ==
  /\ At("execute")
  /\ mem.plan = 0
  /\ chain' = << T("reflect", "missing_planned_capability", row.evidence),
                 T("failed", "checker_rejected", row.evidence) >>
  /\ UNCHANGED <<row, ckpt, mode, ladder, driving, mem, why, plans, last, spent>>

\* The checkpoint is written and the capability is called.
Called ==
  /\ At("execute")
  /\ mem.plan # 0
  /\ ckpt' = mem.plan
  /\ last' = [attempt |-> row.attempt, plan |-> mem.plan]

\* Mutant: a result without chat text leaves an earlier candidate in place.
CollectedKeepingCandidate(action) ==
  [mem EXCEPT !.result    = [plan |-> mem.plan, chat |-> action = "chat"],
              !.candidate = IF action = "chat" THEN mem.plan ELSE mem.candidate,
              !.responded = IF action = "ask" THEN mem.plan ELSE 0,
              !.runs      = @ + 1]

\* What the driver collects from a result: ask text is released, chat text is
\* a candidate, and what an earlier result left of either is dropped.
Collected(action) ==
  [mem EXCEPT !.result    = [plan |-> mem.plan, chat |-> action = "chat"],
              !.candidate = IF action = "chat" THEN mem.plan ELSE 0,
              !.responded = IF action = "ask" THEN mem.plan ELSE 0,
              !.runs      = @ + 1]

\* The call raises out of the executor.
ExecuteRaises ==
  /\ Called
  /\ Failed
  /\ UNCHANGED <<mode, ladder, why, plans, spent>>

\* The same progress signature once too often.
ExecuteRepeated ==
  /\ Called
  /\ mem.runs + 1 >= RepeatLimit
  /\ \E action \in {"ask", "chat", "other"} : mem' = Collected(action)
  /\ chain' = << T("blocked", "repeated_progress_signature", row.evidence) >>
  /\ UNCHANGED <<row, mode, ladder, driving, why, plans, spent>>

\* The capability yields control: to the user or a connector, or to an
\* approval.
ExecuteYields ==
  /\ Called
  /\ \/ /\ \E action \in {"ask", "other"} : mem' = Collected(action)
        /\ chain' = PauseWith(row.evidence)
        /\ why' = "yield"
     \/ /\ \E action \in {"chat", "other"} : mem' = Collected(action)
        /\ chain' = << T("escalate", "approval_required", row.evidence),
                       T("waiting_approval", "approval_required", row.evidence) >>
        /\ why' = "approval"
  /\ UNCHANGED <<row, mode, ladder, driving, plans, spent>>

\* Collecting comes first: also a failed result leaves its chat text.
ExecuteFails ==
  /\ Called
  /\ \E action \in {"chat", "other"} : mem' = Collected(action)
  /\ chain' = ReflectThen("capability_failed", AttemptsLeft, "blocked",
                          "no_route_available", row.evidence)
  /\ UNCHANGED <<row, mode, ladder, driving, why, plans, spent>>

\* Mutant: EXECUTE -> EVALUATE without the capability result.
ExecutedEvidenceDropped(action) == row.evidence

\* The result travels with EXECUTE -> EVALUATE.
ExecutedEvidence(action) ==
  [row.evidence EXCEPT !.executor = Collected(action).result]

ExecuteSucceeds ==
  /\ Called
  /\ \E action \in {"chat", "other"} :
        /\ mem' = Collected(action)
        /\ chain' = << T("evaluate", "side_effect_recorded", ExecutedEvidence(action)) >>
  /\ UNCHANGED <<row, mode, ladder, driving, why, plans, spent>>

--------------------------------------------------------------------------------
\* EVALUATE

\* The read lock a verification command needs is taken.
LockConflict ==
  /\ At("evaluate") /\ ladder = "command"
  /\ chain' = PauseWith(row.evidence)
  /\ why' = "lock"
  /\ UNCHANGED <<row, ckpt, mode, ladder, driving, mem, plans, last, spent>>

\* The checker's provider call fails; there is no call without a result.
CheckerTransportFailure ==
  /\ At("evaluate")
  /\ ladder = "checker" /\ mem.result # NoResult
  /\ \/ TransportPause("checker", [row.evidence EXCEPT !.executor = mem.result])
     \/ /\ chain' = << T("reflect", "checker_failed", row.evidence),
                       T("failed", "checker_rejected", row.evidence) >>
        /\ UNCHANGED <<mem, why>>
  /\ UNCHANGED <<row, ckpt, mode, ladder, driving, plans, last, spent>>

\* The evidence of the first transition after the checker answered.
Judged == Clearance("checker", row.evidence)

\* The checker ladder has evidence only if there was a result to assess.
CanAccept == ladder = "command" \/ mem.result # NoResult

\* An accepted candidate becomes the released response.
Released ==
  [mem EXCEPT !.responded = IF mem.candidate # 0 THEN mem.candidate ELSE @,
              !.candidate = 0,
              !.gate = Recovered("checker")]

\* Accepted, and nothing to show the user yet: plan the presentation.
AcceptedWithoutSurface ==
  /\ At("evaluate") /\ CanAccept
  /\ Released.responded = 0
  /\ AttemptsLeft
  /\ mem' = Released
  /\ chain' = << T("plan", "continue_iteration", Judged) >>
  /\ UNCHANGED <<row, ckpt, mode, ladder, driving, why, plans, last, spent>>

\* Accepted: converged, unless the merge or the commit of the staged effects
\* does not go through.
Accepted ==
  /\ At("evaluate") /\ CanAccept
  /\ mem' = Released
  /\ \/ /\ chain' = << T("converged", "checker_passed", Judged) >>
        /\ UNCHANGED why
     \/ /\ chain' = << T("conflicted", "merge_conflict", Judged) >>
        /\ UNCHANGED why
     \/ /\ chain' = PauseWith(Judged)
        /\ why' = "lock"
     \/ /\ chain' = << T("escalate", "side_effect_commit_required", Judged),
                       T("waiting_approval", "approval_required", Judged) >>
        /\ why' = "approval"
  /\ UNCHANGED <<row, ckpt, mode, ladder, driving, plans, last, spent>>

TimedOut ==
  /\ At("evaluate") /\ ladder = "command"
  /\ mem' = [mem EXCEPT !.gate = Recovered("checker")]
  /\ chain' = << T("timed_out", "hard_timeout", Judged) >>
  /\ UNCHANGED <<row, ckpt, mode, ladder, driving, why, plans, last, spent>>

\* _reflect_state: missing evidence blocks, anything else rejects.
Rejected ==
  /\ At("evaluate")
  /\ mem' = [mem EXCEPT !.gate = Recovered("checker")]
  /\ chain' = IF CanAccept
              THEN ReflectThen("checker_failed", AttemptsLeft, "failed",
                               "checker_rejected", Judged)
              ELSE ReflectThen("checker_failed", AttemptsLeft, "blocked",
                               "no_route_available", Judged)
  /\ UNCHANGED <<row, ckpt, mode, ladder, driving, why, plans, last, spent>>

--------------------------------------------------------------------------------
\* Taking a loop up, and leaving it.

\* What a driver that starts at the node knows: the checkpointed plan, and no
\* evidence of its predecessors.
Fresh(node) == [NoMemory EXCEPT !.plan = IF node = "execute" THEN ckpt ELSE 0]

\* A turn, or a queue pass of the daemon, runs an active loop.
Drive ==
  /\ ~driving
  /\ row.terminal = Active
  /\ driving' = TRUE
  /\ mem' = Fresh(row.node)
  /\ UNCHANGED <<row, ckpt, mode, ladder, chain, why, plans, last, spent>>

\* The persisted resume node: of a typed gate first, else of the resource
\* pause.
RetryNode ==
  CASE row.evidence.gate.role = "planner" -> "plan"
    [] row.evidence.gate.role = "checker" -> "evaluate"
    [] OTHER -> row.evidence.grant

\* list_retryable_pauses: a typed gate of any loop, or a resource pause of a
\* background loop.
Retryable ==
  /\ row.terminal = "paused"
  /\ \/ row.evidence.gate # NoGate
     \/ mode = "background" /\ row.evidence.grant # "none"

\* What resume_goal_loop_run restores of the row's evidence for a retry.
Restored(node) ==
  LET executor == row.evidence.executor IN
  [Fresh(node) EXCEPT
     !.plan      = IF node = "execute" /\ ckpt = 0 THEN row.evidence.planned ELSE @,
     !.result    = executor,
     !.candidate = IF executor.chat THEN executor.plan ELSE 0,
     !.gate      = row.evidence.gate]

\* The daemon reopens a due retry at its node and drives it.
RetryPause ==
  /\ ~driving
  /\ Retryable
  /\ row' = [row EXCEPT !.node = RetryNode, !.terminal = Active]
  /\ mem' = Restored(RetryNode)
  /\ driving' = TRUE
  /\ UNCHANGED <<ckpt, mode, ladder, chain, why, plans, last, spent>>

\* goal.resume and an approval's continuation: reopen_for_resume, always at
\* EXECUTE.
Resume ==
  /\ ~driving
  /\ row.terminal \in Suspended
  /\ why \in Resumable
  /\ spent.resumes < MaxResumes
  /\ spent' = [spent EXCEPT !.resumes = @ + 1]
  /\ row' = [row EXCEPT !.node = "execute", !.terminal = Active]
  /\ mem' = Fresh("execute")
  /\ driving' = TRUE
  /\ UNCHANGED <<ckpt, mode, ladder, chain, why, plans, last>>

\* reconcile_approval_waits: an expired approval of a durable loop parks it at
\* PAUSED, any other approval that is not granted cancels it.
ApprovalEnds ==
  /\ ~driving
  /\ row.terminal = "waiting_approval"
  /\ \E stop \in {"paused", "cancelled"} : row' = [row EXCEPT !.terminal = stop]
  /\ UNCHANGED <<ckpt, mode, ladder, driving, mem, chain, why, plans, last, spent>>

\* The run returns at a stop state, or at a node that is no phase.
Return ==
  /\ driving /\ chain = <<>>
  /\ IsStopped(row.terminal) \/ row.node \notin PhaseNode
  /\ driving' = FALSE
  /\ mem' = NoMemory
  /\ UNCHANGED <<row, ckpt, mode, ladder, chain, why, plans, last, spent>>

\* The process dies; what was written stays.
Crash ==
  /\ driving
  /\ spent.crashes < MaxCrashes
  /\ spent' = [spent EXCEPT !.crashes = @ + 1]
  /\ driving' = FALSE
  /\ chain' = <<>>
  /\ mem' = NoMemory
  /\ UNCHANGED <<row, ckpt, mode, ladder, why, plans, last>>

--------------------------------------------------------------------------------
Planning ==
  Denied("plan") \/ PlanReady \/ PlannerTransportFailure \/ PlannerMalformed

Executing ==
  \/ PhaseGates /\ Denied("execute")
  \/ MissingPlan \/ ExecuteRaises \/ ExecuteRepeated \/ ExecuteYields
  \/ ExecuteFails \/ ExecuteSucceeds

Evaluating ==
  \/ Denied("evaluate") \/ LockConflict \/ CheckerTransportFailure
  \/ AcceptedWithoutSurface \/ Accepted \/ TimedOut \/ Rejected

\* Everything a live driver does.
Running ==
  Transition \/ Refused \/ Raises \/ Planning \/ Executing \/ Evaluating \/ Return

Next ==
  Running \/ Drive \/ RetryPause \/ Resume \/ ApprovalEnds \/ Crash

Spec == Init /\ [][Next]_vars

\* A live driver makes progress (model and capability calls end or time out)
\* and the daemon's queue passes keep taking up active loops and due retries.
FairSpec == Spec /\ WF_vars(Running) /\ WF_vars(Drive) /\ WF_vars(RetryPause)

--------------------------------------------------------------------------------
\* Properties.

\* Type correctness of the row, the driver's memory and its decisions.
TypeOK ==
  /\ row \in Row
  /\ ckpt \in Nat /\ plans \in Nat
  /\ mode \in Modes /\ ladder \in {"command", "checker"}
  /\ driving \in BOOLEAN
  /\ mem \in Memory
  /\ \A i \in 1..Len(chain) : chain[i] \in Step
  /\ why \in Why
  /\ last \in [attempt: Nat, plan: Nat]
  /\ spent \in [denials: Nat, crashes: Nat, resumes: Nat]

\* "An Evaluate retry restores the persisted executor result": whenever a
\* driver holds a result at EVALUATE it is the persisted one, so that a pause
\* or a crash there never makes the next checker assess an older result.
CheckedResultIsPersisted ==
  At("evaluate") /\ mem.result # NoResult => mem.result = row.evidence.executor

\* "rejected text must never cross the reply boundary": what a driver releases
\* is the response of the latest plan.
ReplyIsCurrent == mem.responded \in {0, plans}

\* A loop converges on the result of the last capability it called.
ConvergesOnLastResult ==
  row.terminal = "converged" => row.evidence.executor.plan = last.plan

\* Only resource and provider pauses are retried automatically: a loop that
\* yielded control to the user, a connector or an approval, or that met a
\* workspace lock, stays parked.
YieldsStayParked ==
  Retryable => why \in {"resource", "transport"}

\* EXECUTE calls the capability of the latest plan.
ExecutesLatestPlan == [][last' # last => last'.plan = plans]_vars

\* A capability called again in the same attempt, also after a crash, is the
\* same call: it has the same effect key, and the effect journal answers it.
\* (A loop that was suspended may plan again in the attempt it resumes.)
RepeatIsSameCall ==
  [][why = "none" /\ last'.attempt = last.attempt
       => last'.plan = last.plan]_vars

\* A loop ends, or waits for somebody outside; it never stays apparently
\* active for ever.
Resting ==
  \/ row.terminal \in Final
  \/ row.terminal \in Suspended /\ ~Retryable

Settles == []<>Resting
================================================================================
