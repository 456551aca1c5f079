------------------------------ MODULE TraceRules ------------------------------
(***************************************************************************)
(* How a finished trace is judged: the rules of trace.py and loop.py, as     *)
(* functions of the trace.  CreditRules pays the judgement out and checks    *)
(* both over every short trace.                                             *)
(*                                                                         *)
(* An event keeps what a rule can tell apart: its phase, whether it          *)
(* succeeded, its tool, the kind of facts it carries, the entity transition  *)
(* it wrote (ref) and, for a loop decision, the decision's output.           *)
(***************************************************************************)
EXTENDS Integers, Sequences, FiniteSets

NoRef == "no entity"
NoOutput == [decision |-> "", reason |-> "", domain |-> "", failed |-> {}]
NoDraft == [outcome |-> "", domain |-> "", rule |-> ""]

Draft(outcome, domain, rule) ==
    [outcome |-> outcome, domain |-> domain, rule |-> rule]

TraceEvent(phase, ok, tool, fact, ref, output) ==
    [phase |-> phase, ok |-> ok, tool |-> tool, fact |-> fact, ref |-> ref,
     output |-> output]

(***************************************************************************)
(* Loop decisions.                                                          *)
(***************************************************************************)
Stated(domain) == domain \notin {"", "none"}

\* A pause for the outside world that names no failure is fine whatever its
\* kind; otherwise a blocked or a failed loop is not.
LoopDecisionOk(output) ==
    \/ output.reason = "external_pause" /\ ~Stated(output.domain)
    \/ output.decision \notin {"blocked", "failed"}

ClassifyLoopFailure(output) ==
    IF Stated(output.domain) THEN output.domain
    ELSE IF "planner_result" \in output.failed THEN "planner_or_parser"
    ELSE IF "capability_result" \in output.failed THEN "capability_failure"
    ELSE IF "completion_checker" \in output.failed THEN "checker_blocked"
    ELSE "runtime"

ClassifyLoopBlocked(output) ==
    IF output.reason = "external_pause" THEN "none"
    ELSE IF Stated(output.domain) THEN output.domain
    ELSE IF "no_progress_gate" \in output.failed THEN "loop_no_progress"
    ELSE "checker_blocked"

IsDecision(event) == event.phase = "loop.decision" /\ event.output # NoOutput

LoopDecisionEvents(events) == SelectSeq(events, IsDecision)

(***************************************************************************)
(* Facts about a trace.                                                     *)
(***************************************************************************)
Indices(events, P(_)) == {i \in DOMAIN events : P(events[i])}

FailedAt(events) == Indices(events, LAMBDA e : ~e.ok)

Least(S) == CHOOSE i \in S : \A j \in S : i <= j
Greatest(S) == CHOOSE i \in S : \A j \in S : j <= i

FirstFailure(events) == events[Least(FailedAt(events))]

FailsFirstIn(events, phases) ==
    FailedAt(events) # {} /\ FirstFailure(events).phase \in phases

\* _successful_completion_after: a later decision that completes the loop on
\* evidence and reports nothing wrong.
IsCompletion(event) ==
    /\ IsDecision(event)
    /\ event.ok
    /\ event.output.decision \in {"finalize", "converged"}
    /\ ~Stated(event.output.domain)
    /\ event.output.failed = {}
    /\ event.output.reason \in {"completion_evidence_true", "terminal_result"}

CompletedAfterFailure(events) ==
    \E i \in Indices(events, IsCompletion) : i > Least(FailedAt(events))

\* An approval request counts whether or not its capability call succeeded; a
\* question only counts when it was put.
ContainsApprovalRequest(events) ==
    \E i \in DOMAIN events :
        events[i].phase = "capability.result" /\ events[i].fact = "approval"

ContainsUserAsk(events) ==
    \E i \in DOMAIN events :
        /\ events[i].phase = "capability.result"
        /\ events[i].ok
        /\ events[i].fact = "ask"

CallStartedWithoutResult(events) ==
    LET phases == {events[i].phase : i \in DOMAIN events}
    IN  /\ "planner.call.start" \in phases
        /\ {"planner.syscall", "planner.call.error", "turn.final"} \cap phases = {}

(***************************************************************************)
(* The rules, in the order they are tried.                                  *)
(***************************************************************************)
\* Only calls the executor marked as mutating write an entity transition.
MutationRefs(event) ==
    IF event.phase = "capability.result" /\ event.ok /\ event.ref # NoRef
    THEN {event.ref} ELSE {}

DuplicateMutationRule(events) ==
    IF \E i, j \in DOMAIN events :
          i # j /\ MutationRefs(events[i]) \cap MutationRefs(events[j]) # {}
    THEN Draft("degraded", "loop_no_progress", "duplicate_entity_mutation")
    ELSE NoDraft

FailedDecision(output, events) ==
    LET domain    == ClassifyLoopFailure(output)
        corrected == /\ domain = "capability_failure"
                     /\ FailedAt(events) # {}
                     /\ FirstFailure(events).fact = "schema"
    IN  IF output.decision # "failed" THEN NoDraft
        ELSE IF corrected
        THEN Draft("failure", "planner_or_parser",
                   "loop_failure_domain_corrected_by_input_schema")
        ELSE Draft("failure", domain, "loop_decision_failed")

WaitingApprovalDecision(output, events) ==
    IF output.reason # "approval_required" THEN NoDraft
    ELSE IF ~ContainsApprovalRequest(events) /\ ContainsUserAsk(events)
    THEN Draft("degraded", "safeguard_policy",
               "ordinary_ask_recorded_as_approval_gate")
    ELSE Draft("success", "none", "loop_decision_waiting_approval")

ExternalPauseDecision(output, events) ==
    IF output.reason = "external_pause"
    THEN Draft("success", "none", "loop_decision_external_pause")
    ELSE NoDraft

BlockedDecision(output, events) ==
    IF output.decision = "blocked"
    THEN Draft("failure", ClassifyLoopBlocked(output), "loop_decision_blocked")
    ELSE NoDraft

\* A converged loop without an issue does not hide a failed event: the rules on
\* the first failure then decide.
ConvergedDecision(output, events) ==
    LET issue == output.failed # {} \/ Stated(output.domain)
    IN  IF output.decision # "converged" \/ (~issue /\ FailedAt(events) # {})
        THEN NoDraft
        ELSE IF ~issue THEN Draft("success", "none", "loop_decision_converged")
        ELSE Draft("degraded",
                   IF output.domain = "" THEN "loop_no_progress" ELSE output.domain,
                   "loop_decision_converged_with_issue")

\* Each classifier sees every decision, the latest first, before the next
\* classifier is tried.
LatestMatch(decisions, events, Classify(_, _)) ==
    LET hits == {i \in DOMAIN decisions :
                    Classify(decisions[i].output, events) # NoDraft}
    IN  IF hits = {} THEN NoDraft
        ELSE Classify(decisions[Greatest(hits)].output, events)

FirstDraft(drafts) ==
    LET hits == {i \in DOMAIN drafts : drafts[i] # NoDraft}
    IN  IF hits = {} THEN NoDraft ELSE drafts[Least(hits)]

LoopDecisionRule(events) ==
    LET decisions == LoopDecisionEvents(events)
    IN  FirstDraft(<<LatestMatch(decisions, events, FailedDecision),
                     LatestMatch(decisions, events, WaitingApprovalDecision),
                     LatestMatch(decisions, events, ExternalPauseDecision),
                     LatestMatch(decisions, events, BlockedDecision),
                     LatestMatch(decisions, events, ConvergedDecision)>>)

\* A failure the loop recovered from only degrades the trace.
Recoverable(events, domain, rule) ==
    IF CompletedAfterFailure(events)
    THEN Draft("degraded", domain, rule \o "_then_recovered")
    ELSE Draft("failure", domain, rule)

PlannerFailureRule(events) ==
    IF FailsFirstIn(events, {"planner.call.error", "planner.syscall",
                             "planner.parse_error"})
    THEN Recoverable(events, "planner_or_parser", "planner_failed")
    ELSE NoDraft

SafeguardFailureRule(events) ==
    IF /\ FailsFirstIn(events, {"capability.result"})
       /\ FirstFailure(events).fact = "hook"
    THEN Draft("failure", "safeguard_policy", "safeguard_hook_decision")
    ELSE NoDraft

CapabilityFailureRule(events) ==
    IF ~FailsFirstIn(events, {"capability.result"}) THEN NoDraft
    ELSE IF FirstFailure(events).fact = "schema"
    THEN Recoverable(events, "planner_or_parser", "capability_input_schema_mismatch")
    ELSE Recoverable(events, "capability_failure", "capability_failed")

CheckerFailureRule(events) ==
    IF ~FailsFirstIn(events, {"loop.check"}) THEN NoDraft
    ELSE Draft("failure", "checker_blocked",
               IF \E i \in DOMAIN events : events[i].phase = "loop.recovery"
               THEN "checker_failed_after_recovery_plan"
               ELSE "checker_failed_without_recovery_plan")

RuntimeFailureRule(events) ==
    IF FailedAt(events) = {} THEN NoDraft
    ELSE Draft("failure", "runtime", "runtime_failed_event")

PlannerNoResponseRule(events) ==
    IF CallStartedWithoutResult(events)
    THEN Draft("failure", "provider_no_response", "planner_call_without_result")
    ELSE NoDraft

MissingTraceRule(events) ==
    IF events = <<>> THEN Draft("unknown", "trace_missing", "trace_missing")
    ELSE NoDraft

EvaluateTrace(events) ==
    FirstDraft(<<DuplicateMutationRule(events), LoopDecisionRule(events),
                 PlannerFailureRule(events), SafeguardFailureRule(events),
                 CapabilityFailureRule(events), CheckerFailureRule(events),
                 RuntimeFailureRule(events), PlannerNoResponseRule(events),
                 MissingTraceRule(events),
                 Draft("success", "none", "no_failed_or_degraded_rule")>>)
=============================================================================
