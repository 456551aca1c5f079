----------------------------- MODULE MCTraceRules -----------------------------
(***************************************************************************)
(* Every trace of at most MaxEvents events of the kinds the rules tell apart  *)
(* and every small replay buffer; what must hold of the rules is stated as   *)
(* ASSUMEs over them.                                                       *)
(***************************************************************************)
EXTENDS CreditRules

\* Three events hold a failure, a decision and one event that interferes.
MaxEvents == 3

Output(decision, reason, domain, failed) ==
    [decision |-> decision, reason |-> reason, domain |-> domain, failed |-> failed]

Outputs ==
    {Output("continue", "capability_fact_recorded", "none", {}),
     Output("finalize", "completion_evidence_true", "none", {}),
     Output("converged", "terminal_result", "", {}),
     Output("converged", "terminal_result", "", {"completion_checker"}),
     Output("failed", "capability_failure", "", {"capability_result"}),
     Output("failed", "planner_or_parser_failure", "none", {}),
     Output("blocked", "repeated_progress_signature", "", {"no_progress_gate"}),
     Output("blocked", "external_pause", "none", {}),
     Output("blocked", "approval_required", "none", {"approval_gate"})}

PlainEvent(phase, ok) == TraceEvent(phase, ok, "", "", NoRef, NoOutput)
Call(ok, fact, ref) == TraceEvent("capability.result", ok, "tool", fact, ref, NoOutput)
Decided(output) ==
    TraceEvent("loop.decision", LoopDecisionOk(output), "", "", NoRef, output)

Events ==
    {PlainEvent("planner.call.start", TRUE), PlainEvent("planner.syscall", TRUE),
     PlainEvent("planner.call.error", FALSE), PlainEvent("loop.check", FALSE),
     PlainEvent("loop.recovery", TRUE), PlainEvent("runtime.converged", FALSE),
     PlainEvent("turn.final", TRUE), PlainEvent("turn.final", FALSE),
     Call(TRUE, "", NoRef), Call(TRUE, "", "goal:g:closed"), Call(FALSE, "", NoRef),
     Call(FALSE, "schema", NoRef), Call(FALSE, "hook", NoRef),
     Call(TRUE, "ask", NoRef), Call(FALSE, "approval", NoRef)}
    \cup {Decided(output) : output \in Outputs}

Traces == UNION {[1..n -> Events] : n \in 0..MaxEvents}
ShortTraces == UNION {[1..n -> Events] : n \in 0..(MaxEvents - 1)}

Decides(events, P(_)) == \E i \in DOMAIN events : IsDecision(events[i]) /\ P(events[i].output)

Pauses(output) == output.reason \in {"external_pause", "approval_required"}

\* trace.py: a failed event is never judged a success, unless the loop only
\* paused for the outside world.  A converged decision cannot hide it.
ASSUME FailuresAreNotHidden ==
    \A events \in Traces :
        (FailedAt(events) # {} /\ EvaluateTrace(events).outcome = "success")
            => Decides(events, Pauses)

\* A failed decision fails the trace wherever it stands, even when a later
\* decision converged: the classifiers run one after the other over all the
\* decisions.  Only a repeated mutation, judged first, softens it.
ASSUME FailedLoopsFail ==
    \A events \in Traces :
        (Decides(events, LAMBDA o : o.decision = "failed")
         /\ DuplicateMutationRule(events) = NoDraft)
            => EvaluateTrace(events).outcome = "failure"

Rank(outcome) == CASE outcome = "failure" -> 0 [] outcome = "unknown" -> 1
                   [] outcome = "degraded" -> 2 [] outcome = "success" -> 3

RankOf(events) == Rank(EvaluateTrace(events).outcome)

\* A clean completion at the end of a trace never makes its judgement worse, and
\* it is what turns a failed call or planner step into a recovered one.
ASSUME CompletionHelps ==
    \A events \in ShortTraces :
    \A done \in {e \in Events : IsCompletion(e)} :
        LET longer == Append(events, done)
        IN  /\ RankOf(events) <= RankOf(longer)
            /\ /\ FailsFirstIn(events, {"planner.call.error", "capability.result"})
               /\ FirstFailure(events).fact # "hook"
               /\ LoopDecisionRule(events) = NoDraft
               => EvaluateTrace(longer).outcome = "degraded"

\* A failure at the end of a trace never makes its judgement better.  The
\* failures left out are a loop's own decision, which can be a pause, and a
\* failed approval request, which still counts as an approval request.
ASSUME FailureHurts ==
    \A events \in ShortTraces :
    \A bad \in {e \in Events : ~e.ok /\ ~IsDecision(e) /\ e.fact # "approval"} :
        RankOf(Append(events, bad)) <= RankOf(events)

\* A judged success pays a positive reward and blames no prompt or parameter; a
\* failure with a known domain costs something and a degraded trace still pays.
ASSUME RewardsFollowOutcomes ==
    \A events \in Traces :
        LET draft  == EvaluateTrace(events)
            reward == TerminalReward(draft.outcome, draft.domain)
        IN  /\ reward \in -100..100
            /\ draft.outcome = "success" => reward > 0 /\ FixedNodes(draft.domain) = <<>>
            /\ draft.outcome = "degraded" => reward > 0
            /\ (draft.outcome = "failure" /\ draft.domain # "none") => reward < 0

\* A failure is paid to some node, unless it is a runtime failure, names no
\* domain, or is a capability failure the loop declared without a failed call.
ASSUME FailuresFindSomeoneToBlame ==
    \A events \in Traces :
        LET draft == EvaluateTrace(events)
        IN  (draft.outcome = "failure" /\ CreditsNothing(draft, events))
                => draft.domain \in {"runtime", "none", "capability_failure"}

Usages == UNION {[1..n -> SUBSET {"m", "k"}] : n \in 1..4}

\* A memory used nearer the end is paid at least as much, in either direction,
\* and a memory used in the last step is paid in full.
ASSUME LaterUseWeighsMore ==
    \A used \in Usages : \A m, k \in UsedMemories(used) :
        LET last(x) == Greatest({i \in DOMAIN used : x \in used[i]})
        IN  /\ last(m) <= last(k) => MemoryDiscount(used, m) <= MemoryDiscount(used, k)
            /\ last(m) = Len(used) => MemoryDiscount(used, m) = 10000
            /\ \A reward \in {-100, -70, -30, 0, 20, 100} :
                  LET delta == MemoryDelta(reward, MemoryDiscount(used, m))
                  IN  /\ delta < 0 <=> reward < 0
                      /\ Abs(delta) <= 1000

\* Confidence stays in its range, only a penalty makes an item stale, and a
\* settled status (rejected, superseded) is left alone.
ASSUME CreditKeepsItemsInRange ==
    \A confidence \in {0, 300, 1999, 2000, 2500, 9800, 10000},
       status \in {"active", "proposed", "stale", "rejected", "superseded"},
       delta \in {-1000, -700, 0, 100, 500} :
        LET after == Credited([confidence |-> confidence, status |-> status], delta)
        IN  /\ after.confidence \in 0..10000
            /\ after.status # status =>
                  delta < 0 /\ after.status = "stale" /\ status \in {"active", "proposed"}

MCRows == [id : {1}, trace : {"t"}, reward : {100, 20, -40, -80},
           priority : {1, 2}, guard : {FALSE}, at : {1}]

\* All the buffers of at most four rows of distinct age.
Buffers ==
    {{[rows[i] EXCEPT !.id = i, !.at = i] : i \in DOMAIN rows} :
        rows \in UNION {[1..n -> MCRows] : n \in 0..4}}

\* Pruning keeps the golden rows whatever happens, drops a hard negative only
\* when no ordinary row is left, and leaves the capacity exceeded only by golden
\* rows.
ASSUME PruningProtects ==
    \A rows \in Buffers : \A capacity \in 0..3 :
        LET kept == Pruned(rows, capacity)
        IN  /\ {r \in rows : Golden(r)} \subseteq kept
            /\ (\E r \in rows \ kept : HardNegative(r)) => ~\E r \in kept : Ordinary(r)
            /\ Cardinality(kept) > capacity => \A r \in kept : Golden(r)
            /\ Cardinality(rows) >= capacity => Cardinality(kept) >= capacity

\* A trace that is evaluated again rewrites its row: one row per trace, and the
\* row answers for the last judgement made, be it the rules' or the judge's.
ASSUME LastJudgementCounts ==
    \A first, second, verdict \in {100, 20, -30, -70, -100} :
        LET once   == Ingested({}, ReplayRow(1, "t", first, FALSE, 1), 3)
            judged == Judged(once, "t", verdict, "none", <<PlainEvent("turn.final", TRUE)>>)
            again  == Ingested(judged, ReplayRow(2, "t", second, FALSE, 2), 3)
        IN  /\ Cardinality(once) = 1 /\ Cardinality(judged) = 1 /\ Cardinality(again) = 1
            /\ \A row \in judged : row.reward = verdict /\ row.at = 1
            /\ \A row \in again : row.reward = second /\ row.at = 1
            /\ verdict <= -50 => HardNegatives(judged) = judged
=============================================================================
