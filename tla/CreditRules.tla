------------------------------ MODULE CreditRules ------------------------------
(***************************************************************************)
(* What the judgement of a trace pays out: the reward, the credit to         *)
(* memories, tools, prompt layers and parameters (credit_assignment.py), and *)
(* the row of the experience replay buffer (replay_buffer.py, llm_judge.py). *)
(*                                                                         *)
(* Rewards are in hundredths, discounts in ten-thousandths.  The replay      *)
(* priority (|reward| + epsilon)^alpha is kept as |reward|, which orders rows *)
(* the same way.                                                            *)
(***************************************************************************)
EXTENDS TraceRules

Abs(x) == IF x < 0 THEN -x ELSE x

Severity ==
    [domain \in {"safeguard_policy", "loop_no_progress", "planner_or_parser",
                 "checker_blocked", "misunderstanding", "capability_failure",
                 "runtime", "provider_no_response", "none"} |->
        CASE domain = "safeguard_policy"     -> 100
          [] domain = "loop_no_progress"     -> 80
          [] domain = "planner_or_parser"    -> 70
          [] domain = "checker_blocked"      -> 60
          [] domain = "misunderstanding"     -> 60
          [] domain = "capability_failure"   -> 50
          [] domain = "runtime"              -> 40
          [] domain = "provider_no_response" -> 30
          [] domain = "none"                 -> 0]

\* An unknown domain weighs 0.5, and so does an unknown outcome's failure.
TerminalReward(outcome, domain) ==
    CASE outcome = "success"  -> 100
      [] outcome = "degraded" -> 20
      [] OTHER -> -(IF domain \in DOMAIN Severity THEN Severity[domain] ELSE 50)

(***************************************************************************)
(* Memories are paid by how close to the end of the trace they were used.    *)
(* used[i] is the set of memory ids of the i-th planner syscall.             *)
(***************************************************************************)
Discount[k \in Nat] == IF k = 0 THEN 10000 ELSE (Discount[k - 1] * 85 + 50) \div 100

MemoryDiscount(used, memory) ==
    Discount[Len(used) - Greatest({i \in DOMAIN used : memory \in used[i]})]

UsedMemories(used) == UNION {used[i] : i \in DOMAIN used}

\* In ten-thousandths: ltp_boost_delta is 0.05, confidence_reduction_delta 0.10.
MemoryDelta(reward, discount) ==
    IF reward < 0 THEN -((10 * Abs(reward) * discount + 5000) \div 10000)
    ELSE (5 * reward * discount + 5000) \div 10000

\* MemoryStore.apply_credit_delta on the confidence and the status, in the same
\* unit (10000 is full confidence).
Credited(item, delta) ==
    LET moved == item.confidence + delta
        confidence == IF moved < 0 THEN 0 ELSE IF moved > 10000 THEN 10000 ELSE moved
        stale == confidence < 2000 /\ delta < 0
    IN  [confidence |-> confidence,
         status |-> IF stale /\ item.status \in {"active", "proposed"}
                    THEN "stale" ELSE item.status]

(***************************************************************************)
(* The other nodes of a trace, as a sequence: a node may be blamed twice.    *)
(***************************************************************************)
Node(type, target) == [type |-> type, target |-> target]

FailedTools(events) ==
    {Node("tool", events[i].tool) : i \in {j \in FailedAt(events) : events[j].tool # ""}}

SuccessfulTools(events) ==
    {Node("tool", events[i].tool) :
        i \in {j \in DOMAIN events : /\ events[j].ok
                                     /\ events[j].phase = "capability.result"
                                     /\ events[j].tool # ""}}

When(condition, nodes) == IF condition THEN nodes ELSE <<>>

\* The nodes that one evaluation blames whatever the tools were.
FixedNodes(domain) ==
       When(domain = "provider_no_response",
            <<Node("dynamic_parameter", "provider_retry_after_seconds")>>)
    \o When(domain \in {"planner_or_parser", "checker_blocked", "misunderstanding",
                        "loop_no_progress"},
            <<Node("prompt_layer", "instructions")>>)
    \o When(domain = "loop_no_progress",
            <<Node("prompt_layer", "instructions"),
              Node("dynamic_parameter", "loop_max_attempts_turn")>>)
    \o When(domain = "safeguard_policy",
            <<Node("prompt_layer", "instructions"),
              Node("dynamic_parameter", "safeguards_entropy_threshold")>>)

ToolNodes(draft, events) ==
       (IF draft.domain = "capability_failure" THEN FailedTools(events) ELSE {})
    \cup (IF draft.outcome = "success" THEN SuccessfulTools(events) ELSE {})

CreditsNothing(draft, events) ==
    FixedNodes(draft.domain) = <<>> /\ ToolNodes(draft, events) = {}

(***************************************************************************)
(* The replay buffer: a set of rows [id, trace, reward, priority, guard, at]. *)
(***************************************************************************)
Golden(row) == row.reward >= 80
HardNegative(row) == row.reward <= -80
Ordinary(row) == ~Golden(row) /\ ~HardNegative(row)

\* The n least rows of S, or all of them.
FirstRows(S, n, Before(_, _)) ==
    {row \in S : Cardinality({other \in S : Before(other, row)}) < n}

CheapestFirst(a, b) ==
    a.priority < b.priority \/ (a.priority = b.priority /\ a.at < b.at)

OldestFirst(a, b) == a.at < b.at

\* prune_buffer: first the ordinary rows of least priority, then the oldest
\* rows that are not golden.
Pruned(rows, capacity) ==
    LET excess == Cardinality(rows) - capacity
        first  == FirstRows({r \in rows : Ordinary(r)}, excess, CheapestFirst)
        left   == excess - Cardinality(first)
        second == FirstRows({r \in rows \ first : ~Golden(r)}, left, OldestFirst)
    IN  IF excess <= 0 THEN rows
        ELSE rows \ (first \cup (IF left > 0 THEN second ELSE {}))

TripsSafeguard(domain, events) ==
    \/ domain = "safeguard_policy"
    \/ \E i \in FailedAt(events) : events[i].tool = "safeguard"

ReplayRow(id, trace, reward, guard, at) ==
    [id |-> id, trace |-> trace, reward |-> reward, priority |-> Abs(reward),
     guard |-> guard, at |-> at]

LatestRow(rows) == CHOOSE row \in rows : \A other \in rows : other.at <= row.at

\* ingest_from_trace: the row of an already ingested trace is rewritten in place,
\* without pruning; a new row is added and the buffer pruned.
Ingested(rows, fresh, capacity) ==
    LET same == {row \in rows : row.trace = fresh.trace}
        old  == LatestRow(same)
    IN  IF same = {} THEN Pruned(rows \cup {fresh}, capacity)
        ELSE (rows \ {old})
             \cup {[old EXCEPT !.reward = fresh.reward,
                               !.priority = fresh.priority,
                               !.guard = fresh.guard]}

\* LLMJudge.apply_judgment on the buffer: every row of the trace.  A judgement
\* under -0.2 also runs the credit pass as a failure, whose ingestion rewrites
\* the row with the same reward.
JudgedDomain(domain) == IF domain \in {"", "none"} THEN "planner_or_parser" ELSE domain

Judged(rows, trace, reward, domain, events) ==
    LET scored == {IF row.trace = trace
                   THEN [row EXCEPT !.reward = reward, !.priority = Abs(reward)]
                   ELSE row : row \in rows}
        known  == \E row \in rows : row.trace = trace
    IN  IF reward >= -20 \/ events = <<>> \/ ~known THEN scored
        ELSE Ingested(scored,
                      ReplayRow("", trace, reward,
                                TripsSafeguard(JudgedDomain(domain), events), 0),
                      Cardinality(rows))

\* get_hard_negatives, what self-play learns from: the threshold is -0.5.
HardNegatives(rows) == {row \in rows : row.reward <= -50 \/ row.guard}
=============================================================================
