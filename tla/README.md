# Verification of the Navi agent OS

TLA+ specifications of the durable core of Navi (`src/src/navi`) and of the
components around it, the TLC runs that check them on small instances and the
TLAPS proofs that hold for every value of their constants. `PROJECT.json` is the
index: which definition models which lines, what every run checks, which
mutation of the code each property catches, the hazards the properties are aimed
at and the theorems.

    tlc -config <X>.cfg <MC module>        one run
    tlapm <Y>Proofs.tla                    the proofs of one component

## 1. The system

A request enters through the command line, the HTTP API or a connector. Turn
control turns it into a *loop*: loop control opens a Run, a Goal, a LoopSpec
and a LoopRun, which live in separate SQLite databases. The kernel
(`DurableStateGraphRunner`) drives the loop through PLAN, EXECUTE, EVALUATE and
REFLECT until it converges, fails, is cancelled, or is suspended (paused,
waiting for an approval, escalated). EXECUTE calls one capability: the gate
decides whether the call is within the caller's ceiling or needs its owner's
approval, an external effect is journaled, its resources are reserved in the
resource ledger, and what has to reach a user over a connector goes through the
delivery outbox. A goal may delegate to child goals or recur on a schedule. What
was said is consolidated into memory; finished traces are judged, the judgement
is paid out as credit, and from it candidates for a changed prompt, parameter or
memory are proposed, tried, applied and rolled back. The system daemon claims
background loops, takes up loops whose driver died, materialises schedules, runs
the memory jobs, and reconciles leases, grants, approvals and sagas.

Several processes (command line, API server, daemon, connector service) work on
the same databases. Nothing but SQLite transactions on single databases, row
versions, leases and idempotency keys orders what they do, and each of them may
stop at any statement. That is what the models are about.

| component | state it keeps | operations | interacts with | what makes it correct |
|---|---|---|---|---|
| LoopRun store (`loop_runs.py`) | one row per loop: node, stop state, version, lease owner and expiry, merged evidence; checkpoints | claim, renew, transition, fail, reopen, settle, release | drivers, daemon, control commands, delivery projection | one driver at a time advances a loop; final is final; no lost update |
| Loop kernel (`state_graph.py`, `loop.py`, `checker.py`, `goal_state_graph.py`) | the driver's memory of one attempt; evidence in the row | plan, execute, evaluate, reflect, pause, resume | store, journal, ledger, providers | bounded attempts, no stale plan, result or reply, no loop that stays active for ever |
| Effect journal (`effect_journal.py`, `capabilities.py`) | one row per effect key; audit row | reserve, complete, fail, abandon | kernel, handlers | an effect happens at most once and is accounted |
| Capability gate (`capabilities.py`, `safeguards.py`, `actions/specs.py`, `control.py`) | approvals with their runs and receipts, session elevations | invoke, ask, decide, settle, reconcile | kernel, turns, owners, daemon | what exceeds the ceiling or is risky happens only as its owner approved it; approved runs end |
| Resource ledger (`resource_gateway.py`) | per scope: slots, calls, tokens, cost; grants | acquire, release, reconcile | providers, capabilities, daemon | the limits hold, slots come back |
| Delivery outbox (`delivery_outbox.py`, `weixin/*`, `goals.py`) | items with status, attempts, receipt; projection on LoopRun, Run, Goal | enqueue, claim, deliver, retry, recover, requeue, project | connector service, goals, store | only real and complete receipts accept; everything queued settles |
| Loop control, lifecycle saga (`loop_control_service.py`, `lifecycle_saga.py`) | saga rows; Run, Goal and LoopRun in three databases; approvals | open, resume, cancel, project, recover, approve, reject, expire | all stores | no success without convergence, no cancellation without a cause, partial opens end, results are projected |
| Goals, children, schedules (`goals.py`, `actions/agent.py`, `daemon.py`) | goals, their events, templates with their next run | open, update, cancel, spawn, message, report, tick, compact | loop control, gate | children within the limit, a run opened once, no event lost, nothing due for ever |
| Memory (`memory/store.py`, `retention.py`, `turn_lifecycle.py`) | items with status and confidence; job queue with leases; transcripts | add, revoke, activate, penalise, audit; enqueue, claim, consolidate, sweep, retry, delete | turns, daemon, evolution | what was said is learned or visibly failed, and not deleted before |
| Evolution (`evolution*.py`, `self_play.py`) | proposals, experiments, events, activations | propose, run, apply, observe, roll back, try | approvals, memory, prompts, parameters | lands once, rolls back what it says, prompts change only as approved |
| Judgement (`trace.py`, `credit_assignment.py`, `replay_buffer.py`) | reward and credit rows, the replay buffer | evaluate, pay, prune | memory, evolution | failures are not hidden, rewards follow outcomes |
| Connectors (`connector_*.py`, `event_bus.py`, `weixin/*`, `telegram/*`) | cursor, dedup keys, peer session, health, the queue and the channel in memory | poll, deduplicate, route, run a turn, answer, drain | turn control, outbox | each message seen once and settled, refused tokens rest |
| Everything else | none that outlives a call, or append-only | | | section 8 |

Hard behaviours: read-check-write with an optimistic version while a heartbeat
thread of the same driver writes to the same row; death of a process between
two writes, often to two databases; a driver or worker that is late and has
been replaced; retries and timeouts across restarts; evidence merged into a row
and read much later; a decision taken from rows that others change before it is
written; counters at their limits. Each is a hazard in `PROJECT.json`, at the
line where it bites, with the properties that would notice it.

## 2. Modules

    LoopGraph            nodes, stop states, edges of the loop graph
      LoopRunStore       one loop_runs row and everybody who writes to it
        LoopRunAtomic    what it promises: indivisible operations
      StateGraph         one loop driven through the graph
      Lifecycle          one objective over Run, Goal and LoopRun
    EffectJournal        calls with one effect key
    ResourceLedger       one scope, its grants, its drivers
    DeliveryOutbox       one batch of outbox items and its projection
    CapabilityCatalogue  what every capability declares
      CapabilityPolicy   permission, mutation and risk of one call
        ApprovalGate     calls, approvals, deciders, receipts
      GoalPolicy         calendar, envelopes, views, answers of goals
        GoalTree         goals, templates, children, the daemon's passes
    MemoryItems          the items and their concurrent writers
      MemoryJobs         the queue that learns from transcripts, and retention
      Evolution          proposals, experiments, apply, rollback, self-play
    TraceRules           how a finished trace is judged
      CreditRules        what the judgement pays out
    ConnectorIngress     from a chat message to a turn and its answer
    ConnectorHealth      classification, status and chunks of a connector

`<X>Proofs` extends `<X>` and TLAPS, `MC<X>` extends `<X>` with the values of
a run. Operators that begin with a comment "Mutant:" are not part of any
specification: each is the plausible wrong form of the definition next to it,
and the property that should notice it is listed in `PROJECT.json`.

Modules compose by extension where their state is shared: MemoryJobs and
Evolution run on the same items as MemoryItems' own writers, and GoalTree and
ApprovalGate decide with the rules of the policy modules they extend.

### LoopRunStore

State: `row` (node, stop state, version, owner, expiry, time of update, mode,
kinds of pause evidence), the clock, for each driver its `phase` and heartbeat,
and for each process `call`, the operation it has read for and not yet written.
`transition`, `fail_active_run`, the `reopen_*` methods, `cancel_loop` and
the settlements read the row in one statement and write it in a later
`UPDATE ... WHERE version = ?`; the model splits them (`Read...`, then
`Commit` or `Conflict`), so every other action may come in between. Claims,
renewals and releases are one guarded UPDATE in the code and one action here.
As in the code a renewal moves the expiry and not the version, and a
transition writes back the lease columns it read.

`LoopRunAtomic` has the same node, stop state and owner, and no versions,
reads or clocks: an edge of the graph or a failure by the owner, a
cancellation, reopening, settlement, claim or release, each in one step.
`ImplementsAtomic` says that the split operations cannot be told from these.

### EffectJournal

Calls of one effect key race through `reserve`, the handler, `complete`,
`fail` or `abandon`, and the audit rows of `invoke`; a call may stop anywhere
and a reservation expires. Calls are attempts of any driver, so a late finisher
is one that lost its reservation. The variables record, beside the journal row
and the position of every call, whose effect really happened.

### StateGraph

One loop with one driver at a time (which LoopRunStoreProofs justifies:
`HolderAdvances`). Plans are numbered, results remember the plan they came from
and whether they are a reply for the user, so that "the latest" and "stale"
can be said. `chain` holds the transitions a phase has decided on and not
written: `_transition` is called for each in turn and a process may stop
between two. The row's evidence is merged, as in the store: a record of an old
pause stays until something removes it. Planner, executor, checker, gateway and
the person who answers are nondeterministic.

### ResourceLedger

One scope with its limits, grants, the requests of the last second, the drivers
that reserve and settle, the lease that says which of them is current, and the
daemon's reconciliation, whose list of scopes (from loop_runs.db) and release of
grants (in resource_ledger.db) are two steps. Model calls carry an estimate and
report usage; capability calls carry none.

### DeliveryOutbox

One `batch`, chosen at the start: either a background result (one item, no
waiting loop, possibly a deadline) or a file with a caption (two items, a paused
loop, no deadline). Workers are processes draining the outbox; `accepted` is what the connector's service has
taken, whatever the outbox knows. Time is abstracted to three facts: a retry is
due, a claim is older than the stale limit, the deadline has passed. The
projection writes loop, run and goal one after the other, because they are three
databases.

### Lifecycle

One objective: its loop row (stop state, number of stops, lease, the approval
its evidence owns), its Run and its Goal with the four lifecycle fields, the
approvals it asked for, the saga table (keys, which of them are unresolved,
which hold a result back for delivery) and whether the outbox has the result.
Four kinds of process work on it: drivers (`resume_goal_loop_run` and
`run_goal_loop_state_graph`), the process that serves users (`open_goal`,
`cancel_goal`, `resolve`), and the daemon (recovery at start, the pass over
approval waits, retention's cancellation of old waits). `act` is the place of
each in its method: every action is one transaction of one database, so `open`
is `OpenRun`, `OpenGoal`, `OpenLoop`, for a schedule `RegisterRun` and
`RegisterGoal`, with `CompensateRun` and `CompensateGoal` when a store raises;
a saga is `Prepare`, `ApplyLoop` (external waits only), `ApplyRun`,
`ApplyGoal`, `Complete`, whoever applies it; `cancel_loop` is
`CancelRequested`, `CancelLoop`, `CancelRun`, `CancelGoal`. `RunForLoop` and
`GoalForRun` are the two projection tables. The loop's own operations are atomic,
which `LoopRunStore` is shown to implement, and what the kernel does between
claim and stop is `Claim`, any number of `RequestApproval`, and a `Stop` in any of
the states `Outcome` or a `Raise`.

### CapabilityCatalogue, CapabilityPolicy, ApprovalGate

The catalogue is the table of `ACTION_SPECS`, the core tools, the delivery tools
and the tools of MCP servers, reduced to the fields the gate reads; the assumption
`CatalogueIsWellFormed` is `ToolSpec.__post_init__`. The policy is the permission,
the mutation and the risk `safeguards.py` derives for one concrete call, over the
classes of arguments each policy tells apart; TLC evaluates that a call that
changes state needs more than read (`MutationIsNotFree`) and that an opaque one
is confirmed (`OpaqueIsConfirmed`).

`ApprovalGate` is `CapabilityRegistry.invoke` as its commits: the refusals and
the lookup of a grant (`Check`), the approval a direct call creates (`SuspendTurn`)
and the marker that makes its run findable, written by an `update_run` that reads the
row and writes all of it back (`ReadRun`, `Mark`), the effect (`Perform`),
its receipt (`CompleteReceipt`) and the run's settlement (`Settle`). A handler reports
that it is done, that the loop it drove waits again, or that it ends its caller's turn
(`Outcome`); a receipt of a waiting loop counts for nothing, and neither of the latter
settles the run. Direct calls (`Turn`) own a run each, governed ones (`Loop`) share one. `ApprovalService` reads
a pending approval and writes the decision later (`ReadPending`, `WriteDecision`);
expiry, elevation and the daemon's reconciliation come between.

### GoalPolicy, GoalTree

`GoalPolicy` holds the rules without state: the cron calendar, cut to two fields
of four minutes and two hours and a search window shorter than the longest gap;
the envelope of capabilities, budget and time a child gets; the loop a request
becomes; views, counts and answers. Twelve assumptions say what a caller relies on
and are evaluated over every small input: for example `DelegationNarrows` (a
child never gets what its parent lacks), `ChildrenStopWithParents` (nor more
time), `AnswersAreHonest` (an answer that says done is verified).

`GoalTree` is the goal table with its event log. Each handler is split at its
statements: a template is opened by `OpenCheck`, `OpenCreate`, `OpenLoop` and
`OpenRegister`; `UpdateRead` and `UpdateWrite`, `CancelRead` and `CancelWrite`,
`SpawnCheck`, `SpawnCreate` and `SpawnLoop` leave room for other callers. The
daemon's pass lists what is due and takes one template at a time
(`DaemonScan`, `OpenOccurrence`, `AdvanceRun`, `OpenFails`, `BlockSchedule`);
its handler of a completed turn stops goals and compacts logs with a model call in
the middle (`CompactRead`, `CompactWrite`). A goal that is stopped or recovered as an
orphan keeps its loop: the daemon resumes it and writes the goal running again, whatever
phase it is in (`LoopResumes`, `ChildEnds`, `ChildBlocks`); the row remembers that
(`revived`).

### MemoryItems, MemoryJobs

An item is its status, its content, a confidence in two steps, whether it is
durable, lapsed or superseded, and what it contradicts. `set_status` and decay update a column; activation, credit and the
conflict audit write back a row read before (`edit`, `audit`). `MemoryJobs` adds
the transcript of a turn and its job, which are two writes (`RecordTurn`,
`EnqueueTurn`); the realtime worker that claims one job and the daemon that claims a
batch under one lease; the stages of a worker around its model call; retry,
purge and prune; the sweep, which goes by conversation (`Sweep`, `SessionOf`): it finds
one in which no turn has a job and gives one to its latest turn; and retention,
whose check (`Ready`), which gives an expired turn without a job one, and deletion
(`Compact`) are two steps.

### Evolution

Proposals for a prompt layer, a parameter, an eval case or a memory item.
`apply_proposal` is a sequence of transactions (`Claim`, `Reread`, `RecordEvent`, `Write`,
`Settle`, `Mark`, `Activate`, or `Reconcile` for what a crash left), rollback
holds the write lock of evolution.db over its write to the target (`Restore`,
`Commit`), the canary counts outcomes (`Observe`) and the daemon takes up
regressions; self-play generates candidates, tries them and promotes by
itself (`GenerateParameter`, `GeneratePrompt`, `ExecuteTrial`). The target
may be edited by its owner, and items by their own writers, at any time.

### TraceRules, CreditRules

The ordered rules of `trace.py` that turn the events of a trace into an outcome
and a failure domain, and the reward, the discounted credit and the replay buffer
that follow, in hundredths. No state: ten assumptions of `MCTraceRules` are evaluated
over every trace of at most three events of 24 kinds, every usage list of at most
four, and every small buffer. Among them: a failed event is not judged a success
unless the loop paused for the outside world; a failure at the end never improves
the judgement; a success pays and blames nobody; later use earns more;
credit keeps confidence in range; pruning keeps what it is meant to keep.

### ConnectorIngress, ConnectorHealth

One conversation and one service process, Weixin or Telegram. The poll loop
(`svc`), the bus with its one worker (`bus`, `turn`), the response channel and
the pending questions are memory a restart forgets; cursor, dedup keys, peer
session, circuit and outbox rows are not. The cursor of Weixin moves with the
batch, that of Telegram with each update. A turn sends heartbeats while it works;
the router gives up after an idle gap (`Silent`, `Timeout`), and what is answered
later has no channel. An update carries the token of its message (`TokenOf`), the same
at each redelivery, and is stored under the instant at which it was observed, before the
deduplication. A refused token is invalidated, and rows that failed for the session are
requeued when an update brings a token.

`ConnectorHealth` checks, over all small arguments, that every failure of a send
is classified, that a status is earned by the counters it projects, that ingress
and egress incidents do not mix, and that the chunks of a text hold the text.

## 3. Runs

All runs pass. TLC explores all reachable states; `CHECK_DEADLOCK FALSE` is
stated where a system may come to rest (loops end, calls finish, batches are
projected).

| run | bounds | properties | what it shows |
|---|---|---|---|
| `loop_run_store` | 2 drivers, 1 control command, lease of 2 ticks, clock to 2, 5 versions | `OnlyHolderAdvances` `LeaseNotStolen` `ImplementsAtomic` | the optimistic store behaves like an atomic one |
| `effect_journal` | 3 calls, lease of 2 ticks, clock to 5 | `AtMostOnce` `SuccessIsAccounted` | one effect per key, never unaccounted |
| `graph_faults` | 3 attempts, 1 retry, 1 refusal, 1 crash, 1 resume, 4 plans | `CheckedResultIsPersisted` `RepeatIsSameCall` | results and repetitions survive any one failure of each kind |
| `graph_live` | 4 attempts, 3 retries, repetition limit 4, 2 resumes | `ReplyIsCurrent` `YieldsStayParked` `ExecutesLatestPlan` `Settles` | with the limits of the code every loop ends or waits for somebody, and says only what was checked |
| `ledger` | 2 drivers, 3 grants, 1 slot, 2 calls, token, cost and rate limits | `SlotsAreGrants` `WithinLimits` `SlotsAreFreed` | counters match the grants; slots come back |
| `outbox` | 1 worker; a result with or without a deadline, or a file with its caption and a waiting loop; 2 attempts, 1 crash, 1 stall, 1 requeue | `AcceptedMeansDelivered` `ItemsSettle` `ReceiptsAreProjected` | receipts are never invented; everything queued settles, and a sent batch is projected unless a requeued one meets its failed loop |
| `lifecycle` | 1 driver, a turn or a schedule, 2 stops, 1 approval, 1 crash or store error | `SuccessIsConverged` `CancelIsCaused` `OpensSettle` `ResultsAreProjected` `DecidedWaitsEnd` | one failure at any point of any method is recovered from, and no success or cancellation is invented |
| `gate` | 8 subjects, 1 direct and 1 governed caller, 1 decider, 2 approvals, 2 calls, 1 crash, time to live 1, clock to 2 | `EffectsAreAuthorised` `ReceiptsSettleRuns` | no effect without its authority; approved runs with a complete receipt end |
| `memory` | 2 turns of one conversation, 1 goal, 1 item; a worker that claims one job, one that claims two; 3 events: turns, converged goals, edits and faults together | `TranscriptsAreLearned` `EpisodesAreLearned` | nothing is deleted unlearned, nothing waits for ever |
| `evolution` | 1 proposal, 2 processes and the daemon, 2 items, 1 outcome to decide, 1 crash, 1 edit | `AppliedOnce` `RollbackAgrees` `PromptIsGoverned` `RegressionsEnd` | with `MCTraceRules`: changes to the system itself land once, as approved, and can be taken back |
| `ingress` | both connectors; a message with an id, one without, a command, a stranger; 2 updates, each a new message or a redelivery, 1 fault, 1 restart | `SeenOnce` `RejectedTokensRest` `QuestionsAreRemembered` `AnswersAreHeard` `MessagesSettle` | with `ConnectorHealth`: each message one turn and one outcome |
| `goals` | 1 template, 1 parent, 2 children, 2 callers, 2 schedules, limit of 1 agent, clock to 4, seven budgets | `RunsOnce` `EndedStopsRunning` `AgentsAreBounded` `EventsAreAccountedFor` `DueTemplatesMoveOn` | with `GoalPolicy`: schedules, delegation and logs survive concurrent callers |

Why the bounds are enough. In the store a conflict needs one reader and one
writer; two drivers and a command give every pair, one tick less than the lease
and one more give a valid and an expired lease, and five versions leave room
for claim, transition, loss, second claim and late write. The journal needs a
holder, one that takes over and one that finds the outcome: three. A failing
path of the kernel needs one fault of each kind, and the attempt, retry and
repetition limits are reached and passed. The ledger is at its slot, call, token,
cost and rate limits within three grants. A batch is partly sent with two items,
and each kind of fault may meet each step; two workers on one item are covered by
the theorem `ReceiptsAuthorize`, which is about any number of them. In the
lifecycle a late projection needs an earlier stop and a later one, and a fault of
either kind may happen in every method; a durable objective takes the steps of a
scheduled one without its registration; the two stop states, converged and
waiting for an approval, are the final and the suspended projection that differ in
what may follow; more drivers, approvals and faults are covered by
`SuccessCorrect`, `CancelCorrect` and `RecoverySafe`. The gate has a subject for
every way it can decide, and two approvals are one more than a caller should
need. A job is lost, late and taken over with one fault; a batch of two lets a
lease lapse behind a slow job; two turns of one conversation and one fault are a turn
that dies in a session that has a job. One proposal meets a second applier, a rollback,
the canary and a trial; two items let an audit compare. Two updates are a batch,
a redelivery, or a message queued behind a turn. Two callers race in every
handler of a goal; each budget is one case (update and crash, two cancellations, a
stopped turn, a spawn below a template, two spawns and a crash, two spawns and a stop,
compaction with late events), because their product adds states and no new pair.
What is proved (section 5) does not depend on these numbers.

The runs exclude what section 4 shows to break them, and nothing else:
`graph_live` has no crash (a loop can be stuck between two transitions) and no
resource refusal (a stale record of one reopens later waits); `outbox` has one
worker (with two, a late failure undoes an acceptance that is being projected).

Fairness, and why the code justifies it:

- `StateGraph`: weak fairness of the running driver (provider calls and
  commands have timeouts and an outcome is always handled), of `Drive` and of
  `RetryPause` (every queue pass of the daemon lists active background loops and
  due retries). None for resumes, approvals, crashes or refusals.
- `ResourceLedger`: weak fairness of a call's end, strong fairness of a
  driver's stop (its run ends, however often it calls before), weak fairness of
  the expiry of a lease nobody renews and of the three steps of reconciliation,
  which every queue pass performs. None for claims.
- `DeliveryOutbox`: weak fairness of each worker's steps (the polling loop
  drains in every round and the service manager restarts it), of a retry
  becoming due and of an abandoned claim becoming stale. None for enqueueing,
  requeueing, crashes or the deadline.
- `Lifecycle`: weak fairness of the steps of a method that has begun (`Open`,
  `Command`, `Drive(d)`, `Saga(a)`, `Serve`: a process that is alive takes its
  next step; a crash ends the method), of `DaemonStart` (the service manager
  restarts the daemon and `__init__` recovers each time) and of
  `ReconcileStart` (every queue pass). None for resumes, cancellations, answers,
  expiry, retention or crashes.
- `ApprovalGate`: weak fairness of `ReconcileReceipts`, which the daemon's
  maintenance performs in every pass. None for callers, deciders or time.
- `MemoryJobs`: weak fairness of the sweep, of retention's check (every turn expires
  in the end, and the daemon's cycle looks at the expired ones), of each worker's claim
  and of its steps (a model call returns or times out), and of the lapse of a lease
  whose owner is gone. None for retries, prunes, retention or lapses of live leases.
- `Evolution`: weak fairness of the daemon's taking up a regression and of the
  steps of a rollback that has begun. None for appliers, trials or people.
- `ConnectorIngress`: weak fairness of the poll loop's steps, of the bus
  worker's (both are tasks of one running event loop, and a turn is bounded by
  the kernel's limits) and of waits that elapse. None for arrivals, failures,
  stalls, expiries or restarts.
- `GoalTree`: weak fairness of the daemon's pass, of its turn handler and of a
  call that has begun. None for calls, child agents, time or crashes.

## 4. Where the code and its documents part

Each has a counterexample, found by TLC with the formula as an invariant or
property of the run named, under the change of a bound that is stated.

- `Settles` with one crash (`graph_live`, `MaxCrashes = 1`): a crash between two
  chained transitions leaves the loop active at REFLECT, ESCALATE or PAUSE, where
  the runner has no branch (`state_graph.py:2136`); the daemon takes it up for ever.
  `docs/requirements.md:370-372`: "Partial failure must not leave an apparently
  active or approved orphan entity."
- `ExecutesLatestPlan` with one crash: a crash between `plan_ready` and the
  EXECUTE checkpoint of a second attempt restores the first attempt's plan
  (`state_graph.py:1666`, `goal_state_graph.py:158`;
  `docs/requirements.md:392-393`).
- A call whose handler raises is reported to its caller with the type of the
  exception (`effect_journal`): `fail` marks the row uncertain, `complete`
  then raises over it and the typed result is lost (`capabilities.py:578`;
  `docs/requirements.md:256`).
- `row.owner # NoOwner /\ row'.owner = row.owner => row'.expires >= row.expires`
  (`loop_run_store`): a renewal that commits between the two halves of a
  transition is undone (`loop_runs.py:1205`; the docstring at 211 says "Extend
  an unexpired execution lease").
- `YieldsStayParked` with one refusal (`graph_live`, `MaxDenials = 1`): the
  merged evidence keeps the `resource_grant` of an earlier pause, and a loop that
  later yields control counts as a resource pause (`loop_runs.py:1001`;
  `docs/requirements.md:211-214`). A provider pause that is resumed by hand leaves
  its retry gate there with the same effect (`"transport" \in Resumable`).
- `At("evaluate") => mem.result = row.evidence.executor` with one crash: a
  driver that takes a loop up at EVALUATE restores no result, so the capability
  runs again in a new attempt (`goal_state_graph.py:169`;
  `docs/requirements.md:80-81`).
- `row.evidence.gate.count <= 1` (`graph_live`): a transport failure crosses up
  to three retry gates (`dynamic_parameters.py:144`;
  `docs/requirements.md:62-64` says once).
- A grant reserved by the driver that holds the lease stays active until its call
  ends (`ledger`): reconciliation lists the scope, a driver claims the loop and
  reserves, and reconciliation releases the live grant; the usage that is
  reported later is dropped (`daemon.py:136`; the docstring at
  `resource_gateway.py:290` speaks of "executions that no longer hold a lease").
- A capability call is refused only at a limit (`ledger`): with a cost budget a
  request without an estimate is always refused, and children always have a
  cost budget (`capabilities.py:457`, `actions/agent.py:741`).
- `\A i \in Item : row[i].attempts <= MaxAttempts` (`outbox`): an
  interrupted claim is returned to the queue and claimed again without a look at
  `max_attempts` (`delivery_outbox.py:468`; `docs/requirements.md:95-96`); each
  interruption costs one attempt more.
- `row[i].status = "failed" ~> run # "open"` (`outbox`): a crash between
  `mark_failed` and the projection leaves the Run open (`weixin/service.py:777`;
  `docs/architecture.md:486-488`).
- `ReceiptsAreProjected` without its exception (`outbox`): a delivery that
  failed, was requeued by command and then sent meets a failed loop, and
  projecting raises in every later pass (`loop_runs.py:800`).
- `ReceiptsAreProjected` with two workers and a stall, even without a requeue or
  a waiting loop: a worker that lost its claim fails late, and its rejection of
  Run and Goal interleaves with the other worker's acceptance, so that the Run
  ends rejected although everything was delivered (`goals.py:1057`).
- `[][run = "accepted" => run' = "accepted"]_run` with two workers
  and a stall: a worker that lost its claim fails late, and `record_delivery_failure` rejects
  the accepted Run (`goals.py:1060`).
- `loop \in Final ~> run.phase # "running"` (`lifecycle`): a crash between
  the loop's last transition and `prepare` leaves nothing that would project it
  (`loop_control_service.py:691`), and a crash of `cancel_loop` between its
  stores leaves a cancelled loop with an active Run or Goal
  (`loop_control_service.py:1082`); `docs/architecture.md:301-302` says that
  projections "are replayed until both Run and Goal match". The
  same crash while a schedule is registered leaves its Run running.
- `held # {} ~> queued` (`lifecycle`): a crash between the applied saga and
  `record_result_delivery_outbox` leaves a result that is never queued
  (`loop_control_service.py:705`).
- `loop \in {"converged", "waiting_approval"} => run.res # "failed"` (`lifecycle`
  with two drivers): a second execution is refused the lease, which is an
  exception; when the first has stopped by then, `fail_active_run` returns the
  stopped loop as it is and the failure saga is written over the projection of a
  converged or waiting loop (`loop_runs.py:832`, `loop_control_service.py:742`).
- `[]<>(unresolved = {})`: the key of an external wait does not name the version
  of the loop, so a wait saga left by a crash whose loop has moved on fails in
  every recovery, and one that meets a later wait of the loop is applied to it
  (`loop_control_service.py:903`).
- `RevokedNeedsReview` (`memory`): an activation or a credit that read the row
  before it was revoked stores the whole row again, active (`memory/store.py:738`,
  `memory/provider.py:324`; the comment at `memory/store.py:408`).
- `CaseOncePerGoal` (`memory`): a worker that lost its lease in the model call
  still adds its case, and so does the one that took the job over
  (`memory/store.py:2309`; the docstring at 2271).
- `LandedIsRollbackable` (`evolution`): an apply that a crash left as uncertain
  or failed after its write has an event that rollback does not accept
  (`evolution.py:335`; the docstring at 607 says "always auditable and
  rollbackable").
- `EachSeenOnce` (`ingress`): a Weixin message without a native id is given an id at
  each retrieval, and its content key is built from facts that hold that id, so
  a redelivery is a new message (`weixin/client.py:164`, `weixin/service.py:1106`;
  the docstring at `connector_runtime.py:36`).
- `QuestionsAreRemembered` without `lapses = 0` (`ingress`, `MaxLog = 3`,
  `MaxFaults = 2`): a redelivery whose key lapsed while the turn of the same message
  runs past the idle window is routed under the same correlation id
  (`connector_router.py:36`), takes the answer of the first turn, and the completion of
  the second clears the question before the reply to it is handled
  (`intent_agent.py:34`; the docstring at `connector_runtime.py:36`).
- `PruningProtects` without its exception for a full buffer: the comment at
  `replay_buffer.py:183` protects hard negatives, which the second deletion
  takes when no ordinary row is left.

What the models show of the code where no document says otherwise, for whoever
changes it. The properties that meet these say so:

- Approvals (`gate`): an approved run whose only receipt reports a loop that waits
  (`paused`, `waiting_approval`) stays pending for good, and its approval stays
  usable by an identical call, since both settlements skip such a receipt
  (`capabilities.py:609-616`, `runs/store.py:383-387`). `ReceiptsSettleRuns` is about the
  receipts that count; a call that yields control settles nothing itself and is left to
  the reconciliation. `update_run` writes the whole row back, so the marker of a
  suspended call can overwrite the decision taken in between, and the run waits for an
  answer it has (`runs/store.py:541-592`); no later call finds that approval.
- Memory (`memory`): a turn that dies before its enqueue in a session that already has a
  job is not found by the sweep (`memory/store.py:2026-2029`) and is learned only when
  it has expired and retention asks for it, up to the retention period later:
  `EpisodesAreLearned` without the fairness of `Ready` is violated. A sweep
  between the two messages of a turn makes a job that learns from the first only. What
  part of an answer was stored before the ledger failed is stored again by
  the next worker of a case job.
- Connectors (`ingress`): a redelivered update stores its token under the present time
  before it is found to be a duplicate (`weixin/service.py:275-297`,
  `weixin/client.py:185`), so a token the service has refused is current again and the
  rows that failed with it are requeued and sent with it. `RejectedTokensRest` therefore
  ends a refusal when an update brings the token once more.
- Agents (`goals`): a child whose goal a stop condition or the orphan recovery has ended
  keeps an active loop (`daemon.py:164-177`); the daemon claims it
  (`daemon.py:225-300`), and `resume_goal_loop_run` writes the goal running without
  an admission (`goal_state_graph.py:204-219`). A parent that has spawned a replacement
  meanwhile has more active agents than `MAX_ACTIVE_CHILDREN` (`actions/agent.py:84`):
  `AgentsAreBounded` without `~revived` is violated. It is what holds of the
  agents that `agent.spawn` has admitted and nobody has ended.

And, shorter: a stop condition ends every running goal of the session whose
timeout has passed, recurring templates included (`daemon.py:141`); compaction
deletes reports that `agent.control(collect)` would have shown; a cancellation
between the creation and the registration of a template is overwritten; a stale
`next_run_at` written by `goal.update` re-opens a run; the Weixin cursor is saved
before its batch is handled, so a crash loses the batch, and a message claimed by
the deduplicator before a crash is later dropped as a duplicate; a turn queued
behind another sends no heartbeat; only the Weixin service drains the outbox, so a
Telegram reply deferred to recovery stays queued; a decision and an expiry that
cross can leave the run on the losing side of its approval; receipts completed
after `expires_at` still count, but those of governed calls settle no run; two
proposals on one baseline can both land; a failed decision fails a trace even if a
later one converged; evaluating a trace again pays its memories again
(`credit_assignment.py:226`) and overwrites the reward a judge model gave.

## 5. Proofs

| module | theorem | states |
|---|---|---|
| `LoopRunStoreProofs` | `TypeCorrect`, `LeaseColumnsAgree`, `SnapshotsAreFresh` | the parts of the inductive invariant |
| | `StoreIsAtomic` | `Spec => Atomic!AtomicSpec`, the refinement |
| | `FinalRowsAreForever`, `HolderAdvances`, `LeasesAreNotStolen` | action properties |
| `CapabilityCallProofs` | `JournalTypeCorrect`, `EffectsHappenAtMostOnce`, `SuccessesAreAccounted` | invariants |
| | `SettledRecordsAreForever` | action property |
| | `LedgerTypeCorrect`, `SlotCounterIsExact`, `LimitsHold`, `TotalsAddUp` | invariants |
| | `GrantsSettleOnce` | action property |
| `ConnectorProofs` | `OutboxTypeCorrect`, `ReceiptsAuthorize` | invariants of `DeliveryOutbox` |
| | `ReceiptsAreForever` | action property of `DeliveryOutbox` |
| | `IngressTypeCorrect`, `MessagesAreSeenOnce`, `RefusedTokensRest`, `QuestionsReachTheNextTurn` | invariants of `ConnectorIngress` |
| | `TurnsAreHeard` | action property of `ConnectorIngress` |
| `LifecycleProofs` | `TypeCorrect`, `SuccessCorrect`, `CancelCorrect` | invariants |
| | `RecoverySafe` | action property: recovery against an open in flight |
| `StateGraphProofs` | `GraphTypeCorrect`, `AssessedResultIsPersisted` | invariants |
| | `RepeatsAreSameCall` | action property |
| | `RepliesAreCurrent`, `WaitsStayParked`, `ConvergesOnTheLastResult` | invariants of an undisturbed loop |
| | `LatestPlanIsExecuted`, `CallsAreOfTheLatestPlan` | action properties of an undisturbed loop |
| `ApprovalGateProofs` | `GateTypeCorrect`, `EffectsNeedAuthority`, `CeilingsAreGranted` | invariants |
| | `FirstAnswerStands` | action property |
| `LearningProofs` | `LandsOnce`, `RollbacksAgree`, `EvolutionTypeCorrect` | invariants of `Evolution` |
| | `PromptsAreGoverned` | action property of `Evolution` |
| | `ConsolidationTypeCorrect`, `DeletedOnceLearned` | invariants of `MemoryJobs` |
| | `SettledJobsStay`, `OwnersOnlySettle` | action properties of `MemoryJobs` |
| `GoalTreeProofs` | `GoalTypeCorrect`, `GoalRunsOnce`, `GoalEndedStopsRunning`, `GoalAgentsBounded` | invariants |
| | `GoalEventsAccountedFor` | action property |
| | `BudgetsAlwaysNarrow`, `ChildrenAlwaysStop`, `AuthorityNarrows` | rules of `GoalPolicy`, for every request |

`CapabilityCallProofs` holds the theorems of `EffectJournal` and of
`ResourceLedger`, the two ledgers a capability call goes through.

They hold for any set of drivers, controllers, calls, items, goals and workers, any
lease length, limit and bound, under the named assumptions of the modules: the
"nobody" constants are not members of the sets, drivers and control commands
are different processes, lengths and bounds are naturals, and the sets of grants
and of jobs are finite (a counter is compared with a cardinality, a total with a
sum, a batch is a sequence). Of an evolution's targets it is assumed that memory items
are not named as layers, parameters or cases are, which the target's kind in the
code's key sees to, and that there is some content an item can have. The lifecycle is
proved for every kind of objective, every set of stop states the kernel may
return, and any number of drivers, approvals and faults; that the grace period is
longer than an open is the guard `GracePassed` of its recovery.

`RefusedTokensRest` and `GoalAgentsBounded` hold of the tokens and agents section 4
leaves them: a refusal lasts until an update brings the token again, for any
assignment of tokens to messages, and the limit is on agents that were not revived by
their loops. For the latter the templates and the goals that delegate are different
(`GoalIdAssumption`).

The gate is proved for any callers and deciders, any time to live and clock, and
for every capability of the catalogue with arguments of the classes its policy tells
apart (`SubjectAssumption`). Of the kernel, three theorems hold of every loop. The others, named "of an
undisturbed loop" in the table, say `Undisturbed => ...`, that is until a driver
dies or a resource is refused, and assume that nobody but the daemon reopens a
provider pause (`"transport" \notin Resumable`). Both are needed: TLC finds that
after a crash between the two transitions of a retry the next driver may still act
on the plan or the candidate of before (section 4), and that a provider pause
resumed by hand leaves its retry gate in the row, so that a later wait for a person
looks retryable.

The inductive invariants, and why each is needed:

- `StoreInv == TypeOK /\ LeaseShape /\ SnapshotFresh /\ CallShape`. A commit
  writes what was read, so its effect on the row is known only through what is
  true of the read. `SnapshotFresh` says that an unchanged version means an
  unchanged node, stop state, owner and evidence; it is inductive because every
  write but the renewal takes a new version. `CallShape` carries what the read
  half checked (the owner, an edge, a suspended state) to the write half. With
  both, every commit is a step of `LoopRunAtomic` and every conflict, read,
  renewal and tick is a stutter.
- `JournalInv == TypeOK /\ HolderIsRecorded /\ CallHistory /\
  CompletedByOwner /\ SuccessIsAccounted`. At most one effect follows from
  `HolderIsRecorded`: every call that acquired the effect and has not given it
  back, and every call that has performed it, is the owner the row names, and a
  row names one. `CallHistory` (what a call has done by the point it has
  reached) and `CompletedByOwner` carry the accounting of a success from the
  handler to the completed row, and from there to the calls that replay it.
- `LedgerInv == LedgerTypeOK /\ CallHasGrant /\ SlotsAreGrants /\ WithinLimits`. The
  counter is decremented by one with each release; that it stays a natural number
  needs that it is the cardinality of the active grants, which in turn needs
  that a release looks at the status of its grant first. `ChargeInv` adds that the
  totals are the sums of what the grants are charged. A release corrects a total by a
  difference and the code cuts it off at zero, so a total is only exact if the floor is
  never met; it is not met because a sum is at least each of its terms. A reservation
  adds a grant's charges to the totals, which needs that a grant never reserved is
  charged nothing (`UnreservedIsFree`). The sums are folds over a set: that each is
  determined by its terms (`SumExists`), is natural (`SumType`) and changes by what one
  term changes by (`SumChange`) is proved by induction over the sets of grants
  (`GrantInduction`), which follows from the least cardinality of a counterexample.
- `OutboxInv == TypeOK /\ ReceiptsAreReal /\ AcceptedMeansDelivered`. A
  projection works from what a worker found earlier; `ReceiptsAreReal` says that
  a receipt in the outbox or in a worker's hands is one the service gave, and
  that a worker that projects acceptance has found them all.
- `LifecycleProofs` has four, each over the ones before. `OpenInv` fixes the order
  of an open. `SuccessInv` says that the loop converged, which no operation of
  the store undoes, or that all is `Silent`: no row and no task carries a success,
  and no saga, unresolved, listed for replay or being applied, would project one.
  It has to speak of what is prepared, because a replay writes rows from a
  key and not from the loop. `CancelInv` has the same shape with `Uncanceled`
  and `Caused`: a saga that cancels a wait is harmless until `ApplyLoop` has
  cancelled the loop, and the Run is written after it. `ClosedInv` says that
  before the loop exists no driver and no saga is at work (`Undriven`) and only
  the open itself, its compensation and recovery write the Goal, recovery once the
  open of the Goal it has listed is over (`EndsGoal`).

- `StateGraphProofs` speaks of `Ahead` and `Place`: the evidence and the node or
  stop state the row will have when the decided transitions of `chain` are
  written. Writing one changes neither, so `GraphInv` and `CalmInv` are disturbed
  only by decisions. `GraphInv` says of every loop that the result in a driver's
  memory is the one `Ahead`, that the checkpoint is the plan of the last call,
  and that in a loop never suspended the attempt of that call is over before another
  plan is made (`SameAttempt`). `CalmInv` adds, while the loop is undisturbed, where a
  retry gate can be (at its role's phase, on the way there, or in a provider pause:
  `GateInv`) and that memory, checkpoint and row hold the latest plan (`PlanInv`).
- `ApprovalGateProofs` has `GateInv`: what a caller found before it acts is stale by
  then, so `CallFits` says only what stays true of it. `Grown` is the fact that
  makes it enough: between any two states the table of approvals has only grown,
  no row has changed its terms (`SameTerms`), and none that was decided has changed
  its decision. The newest matching approval exists because a set of numbers bounded
  by the length of the table has a greatest member, from the well-foundedness of
  the naturals. `EffectFits` carries the rest to the effect.
- `LearningProofs` has three. `EvolutionInv`: `ProposalFits` says that the records of one
  proposal agree, `StepFits` what a process between two transactions counts on.
  Writing once needs `OneApplies`: one process at most is between the claim and the
  write. The claim keeps it, because whoever is there has moved the status off
  "proposed", and a proposal never goes back (`Advances`); a process that died
  there leaves nobody, and who comes after reconciles and does not write. What the
  targets hold is left open there, so crashes, outside edits and the other writers of
  items need no case of their own. `ValuesInv` is about just that, for the type
  theorem: what is to be written to a target is a value it can hold (`CandidateFits`),
  and so is what a process has read and an event keeps for the rollback (`ReadFits`,
  `EventFits`). It may be put back long after it was read, and is still a value of that
  target because a proposal's target and candidate never change (`Fixed`).
  `ConsolidationInv`: whatever may lead to the
  deletion of a transcript vouches for it (`Vouched`: a row that is over, or
  retention's decision), and so does the worker that is about to settle the row
  after its model call; a row that is over has no owner, so that nobody who comes
  late with a result can touch it (`JobFits`).
- `GoalTreeProofs` has `GoalInv`, whose counts are of what exists and of what is
  still in somebody's hands. `RunsAreFew(t, s)` adds to the occurrences of template
  `t` for slot `s` the row that announces that slot (unless the daemon has opened it
  and is about to overwrite it) or the daemon's list, and every caller of
  `goal.update` that has read it: opening a run then moves one of them to the other
  side, a write of `goal.update` moves what its caller read to the row, and only a
  crash between opening and advancing makes one more. `LateAreFew(t)` adds to the
  runs opened after the end the one that can still come, while the template is
  active or in the daemon's list. Both need `PassInv` (the list has a row of each
  template once, of slots no later than the pass, so that the next run is one nobody
  has met), `OneOpens` and `BlockedInv` (slot 0, which a blocked schedule leaves, is
  not the slot of a run while its template is being registered). Eighteen of the
  actions change none of this and share one lemma, `QuietKeeps`.
- `ConnectorProofs` has, beside `OutboxInv`, `IngressInv`, with a part for each
  property. `SeenInv` counts for a message the turns it was given, its events on the
  bus that will be one, and itself where it has passed the deduplication and is not
  on the bus yet; together they are at most the lapses of its key and one more if
  the key is there. `TokenInv`: the session is at least as new as any token a row or the
  message in hand came with, so that no row is ever sent with a token of its own, and
  restoring the tokens of old rows changes nothing; the session's token is not refused,
  because a refusal clears it and what puts one there ends its refusal. `AnswerInv`: while nothing has
  failed, the bus and the turn are empty but for completions, or hold just what the
  open channel waits for; so the router is never right to give up. The last
  needs four: `IdsInv` (an id on the bus has its key among those seen, so a message let
  through has an id nobody has), `OrderInv` (what the channel waits for is the last
  message the bus has taken in), `OverInv` (once answered, nothing of it is left to
  run) and `AskInv` (a question, its completion and the event that follows it are in
  this order, with completions only between them). All four say `lapses = 0`: with a
  lapse two turns share an id (section 4).

Every safety property of the runs that is about a state machine is a theorem. Only
model-checked are all liveness (`Settles`, `SlotsAreFreed`, `ItemsSettle`,
`ReceiptsAreProjected`, `OpensSettle`, `ResultsAreProjected`, `DecidedWaitsEnd`,
`ReceiptsSettleRuns`, `EpisodesAreLearned`, `RegressionsEnd`, `MessagesSettle`,
`DueTemplatesMoveOn`), which needs fairness and ENABLED, that the proof system does
not reason about, and most of the pure rules, which are evaluated at every input of
their bounded domains. Of these three are proved for every input: `BudgetsAlwaysNarrow`
and `ChildrenAlwaysStop` from what the greater and the lesser of two numbers are, and
`AuthorityNarrows`, which composes the two narrowings of authority (a goal is opened
with what its caller sees under a ceiling, and spawns a child with what it has itself)
over any catalogue in which a name stands for one capability. The library's induction theorems take an operator as a parameter and
cannot be instantiated; where a proof needs induction, over the sets of grants or the
numbers of approvals, it argues with a least counterexample (`WFMin` of
`WellFoundedInduction`), which takes a set. RECURSIVE operators would cost the
modules their arithmetic backend; they use none.

Stated and proved, and left out of the runs because a theorem covers them: the
type invariants, `LeaseShape`, `SnapshotFresh`, `FinalIsForever`,
`SettledIsForever`, `SettledOnce`, `SentIsForever`, `EndedOpenStaysClosed`,
`ConvergesOnLastResult`, `ElevationIsGranted`, `DecisionsAreFinal`,
`SettledJobsRest`, `OwnersSettle`, `ChargesAddUp`.

## 6. Abstractions

Payloads, prompts, texts and identifiers are model values or numbers that tell
"this plan" from "another". Timestamps are small clocks in the store, the
journal, the gate and the goals, and facts ("due", "stale", "lapsed", "expired")
in the outbox, the job queue and the connector. SQLite statements
on one database are atomic, as `db.py` sets it up (one writer at a time); two
databases are never written in one step, nor is a file with a database. External
parties (planner, checker, provider, connector service, people) are
nondeterministic. A process that stops keeps nothing but what it has committed.

In `Lifecycle` the version in a key counts the stops of the loop, since only a
stop prepares a saga; a method's reads before its first write are one step with
it, except where the code acts on them later; recovery replays unresolved sagas
in any order, where the code takes them by the time of their last update; orphans are
listed in one step and ended in later ones, by that list; the branch of the recovery for
a loop without a Goal (`lifecycle_saga.py:247-271`) is left out, because `open_goal`
creates the Goal first and nothing deletes one; a
start of the daemon that would write nothing, and a pass that finds the approval
pending, are left out as stutters; the receipts that end a held result are
`DeliveryOutbox`.

In `DeliveryOutbox` an explicit requeue is one step. The code's UPDATE is guarded by the
status, so only the test of the deadline lies before it, and a deadline that passes in
between gives the rows of a requeue followed by the deadline: an item with a
deadline is alone in its batch. A batch whose Goal is missing is marked without a
projection (`weixin/service.py:813-834`); nothing deletes a Goal, so there is none.

In `ApprovalGate` an argument is the class its policy tells apart, and its digest
is equality. `EffectsAreAuthorised` therefore does not tell two concrete arguments of one
class apart, nor what resolution adds to a call under keys that begin with an
underscore, which the digest leaves out (`safeguards.py:893`). Receipts that name no run and are
matched by their arguments (`runs/store.py:363-381`), a form older databases hold, are
left out. A direct caller may find its grants in any order, where the code goes by the
last update of their runs.

In `GoalPolicy` a minute field has four values and an hour field two.
In `MemoryItems` confidence has two steps, at or below the staleness threshold and
above it; what a model answers is any answer it may give. In `Evolution` an
experiment passes or fails for any case it could be given, and all of evolution.db
is written under one lock. In `ConnectorIngress` the agent loop is a turn that
works, may stall, and ends with one of the replies the surface tells apart; the idle
window is over when the event loop has stalled or nothing of the message runs; a
restart is a restart of the whole service; a throttled item ends the drain, and whether
it did in this one is left open (`CutShort`), so that more drains end early than in the
code.

Bounds that are not in the code (`MaxTime`, `MaxPlans`,
`MaxCrashes`, `MaxFaults`, `MaxGates`, `MaxStalls`, `MaxRequeues`, `MaxDenials`,
`MaxResumes`, `MaxApprovals`, `MaxCalls`, `MaxEdits`, `MaxEvents`, `MaxLog`,
`MaxRestarts`, `MaxVersion`, `MaxClock`,
`Budgets`) are constants named in the module and appear only in guards.
`MaxAttempts`, `MaxRetries`, `RepeatLimit`, `MaxConcurrent`, `MaxChildren`,
`MinObservations`, `Threshold`, `Ttl` and the budgets are parameters of the code.

## 7. Plan

Done: the store and its refinement, the journal, the kernel, the ledger, the
outbox, the lifecycle, the gate, evolution, the job queue of memory, the goals and the
connectors, with proofs; the judgement of traces, model-checked. Next, in this order:

1. `DaemonQueue`: a composition of the store with the claim of several loops, of
   which only the running one renews its lease.
2. `Workspaces` and `Retention`: locks, and the deletion of the rows of a final
   loop against late calls (with the journal).
3. An abstract specification of the lifecycle in which the three entities change
   together, refined up to pending sagas.

## 8. Not modelled

Planned parts are listed above. Left out for good, with the reason in
`PROJECT.json`: argument parsing and rendering (command line, API), handlers and
core tools that validate and call one store, the process sandbox, provider HTTP
calls, the wire formats and logins of connectors, prompt and skill assembly,
personal resources and identity, metrics and diagnostics (read-only), retrieval
scoring (numeric), the MCP client. In the modelled parts: the event log and
read-only listings of the store, the in-memory gateway and the idempotency replay
of `acquire` that no caller uses, the one-time import of the legacy outbox table;
the mode that skips sensitive approvals, preflight and the filter of allowed
tools in front of the gate; the supersession, verification and repair of items
and the semantic graph; the generation of candidates from traces and the
acceptance suite.
