----------------------------- MODULE GoalPolicy -----------------------------
(***************************************************************************)
(* What a goal may ask for and what it is told: the cron calendar, the     *)
(* envelope a goal or a child agent gets from its caller, the loop a       *)
(* request becomes, the views goal.state projects, and the answer a goal   *)
(* capability returns.  These are the pure rules the GoalTree module and   *)
(* the capabilities of actions/goal.py and actions/agent.py share; each is *)
(* checked over every input of a small domain.                             *)
(***************************************************************************)
EXTENDS CapabilityCatalogue, Integers, FiniteSets, FiniteSetsExt

-----------------------------------------------------------------------------
(* cron.py.  A field is "*", "*/n" or a list of values; the calendar is cut *)
(* to two fields, an hour of MinutesPerHour minutes and a day of            *)
(* HoursPerDay hours, and the year the search covers to CronWindow minutes: *)
(* less than the longest gap between two runs, as a year is less than the   *)
(* gap between two 29ths of February.                                       *)

MinutesPerHour == 4
HoursPerDay    == 2
CronWindow     == 7

Field ==      [kind : {"any"}, step : {0}, values : {{}}]
         \cup [kind : {"step"}, step : 0..3, values : {{}}]
         \cup [kind : {"list"}, step : {0}, values : SUBSET {0, 1, 3} \ {{}}]

ParseField(field, hi) ==
    CASE field.kind = "any"  -> 0..hi
      [] field.kind = "step" -> {v \in 0..hi : v % field.step = 0}
      [] field.kind = "list" -> field.values

FieldIsValid(field, hi) ==
    /\ field.kind = "step" => field.step > 0
    /\ field.kind = "list" => field.values \subseteq 0..hi

ValidateCron(e) ==
    /\ FieldIsValid(e.minute, MinutesPerHour - 1)
    /\ FieldIsValid(e.hour, HoursPerDay - 1)

CronMatches(e, t) ==
    /\ t % MinutesPerHour \in ParseField(e.minute, MinutesPerHour - 1)
    /\ (t \div MinutesPerHour) % HoursPerDay \in ParseField(e.hour, HoursPerDay - 1)

NoRun == -1

\* next_cron_time; NoRun stands for the ValueError of an expression without
\* a run in the window.
NextCronTime(e, now) ==
    LET hits == {offset \in 1..(CronWindow - 1) : CronMatches(e, now + offset)}
    IN  IF hits = {} THEN NoRun ELSE now + Min(hits)

\* A valid expression names the first later instant it matches, so that a
\* template just advanced is not due again in the same minute; when it names
\* none, the expression has no run in the window.
ASSUME CronMovesForward ==
    \A m, h \in Field, now \in 0..(MinutesPerHour * HoursPerDay) :
        LET e == [minute |-> m, hour |-> h]
            next == NextCronTime(e, now)
            last == IF next = NoRun THEN now + CronWindow ELSE next
        IN  ValidateCron(e) =>
              /\ last > now
              /\ next # NoRun => CronMatches(e, next)
              /\ \A t \in (now + 1)..(last - 1) : ~CronMatches(e, t)

\* Validation does not promise a next run: an expression accepted for a
\* template may, once it has run, have none in the window.
ASSUME SomeSchedulesRunOut ==
    \E m, h \in Field, t \in 0..(MinutesPerHour * HoursPerDay) :
        LET e == [minute |-> m, hour |-> h]
        IN  ValidateCron(e) /\ CronMatches(e, t) /\ NextCronTime(e, t) = NoRun

-----------------------------------------------------------------------------
(* What a goal may be opened with (actions/goal.py).                        *)

\* The errors a request may meet; a capability set is never empty, so the
\* empty set stands for its refusal.
SchemaMismatch == "schema_mismatch"
Denied         == "permission_denied"
NoneAllowed    == {}

\* Capabilities visible to the planner under a ceiling, as offered by the
\* registry: a statically permitted one only when the ceiling allows it.
RegistryVisible(offered, ceiling) ==
    {s \in offered : s.policy # "static" \/ PermissionAllows(s.permission, ceiling)}

EffectiveAllowed(requested, offered, context, ceiling) ==
    LET visible == {s.name : s \in RegistryVisible(offered, ceiling)} \cap context
        chosen  == IF requested = {} \/ "*" \in requested
                   THEN visible ELSE visible \cap requested
    IN  IF ~((requested \ {"*"}) \subseteq visible) \/ chosen = {}
        THEN NoneAllowed ELSE chosen

PermissionCeiling(value, ceiling) ==
    IF ~(value \in Permission) THEN SchemaMismatch
    ELSE IF PermissionAllows(value, ceiling) THEN value ELSE Denied

-----------------------------------------------------------------------------
(* What a child agent may be given (actions/agent.py).                      *)

BlockedChildClasses ==
    {"agent", "approval", "connector", "conversation", "evolution", "goal", "session"}

Delegable(s) ==
    /\ s.delegation
    /\ ~(s.class \in BlockedChildClasses)
    /\ ~(s.mutates /\ s.policy = "static")
    /\ s.permission \in {"read", "network"}

\* _child_capability_envelope: what is asked for, or a refusal.
ChildEnvelope(requested, offered, parent, context) ==
    LET eligible == {s.name : s \in {x \in offered :
                        /\ Delegable(x)
                        /\ "*" \in parent \/ x.name \in parent
                        /\ x.name \in context}}
    IN  IF requested \subseteq eligible
        THEN requested \cup {"agent.report"} ELSE NoneAllowed

NotANumber == -9

\* A value that is no integer takes the default; the result is at least one.
Bounded(value, default, upper) ==
    Max({1, Min({IF value = NotANumber THEN default ELSE value, upper})})

IntersectBudget(value, default, systemLimit, parentLimit) ==
    LET asked == Bounded(value, default, systemLimit)
    IN  IF parentLimit > 0 THEN Min({asked, parentLimit}) ELSE asked

ChildTimeout(value, systemLimit, parentTimeout, age) ==
    Bounded(value, 2, Min({systemLimit,
                           IF parentTimeout <= 0 THEN systemLimit
                           ELSE Max({1, parentTimeout - age})}))

Capability(n, class, delegation, mutates, policy, permission) ==
    [name |-> n, class |-> class, delegation |-> delegation,
     mutates |-> mutates, policy |-> policy, permission |-> permission]

SampleSpecs ==
    {Capability("file.read", "file", TRUE, FALSE, "static", "read"),
     Capability("shell.run", "shell", TRUE, TRUE, "shell_argv", "read"),
     Capability("http.fetch", "web", TRUE, FALSE, "static", "network"),
     Capability("file.write", "file", TRUE, TRUE, "static", "write"),
     Capability("goal.open", "goal", FALSE, TRUE, "static", "prepare"),
     Capability("agent.control", "agent", FALSE, TRUE, "agent_operation", "read")}

SampleNames == {s.name : s \in SampleSpecs}

\* Delegation never widens authority: whatever the parent holds and the
\* child asks for, the child gets capabilities of its parent and of the
\* calling context, none of them a static mutation or a way to spawn,
\* approve or speak to the user, plus its way to report.
ASSUME DelegationNarrows ==
    \A parent \in SUBSET SampleNames \cup {{"*"}},
       context \in {SampleNames, {"file.read", "shell.run", "file.write"}},
       requested \in SUBSET SampleNames \ {{}} :
        LET envelope == ChildEnvelope(requested, SampleSpecs, parent, context)
        IN  \A n \in envelope \ {"agent.report"} :
               /\ "*" \in parent \/ n \in parent
               /\ n \in context
               /\ n \in {"file.read", "shell.run", "http.fetch"}

\* A child's budget is positive and within both the system's and the
\* parent's, even when the request is malformed, zero or negative, and it
\* is never left unlimited by a parent without a limit of its own.
ASSUME BudgetsNarrow ==
    \A value \in {NotANumber} \cup -1..5, default \in 1..3, system \in 1..4, parent \in 0..3 :
        LET budget == IntersectBudget(value, default, system, parent)
        IN  /\ budget \in 1..system
            /\ parent > 0 => budget <= parent

\* A child outlives its parent's deadline by at most one second, the least
\* timeout there is.
ASSUME ChildrenStopWithParents ==
    \A value \in {NotANumber} \cup -1..5, system \in 1..4, timeout \in 0..4, age \in 0..5 :
        LET given == ChildTimeout(value, system, timeout, age)
        IN  /\ given \in 1..system
            /\ timeout > 0 => age + given <= Max({timeout, age + 1})

\* A goal never exceeds its caller: the ceiling it gets is at most the
\* caller's and every capability it gets is one the caller sees and, when
\* its permission is fixed, one the ceiling pays for.
ASSUME GoalsStayInside ==
    \A value \in Permission, ceiling \in Permission, context \in SUBSET SampleNames,
       requested \in {{}, {"*"}} \cup {{n} : n \in SampleNames} \cup {{"*", "file.write"}} :
        LET granted == PermissionCeiling(value, ceiling)
        IN  granted # Denied =>
              LET allowed == EffectiveAllowed(requested, SampleSpecs, context, granted)
              IN  /\ PermissionAllows(granted, ceiling)
                  /\ allowed \subseteq context
                  /\ \A s \in SampleSpecs :
                       s.name \in allowed /\ s.policy = "static"
                         => PermissionAllows(s.permission, ceiling)

-----------------------------------------------------------------------------
(* The loop a request becomes (loop_control_service.py).                    *)

LoopKind == {"turn", "control", "durable_goal", "scheduled"}

\* _execution_mode: what is declared, unless a schedule is declared to be
\* anything else; otherwise from the kind and auto_start.
ExecutionMode(declared, kind, autoStart) ==
    IF declared # ""
    THEN IF kind = "scheduled" /\ declared # "scheduled" THEN SchemaMismatch ELSE declared
    ELSE CASE kind = "scheduled" -> "scheduled"
           [] kind # "scheduled" /\ autoStart -> "background"
           [] OTHER -> "manual"

ExecutionProfile(kind) ==
    [persistence |-> IF kind = "turn" THEN "transient_audit" ELSE "durable",
     checker     |-> IF kind \in {"control", "scheduled"}
                     THEN "objective_evidence" ELSE "semantic",
     retained    |-> kind \in {"durable_goal", "scheduled"}]

RetryAttempts == [turn |-> 5, control |-> 3, scheduled |-> 6, durable_goal |-> 10]

\* _workspace_policy_for_capabilities: a shadow copy as soon as one allowed
\* capability changes the workspace; the file and shell classes stand for
\* the workspace policies "paths" and "sandbox".
WorkspaceMode(offered, allowed) ==
    IF \E s \in offered : /\ s.mutates
                          /\ s.class \in {"file", "shell"}
                          /\ "*" \in allowed \/ s.name \in allowed
    THEN "shadow" ELSE "read_only"

\* _task_context_for_request
DeliveryStage(mode, addressed) ==
    IF mode = "background" /\ addressed
    THEN "post_semantic_acceptance_outbox" ELSE "not_applicable"

\* _loop_spec_for_goal, reduced to what the loop is later judged by; the
\* empty capability list stands for every capability.
LoopSpecFor(request, offered) ==
    LET allowed == IF request.allowed = {} THEN {"*"} ELSE request.allowed
        mode    == ExecutionMode(request.mode, request.kind, request.autoStart)
    IN  [mode      |-> mode,
         allowed   |-> allowed,
         check     |-> IF request.command THEN "command_exit_code" ELSE "llm_checker",
         workspace |-> WorkspaceMode(offered, allowed),
         delivery  |-> DeliveryStage(mode, request.addressed),
         attempts  |-> RetryAttempts[request.kind],
         profile   |-> ExecutionProfile(request.kind)]

Request ==
    [kind : LoopKind, mode : {"", "foreground", "background", "manual", "scheduled"},
     autoStart : BOOLEAN, command : BOOLEAN, addressed : BOOLEAN,
     allowed : {{}, {"file.read"}, {"file.read", "file.write"}, {"http.fetch", "shell.run"}}]

\* No loop changes files outside a shadow copy, every loop has a check and
\* a bounded number of attempts, and only a background loop with somebody
\* to answer delivers its result through the outbox.
ASSUME LoopsAreGoverned ==
    \A request \in Request :
        LET spec == LoopSpecFor(request, SampleSpecs)
        IN  /\ spec.workspace = "read_only" =>
                 spec.allowed \cap {"*", "file.write", "shell.run"} = {}
            /\ spec.attempts \in 1..10
            /\ request.kind = "scheduled" => spec.mode \in {"scheduled", SchemaMismatch}
            /\ spec.delivery # "not_applicable" =>
                 request.mode = "background" \/ (request.mode = "" /\ request.autoStart)

-----------------------------------------------------------------------------
(* What goal.state shows (actions/goal.py, goals.py list_scoped).           *)

Row == [phase : {"pending", "running", "paused", "ended"},
        governance : {"none", "awaiting_approval", "approved", "rejected"},
        cron : BOOLEAN, child : BOOLEAN]

Open(r) == r.phase # "ended"

InView(view, r) ==
    CASE view = "scheduled"        -> Open(r) /\ r.cron
      [] view = "occurrences"      -> r.child
      [] view = "inbox"            -> Open(r) /\ ~r.child
      [] view = "pending_approval" -> Open(r) /\ r.governance = "awaiting_approval" /\ ~r.cron
      [] view = "history"          -> ~r.child
      [] view = "current"          -> /\ Open(r)
                                      /\ r.governance \in {"approved", "none"}
                                      /\ ~r.cron /\ ~r.child

\* goal_counts, shown next to every view.
Counts(rows) == [v \in {"current", "scheduled", "pending_approval", "history"} |->
                    Cardinality({r \in rows : InView(v, r)})]

\* The three working views are disjoint, none of them shows an ended goal,
\* and between them they show every open top-level goal that has not been
\* rejected: a goal that waits for the user is never out of sight.
ASSUME ViewsCoverOpenGoals ==
    \A r \in Row :
        LET views == {v \in {"current", "scheduled", "pending_approval"} : InView(v, r)}
        IN  /\ Cardinality(views) <= 1
            /\ views # {} => Open(r)
            /\ InView("inbox", r) /\ r.governance # "rejected" => views # {}
            /\ InView("inbox", r) => InView("history", r)

-----------------------------------------------------------------------------
(* The answer of goal.open, goal.resume and goal.cancel.                    *)

LoopState == {"", "converged", "blocked", "failed", "timed_out", "conflicted",
              "cancelled", "superseded", "paused", "waiting_approval"}

GoalResult(state) ==
    [ok       |-> ~(state \in {"blocked", "failed", "timed_out", "conflicted",
                               "cancelled", "superseded"}),
     terminal |-> state # "" /\ ~(state \in {"paused", "waiting_approval"}),
     yields   |-> FALSE]

\* _promote_outbound_facts: what reaches the connector, by precedence.
Promoted(ran, delivery, responded, approval) ==
    CASE ~ran                          -> "nothing"
      [] ran /\ delivery               -> "connector_outbound"
      [] ran /\ ~delivery /\ responded -> "reply"
      [] ran /\ ~delivery /\ ~responded /\ approval -> "pending_approval"
      [] OTHER                         -> "nothing"

CancelVerified(row) == row.phase = "ended" /\ row.resolution = "canceled"

\* _cancel_goal_batch over the outcome of each target: every target is
\* reported on one side, and the batch is complete only without failures.
BatchResult(outcomes) ==
    LET failed == {g \in DOMAIN outcomes : outcomes[g] # "verified"}
    IN  [cancelled |-> DOMAIN outcomes \ failed, failed |-> failed, ok |-> failed = {}]

\* A child counts as complete only when goal, loop and run agree.
ChildComplete(phase, loop, run) ==
    phase = "ended" /\ loop = "converged" /\ run = "clean"

\* A stopped goal that did not converge is never reported as a success,
\* and a parked one is neither an error nor the end of the caller's turn.
ASSUME AnswersAreHonest ==
    \A state \in LoopState :
        LET answer == GoalResult(state)
        IN  /\ answer.ok /\ answer.terminal => state = "converged"
            /\ ~answer.ok => answer.terminal
            /\ state \in {"paused", "waiting_approval"} => answer.ok /\ ~answer.terminal

-----------------------------------------------------------------------------
(* What a goal capability makes of a call.                                  *)

\* goal.open once its envelope is settled: a schedule is only registered,
\* anything else is run at once when there is a runtime to run it.
OpenCall(objective, inWorkspace, kind, autoStart, runtime) ==
    CASE ~objective -> SchemaMismatch
      [] objective /\ ~inWorkspace -> Denied
      [] objective /\ inWorkspace /\ autoStart /\ runtime /\ kind # "scheduled" -> "run_now"
      [] OTHER -> "open_only"

\* goal.update with the capabilities it may leave out: those of the previous
\* specification are judged again under the ceiling of the caller.
UpdateCall(given, requested, previous, offered, context, ceiling) ==
    IF given /\ requested = {} THEN NoneAllowed
    ELSE EffectiveAllowed(IF given THEN requested ELSE previous, offered, context, ceiling)

\* goal.resume: with a runtime the resumed loop is driven to its next stop.
ResumeCall(selected, inScope, runtime) ==
    CASE ~selected -> SchemaMismatch
      [] selected /\ ~inScope -> Denied
      [] selected /\ inScope /\ runtime -> "run_now"
      [] OTHER -> "prepared"

\* _require_goal_scope: the goal exists and is its caller's.
Scope(target) ==
    CASE target = "missing" -> "not_found"
      [] target = "foreign" -> Denied
      [] OTHER -> "ok"

Nobody == ""

\* A selection of targets: one goal, one loop, or a batch of goals.
Selection == [goal : {Nobody, "own", "foreign", "missing"},
              loop : {Nobody, "own", "foreign", "missing"},
              batch : SUBSET {"own", "foreign", "missing"}]

Refusals(outcomes) == outcomes \ {"ok"}

Single(s) == IF s.loop # Nobody THEN s.loop ELSE s.goal

\* _goal_control_preflight for goal.cancel, before an approval is asked for.
Preflight(s) ==
    CASE s.goal = Nobody /\ s.loop = Nobody /\ s.batch = {} -> {SchemaMismatch}
      [] s.batch # {} /\ (s.goal # Nobody \/ s.loop # Nobody) -> {SchemaMismatch}
      [] s.batch # {} /\ s.goal = Nobody /\ s.loop = Nobody ->
           Refusals({Scope(t) : t \in s.batch})
      [] OTHER -> Refusals({Scope(Single(s))})

\* goal.cancel itself; a batch checks each target on its own.
CancelCall(s) ==
    CASE s.goal = Nobody /\ s.loop = Nobody /\ s.batch = {} -> [refused |-> {SchemaMismatch}]
      [] s.batch # {} /\ (s.goal # Nobody \/ s.loop # Nobody) -> [refused |-> {SchemaMismatch}]
      [] s.batch # {} /\ s.goal = Nobody /\ s.loop = Nobody ->
           IF "missing" \in s.batch THEN [refused |-> {"not_found"}]
           ELSE [refused |-> {}, failed |-> {t \in s.batch : Scope(t) # "ok"}]
      [] OTHER -> [refused |-> Refusals({Scope(Single(s))}), failed |-> {}]

\* goal.state: which query a call asks, or that it asks none.
StateCall(view, target, parent, after, before) ==
    CASE ~(view \in {"inbox", "current", "scheduled", "occurrences",
                     "pending_approval", "history"}) -> SchemaMismatch
      [] parent /\ view # "occurrences" -> SchemaMismatch
      [] (after > 0 \/ before > 0) /\ view # "occurrences" -> SchemaMismatch
      [] after > 0 /\ before > 0 /\ after > before -> SchemaMismatch
      [] target -> "target"
      [] OTHER -> view

\* A goal that is only scheduled is never run by the call that registers it.
ASSUME SchedulesAreOnlyRegistered ==
    \A objective, inWorkspace, autoStart, runtime \in BOOLEAN :
        OpenCall(objective, inWorkspace, "scheduled", autoStart, runtime) # "run_now"

\* Nobody is asked to approve a cancellation that is then refused for its
\* selection, and what passes the preflight has no target out of scope.
ASSUME PreflightForesees ==
    \A s \in Selection :
        Preflight(s) = {} => /\ CancelCall(s).refused = {}
                             /\ CancelCall(s).failed = {}

\* An update never keeps a capability its caller could not have granted,
\* whether the caller names the capabilities or keeps the previous ones.
ASSUME UpdatesStayInside ==
    \A given \in BOOLEAN, requested, previous \in {{}, {"file.write"}, {"file.read", "http.fetch"}},
       context \in SUBSET SampleNames, ceiling \in Permission :
        LET kept == UpdateCall(given, requested, previous, SampleSpecs, context, ceiling)
        IN  /\ kept \subseteq context
            /\ "file.write" \in kept => ceiling = "write"
=============================================================================
