------------------------------ MODULE GoalTree ------------------------------
(***************************************************************************)
(* The goal table and its event log (goals.py), the recurring templates    *)
(* the daemon materialises as child goals (daemon.py,                      *)
(* loop_control_service.py) and the child agents a goal delegates to       *)
(* (actions/agent.py).  Callers are processes: a capability call, an API   *)
(* request or a command line each runs in its own, so that everything      *)
(* between two statements of one handler may be another's.  How a child's  *)
(* loop runs is the business of the Lifecycle module; here it ends.        *)
(***************************************************************************)
EXTENDS GoalPolicy, Sequences

CONSTANTS
    Template,     \* goals that may be opened as recurring templates
    Parent,       \* durable goals that exist and may delegate
    Child,        \* goals that may be created below another one
    Caller,       \* processes that call the goal capabilities
    Schedule,     \* the cron expressions in use
    MaxChildren,  \* MAX_ACTIVE_CHILDREN
    Timeout,      \* the timeout a goal is opened with
    Threshold,    \* the number of events compact_events leaves alone
    MaxClock,     \* bound on time
    Budgets,      \* bounds on what the environment does, one record per case
    None          \* no goal, no schedule

GoalId == Template \cup Parent \cup Child

\* A goal is a template, another durable goal or a child; None is neither.
ASSUME GoalIdAssumption ==
    /\ Child \cap (Template \cup Parent) = {}
    /\ Template \cap Parent = {}
    /\ None \notin GoalId

ASSUME GoalTreeAssumption ==
    /\ \A e \in Schedule : ValidateCron(e)
    /\ MaxChildren \in Nat \ {0}
    /\ Threshold \in Nat
    /\ MaxClock \in Nat
    /\ Timeout \in Nat \ {0}

VARIABLES
    clock,     \* time.time()
    goal,      \* the rows of the goals table, with the state of their loop
    log,       \* the rows of goal_events, per goal
    summed,    \* the events whose content a compaction record carries
    call,      \* where each caller is in its handler
    daemon,    \* the daemon's pass over the due templates
    keeper,    \* the daemon's handler of a completed turn
    used       \* how often the environment has acted, per kind of act

vars == <<clock, goal, log, summed, call, daemon, keeper, used>>

-----------------------------------------------------------------------------
Absent == [phase |-> "absent", resolution |-> "none", cron |-> None, next |-> 0,
           born |-> 0, parent |-> None, loop |-> "none", agent |-> FALSE,
           slot |-> 0, late |-> FALSE, revived |-> FALSE]

Active(g) == goal[g].phase = "running"

\* A row as create writes it; its loop follows later.
NewGoal == [Absent EXCEPT !.phase = "running", !.born = clock]

ActiveChildren(p) == {c \in Child : Active(c) /\ goal[c].parent = p}

\* find_active_cron_goal_by_schedule; all goals here have one actor.
ScheduleTaken(cron, but) ==
    \E t \in Template \ {but} : Active(t) /\ goal[t].cron = cron

\* update_state: every handler that ends a goal writes the whole row.
Ended(g, resolution) ==
    goal' = [goal EXCEPT ![g] = [@ EXCEPT !.phase = "ended", !.resolution = resolution]]

\* What a loop at work writes into its goal, whatever phase it finds there;
\* "revived" keeps, for the properties, that the goal had already ended.
AtWork(r, resolution) ==
    [r EXCEPT !.phase = "running", !.resolution = resolution,
              !.revived = @ \/ r.phase = "ended"]

Idle == [op |-> "idle", goal |-> None, cron |-> None, next |-> 0, event |-> 0]

At(u, op) == call[u].op = op
Goto(u, op) == call' = [call EXCEPT ![u].op = op]
Return(u) == call' = [call EXCEPT ![u] = Idle]

\* One more act of a kind, within one of the budgets.
Spend(what) ==
    /\ used' = [used EXCEPT ![what] = @ + 1]
    /\ \E b \in Budgets : \A kind \in DOMAIN b : used'[kind] <= b[kind]

\* _is_constraint_event: an event of a blocked or failed state.
IsConstraint(kind) == kind = "blocked"

\* The event handlers append is one per kind and count.
Event(kind, n) == [kind |-> kind, n |-> n, constraint |-> IsConstraint(kind)]

Append1(g, e) == log' = [log EXCEPT ![g] = @ \cup {e}]

NoPass == [pc |-> "idle", now |-> 0, due |-> {}, held |-> None]
NoTurn == [pc |-> "idle", todo |-> {}, held |-> None, seen |-> {}]

Init ==
    /\ clock = 0
    /\ goal = [g \in GoalId |->
                 IF g \in Parent THEN [Absent EXCEPT !.phase = "running", !.loop = "active"]
                 ELSE Absent]
    /\ log = [g \in GoalId |-> {}]
    /\ summed = [g \in GoalId |-> {}]
    /\ call = [u \in Caller |-> Idle]
    /\ daemon = NoPass
    /\ keeper = NoTurn
    /\ used = [kind \in {"opens", "updates", "cancels", "revivals", "spawns",
                          "events", "turns", "faults", "crashes"} |-> 0]

-----------------------------------------------------------------------------
(* Recurring templates.                                                     *)

\* open_goal for a schedule: the checks, then the row, its loop and the
\* registration, each a transaction of its own.
OpenCheck(u, t, cron, duplicate) ==
    /\ At(u, "idle")
    /\ goal[t] = Absent
    /\ \A v \in Caller : call[v].goal # t
    /\ duplicate \/ ~ScheduleTaken(cron, None)
    /\ Spend("opens")
    /\ call' = [call EXCEPT ![u] = [Idle EXCEPT !.op = "create", !.goal = t, !.cron = cron]]
    /\ UNCHANGED <<clock, goal, log, summed, daemon, keeper>>

\* Without a next run the exception is compensated before a goal exists.
OpenCreate(u) ==
    LET c == call[u]
        next == NextCronTime(c.cron, clock)
    IN  /\ At(u, "create")
        /\ IF next = NoRun
           THEN goal' = goal /\ Return(u)
           ELSE /\ goal' = [goal EXCEPT ![c.goal] = [NewGoal EXCEPT !.cron = c.cron,
                                                                    !.next = next]]
                /\ Goto(u, "loop")
        /\ UNCHANGED <<clock, log, summed, daemon, keeper, used>>

OpenLoop(u) ==
    /\ At(u, "loop")
    /\ goal' = [goal EXCEPT ![call[u].goal].loop = "final"]
    /\ Goto(u, "register")
    /\ UNCHANGED <<clock, log, summed, daemon, keeper, used>>

\* The registration writes the phase whatever has happened to the row since.
OpenRegister(u) ==
    /\ At(u, "register")
    /\ used' = IF Active(call[u].goal) THEN used ELSE [used EXCEPT !.revivals = @ + 1]
    /\ goal' = [goal EXCEPT ![call[u].goal] = [@ EXCEPT !.phase = "running",
                                                        !.resolution = "none"]]
    /\ Return(u)
    /\ UNCHANGED <<clock, log, summed, daemon, keeper>>

\* update_goal: the next run is the one read, unless the schedule changes.
UpdateRead(u, t, cron, duplicate) ==
    LET g == goal[t]
        next == IF cron = g.cron THEN g.next ELSE NextCronTime(cron, clock)
    IN  /\ At(u, "idle")
        /\ Active(t) /\ g.loop # "none"
        /\ duplicate \/ ~ScheduleTaken(cron, t)
        /\ next # NoRun
        /\ Spend("updates")
        /\ call' = [call EXCEPT ![u] = [Idle EXCEPT !.op = "update", !.goal = t,
                                                    !.cron = cron, !.next = next]]
        /\ UNCHANGED <<clock, goal, log, summed, daemon, keeper>>

\* update_scheduled_template
Rescheduled(t, cron, next) ==
    goal' = [goal EXCEPT ![t] = [@ EXCEPT !.cron = cron, !.next = next]]

UpdateWrite(u) ==
    /\ At(u, "update")
    /\ Rescheduled(call[u].goal, call[u].cron, call[u].next)
    /\ Return(u)
    /\ UNCHANGED <<clock, log, summed, daemon, keeper, used>>

\* _cancel_scheduled_goal; a template without a loop cannot be cancelled.
CancelRead(u, t) ==
    /\ At(u, "idle")
    /\ goal[t].cron # None /\ goal[t].loop # "none"
    /\ Spend("cancels")
    /\ call' = [call EXCEPT ![u] = [Idle EXCEPT !.op = "cancel", !.goal = t]]
    /\ UNCHANGED <<clock, goal, log, summed, daemon, keeper>>

CancelWrite(u) ==
    /\ At(u, "cancel")
    /\ Ended(call[u].goal, "canceled")
    /\ Return(u)
    /\ UNCHANGED <<clock, log, summed, daemon, keeper, used>>

-----------------------------------------------------------------------------
(* The daemon's pass: process_background_once.                              *)

DueWhateverPhase == {t \in Template : goal[t].cron # None /\ goal[t].next <= clock}

Due == {t \in Template : Active(t) /\ goal[t].cron # None /\ goal[t].next <= clock}

DaemonScan ==
    /\ daemon.pc = "idle"
    /\ Due # {}
    /\ daemon' = [daemon EXCEPT !.pc = "next", !.now = clock,
                    !.due = {[id |-> t, cron |-> goal[t].cron, next |-> goal[t].next] :
                                t \in Due}]
    /\ UNCHANGED <<clock, goal, log, summed, call, keeper, used>>

\* The pass works on the rows as it read them, the earliest first.
FirstDue(d) == d \in daemon.due /\ \A e \in daemon.due : d.next <= e.next

PassOn(d) ==
    LET rest == daemon.due \ {d}
    IN  daemon' = IF rest = {} THEN NoPass
                  ELSE [daemon EXCEPT !.due = rest, !.held = None, !.pc = "next"]

NextRunFromNow(d) ==
    IF CronMatches(d.cron, daemon.now) THEN daemon.now ELSE NextCronTime(d.cron, daemon.now)

NextRun(d) == NextCronTime(d.cron, daemon.now)

\* block_invalid_cron_schedule
Blocked(t) == goal' = [goal EXCEPT ![t] = [@ EXCEPT !.phase = "ended",
                                                    !.resolution = "blocked", !.next = 0]]

BlockSchedule(d) ==
    /\ daemon.pc = "next" /\ FirstDue(d)
    /\ NextRun(d) = NoRun
    /\ Blocked(d.id)
    /\ Append1(d.id, Event("blocked", d.next))
    /\ PassOn(d)
    /\ UNCHANGED <<clock, summed, call, keeper, used>>

\* open_scheduled_occurrence: a child goal for the run the row was due for.
OpenOccurrence(d, c) ==
    /\ daemon.pc = "next" /\ FirstDue(d)
    /\ NextRun(d) # NoRun
    /\ goal[d.id].loop # "none"
    /\ goal[c] = Absent
    /\ goal' = [goal EXCEPT ![c] = [NewGoal EXCEPT !.parent = d.id, !.loop = "active",
                                        !.slot = d.next, !.late = ~Active(d.id)]]
    /\ daemon' = [daemon EXCEPT !.pc = "advance", !.held = d]
    /\ UNCHANGED <<clock, log, summed, call, keeper, used>>

FailsWithoutAdvancing(d) ==
    /\ daemon.pc = "next" /\ FirstDue(d)
    /\ NextRun(d) # NoRun
    /\ \/ goal[d.id].loop = "none" /\ used' = used
       \/ goal[d.id].loop # "none" /\ Spend("faults")
    /\ PassOn(d)
    /\ UNCHANGED <<clock, goal, log, summed, call, keeper>>

\* update_cron_run, and record_cron_failure next to its event
Advanced(t, next) == goal' = [goal EXCEPT ![t].next = next]

\* Without a loop to copy from, or when opening fails.
OpenFails(d) ==
    /\ daemon.pc = "next" /\ FirstDue(d)
    /\ NextRun(d) # NoRun
    /\ \/ goal[d.id].loop = "none" /\ used' = used
       \/ goal[d.id].loop # "none" /\ Spend("faults")
    /\ Advanced(d.id, NextRun(d))
    /\ PassOn(d)
    /\ UNCHANGED <<clock, log, summed, call, keeper>>

AdvanceRun ==
    /\ daemon.pc = "advance"
    /\ Advanced(daemon.held.id, NextRun(daemon.held))
    /\ PassOn(daemon.held)
    /\ UNCHANGED <<clock, log, summed, call, keeper, used>>

-----------------------------------------------------------------------------
(* Delegation: agent.control and agent.report.                              *)

\* _parent_for_actor and the first count; the parent need not be active.
SpawnCheck(u, p) ==
    /\ At(u, "idle")
    /\ goal[p].phase # "absent" /\ goal[p].loop # "none"
    /\ Cardinality(ActiveChildren(p)) < MaxChildren
    /\ Spend("spawns")
    /\ call' = [call EXCEPT ![u] = [Idle EXCEPT !.op = "admit", !.goal = p]]
    /\ UNCHANGED <<clock, goal, log, summed, daemon, keeper>>

AdmitsOnFirstCount(p) == TRUE

\* The count that decides is taken in the transaction of the insert.
Admits(p) == Cardinality(ActiveChildren(p)) < MaxChildren

SpawnCreate(u, c) ==
    LET p == call[u].goal
    IN  /\ At(u, "admit")
        /\ goal[c] = Absent
        /\ IF Admits(p)
           THEN /\ goal' = [goal EXCEPT ![c] = [NewGoal EXCEPT !.parent = p, !.agent = TRUE]]
                /\ call' = [call EXCEPT ![u] = [@ EXCEPT !.op = "child_loop", !.goal = c]]
           ELSE goal' = goal /\ Return(u)
        /\ UNCHANGED <<clock, log, summed, daemon, keeper, used>>

SpawnLoop(u) ==
    /\ At(u, "child_loop")
    /\ goal' = [goal EXCEPT ![call[u].goal].loop = "active"]
    /\ Return(u)
    /\ UNCHANGED <<clock, log, summed, daemon, keeper, used>>

\* One event on each side, the child's first.
Tell(u, c, kind) ==
    /\ At(u, "idle")
    /\ goal[c].parent # None
    /\ Spend("events")
    /\ Append1(c, Event(kind, used.events))
    /\ call' = [call EXCEPT ![u] = [Idle EXCEPT !.op = "tell", !.goal = goal[c].parent,
                                                !.event = used.events]]
    /\ UNCHANGED <<clock, goal, summed, daemon, keeper>>

\* agent.control(message), to a child that has not ended
Message(u, c) == Active(c) /\ Tell(u, c, "message")

\* agent.report, from inside the loop of a child
Report(u, c) == goal[c].loop = "active" /\ Tell(u, c, "report")

TellParent(u) ==
    /\ At(u, "tell")
    /\ Append1(call[u].goal, Event("told", call[u].event))
    /\ Return(u)
    /\ UNCHANGED <<clock, goal, summed, daemon, keeper, used>>

\* A child's loop ends by itself, or because agent.control cancels it.
ChildEnds(c, resolution) ==
    /\ goal[c].loop = "active" /\ c \in Child
    /\ goal' = [goal EXCEPT ![c] = [@ EXCEPT !.loop = "final", !.phase = "ended",
                                             !.resolution = resolution]]
    /\ UNCHANGED <<clock, log, summed, call, daemon, keeper, used>>

\* A blocked run leaves the goal running and a constraint on record.
ChildBlocks(c) ==
    /\ goal[c].loop = "active" /\ c \in Child
    /\ Spend("events")
    /\ goal' = [goal EXCEPT ![c] = AtWork(@, "blocked")]
    /\ Append1(c, Event("blocked", used.events))
    /\ UNCHANGED <<clock, summed, call, daemon, keeper>>

\* resume_goal_loop_run: the daemon goes by the loop alone.  A goal that a
\* stop condition or the orphan recovery has ended runs again if it has one.
LoopResumes(g) ==
    /\ goal[g].loop = "active" /\ g \in Child \cup Parent
    /\ goal' = [goal EXCEPT ![g] = AtWork(@, "none")]
    /\ UNCHANGED <<clock, log, summed, call, daemon, keeper, used>>

-----------------------------------------------------------------------------
(* A completed turn: stop conditions and compaction (on_turn_completed).    *)

TurnCompletes ==
    /\ keeper.pc = "idle"
    /\ Spend("turns")
    /\ LET todo == {g \in GoalId : Active(g)}
       IN  /\ todo # {}
           /\ keeper' = [keeper EXCEPT !.pc = "next", !.todo = todo]
    /\ UNCHANGED <<clock, goal, log, summed, call, daemon>>

KeepOn(g) ==
    LET rest == keeper.todo \ {g}
    IN  keeper' = IF rest = {} THEN NoTurn
                  ELSE [keeper EXCEPT !.todo = rest, !.held = None, !.seen = {}, !.pc = "next"]

\* stop_condition_facts: too old, or already blocked as often as it may be.
Stops(g) ==
    /\ Active(g)
    /\ \/ clock - goal[g].born >= Timeout
       \/ \E e \in log[g] : e.constraint

StopGoal(g) ==
    /\ keeper.pc = "next" /\ g \in keeper.todo
    /\ Stops(g)
    /\ Ended(g, "blocked")
    /\ Append1(g, Event("blocked", clock))
    /\ KeepOn(g)
    /\ UNCHANGED <<clock, summed, call, daemon, used>>

\* compact_events: few events are left alone; otherwise they are read, and
\* the model is asked for a summary of them.
CompactRead(g) ==
    /\ keeper.pc = "next" /\ g \in keeper.todo
    /\ ~Stops(g)
    /\ IF Cardinality(log[g]) <= Threshold THEN KeepOn(g)
       ELSE keeper' = [keeper EXCEPT !.pc = "summary", !.held = g, !.seen = log[g]]
    /\ UNCHANGED <<clock, goal, log, summed, call, daemon, used>>

DeletedWholeLog(seen, now) == {e \in now : ~e.constraint}

\* What is deleted once the summary has come.
Deleted(seen, now) == {e \in seen : ~e.constraint}

CompactWrite ==
    LET g == keeper.held
    IN  /\ keeper.pc = "summary"
        /\ log' = [log EXCEPT ![g] = (@ \ Deleted(keeper.seen, @))
                                       \cup {Event("compaction", used.turns)}]
        /\ summed' = [summed EXCEPT ![g] = @ \cup keeper.seen]
        /\ KeepOn(g)
        /\ UNCHANGED <<clock, goal, call, daemon, used>>

\* The model does not answer: the exception ends the whole pass.
SummaryFails ==
    /\ keeper.pc = "summary"
    /\ Spend("faults")
    /\ keeper' = NoTurn
    /\ UNCHANGED <<clock, goal, log, summed, call, daemon>>

-----------------------------------------------------------------------------
Tick ==
    /\ clock < MaxClock
    /\ clock' = clock + 1
    /\ UNCHANGED <<goal, log, summed, call, daemon, keeper, used>>

CallerDies(u) ==
    /\ call[u] # Idle
    /\ Spend("crashes")
    /\ Return(u)
    /\ UNCHANGED <<clock, goal, log, summed, daemon, keeper>>

\* recover_open_orphans: a goal that has had no loop for longer than the
\* grace period, a tick here, was left by a dead creator, or by a slow one.
Orphan(g) == Active(g) /\ goal[g].loop = "none" /\ goal[g].born < clock

DaemonRestarts ==
    /\ Spend("crashes")
    /\ daemon' = NoPass
    /\ keeper' = NoTurn
    /\ goal' = [g \in GoalId |->
                  IF Orphan(g)
                  THEN [goal[g] EXCEPT !.phase = "ended", !.resolution = "failed"]
                  ELSE goal[g]]
    /\ UNCHANGED <<clock, log, summed, call>>

DaemonPass ==
    \/ DaemonScan
    \/ \E d \in daemon.due : \/ BlockSchedule(d)
                             \/ OpenFails(d)
                             \/ \E c \in Child : OpenOccurrence(d, c)
    \/ AdvanceRun

KeeperPass ==
    \/ \E g \in keeper.todo : StopGoal(g) \/ CompactRead(g)
    \/ CompactWrite

CallerStarts(u) ==
    \/ \E t \in Template, cron \in Schedule, dup \in BOOLEAN : OpenCheck(u, t, cron, dup)
    \/ \E t \in Template, cron \in Schedule, dup \in BOOLEAN : UpdateRead(u, t, cron, dup)
    \/ \E t \in Template : CancelRead(u, t)
    \/ \E p \in Template \cup Parent : SpawnCheck(u, p)
    \/ \E c \in Child : Message(u, c) \/ Report(u, c)

CallerGoesOn(u) ==
    \/ OpenCreate(u) \/ OpenLoop(u) \/ OpenRegister(u)
    \/ UpdateWrite(u) \/ CancelWrite(u)
    \/ \E c \in Child : SpawnCreate(u, c)
    \/ SpawnLoop(u) \/ TellParent(u)

Next ==
    \/ Tick
    \/ DaemonPass
    \/ TurnCompletes \/ KeeperPass \/ SummaryFails
    \/ \E u \in Caller : CallerStarts(u) \/ CallerGoesOn(u) \/ CallerDies(u)
    \/ DaemonRestarts
    \/ \E c \in Child : ChildBlocks(c) \/ \E r \in {"success", "canceled"} : ChildEnds(c, r)
    \/ \E g \in Child \cup Parent : LoopResumes(g)

Spec == Init /\ [][Next]_vars

\* The daemon keeps running and every call returns; nothing else must happen.
FairSpec ==
    /\ Spec
    /\ WF_vars(DaemonPass)
    /\ WF_vars(KeeperPass)
    /\ \A u \in Caller : WF_vars(CallerGoesOn(u))

-----------------------------------------------------------------------------
TypeOK ==
    /\ clock \in 0..MaxClock
    /\ \A g \in GoalId : /\ goal[g].phase \in {"absent", "running", "ended"}
                         /\ goal[g].parent \in Template \cup Parent \cup {None}
                         /\ goal[g].loop \in {"none", "active", "final"}
    /\ \A d \in daemon.due : d.id \in Template
    /\ keeper.todo \subseteq GoalId

Occurrences(t, slot) ==
    {c \in Child : goal[c].parent = t /\ ~goal[c].agent /\ goal[c].slot = slot}

\* A run of a template is opened once.  It is opened again only after a
\* crash between opening and advancing, or after a goal.update that was in
\* flight while the daemon advanced and wrote the old next run back: never
\* because of the pass itself, a cancellation or a failed opening.
RunsOnce ==
    \A t \in Template, slot \in 0..MaxClock :
        Cardinality(Occurrences(t, slot)) <= 1 + used.crashes + used.updates

\* A template that has ended, cancelled by its user, blocked or stopped,
\* opens at most one more occurrence, the one the daemon already had in
\* hand when it ended; a registration that revives it starts it anew.
EndedStopsRunning ==
    \A t \in Template :
        Cardinality({c \in Child : goal[c].parent = t /\ goal[c].late}) <= 1 + used.revivals

\* However many callers spawn at the same time, and however many of them
\* die half way, a goal never has more active agents than the limit, apart
\* from those whose goal was ended while their loop went on: the daemon
\* resumes such a loop without admitting the agent a second time.
AgentsAreBounded ==
    \A p \in Template \cup Parent :
        Cardinality({c \in ActiveChildren(p) : goal[c].agent /\ ~goal[c].revived})
            <= MaxChildren

\* An event leaves the log only with its content in a compaction record,
\* also when it was appended while the model was summarising, and an event
\* that records a blocked state never leaves it.
EventsAreAccountedFor ==
    [][\A g \in GoalId, e \in UNION {log[h] : h \in GoalId} :
         e \in log[g] \ log'[g] => e \in summed'[g] /\ ~e.constraint]_vars

NoChildLeft == \A c \in Child : goal[c] # Absent

\* A template that is due does not stay due: it is run, skipped, moved or
\* ended, whatever state a dead caller has left it in.
DueTemplatesMoveOn ==
    \A t \in Template : t \in Due ~> (t \notin Due \/ NoChildLeft)

=============================================================================
