------------------------------- MODULE Lifecycle -------------------------------
(****************************************************************************)
(* One objective across its three stores: the LoopRun that the kernel       *)
(* drives (loop_runs.db), and the Run and the Goal that users, connectors   *)
(* and retention read (runs.db, goals.db).  No transaction spans the three. *)
(* loop_control_service.py opens them, projects every result of the loop    *)
(* through a lifecycle saga (lifecycle_saga.py) and cancels them; control.py*)
(* resolves approvals; the daemon replays sagas, terminates partial opens   *)
(* and reconciles approval waits when it starts.  Each action below is one  *)
(* database transaction, so every interleaving and crash between two of     *)
(* them is a behaviour.  Operations of LoopRunStore are atomic steps here,  *)
(* which LoopRunStore!ImplementsAtomic justifies.                           *)
(****************************************************************************)
EXTENDS LoopGraph, Naturals, FiniteSets

CONSTANTS Driver,       \* executions of the state graph, in any process
          Control,      \* the process serving user commands
          Daemon,       \* SystemDaemon.__init__ and its reconciliation pass
          NoOwner,      \* the empty lease_owner column
          LoopKind,     \* the kinds of objective that are opened
          Outcome,      \* states the kernel may return in
          MaxVersion,   \* bound on the stops of the loop
          MaxGates,     \* bound on the approvals the loop asks for
          MaxFaults     \* bound on crashes and raised store errors

Actor == Driver \cup {Control, Daemon}

ASSUME LifecycleAssumption ==
  /\ Control \notin Driver /\ Daemon \notin Driver /\ Control # Daemon
  /\ NoOwner \notin Driver
  /\ LoopKind \subseteq {"turn", "durable", "scheduled"}
  /\ Outcome \subseteq TerminalState \ {"cancelled"}
  /\ MaxVersion \in Nat \ {0} /\ MaxGates \in Nat /\ MaxFaults \in Nat

VARIABLES
  kind,        \* loop_kind: what was opened
  loop, ver,   \* loop_runs.terminal_state ("none": no row) and its stops so far
  holder,      \* loop_runs.lease_owner
  gates,       \* approvals.status of the k-th approval the loop asked for
  gate,        \* the approval the loop's evidence owns, 0 when none
  run, goal,   \* the runs and the goals row
  sagas,       \* operation keys with a lifecycle_sagas row
  unresolved,  \* those whose status is pending or failed
  held,        \* those whose payload keeps the result for its delivery
  queued,      \* whether delivery_outbox has the result
  act,         \* what every actor is doing
  faults       \* crashes and raised errors so far

vars == <<kind, loop, ver, holder, gates, gate, run, goal, sagas, unresolved, held,
          queued, act, faults>>

loopRow == <<loop, ver, holder, gate>>
sagaTable == <<sagas, unresolved, held>>

(***************************** Rows and mappings *****************************)

Row == [phase : {"none", "pending", "running", "paused", "ended"},
        gov   : {"none", "awaiting_approval", "approved", "rejected"},
        acc   : {"none", "unverified", "accepted", "rejected"},
        res   : {"none", "success", "failed", "canceled", "blocked"}]

R(phase, gov, acc, res) ==
  [phase |-> phase, gov |-> gov, acc |-> acc, res |-> res]

NoRow    == R("none", "none", "none", "none")
Running  == R("running", "approved", "none", "none")
Accepted == R("ended", "none", "accepted", "success")
Failed   == R("ended", "none", "rejected", "failed")
Canceled == R("ended", "none", "rejected", "canceled")
Parked   == R("paused", "none", "unverified", "none")

\* LoopControlService._run_updates_for_loop merged into the Run r, for a
\* result with stop state t ("" when the graph returned at an active node).
RunForLoop(r, t) ==
  CASE t = "converged" -> Accepted
    [] t = "paused" -> R("paused", r.gov, "unverified", "blocked")
    [] t \in {"waiting_approval", "conflicted"} ->
         R("paused", "awaiting_approval", "unverified", "blocked")
    [] t = "blocked" -> R("ended", "none", "rejected", "blocked")
    [] t \in {"cancelled", "superseded"} -> Canceled
    [] t \in {"failed", "timed_out"} -> Failed
    [] t = Active -> R("running", r.gov, "unverified", "blocked")

\* Mutant: every ended Run counts as a success.
GoalForRunAnyEnd(r) == IF r.phase = "ended" THEN Accepted ELSE Running

\* goals._goal_state_for_run.
GoalForRun(r) ==
  CASE r.phase = "ended" /\ r.res = "success" -> Accepted
    [] r.phase = "ended" /\ r.res # "success" ->
         R("ended", "none", IF r.res = "failed" THEN "rejected" ELSE "none", r.res)
    [] r.phase # "ended" /\ r.gov = "awaiting_approval" ->
         R("running", "awaiting_approval", "none", "none")
    [] r.phase # "ended" /\ r.gov # "awaiting_approval" /\ r.res = "blocked" ->
         R("running", r.gov, "none", "blocked")
    [] OTHER -> Running

\* An operation key: "result" and "exception" name the version of the loop,
\* "cancel" and "pause" (an external wait) only the loop.
Key == [op : {"result", "exception", "cancel", "pause"},
        ver : 0 .. MaxVersion, end : TerminalState]

ResultKey(v, t)  == [op |-> "result", ver |-> v, end |-> t]
ExceptionKey(v)  == [op |-> "exception", ver |-> v, end |-> Active]
WaitKey(op)      == [op |-> op, ver |-> 0, end |-> Active]

\* run_updates of the saga payload k, merged into the Run r.
RunForSaga(r, k) ==
  CASE k.op = "exception" -> Failed
    [] k.op = "cancel" -> Canceled
    [] k.op = "pause" -> Parked
    [] k.op = "result" /\ k \in held -> Parked
    [] k.op = "result" /\ k \notin held -> RunForLoop(r, k.end)

\* What an actor keeps between two transactions: its place, the saga it is
\* writing, the Run or Goal it read or wrote last, the approval its execution
\* asked for, whether the result goes to the outbox, the sagas left to replay.
Idle == [pc |-> "idle", key |-> WaitKey("cancel"), row |-> NoRow, gate |-> 0,
         deliver |-> FALSE, todo |-> {}]

OpenPC == {"open_goal", "open_loop", "register_run", "register_goal"}
ApplyPC == {"apply_loop", "apply_run", "apply_goal", "complete"}
PC == OpenPC \cup ApplyPC \cup
      {"idle", "compensate", "compensate_goal",
       "mark_run", "mark_goal", "claim", "execute", "raised",
       "prepare", "outbox", "cancel_wait", "cancel_active", "cancel_run",
       "cancel_goal", "reject_loop", "reject_goal", "recover", "orphan_run",
       "orphan_goal", "orphan_close", "reconcile", "reopen", "read_wait"}

Task == [pc : PC, key : Key, row : Row, gate : 0 .. MaxGates,
         deliver : BOOLEAN, todo : SUBSET Key]

Gate == {"pending", "approved", "rejected", "expired"}

TypeOK ==
  /\ kind \in LoopKind
  /\ loop \in {"none"} \cup TerminalState
  /\ ver \in 0 .. MaxVersion
  /\ holder \in Driver \cup {NoOwner}
  /\ gates \in [1 .. MaxGates -> Gate \cup {"none"}]
  /\ gate \in 0 .. MaxGates
  /\ run \in Row /\ goal \in Row
  /\ sagas \subseteq Key /\ unresolved \subseteq Key /\ held \subseteq Key
  /\ queued \in BOOLEAN
  /\ act \in [Actor -> Task]
  /\ faults \in 0 .. MaxFaults

Init ==
  /\ kind \in LoopKind
  /\ loop = "none" /\ ver = 0 /\ holder = NoOwner /\ gate = 0
  /\ gates = [k \in 1 .. MaxGates |-> "none"]
  /\ run = NoRow /\ goal = NoRow
  /\ sagas = {} /\ unresolved = {} /\ held = {} /\ queued = FALSE
  /\ act = [a \in Actor |-> Idle] /\ faults = 0

At(a, pc)   == act[a].pc = pc
Become(a, task) == act' = [act EXCEPT ![a] = task]
Goto(a, pc) == Become(a, [act[a] EXCEPT !.pc = pc])
Rest(a)     == Become(a, Idle)
Fault       == faults < MaxFaults /\ faults' = faults + 1

Exists(row) == row # NoRow
Opening     == act[Control].pc \in OpenPC \cup {"compensate", "compensate_goal"}

(********************* Opening (LoopControlService.open_goal) *****************)

\* RunStore.create.
OpenRun ==
  /\ At(Control, "idle") /\ ~Exists(run)
  /\ run' = Running
  /\ Goto(Control, "open_goal")
  /\ UNCHANGED <<kind, loopRow, gates, goal, sagaTable, queued, faults>>

\* GoalStore.create; open_goal now holds the Goal.
OpenGoal ==
  /\ At(Control, "open_goal")
  /\ goal' = Running
  /\ Become(Control, [act[Control] EXCEPT !.pc = "open_loop", !.row = Running])
  /\ UNCHANGED <<kind, loopRow, gates, run, sagaTable, queued, faults>>

\* GoalStore.create raises before or after its INSERT (the event is written
\* in a second transaction): open_goal has no Goal to compensate.
OpenGoalRaises ==
  /\ At(Control, "open_goal") /\ Fault
  /\ goal' \in {goal, Running}
  /\ Goto(Control, "compensate")
  /\ UNCHANGED <<kind, loopRow, gates, run, sagaTable, queued>>

\* LoopRunStore.create_run: a schedule is registered as a converged loop.
OpenLoop ==
  /\ At(Control, "open_loop")
  /\ IF kind = "scheduled"
     THEN loop' = "converged" /\ Goto(Control, "register_run")
     ELSE loop' = Active /\ Rest(Control)
  /\ UNCHANGED <<kind, ver, holder, gate, gates, run, goal, sagaTable, queued,
                 faults>>

RegisterRun ==
  /\ At(Control, "register_run")
  /\ run' = Accepted
  /\ Goto(Control, "register_goal")
  /\ UNCHANGED <<kind, loopRow, gates, goal, sagaTable, queued, faults>>

RegisterGoal ==
  /\ At(Control, "register_goal")
  /\ goal' = R("running", "approved", "accepted", "none")
  /\ Rest(Control)
  /\ UNCHANGED <<kind, loopRow, gates, run, sagaTable, queued, faults>>

\* The spec is refused or a store raises once the Goal exists.
OpenRaises ==
  /\ act[Control].pc \in {"open_loop", "register_run", "register_goal"} /\ Fault
  /\ Goto(Control, "compensate")
  /\ UNCHANGED <<kind, loopRow, gates, run, goal, sagaTable, queued>>

\* _compensate_open_failure: the Run, then the Goal open_goal holds, if any.
CompensateRun ==
  /\ At(Control, "compensate")
  /\ run' = Failed
  /\ IF Exists(act[Control].row) THEN Goto(Control, "compensate_goal")
                                 ELSE Rest(Control)
  /\ UNCHANGED <<kind, loopRow, gates, goal, sagaTable, queued, faults>>

CompensateGoal ==
  /\ At(Control, "compensate_goal")
  /\ goal' = GoalForRun(Failed)
  /\ Rest(Control)
  /\ UNCHANGED <<kind, loopRow, gates, run, sagaTable, queued, faults>>

(************** Execution (goal_state_graph.py, around the kernel) ************)

\* LoopRunStore.reopen_for_resume and its retry variants, on a parked loop
\* that has an execution left within the bound.
Reopen ==
  /\ loop \in Suspended /\ ver < MaxVersion
  /\ loop' = Active

\* A user command names the loop, or a queue pass claims it, and resume_loop
\* reopens it if it is parked.  goal.open and goal.resume then run the graph
\* at once; resume_goal_loop_run first marks the Run and the Goal as running.
Resume(d) ==
  /\ At(d, "idle")
  /\ \/ loop = Active /\ UNCHANGED loop
     \/ Reopen
  /\ \/ UNCHANGED holder
     \/ loop # "waiting_approval" /\ holder = NoOwner /\ holder' = d
  /\ \E pc \in {"claim", "mark_run"} : Goto(d, pc)
  /\ UNCHANGED <<kind, ver, gate, gates, run, goal, sagaTable, queued, faults>>

MarkRun(d) ==
  /\ At(d, "mark_run")
  /\ run' = Running
  /\ Goto(d, "mark_goal")
  /\ UNCHANGED <<kind, loopRow, gates, goal, sagaTable, queued, faults>>

MarkGoal(d) ==
  /\ At(d, "mark_goal")
  /\ goal' = Running
  /\ Goto(d, "claim")
  /\ UNCHANGED <<kind, loopRow, gates, run, sagaTable, queued, faults>>

\* run_async: a loop that stopped meanwhile is the result; a lease another
\* driver holds is an exception.
Claim(d) ==
  /\ At(d, "claim")
  /\ \/ /\ IsStopped(loop)
        /\ Become(d, [act[d] EXCEPT !.pc = "prepare", !.key = ResultKey(ver, loop)])
        /\ UNCHANGED holder
     \/ /\ loop = Active /\ holder \in {NoOwner, d}
        /\ holder' = d
        /\ Goto(d, "execute")
     \/ /\ loop = Active /\ holder \notin {NoOwner, d}
        /\ Goto(d, "raised")
        /\ UNCHANGED holder
  /\ UNCHANGED <<kind, loop, ver, gate, gates, run, goal, sagaTable, queued,
                 faults>>

\* A capability needs approval: the request is stored before the loop parks.
RequestApproval(d) ==
  /\ At(d, "execute") /\ act[d].gate = 0
  /\ \E k \in 1 .. MaxGates :
       /\ gates[k] = "none"
       /\ \A j \in 1 .. (k - 1) : gates[j] # "none"
       /\ gates' = [gates EXCEPT ![k] = "pending"]
       /\ Become(d, [act[d] EXCEPT !.gate = k])
  /\ UNCHANGED <<kind, loopRow, run, goal, sagaTable, queued, faults>>

\* The kernel returns: the loop stopped, or it stands at an active node the
\* graph has no branch for.  A converged background result that has a message
\* and a recipient must be delivered.
Stop(d) ==
  /\ At(d, "execute") /\ loop = Active /\ holder = d /\ ver < MaxVersion
  /\ \E t \in Outcome, deliver \in BOOLEAN :
       /\ t \in Suspended => ver + 1 < MaxVersion
       /\ deliver => t = "converged"
       /\ loop' = t
       /\ IF t = Active THEN UNCHANGED <<ver, holder, gate>>
          ELSE ver' = ver + 1 /\ holder' = NoOwner /\ gate' = act[d].gate
       /\ Become(d, [Idle EXCEPT !.pc = "prepare",
                    !.deliver = deliver, !.key = ResultKey(ver', t)])
  /\ UNCHANGED <<kind, gates, run, goal, sagaTable, queued, faults>>

\* An uncaught exception; the store raises one when the loop was stopped or
\* the lease lost under the driver.
Raise(d) ==
  /\ At(d, "execute")
  /\ Become(d, [Idle EXCEPT !.pc = "raised"])
  /\ UNCHANGED <<kind, loopRow, gates, run, goal, sagaTable, queued, faults>>

\* fail_state_graph_execution: fail_active_run fails the loop of its holder,
\* returns a stopped one unchanged, and raises for another holder's.
FailLoop(d) ==
  /\ At(d, "raised")
  /\ \/ /\ loop = Active /\ holder = d /\ ver < MaxVersion
        /\ loop' = "failed" /\ ver' = ver + 1 /\ holder' = NoOwner
        /\ UNCHANGED gate
        /\ Become(d, [act[d] EXCEPT !.pc = "prepare", !.key = ExceptionKey(ver + 1)])
     \/ /\ IsStopped(loop)
        /\ Become(d, [act[d] EXCEPT !.pc = "prepare", !.key = ExceptionKey(ver)])
        /\ UNCHANGED loopRow
     \/ /\ loop = Active /\ holder # d
        /\ Rest(d)
        /\ UNCHANGED loopRow
  /\ UNCHANGED <<kind, gates, run, goal, sagaTable, queued, faults>>

\* The lease of a driver that is gone expires or is reconciled away.
LeaseExpires ==
  /\ holder \in Driver /\ At(holder, "idle")
  /\ holder' = NoOwner
  /\ UNCHANGED <<kind, loop, ver, gate, gates, run, goal, sagaTable, queued, act,
                 faults>>

(*********************** Lifecycle sagas (LifecycleSagaStore) *****************)

IsWait(k) == k.op \in {"cancel", "pause"}

\* apply: where the payload starts.
FirstStep(k) == IF IsWait(k) THEN "apply_loop" ELSE "apply_run"

\* prepare: INSERT ... ON CONFLICT DO NOTHING; an older payload stands.
Prepare(a) ==
  /\ At(a, "prepare")
  /\ LET k == act[a].key IN
       /\ sagas' = sagas \cup {k}
       /\ unresolved' = IF k \in sagas THEN unresolved ELSE unresolved \cup {k}
       /\ held' = IF k \notin sagas /\ act[a].deliver THEN held \cup {k} ELSE held
       /\ Goto(a, FirstStep(k))
  /\ UNCHANGED <<kind, loopRow, gates, run, goal, queued, faults>>

\* After a saga: the daemon goes on with its list, the others are done.
AfterSaga(a) ==
  IF act[a].key \in act[a].todo
  THEN Become(a, [Idle EXCEPT !.pc = "recover",
                                              !.todo = act[a].todo \ {act[a].key}])
  ELSE Rest(a)

\* _mark_failed, after which the error reaches the caller.
MarkFailed(a) ==
  /\ unresolved' = unresolved \cup {act[a].key}
  /\ AfterSaga(a)
  /\ UNCHANGED <<sagas, held>>

\* cancel_external_wait and pause_external_wait.
WaitTarget(k) == IF k.op = "cancel" THEN "cancelled" ELSE "paused"

WaitAllowed(k) == loop \in Suspended \/ (k.op = "cancel" /\ loop = "cancelled")

\* Mutant: the saga projects without settling the loop first.
ApplyLoopSkipped(a) ==
  /\ At(a, "apply_loop")
  /\ Goto(a, "apply_run")
  /\ UNCHANGED <<kind, loopRow, gates, run, goal, sagaTable, queued, faults>>

\* _apply_loop_transition.
ApplyLoop(a) ==
  /\ At(a, "apply_loop")
  /\ LET k == act[a].key IN
       \/ /\ WaitAllowed(k)
          /\ loop' = WaitTarget(k) /\ holder' = NoOwner /\ UNCHANGED <<ver, gate>>
          /\ Goto(a, "apply_run")
          /\ UNCHANGED sagaTable
       \/ ~WaitAllowed(k) /\ MarkFailed(a) /\ UNCHANGED loopRow
  /\ UNCHANGED <<kind, gates, run, goal, queued, faults>>

ApplyRun(a) ==
  /\ At(a, "apply_run")
  /\ run' = RunForSaga(run, act[a].key)
  /\ Become(a, [act[a] EXCEPT !.pc = "apply_goal",
                        !.row = RunForSaga(run, act[a].key)])
  /\ UNCHANGED <<kind, loopRow, gates, goal, sagaTable, queued, faults>>

\* GoalStore.update_for_run, with the Run that update_run returned.
ApplyGoal(a) ==
  /\ At(a, "apply_goal")
  /\ goal' = GoalForRun(act[a].row)
  /\ Become(a, [act[a] EXCEPT !.pc = "complete", !.row = NoRow])
  /\ UNCHANGED <<kind, loopRow, gates, run, sagaTable, queued, faults>>

\* Mutant: the saga row is never marked completed.
CompleteForgotten(a) ==
  /\ At(a, "complete")
  /\ IF act[a].deliver THEN Goto(a, "outbox") ELSE AfterSaga(a)
  /\ UNCHANGED <<kind, loopRow, gates, run, goal, sagaTable, queued, faults>>

\* _mark_completed.
Complete(a) ==
  /\ At(a, "complete")
  /\ unresolved' = unresolved \ {act[a].key}
  /\ IF act[a].deliver THEN Goto(a, "outbox") ELSE AfterSaga(a)
  /\ UNCHANGED <<kind, loopRow, gates, run, goal, sagas, held, queued, faults>>

\* A store raises while the saga is applied.
ApplyRaises(a) ==
  /\ act[a].pc \in {"apply_loop", "apply_run", "apply_goal"} /\ Fault
  /\ MarkFailed(a)
  /\ UNCHANGED <<kind, loopRow, gates, run, goal, queued>>

\* GoalStore.record_result_delivery_outbox.
Enqueue(a) ==
  /\ At(a, "outbox")
  /\ queued' = TRUE
  /\ Rest(a)
  /\ UNCHANGED <<kind, loopRow, gates, run, goal, sagaTable, faults>>

(************* User control (LoopControlService, ApprovalService) ********)

\* cancel_goal and cancel_loop read the loop and choose how to cancel.  A
\* registered schedule has no running loop: only its Run and Goal end.
CancelRequested ==
  /\ At(Control, "idle") /\ Exists(goal)
  /\ \/ loop \in Suspended /\ Goto(Control, "cancel_wait")
     \/ loop = Active /\ Goto(Control, "cancel_active")
     \/ loop = "converged" /\ kind = "scheduled" /\ Goto(Control, "cancel_run")
  /\ UNCHANGED <<kind, loopRow, gates, run, goal, sagaTable, queued, faults>>

\* The loop, if it is still where it was read; the store raises otherwise.
CancelLoop ==
  /\ act[Control].pc \in {"cancel_wait", "cancel_active"}
  /\ LET legal == IF At(Control, "cancel_wait")
                  THEN Suspended \cup {"cancelled"} ELSE {Active} IN
       \/ /\ loop \in legal
          /\ loop' = "cancelled" /\ holder' = NoOwner /\ UNCHANGED <<ver, gate>>
          /\ Goto(Control, "cancel_run")
       \/ loop \notin legal /\ Rest(Control) /\ UNCHANGED loopRow
  /\ UNCHANGED <<kind, gates, run, goal, sagaTable, queued, faults>>

CancelRun ==
  /\ At(Control, "cancel_run")
  /\ run' = Canceled
  /\ Goto(Control, "cancel_goal")
  /\ UNCHANGED <<kind, loopRow, gates, goal, sagaTable, queued, faults>>

CancelGoal ==
  /\ At(Control, "cancel_goal")
  /\ goal' = Canceled
  /\ Rest(Control)
  /\ UNCHANGED <<kind, loopRow, gates, run, sagaTable, queued, faults>>

RejectedRow == R("ended", "rejected", "rejected", "canceled")

\* ApprovalService.resolve: one transaction on approvals and runs.
Approve(k) ==
  /\ At(Control, "idle") /\ gates[k] = "pending"
  /\ gates' = [gates EXCEPT ![k] = "approved"]
  /\ run' = R("pending", "approved", "none", "none")
  /\ UNCHANGED <<kind, loopRow, goal, sagaTable, queued, act, faults>>

Reject(k) ==
  /\ At(Control, "idle") /\ gates[k] = "pending"
  /\ gates' = [gates EXCEPT ![k] = "rejected"]
  /\ run' = RejectedRow
  /\ Goto(Control, "reject_loop")
  /\ UNCHANGED <<kind, loopRow, goal, sagaTable, queued, faults>>

\* _reject_related_goal_loop: reject_external_gate, then the Goal.
RejectLoop ==
  /\ At(Control, "reject_loop")
  /\ \/ /\ loop \in Suspended \cup {"cancelled"}
        /\ loop' = "cancelled" /\ holder' = NoOwner /\ UNCHANGED <<ver, gate>>
        /\ Goto(Control, "reject_goal")
     \/ /\ loop \notin Suspended \cup {"cancelled"}
        /\ Rest(Control) /\ UNCHANGED loopRow
  /\ UNCHANGED <<kind, gates, run, goal, sagaTable, queued, faults>>

RejectGoal ==
  /\ At(Control, "reject_goal")
  /\ goal' = RejectedRow
  /\ Rest(Control)
  /\ UNCHANGED <<kind, loopRow, gates, run, sagaTable, queued, faults>>

(************************** The daemon (SystemDaemon) *************************)

\* The grace period of recover_open_orphans: an open takes less than that.
GracePassed == ~Opening

OrphanedRun  == Exists(run) /\ ~Exists(goal) /\ run.phase # "ended" /\ GracePassed
\* Mutant: a Goal whose Run already ended is not looked at.
OrphanedGoalOfLiveRun ==
  Exists(goal) /\ loop = "none" /\ run.phase # "ended" /\ GracePassed

OrphanedGoal ==
  Exists(goal) /\ loop = "none" /\ goal.phase # "ended" /\ GracePassed

\* __init__ reads the unresolved sagas; they are replayed in the order of
\* their last update, of which the model allows every order.  A start that
\* finds nothing to recover writes nothing.
DaemonStart ==
  /\ At(Daemon, "idle")
  /\ unresolved # {} \/ OrphanedRun \/ OrphanedGoal
  /\ Become(Daemon, [act[Daemon] EXCEPT !.pc = "recover", !.todo = unresolved])
  /\ UNCHANGED <<kind, loopRow, gates, run, goal, sagaTable, queued, faults>>

\* recover_pending: the next saga of the list, then recover_open_orphans lists
\* the Runs and Goals.
Recover ==
  /\ At(Daemon, "recover")
  /\ \/ \E k \in act[Daemon].todo :
          Become(Daemon, [act[Daemon] EXCEPT !.pc = FirstStep(k), !.key = k])
     \/ /\ act[Daemon].todo = {}
        /\ CASE OrphanedRun  -> Goto(Daemon, "orphan_run")
             [] OrphanedGoal -> Goto(Daemon, "orphan_goal")
             [] OTHER        -> Rest(Daemon)
  /\ UNCHANGED <<kind, loopRow, gates, run, goal, sagaTable, queued, faults>>

\* recover_open_orphans works through the Runs and Goals listed by the step
\* before, whatever they have become: it fails a Run listed without a Goal.
OrphanRun ==
  /\ At(Daemon, "orphan_run")
  /\ run' = Failed
  /\ Rest(Daemon)
  /\ UNCHANGED <<kind, loopRow, gates, goal, sagaTable, queued, faults>>

\* A listed Goal for which the loops, read now, hold none: its Run, read
\* again, comes first ...
OrphanGoal ==
  /\ At(Daemon, "orphan_goal")
  /\ IF loop = "none"
     THEN /\ run' = IF run.phase # "ended" THEN Failed ELSE run
          /\ Goto(Daemon, "orphan_close")
     ELSE Rest(Daemon) /\ UNCHANGED run
  /\ UNCHANGED <<kind, loopRow, gates, goal, sagaTable, queued, faults>>

\* ... then the Goal itself.
OrphanClose ==
  /\ At(Daemon, "orphan_close")
  /\ goal' = Failed
  /\ Rest(Daemon)
  /\ UNCHANGED <<kind, loopRow, gates, run, sagaTable, queued, faults>>

\* Mutant: a rejected approval is left to the process that rejected it.
VerdictLeavesRejected(s) ==
  CASE s \in {"pending", "rejected"} -> "leave"
    [] s = "approved" /\ run.phase # "ended" -> "reopen"
    [] s = "expired" /\ kind \in {"durable", "scheduled"} -> "pause"
    [] OTHER -> "cancel"

\* What reconcile_approval_waits decides for a loop parked with the approval
\* status s: none at all cancels it, an expired one parks a durable loop.
Verdict(s) ==
  CASE s = "pending" -> "leave"
    [] s = "approved" /\ run.phase # "ended" -> "reopen"
    [] s = "expired" /\ kind \in {"durable", "scheduled"} -> "pause"
    [] OTHER -> "cancel"

GateStatus == IF gate = 0 THEN "none" ELSE gates[gate]

\* The pass first expires approvals whose time is over.  One that expires
\* nothing and finds the approval pending writes nothing.
ReconcileStart ==
  /\ At(Daemon, "idle") /\ loop = "waiting_approval"
  /\ \E late \in SUBSET {k \in 1 .. MaxGates : gates[k] = "pending"} :
       /\ late # {} \/ Verdict(GateStatus) # "leave"
       /\ gates' = [k \in 1 .. MaxGates |-> IF k \in late THEN "expired" ELSE gates[k]]
  /\ Goto(Daemon, "reconcile")
  /\ UNCHANGED <<kind, loopRow, run, goal, sagaTable, queued, faults>>

Reconcile ==
  /\ At(Daemon, "reconcile")
  /\ LET v == Verdict(GateStatus) IN
       CASE loop # "waiting_approval" \/ v = "leave" -> Rest(Daemon)
         [] loop = "waiting_approval" /\ v = "reopen" -> Goto(Daemon, "reopen")
         [] OTHER -> Become(Daemon, [act[Daemon] EXCEPT !.pc = "read_wait",
                                        !.key = WaitKey(v)])
  /\ UNCHANGED <<kind, loopRow, gates, run, goal, sagaTable, queued, faults>>

ReconcileReopen ==
  /\ At(Daemon, "reopen")
  /\ Reopen \/ (loop \notin Suspended /\ UNCHANGED loop)
  /\ Rest(Daemon)
  /\ UNCHANGED <<kind, ver, holder, gate, gates, run, goal, sagaTable, queued, faults>>

\* compact_expired cancels the wait of a one-shot loop past its retention.
RetentionCancel ==
  /\ At(Daemon, "idle") /\ kind = "turn" /\ loop \in Suspended
  /\ Become(Daemon, [act[Daemon] EXCEPT !.pc = "read_wait", !.key = WaitKey("cancel")])
  /\ UNCHANGED <<kind, loopRow, gates, run, goal, sagaTable, queued, faults>>

\* cancel_external_wait_durably and pause_external_wait_durably return or
\* raise when the loop left its wait.
ReadWait ==
  /\ At(Daemon, "read_wait")
  /\ IF loop \in Suspended \ {"paused"} \/ (loop = "paused" /\ act[Daemon].key.op = "cancel")
     THEN Goto(Daemon, "prepare") ELSE Rest(Daemon)
  /\ UNCHANGED <<kind, loopRow, gates, run, goal, sagaTable, queued, faults>>

\* A process dies between two transactions.
Crash(a) ==
  /\ ~At(a, "idle") /\ Fault
  /\ Rest(a)
  /\ UNCHANGED <<kind, loopRow, gates, run, goal, sagaTable, queued>>

(******************************* Specification ********************************)

Open ==
  OpenRun \/ OpenGoal \/ OpenLoop \/ RegisterRun \/ RegisterGoal
    \/ CompensateRun \/ CompensateGoal
Drive(d) ==
  MarkRun(d) \/ MarkGoal(d) \/ Claim(d) \/ Stop(d) \/ Raise(d)
    \/ FailLoop(d) \/ Enqueue(d)
Saga(a) ==
  Prepare(a) \/ ApplyLoop(a) \/ ApplyRun(a) \/ ApplyGoal(a) \/ Complete(a)
Command ==
  CancelLoop \/ CancelRun \/ CancelGoal \/ RejectLoop \/ RejectGoal
Serve ==
  Recover \/ OrphanRun \/ OrphanGoal \/ OrphanClose \/ Reconcile
    \/ ReconcileReopen \/ ReadWait

Next ==
  \/ Open \/ OpenGoalRaises \/ OpenRaises
  \/ \E d \in Driver : Resume(d) \/ RequestApproval(d) \/ Drive(d)
  \/ LeaseExpires
  \/ \E a \in Driver \cup {Daemon} : Saga(a) \/ ApplyRaises(a)
  \/ CancelRequested \/ Command
  \/ \E k \in 1 .. MaxGates : Approve(k) \/ Reject(k)
  \/ DaemonStart \/ ReconcileStart \/ RetentionCancel \/ Serve
  \/ \E a \in Actor : Crash(a)

Spec == Init /\ [][Next]_vars

\* A process that is neither dead nor idle takes its next step, and the daemon
\* is started, and runs its reconciliation pass, again and again.
FairSpec ==
  /\ Spec
  /\ WF_vars(Open) /\ WF_vars(Command) /\ WF_vars(Serve)
  /\ \A a \in Driver \cup {Daemon} : WF_vars(Saga(a))
  /\ \A d \in Driver : WF_vars(Drive(d))
  /\ WF_vars(DaemonStart) /\ WF_vars(ReconcileStart)

(********************************* Properties *********************************)

Success(row) == row.acc = "accepted" \/ row.res = "success"

\* No Run or Goal ever reads accepted or successful, and no result is queued
\* for delivery, unless the loop of the objective converged: whatever crashes,
\* replayed sagas and late writers come in between.
SuccessIsConverged ==
  Success(run) \/ Success(goal) \/ queued => loop = "converged"

\* What justifies a cancellation: the loop was cancelled or superseded, a user
\* rejected an approval, or a registered schedule was cancelled.
Caused ==
  \/ loop \in {"cancelled", "superseded"}
  \/ \E k \in 1 .. MaxGates : gates[k] = "rejected"
  \/ kind = "scheduled"

\* A Run or Goal reads canceled only if the cancellation is caused: a saga
\* that cancels a wait settles the loop before it projects.
CancelIsCaused == run.res = "canceled" \/ goal.res = "canceled" => Caused

\* Startup recovery never races an in-flight creator: an objective whose Goal
\* was ended without a loop gets no loop later.
EndedOpenStaysClosed ==
  [][loop = "none" /\ goal.phase = "ended" => loop' = "none"]_vars

\* A partial open is terminated: a Run (a Goal) that was created either ends
\* or gets its loop.
OpensSettle ==
  /\ Exists(run) ~> (run.phase = "ended" \/ loop # "none")
  /\ Exists(goal) ~> (goal.phase = "ended" \/ loop # "none")

\* The sagas of results and of execution failures are replayed until they
\* completed: again and again none of them is left.
ResultsAreProjected ==
  []<>(\A k \in unresolved : k.op \notin {"result", "exception"})

\* A loop does not wait on an approval that is decided or missing.
DecidedWaitsEnd ==
  (loop = "waiting_approval" /\ GateStatus # "pending")
    ~> (loop # "waiting_approval")

================================================================================
