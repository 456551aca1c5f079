---------------------------- MODULE DeliveryOutbox -----------------------------
(****************************************************************************)
(* One batch of the delivery outbox (delivery_outbox.py) from the moment it *)
(* is enqueued until the connector's receipts, or its refusal, are          *)
(* projected onto the LoopRun, the Run and the Goal (weixin/service.py,     *)
(* goals.py).  The outbox, the loops, the runs and the goals are four       *)
(* databases: every write to one of them is a step of its own, and a worker *)
(* may stop between any two.                                                *)
(*                                                                          *)
(* Two kinds of batch exist.  A background result is one text item that may *)
(* have a deadline; its loop has already converged.  An outbound file, with *)
(* its caption, has no deadline and a loop that paused for the receipt.     *)
(*                                                                          *)
(* Times are abstracted to the comparisons the code makes: whether an item  *)
(* is due, whether its claim is older than the stale limit and whether its  *)
(* deadline has passed.  The wait while the proactive circuit is open is    *)
(* part of not being due.                                                   *)
(****************************************************************************)
EXTENDS Integers, FiniteSets

CONSTANTS
  Worker,       \* processes that drain the channel
  Item,         \* items of the batches
  NoItem,       \* a worker that holds no claim
  Batch,        \* the batches that may be enqueued
  MaxAttempts,  \* DeliveryItem.max_attempts
  MaxCrashes,   \* bound: workers that stop in the middle of a pass
  MaxStalls,    \* bound: claims that outlive the stale limit in a live worker
  MaxRequeues   \* bound: failed items that are requeued

ASSUME ItemAssumption == NoItem \notin Item
ASSUME BoundAssumption ==
  /\ MaxAttempts \in Nat \ {0}
  /\ MaxCrashes \in Nat /\ MaxStalls \in Nat /\ MaxRequeues \in Nat

\* loop: a paused loop waits for the batch; deadline: transport_context has an
\* expires_at.
ASSUME BatchAssumption ==
  Batch \subseteq [items : SUBSET Item, loop : BOOLEAN, deadline : BOOLEAN]

VARIABLES
  batch,     \* the batch, which never changes
  row,       \* row[i]: the delivery_outbox row
  expired,   \* the batch's deadline has passed
  accepted,  \* items the connector's service has accepted
  worker,    \* worker[w]: where its drain pass stands
  loop,      \* terminal_state of the waiting loop
  run,       \* acceptance of the Run
  goal,      \* acceptance of the Goal
  crashes, stalls, requeues

vars == <<batch, row, expired, accepted, worker, loop, run, goal,
          crashes, stalls, requeues>>

\* Of the stored error only its session-expired prefix is ever looked at.
ErrorText(reason) == IF reason = "session" THEN "session" ELSE "other"

Status == {"absent", "pending", "sending", "sent", "failed"}

\* Failure reasons as the adapter classifies them.
Retryable == {"unavailable", "throttled"}
Terminal == {"session", "rejected"}

Row == [status: Status, attempts: Nat, due: BOOLEAN, old: BOOLEAN,
        error: {"none", "session", "other"}, projected: BOOLEAN]

Place == {"idle", "claim", "deliver", "sent", "refused", "report", "fail_run",
          "fail_goal", "project", "ok_loop", "ok_run", "ok_goal", "mark"}

WorkerState == [pc: Place, item: Item \cup {NoItem}, attempts: Nat,
                reason: {"none"} \cup Retryable \cup Terminal,
                failures: SUBSET Item]

Idle == [pc |-> "idle", item |-> NoItem, attempts |-> 0, reason |-> "none",
         failures |-> {}]

Absent == [status |-> "absent", attempts |-> 0, due |-> FALSE, old |-> FALSE,
           error |-> "none", projected |-> FALSE]

HasLoop == batch.loop
HasDeadline == batch.deadline

Init ==
  /\ batch \in Batch
  /\ row = [i \in Item |-> Absent]
  /\ expired = FALSE
  /\ accepted = {}
  /\ worker = [w \in Worker |-> Idle]
  /\ loop = "paused"
  /\ run = "open"
  /\ goal = "open"
  /\ crashes = 0 /\ stalls = 0 /\ requeues = 0

At(w, pc) == worker[w].pc = pc

Write(i, r) == row' = [row EXCEPT ![i] = r]

Become(w, s) == worker' = [worker EXCEPT ![w] = s]

Goto(w, pc) == Become(w, [worker[w] EXCEPT !.pc = pc])

bounds == <<crashes, stalls, requeues>>
projection == <<loop, run, goal>>

--------------------------------------------------------------------------------
\* DeliveryOutboxStore

Fresh == [Absent EXCEPT !.status = "pending", !.due = TRUE]

\* Mutant: the insertion replaces a row that exists.
Overwritten(i) == Fresh

\* INSERT OR IGNORE: an item that exists is left as it is.
Inserted(i) == IF row[i].status = "absent" THEN Fresh ELSE row[i]

\* enqueue: a repeated request for the same batch finds its items.
Enqueue ==
  /\ row' = [i \in Item |-> IF i \in batch.items THEN Inserted(i) ELSE row[i]]
  /\ UNCHANGED <<batch, expired, accepted, worker, projection, bounds>>

\* Mutant: the recovery notes the interruption and leaves the claim.
RecoveredNote(i) ==
  IF row[i].status = "sending" /\ row[i].old
  THEN [row[i] EXCEPT !.error = "other"]
  ELSE row[i]

\* recover_stale_sending returns every interrupted claim to the queue.
Recovered(i) ==
  IF row[i].status = "sending" /\ row[i].old
  THEN [row[i] EXCEPT !.status = "pending", !.due = TRUE, !.old = FALSE,
                      !.error = "other"]
  ELSE row[i]

Ready(i) == row[i].status = "pending" /\ row[i].due

\* Row i after mark_sent, schedule_retry and mark_failed.
MarkSent(i) ==
  IF row[i].status \in {"pending", "sending"}
  THEN [row[i] EXCEPT !.status = "sent", !.error = "none"]
  ELSE row[i]

ScheduleRetry(i, reason) ==
  IF row[i].status = "sending"
  THEN [row[i] EXCEPT !.status = "pending", !.due = FALSE, !.old = FALSE,
                      !.error = ErrorText(reason)]
  ELSE row[i]

MarkFailed(i, reason) ==
  IF row[i].status \in {"pending", "sending"}
  THEN [row[i] EXCEPT !.status = "failed", !.error = ErrorText(reason)]
  ELSE row[i]

Failed(i) == row[i].status = "failed" /\ (HasDeadline => ~expired)

\* requeue_failed
RequeueFailed(i) ==
  /\ Failed(i)
  /\ requeues < MaxRequeues
  /\ requeues' = requeues + 1
  /\ Write(i, Fresh)
  /\ UNCHANGED <<batch, expired, accepted, worker, projection, crashes, stalls>>

\* "navi connectors outbox --retry-id": an explicit retry of one failed item.
RetryCommand(i) == RequeueFailed(i)

\* handle_update with a fresh session: only items with a deadline that failed
\* for the old one (_requeue_session_recoverable_deliveries).
SessionRefresh(i) ==
  /\ HasDeadline
  /\ row[i].error = "session"
  /\ RequeueFailed(i)

\* Mutant: one receipt completes the batch.
CompleteByOne ==
  \E i \in batch.items : row[i].status = "sent" /\ ~row[i].projected

\* complete_unprojected_batches
Complete ==
  \A i \in batch.items : row[i].status = "sent" /\ ~row[i].projected

--------------------------------------------------------------------------------
\* DeliveryCoordinator.drain

Begin(w) ==
  /\ At(w, "idle")
  /\ \E i \in Item : row[i].status # "absent"
  /\ row' = [i \in Item |-> Recovered(i)]
  /\ Goto(w, "claim")
  /\ UNCHANGED <<batch, expired, accepted, projection, bounds>>

\* claim_ready with limit 1: the attempt is counted by the claim.
Claim(w, i) ==
  /\ At(w, "claim")
  /\ Ready(i)
  /\ Write(i, [row[i] EXCEPT !.status = "sending", !.old = FALSE,
                             !.attempts = row[i].attempts + 1])
  /\ Become(w, [worker[w] EXCEPT !.pc = "deliver", !.item = i,
                                 !.attempts = row[i].attempts + 1])
  /\ UNCHANGED <<batch, expired, accepted, projection, bounds>>

NothingReady(w) ==
  /\ At(w, "claim")
  /\ \A i \in Item : ~Ready(i)
  /\ Goto(w, "report")
  /\ UNCHANGED <<batch, row, expired, accepted, projection, bounds>>

\* The outcome of an item that is not delivered joins those to be projected.
Report(w, pc) ==
  Become(w, [pc |-> pc, item |-> NoItem, attempts |-> 0, reason |-> "none",
             failures |-> worker[w].failures \cup {worker[w].item}])

\* The outcome of an item that was sent, or will be tried again.
Forget(w, pc) ==
  Become(w, [pc |-> pc, item |-> NoItem, attempts |-> 0, reason |-> "none",
             failures |-> worker[w].failures])

\* The deadline is looked at between the claim and the submission.
Expire(w) ==
  /\ At(w, "deliver")
  /\ HasDeadline /\ expired
  /\ Write(worker[w].item, MarkFailed(worker[w].item, "expired"))
  /\ Report(w, "claim")
  /\ UNCHANGED <<batch, expired, accepted, projection, bounds>>

\* transport.deliver: the service accepts the item and the receipt arrives.
Deliver(w) ==
  /\ At(w, "deliver")
  /\ ~(HasDeadline /\ expired)
  /\ accepted' = accepted \cup {worker[w].item}
  /\ Goto(w, "sent")
  /\ UNCHANGED <<batch, row, expired, projection, bounds>>

\* transport.deliver raises; on a timeout the service may have accepted.
DeliverFails(w, reason) ==
  /\ At(w, "deliver")
  /\ ~(HasDeadline /\ expired)
  /\ accepted' \in {accepted} \cup
       (IF reason = "unavailable" THEN {accepted \cup {worker[w].item}} ELSE {})
  /\ Become(w, [worker[w] EXCEPT !.pc = "refused", !.reason = reason])
  /\ UNCHANGED <<batch, row, expired, projection, bounds>>

RecordSent(w) ==
  /\ At(w, "sent")
  /\ Write(worker[w].item, MarkSent(worker[w].item))
  /\ Forget(w, "claim")
  /\ UNCHANGED <<batch, expired, accepted, projection, bounds>>

\* The item as it was claimed decides, not the row as it is now.
MayRetry(w) ==
  worker[w].reason \in Retryable /\ worker[w].attempts < MaxAttempts

\* A throttled connector ends the pass.
RecordRetry(w) ==
  /\ At(w, "refused")
  /\ MayRetry(w)
  /\ Write(worker[w].item, ScheduleRetry(worker[w].item, worker[w].reason))
  /\ Forget(w, IF worker[w].reason = "throttled" THEN "report" ELSE "claim")
  /\ UNCHANGED <<batch, expired, accepted, projection, bounds>>

RecordFailure(w) ==
  /\ At(w, "refused")
  /\ ~MayRetry(w)
  /\ Write(worker[w].item, MarkFailed(worker[w].item, worker[w].reason))
  /\ Report(w, "claim")
  /\ UNCHANGED <<batch, expired, accepted, projection, bounds>>

--------------------------------------------------------------------------------
\* Projection of the outcomes (WeixinService._drain_delivery_outbox)

\* complete_external_delivery accepts the outcome of a paused loop, or the one
\* it already has; anything else raises and the projection is given up.
Settles(outcome) == ~HasLoop \/ loop \in {"paused", outcome}

SettleLoop(outcome) == loop' = IF HasLoop THEN outcome ELSE loop

\* record_delivery_failure of one failed item: the loop.
FailLoop(w) ==
  /\ At(w, "report")
  /\ \E i \in worker[w].failures :
       IF Settles("failed")
       THEN /\ SettleLoop("failed")
            /\ Become(w, [worker[w] EXCEPT !.pc = "fail_run",
                                           !.failures = @ \ {i}])
       ELSE /\ Become(w, [worker[w] EXCEPT !.failures = @ \ {i}])
            /\ UNCHANGED loop
  /\ UNCHANGED <<batch, row, expired, accepted, run, goal, bounds>>

\* ... the run, whatever it is, and then the goal.
FailRun(w) ==
  /\ At(w, "fail_run")
  /\ run' = "rejected"
  /\ Goto(w, "fail_goal")
  /\ UNCHANGED <<batch, row, expired, accepted, loop, goal, bounds>>

FailGoal(w) ==
  /\ At(w, "fail_goal")
  /\ goal' = "rejected"
  /\ Goto(w, "report")
  /\ UNCHANGED <<batch, row, expired, accepted, loop, run, bounds>>

Reported(w) ==
  /\ At(w, "report")
  /\ worker[w].failures = {}
  /\ Goto(w, "project")
  /\ UNCHANGED <<batch, row, expired, accepted, projection, bounds>>

\* Mutant: the batch is marked before it is projected.
MarkFirst(w) ==
  /\ At(w, "project")
  /\ Goto(w, IF Complete THEN "ok_loop" ELSE "idle")
  /\ row' = [i \in Item |-> [row[i] EXCEPT !.projected = @ \/ Complete]]
  /\ UNCHANGED <<batch, expired, accepted, projection, bounds>>

\* _project_completed_delivery_batches reads the outbox ...
FindComplete(w) ==
  /\ At(w, "project")
  /\ Goto(w, IF Complete THEN "ok_loop" ELSE "idle")
  /\ UNCHANGED <<batch, row, expired, accepted, projection, bounds>>

\* ... and record_delivery settles the loop, the run and the goal in turn.
ConvergeLoop(w) ==
  /\ At(w, "ok_loop")
  /\ IF Settles("converged")
     THEN SettleLoop("converged") /\ Goto(w, "ok_run")
     ELSE Goto(w, "idle") /\ UNCHANGED loop
  /\ UNCHANGED <<batch, row, expired, accepted, run, goal, bounds>>

AcceptRun(w) ==
  /\ At(w, "ok_run")
  /\ run' = "accepted"
  /\ Goto(w, "ok_goal")
  /\ UNCHANGED <<batch, row, expired, accepted, loop, goal, bounds>>

AcceptGoal(w) ==
  /\ At(w, "ok_goal")
  /\ goal' = "accepted"
  /\ Goto(w, "mark")
  /\ UNCHANGED <<batch, row, expired, accepted, loop, run, bounds>>

\* mark_batch_projected, after the projection.
MarkProjected(w) ==
  /\ At(w, "mark")
  /\ row' = [i \in Item |-> [row[i] EXCEPT !.projected = @ \/ i \in batch.items]]
  /\ Goto(w, "idle")
  /\ UNCHANGED <<batch, expired, accepted, projection, bounds>>

--------------------------------------------------------------------------------
\* Time and failures

\* next_attempt_at is reached.
BecomeDue(i) ==
  /\ row[i].status = "pending" /\ ~row[i].due
  /\ Write(i, [row[i] EXCEPT !.due = TRUE])
  /\ UNCHANGED <<batch, expired, accepted, worker, projection, bounds>>

Holds(w, i) == worker[w].item = i

Orphan(i) == \A w \in Worker : ~Holds(w, i)

\* The claim passes the stale limit: its worker is gone ...
OutliveWorker(i) ==
  /\ row[i].status = "sending" /\ ~row[i].old
  /\ Orphan(i)
  /\ Write(i, [row[i] EXCEPT !.old = TRUE])
  /\ UNCHANGED <<batch, expired, accepted, worker, projection, bounds>>

\* ... or is still waiting for the service.
Stall(i) ==
  /\ row[i].status = "sending" /\ ~row[i].old
  /\ ~Orphan(i)
  /\ stalls < MaxStalls
  /\ stalls' = stalls + 1
  /\ Write(i, [row[i] EXCEPT !.old = TRUE])
  /\ UNCHANGED <<batch, expired, accepted, worker, projection, crashes, requeues>>

Deadline ==
  /\ HasDeadline /\ ~expired
  /\ expired' = TRUE
  /\ UNCHANGED <<batch, row, accepted, worker, projection, bounds>>

\* The process stops and is started again; what it held in memory is lost.
Crash(w) ==
  /\ ~At(w, "idle")
  /\ crashes < MaxCrashes
  /\ crashes' = crashes + 1
  /\ Become(w, Idle)
  /\ UNCHANGED <<batch, row, expired, accepted, projection, stalls, requeues>>

WorkerStep(w) ==
  \/ Begin(w)
  \/ \E i \in Item : Claim(w, i)
  \/ NothingReady(w)
  \/ Expire(w)
  \/ Deliver(w)
  \/ \E reason \in Retryable \cup Terminal : DeliverFails(w, reason)
  \/ RecordSent(w)
  \/ RecordRetry(w)
  \/ RecordFailure(w)
  \/ FailLoop(w)
  \/ FailRun(w)
  \/ FailGoal(w)
  \/ Reported(w)
  \/ FindComplete(w)
  \/ ConvergeLoop(w)
  \/ AcceptRun(w)
  \/ AcceptGoal(w)
  \/ MarkProjected(w)

Timer ==
  \E i \in Item : BecomeDue(i) \/ OutliveWorker(i)

Next ==
  \/ Enqueue
  \/ \E w \in Worker : WorkerStep(w) \/ Crash(w)
  \/ \E i \in Item : RetryCommand(i) \/ SessionRefresh(i) \/ Stall(i)
  \/ Timer
  \/ Deadline

Spec == Init /\ [][Next]_vars

\* The service drains the outbox in every round of its polling loop and a
\* stopped service is started again; the clock moves on.
FairSpec ==
  /\ Spec
  /\ \A w \in Worker : WF_vars(WorkerStep(w))
  /\ \A i \in Item : WF_vars(BecomeDue(i)) /\ WF_vars(OutliveWorker(i))

--------------------------------------------------------------------------------
\* Properties

\* Rows, workers and projections have their types, and a worker remembers an
\* item exactly from its claim until the outcome is stored.
TypeOK ==
  /\ batch \in Batch
  /\ row \in [Item -> Row]
  /\ expired \in BOOLEAN
  /\ accepted \subseteq Item
  /\ worker \in [Worker -> WorkerState]
  /\ \A w \in Worker : worker[w].item # NoItem
                        <=> worker[w].pc \in {"deliver", "sent", "refused"}
  /\ loop \in {"paused", "converged", "failed"}
  /\ run \in {"open", "accepted", "rejected"}
  /\ goal \in {"open", "accepted", "rejected"}
  /\ crashes \in 0..MaxCrashes
  /\ stalls \in 0..MaxStalls
  /\ requeues \in 0..MaxRequeues

\* Only complete receipts converge the loop and accept the Run and the Goal:
\* by then the service has accepted every item of the batch.
AcceptedMeansDelivered ==
  loop = "converged" \/ "accepted" \in {run, goal}
    => batch.items \subseteq accepted

\* What makes it inductive: a receipt in the outbox or in a worker's hands is
\* one the service gave, and a batch is projected only when it has them all.
ReceiptsAreReal ==
  /\ \A i \in Item : row[i].status = "sent" => i \in accepted
  /\ \A w \in Worker :
       /\ worker[w].pc = "sent" => worker[w].item \in accepted
       /\ worker[w].pc \in {"ok_loop", "ok_run", "ok_goal", "mark"}
            => batch.items \subseteq accepted

OutboxInv == TypeOK /\ ReceiptsAreReal /\ AcceptedMeansDelivered

\* A receipt is never lost: an item that was sent stays sent, whatever a
\* worker that lost its claim, a requeue or a repeated request still does.
SentIsForever ==
  [][\A i \in Item : row[i].status = "sent" => row'[i].status = "sent"]_row

\* The caption and the file are independent: whatever happens to one item, to
\* the service or to a worker, each queued item is in the end sent or failed.
ItemsSettle ==
  \A i \in Item : row[i].status \in {"pending", "sending"}
                     ~> row[i].status \in {"sent", "failed"}

\* record_delivery applies the receipts to loop, run and goal: a batch that
\* is completely sent ends up accepted, also after a crash in between.  The
\* exception is a batch that failed and was requeued: its loop may have settled
\* as failed, and complete_external_delivery then refuses the receipts.
ReceiptsAreProjected ==
  (\A i \in batch.items : row[i].status = "sent")
    ~> \/ run = "accepted" /\ goal = "accepted"
       \/ loop = "failed" /\ requeues > 0

================================================================================
