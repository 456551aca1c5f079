---------------------------- MODULE ConnectorProofs ---------------------------
(* Theorems about the connectors: the outbox that their workers deliver    *)
(* from (DeliveryOutbox) and the way of a message to a turn and of the     *)
(* turn to an answer (ConnectorIngress), for any workers, items, messages, *)
(* kinds of connector and bounds.                                          *)
EXTENDS DeliveryOutbox, ConnectorIngress, FiniteSetTheorems, SequenceTheorems,
        WellFoundedInduction, TLAPS

-----------------------------------------------------------------------------
(* DeliveryOutbox.                                                         *)

\* What every write to the outbox does to a row: it stays well formed, a sent
\* row stays sent, and a row becomes sent only with a receipt.
GoodRow(i, r) ==
  /\ r \in Row
  /\ row[i].status = "sent" => r.status = "sent"
  /\ r.status = "sent" => row[i].status = "sent" \/ i \in accepted

GoodRows(all) == /\ DOMAIN all = Item
                 /\ all = [i \in Item |-> all[i]]
                 /\ \A i \in Item : GoodRow(i, all[i])

\* Rows that are left alone are good.
LEMMA SameRow ==
  ASSUME TypeOK, NEW i \in Item PROVE GoodRow(i, row[i]) /\ GoodRows(row)
BY DEF TypeOK, GoodRow, GoodRows

\* A write to one row.
LEMMA OneRow ==
  ASSUME TypeOK, NEW i \in Item, NEW r, GoodRow(i, r)
  PROVE  GoodRows([row EXCEPT ![i] = r])
BY SameRow DEF TypeOK, GoodRow, GoodRows

\* A row of the outbox, field by field.
LEMMA RowFields ==
  ASSUME NEW s \in Status, NEW a \in Nat, NEW d \in BOOLEAN, NEW o \in BOOLEAN,
         NEW e \in {"none", "session", "other"}, NEW p \in BOOLEAN
  PROVE  [status |-> s, attempts |-> a, due |-> d, old |-> o, error |-> e,
          projected |-> p] \in Row
BY DEF Row

\* The error column of any reason.
LEMMA ErrorType ==
  ASSUME NEW reason PROVE ErrorText(reason) \in {"none", "session", "other"}
BY DEF ErrorText

\* enqueue inserts rows that are not sent.
LEMMA InsertedGood ==
  ASSUME TypeOK, NEW i \in Item PROVE GoodRow(i, Inserted(i))
<1>1. Fresh \in Row /\ Fresh.status = "pending"
  BY DEF Fresh, Absent, Row, Status
<1> QED
  BY <1>1, SameRow DEF Inserted, GoodRow

\* recover_stale_sending leaves sent rows alone.
LEMMA RecoveredGood ==
  ASSUME TypeOK, NEW i \in Item PROVE GoodRow(i, Recovered(i))
<1>1. CASE row[i].status = "sending" /\ row[i].old
  <2>1. Recovered(i) = [status |-> "pending", attempts |-> row[i].attempts,
                        due |-> TRUE, old |-> FALSE, error |-> "other",
                        projected |-> row[i].projected]
    BY <1>1 DEF Recovered, TypeOK, Row
  <2>2. Recovered(i) \in Row
    BY <2>1, RowFields DEF TypeOK, Row, Status
  <2> QED
    BY <1>1, <2>1, <2>2 DEF GoodRow
<1>2. CASE ~(row[i].status = "sending" /\ row[i].old)
  BY <1>2, SameRow DEF Recovered
<1> QED
  BY <1>1, <1>2

\* mark_sent needs the receipt.
LEMMA MarkSentGood ==
  ASSUME TypeOK, NEW i \in Item, i \in accepted PROVE GoodRow(i, MarkSent(i))
<1>1. CASE row[i].status \in {"pending", "sending"}
  <2> DEFINE r == [status |-> "sent", attempts |-> row[i].attempts,
                   due |-> row[i].due, old |-> row[i].old, error |-> "none",
                   projected |-> row[i].projected]
  <2>1. MarkSent(i) = r
    BY <1>1 DEF MarkSent, TypeOK, Row
  <2>2. r \in Row
    BY RowFields DEF TypeOK, Row, Status
  <2> QED
    BY <2>1, <2>2 DEF GoodRow
<1>2. CASE row[i].status \notin {"pending", "sending"}
  BY <1>2, SameRow DEF MarkSent
<1> QED
  BY <1>1, <1>2

\* schedule_retry and mark_failed leave sent rows alone.
LEMMA RetryGood ==
  ASSUME TypeOK, NEW i \in Item, NEW reason
  PROVE  GoodRow(i, ScheduleRetry(i, reason))
<1>1. CASE row[i].status = "sending"
  <2> DEFINE r == [status |-> "pending", attempts |-> row[i].attempts,
                   due |-> FALSE, old |-> FALSE, error |-> ErrorText(reason),
                   projected |-> row[i].projected]
  <2>1. ScheduleRetry(i, reason) = r
    BY <1>1 DEF ScheduleRetry, TypeOK, Row
  <2>2. r \in Row
    BY RowFields, ErrorType DEF TypeOK, Row, Status
  <2> QED
    BY <1>1, <2>1, <2>2 DEF GoodRow
<1>2. CASE row[i].status # "sending"
  BY <1>2, SameRow DEF ScheduleRetry
<1> QED
  BY <1>1, <1>2

\* The same for mark_failed.
LEMMA MarkFailedGood ==
  ASSUME TypeOK, NEW i \in Item, NEW reason
  PROVE  GoodRow(i, MarkFailed(i, reason))
<1>1. CASE row[i].status \in {"pending", "sending"}
  <2> DEFINE r == [status |-> "failed", attempts |-> row[i].attempts,
                   due |-> row[i].due, old |-> row[i].old,
                   error |-> ErrorText(reason), projected |-> row[i].projected]
  <2>1. MarkFailed(i, reason) = r
    BY <1>1 DEF MarkFailed, TypeOK, Row
  <2>2. r \in Row
    BY RowFields, ErrorType DEF TypeOK, Row, Status
  <2> QED
    BY <1>1, <2>1, <2>2 DEF GoodRow
<1>2. CASE row[i].status \notin {"pending", "sending"}
  BY <1>2, SameRow DEF MarkFailed
<1> QED
  BY <1>1, <1>2

\* A claim, a timer or the projection mark leaves the receipt alone.
LEMMA PlainWrites ==
  ASSUME TypeOK, NEW i \in Item
  PROVE  /\ row[i].status # "sent"
              => /\ GoodRow(i, [row[i] EXCEPT !.status = "sending", !.old = FALSE,
                                              !.attempts = row[i].attempts + 1])
                 /\ GoodRow(i, Fresh)
         /\ GoodRow(i, [row[i] EXCEPT !.due = TRUE])
         /\ GoodRow(i, [row[i] EXCEPT !.old = TRUE])
         /\ \A p \in BOOLEAN : GoodRow(i, [row[i] EXCEPT !.projected = p])
<1>1. /\ row[i] \in Row /\ row[i].status \in Status /\ row[i].attempts + 1 \in Nat
      /\ row[i] = [status |-> row[i].status, attempts |-> row[i].attempts,
                   due |-> row[i].due, old |-> row[i].old,
                   error |-> row[i].error, projected |-> row[i].projected]
  BY DEF TypeOK, Row
<1>2. [row[i] EXCEPT !.due = TRUE] \in Row
  BY <1>1 DEF Row
<1>3. [row[i] EXCEPT !.old = TRUE] \in Row
  BY <1>1 DEF Row
<1>4. \A p \in BOOLEAN : [row[i] EXCEPT !.projected = p] \in Row
  BY <1>1 DEF Row
<1>5. Fresh \in Row /\ Fresh.status = "pending"
  BY DEF Fresh, Absent, Row, Status
<1>6. ASSUME NEW x \in Row, NEW a \in Nat
      PROVE  [x EXCEPT !.status = "sending", !.old = FALSE, !.attempts = a] \in Row
  BY DEF Row, Status
<1>7. /\ [row[i] EXCEPT !.status = "sending", !.old = FALSE,
                        !.attempts = row[i].attempts + 1] \in Row
      /\ [row[i] EXCEPT !.status = "sending", !.old = FALSE,
                        !.attempts = row[i].attempts + 1].status = "sending"
  BY <1>1, <1>6
<1>8. ASSUME row[i].status # "sent"
      PROVE  /\ GoodRow(i, [row[i] EXCEPT !.status = "sending", !.old = FALSE,
                                          !.attempts = row[i].attempts + 1])
             /\ GoodRow(i, Fresh)
  BY <1>5, <1>7, <1>8 DEF GoodRow
<1>9. /\ GoodRow(i, [row[i] EXCEPT !.due = TRUE])
      /\ GoodRow(i, [row[i] EXCEPT !.old = TRUE])
      /\ \A p \in BOOLEAN : GoodRow(i, [row[i] EXCEPT !.projected = p])
  BY <1>1, <1>2, <1>3, <1>4 DEF GoodRow
<1> QED
  BY <1>8, <1>9

\* A worker that is well formed and whose receipts are real.
GoodWorker(s, acc) ==
  /\ s \in WorkerState
  /\ s.item # NoItem <=> s.pc \in {"deliver", "sent", "refused"}
  /\ s.pc = "sent" => s.item \in acc
  /\ s.pc \in {"ok_loop", "ok_run", "ok_goal", "mark"} => batch.items \subseteq acc

GoodWorkers(ws, acc) ==
  /\ ws \in [Worker -> WorkerState]
  /\ \A w \in Worker : GoodWorker(ws[w], acc)

\* The workers of a state that satisfies the invariant are good, and stay so
\* when the service accepts more.
LEMMA SameWorkers ==
  ASSUME OutboxInv, NEW acc, accepted \subseteq acc, acc \subseteq Item
  PROVE  GoodWorkers(worker, acc)
BY DEF OutboxInv, TypeOK, ReceiptsAreReal, GoodWorkers, GoodWorker

\* One worker moves.
LEMMA OneWorker ==
  ASSUME OutboxInv, NEW acc, accepted \subseteq acc, acc \subseteq Item,
         NEW w \in Worker, NEW s, GoodWorker(s, acc)
  PROVE  GoodWorkers([worker EXCEPT ![w] = s], acc)
<1>1. GoodWorkers(worker, acc)
  BY SameWorkers
<1> QED
  BY <1>1 DEF GoodWorkers, GoodWorker

\* What a step has to establish for the invariant.
LEMMA StepKeepsInv ==
  ASSUME OutboxInv, GoodRows(row'), UNCHANGED batch, expired' \in BOOLEAN,
         accepted \subseteq accepted', accepted' \subseteq Item,
         GoodWorkers(worker', accepted'),
         loop' \in {"paused", "converged", "failed"},
         run' \in {"open", "accepted", "rejected"},
         goal' \in {"open", "accepted", "rejected"},
         loop' = "converged" => loop = "converged" \/ batch.items \subseteq accepted,
         run' = "accepted" => run = "accepted" \/ batch.items \subseteq accepted,
         goal' = "accepted" => goal = "accepted" \/ batch.items \subseteq accepted,
         crashes' \in 0..MaxCrashes, stalls' \in 0..MaxStalls,
         requeues' \in 0..MaxRequeues
  PROVE  /\ OutboxInv'
         /\ \A i \in Item : row[i].status = "sent" => row'[i].status = "sent"
<1>1. row' \in [Item -> Row]
  BY DEF GoodRows, GoodRow
<1>2. TypeOK'
  BY <1>1 DEF OutboxInv, TypeOK, GoodWorkers, GoodWorker
<1>3. ReceiptsAreReal'
  BY DEF OutboxInv, ReceiptsAreReal, GoodRows, GoodRow, GoodWorkers, GoodWorker
<1>4. AcceptedMeansDelivered'
  BY DEF OutboxInv, AcceptedMeansDelivered
<1> QED
  BY <1>2, <1>3, <1>4 DEF OutboxInv, GoodRows, GoodRow

\* The places at which a worker holds no claim and needs no receipts.
Free == {"idle", "claim", "report", "fail_run", "fail_goal", "project"}

\* A worker without a claim goes on to another such place.
LEMMA GotoFree ==
  ASSUME OutboxInv, NEW acc, NEW w \in Worker, NEW pc \in Free,
         worker[w].pc \notin {"deliver", "sent", "refused"}
  PROVE  GoodWorker([worker[w] EXCEPT !.pc = pc], acc)
BY DEF OutboxInv, TypeOK, WorkerState, GoodWorker, Free, Place

\* A worker goes on with the projection of a complete batch.
LEMMA GotoProjection ==
  ASSUME OutboxInv, NEW w \in Worker, batch.items \subseteq accepted,
         NEW pc \in {"ok_loop", "ok_run", "ok_goal", "mark"},
         worker[w].pc \notin {"deliver", "sent", "refused"}
  PROVE  GoodWorker([worker[w] EXCEPT !.pc = pc], accepted)
BY DEF OutboxInv, TypeOK, WorkerState, GoodWorker, Place

\* A worker that stores an outcome, or starts again, holds no claim.
LEMMA Released ==
  ASSUME NEW acc, NEW pc \in Free, NEW f \in SUBSET Item
  PROVE  GoodWorker([pc |-> pc, item |-> NoItem, attempts |-> 0,
                     reason |-> "none", failures |-> f], acc)
BY DEF WorkerState, GoodWorker, Free, Place

\* The item of a worker that holds a claim.
LEMMA ClaimedItem ==
  ASSUME OutboxInv, NEW w \in Worker,
         worker[w].pc \in {"deliver", "sent", "refused"}
  PROVE  worker[w].item \in Item
BY DEF OutboxInv, TypeOK, WorkerState

\* The invariant and the permanence of receipts, step by step.
Kept == /\ OutboxInv'
        /\ \A i \in Item : row[i].status = "sent" => row'[i].status = "sent"

\* A step that leaves everything but the rows alone.
LEMMA RowsOnly ==
  ASSUME OutboxInv, GoodRows(row'),
         UNCHANGED <<batch, expired, accepted, worker, projection, bounds>>
  PROVE  Kept
<1>1. GoodWorkers(worker, accepted)
  BY SameWorkers DEF OutboxInv, TypeOK
<1> QED
  BY <1>1, StepKeepsInv
  DEF OutboxInv, TypeOK, Kept, projection, bounds, AcceptedMeansDelivered

\* A step of a worker that leaves the service and the projection alone.
LEMMA WorkerOnly ==
  ASSUME OutboxInv, GoodRows(row'), NEW w \in Worker, NEW s,
         Become(w, s), GoodWorker(s, accepted),
         UNCHANGED <<batch, expired, accepted, projection, bounds>>
  PROVE  Kept
<1>1. GoodWorkers(worker', accepted)
  BY OneWorker DEF OutboxInv, TypeOK, Become
<1> QED
  BY <1>1, StepKeepsInv
  DEF OutboxInv, TypeOK, Kept, projection, bounds, AcceptedMeansDelivered

\* enqueue, the requeues and the clock.
LEMMA OutsideSteps ==
  ASSUME OutboxInv,
         \/ Enqueue
         \/ \E i \in Item : RetryCommand(i) \/ SessionRefresh(i) \/ Stall(i)
         \/ Timer
         \/ Deadline
  PROVE  Kept
<1> USE DEF OutboxInv
<1>1. CASE Enqueue
  <2>1. GoodRows(row')
    BY <1>1, InsertedGood, SameRow DEF Enqueue, GoodRows
  <2> QED
    BY <1>1, <2>1, RowsOnly DEF Enqueue
<1>2. ASSUME NEW i \in Item, RequeueFailed(i) PROVE Kept
  <2>1. GoodRows(row')
    BY <1>2, OneRow, PlainWrites DEF RequeueFailed, Failed, Write
  <2>2. GoodWorkers(worker, accepted)
    BY SameWorkers DEF TypeOK
  <2>3. requeues' \in 0..MaxRequeues
    BY <1>2, BoundAssumption DEF RequeueFailed, TypeOK
  <2> QED
    BY <1>2, <2>1, <2>2, <2>3, StepKeepsInv
    DEF RequeueFailed, TypeOK, Kept, projection, AcceptedMeansDelivered
<1>3. ASSUME NEW i \in Item, Stall(i) PROVE Kept
  <2>1. GoodRows(row')
    BY <1>3, OneRow, PlainWrites DEF Stall, Write
  <2>2. GoodWorkers(worker, accepted)
    BY SameWorkers DEF TypeOK
  <2>3. stalls' \in 0..MaxStalls
    BY <1>3, BoundAssumption DEF Stall, TypeOK
  <2> QED
    BY <1>3, <2>1, <2>2, <2>3, StepKeepsInv
    DEF Stall, TypeOK, Kept, projection, AcceptedMeansDelivered
<1>4. ASSUME NEW i \in Item, BecomeDue(i) \/ OutliveWorker(i) PROVE Kept
  <2>1. GoodRows(row')
    BY <1>4, OneRow, PlainWrites DEF BecomeDue, OutliveWorker, Write
  <2> QED
    BY <1>4, <2>1, RowsOnly DEF BecomeDue, OutliveWorker
<1>5. CASE Deadline
  <2>1. GoodRows(row')
    BY <1>5, SameRow DEF Deadline, TypeOK, GoodRows
  <2>2. GoodWorkers(worker, accepted)
    BY SameWorkers DEF TypeOK
  <2> QED
    BY <1>5, <2>1, <2>2, StepKeepsInv
    DEF Deadline, TypeOK, Kept, projection, bounds, AcceptedMeansDelivered
<1> QED
  BY <1>1, <1>2, <1>3, <1>4, <1>5 DEF RetryCommand, SessionRefresh, Timer

\* The steps of a drain pass up to the stored outcome.
LEMMA DrainSteps ==
  ASSUME OutboxInv, NEW w \in Worker,
         \/ Begin(w)
         \/ \E i \in Item : Claim(w, i)
         \/ NothingReady(w)
         \/ Expire(w)
         \/ Deliver(w)
         \/ \E reason \in Retryable \cup Terminal : DeliverFails(w, reason)
         \/ RecordSent(w)
         \/ RecordRetry(w)
         \/ RecordFailure(w)
  PROVE  Kept
<1> USE DEF OutboxInv
<1>0. /\ worker[w] \in WorkerState /\ worker[w].failures \in SUBSET Item
      /\ GoodRows(row) /\ row = [i \in Item |-> row[i]]
  BY SameRow DEF TypeOK, WorkerState, GoodRows, GoodRow
<1>1. CASE Begin(w)
  <2>1. GoodRows(row')
    BY <1>1, RecoveredGood DEF Begin, GoodRows
  <2>2. GoodWorker([worker[w] EXCEPT !.pc = "claim"], accepted)
    BY <1>1, GotoFree DEF Begin, At, Free
  <2> QED
    BY <1>1, <2>1, <2>2, WorkerOnly DEF Begin, Goto
<1>2. ASSUME NEW i \in Item, Claim(w, i) PROVE Kept
  <2>1. GoodRows(row')
    BY <1>2, OneRow, PlainWrites DEF Claim, Write, Ready
  <2> DEFINE a == row[i].attempts + 1
  <2>2. a \in Nat
    BY DEF TypeOK, Row
  <2> HIDE DEF a
  <2>3. GoodWorker([worker[w] EXCEPT !.pc = "deliver", !.item = i,
                                     !.attempts = a], accepted)
    BY <1>0, <2>2, ItemAssumption DEF WorkerState, GoodWorker, Place
  <2> QED
    BY <1>2, <2>1, <2>3, WorkerOnly DEF Claim, a
<1>3. CASE NothingReady(w)
  <2>1. GoodWorker([worker[w] EXCEPT !.pc = "report"], accepted)
    BY <1>3, GotoFree DEF NothingReady, At, Free
  <2> QED
    BY <1>0, <1>3, <2>1, WorkerOnly DEF NothingReady, Goto
<1>4. CASE Expire(w) \/ RecordFailure(w)
  <2>1. worker[w].item \in Item
    BY <1>4, ClaimedItem DEF Expire, RecordFailure, At
  <2>2. GoodRows(row')
    BY <1>4, <2>1, OneRow, MarkFailedGood DEF Expire, RecordFailure, Write
  <2> DEFINE s == [pc |-> "claim", item |-> NoItem, attempts |-> 0,
                   reason |-> "none",
                   failures |-> worker[w].failures \cup {worker[w].item}]
  <2>3. GoodWorker(s, accepted)
    BY <1>0, <2>1, Released DEF Free
  <2>4. Become(w, s)
    BY <1>4 DEF Expire, RecordFailure, Report
  <2> QED
    BY <1>4, <2>2, <2>3, <2>4, WorkerOnly DEF Expire, RecordFailure
<1>5. CASE RecordSent(w) \/ RecordRetry(w)
  <2>1. /\ worker[w].item \in Item
        /\ RecordSent(w) => worker[w].item \in accepted
    BY <1>5, ClaimedItem DEF RecordSent, RecordRetry, At, ReceiptsAreReal
  <2>2. GoodRows(row')
    BY <1>5, <2>1, OneRow, MarkSentGood, RetryGood
    DEF RecordSent, RecordRetry, Write
  <2>3. PICK pc \in Free : Forget(w, pc)
    BY <1>5 DEF RecordSent, RecordRetry, Free
  <2>4. GoodWorker([pc |-> pc, item |-> NoItem, attempts |-> 0,
                    reason |-> "none", failures |-> worker[w].failures],
                   accepted)
    BY <1>0, Released
  <2> QED
    BY <1>5, <2>2, <2>3, <2>4, WorkerOnly DEF RecordSent, RecordRetry, Forget
<1>6. CASE Deliver(w)
  <2>1. worker[w].item \in Item
    BY <1>6, ClaimedItem DEF Deliver, At
  <2>2. accepted' \subseteq Item /\ accepted \subseteq accepted'
    BY <1>6, <2>1 DEF Deliver, TypeOK
  <2>3. GoodWorker([worker[w] EXCEPT !.pc = "sent"], accepted')
    BY <1>0, <1>6, <2>1, ItemAssumption
    DEF Deliver, At, WorkerState, GoodWorker, Place
  <2>4. GoodWorkers(worker', accepted')
    BY <1>6, <2>2, <2>3, OneWorker DEF Deliver, Goto, Become
  <2>5. GoodRows(row')
    BY <1>0, <1>6 DEF Deliver, GoodRows, GoodRow
  <2> QED
    BY <1>6, <2>2, <2>4, <2>5, StepKeepsInv
    DEF Deliver, TypeOK, Kept, projection, bounds, AcceptedMeansDelivered
<1>7. ASSUME NEW reason \in Retryable \cup Terminal, DeliverFails(w, reason)
      PROVE  Kept
  <2>1. worker[w].item \in Item
    BY <1>7, ClaimedItem DEF DeliverFails, At
  <2>2. accepted' \subseteq Item /\ accepted \subseteq accepted'
    BY <1>7, <2>1 DEF DeliverFails, TypeOK
  <2>3. GoodWorker([worker[w] EXCEPT !.pc = "refused", !.reason = reason], accepted')
    BY <1>0, <2>1, ItemAssumption
    DEF WorkerState, GoodWorker, Place, Retryable, Terminal
  <2>4. GoodWorkers(worker', accepted')
    BY <1>7, <2>2, <2>3, OneWorker DEF DeliverFails, Become
  <2>5. GoodRows(row')
    BY <1>0, <1>7 DEF DeliverFails, GoodRows, GoodRow
  <2> QED
    BY <1>7, <2>2, <2>4, <2>5, StepKeepsInv
    DEF DeliverFails, TypeOK, Kept, projection, bounds, AcceptedMeansDelivered
<1> QED
  BY <1>1, <1>2, <1>3, <1>4, <1>5, <1>6, <1>7

\* A projection step of a worker: the outbox and the service are left alone.
LEMMA ProjectionOnly ==
  ASSUME OutboxInv, NEW w \in Worker, NEW s, Become(w, s),
         GoodWorker(s, accepted), UNCHANGED <<batch, row, expired, accepted, bounds>>,
         loop' \in {loop, "failed"} \/ (loop' = "converged" /\ batch.items \subseteq accepted),
         run' \in {run, "rejected"} \/ (run' = "accepted" /\ batch.items \subseteq accepted),
         goal' \in {goal, "rejected"} \/ (goal' = "accepted" /\ batch.items \subseteq accepted)
  PROVE  Kept
<1>1. GoodRows(row')
  BY SameRow DEF OutboxInv, TypeOK, GoodRows
<1>2. GoodWorkers(worker', accepted)
  BY OneWorker DEF OutboxInv, TypeOK, Become
<1> QED
  BY <1>1, <1>2, StepKeepsInv DEF OutboxInv, TypeOK, Kept, bounds

\* The projection of failures and of complete batches, and a crash.
LEMMA ProjectionSteps ==
  ASSUME OutboxInv, NEW w \in Worker,
         \/ FailLoop(w) \/ FailRun(w) \/ FailGoal(w) \/ Reported(w)
         \/ FindComplete(w) \/ ConvergeLoop(w) \/ AcceptRun(w)
         \/ AcceptGoal(w) \/ MarkProjected(w) \/ Crash(w)
  PROVE  Kept
<1> USE DEF OutboxInv
<1>0. /\ worker[w] \in WorkerState /\ worker[w].failures \in SUBSET Item
      /\ GoodRows(row) /\ row = [i \in Item |-> row[i]]
  BY SameRow DEF TypeOK, WorkerState, GoodRows, GoodRow
<1>1. CASE FailLoop(w)
  <2>1. PICK i \in worker[w].failures :
          IF Settles("failed")
          THEN /\ SettleLoop("failed")
               /\ Become(w, [worker[w] EXCEPT !.pc = "fail_run",
                                              !.failures = @ \ {i}])
          ELSE /\ Become(w, [worker[w] EXCEPT !.failures = @ \ {i}])
               /\ UNCHANGED loop
    BY <1>1 DEF FailLoop
  <2>2. worker[w].pc = "report" /\ worker[w].item = NoItem
    BY <1>1 DEF FailLoop, At, TypeOK
  <2>3. loop' \in {loop, "failed"}
    BY <2>1 DEF SettleLoop
  <2>4. /\ GoodWorker([worker[w] EXCEPT !.pc = "fail_run", !.failures = @ \ {i}],
                      accepted)
        /\ GoodWorker([worker[w] EXCEPT !.failures = @ \ {i}], accepted)
    BY <1>0, <2>2 DEF WorkerState, GoodWorker, Place
  <2> QED
    BY <1>1, <2>1, <2>3, <2>4, ProjectionOnly DEF FailLoop
<1>2. CASE FailRun(w)
  <2>1. GoodWorker([worker[w] EXCEPT !.pc = "fail_goal"], accepted)
    BY <1>2, GotoFree DEF FailRun, At, Free
  <2> QED
    BY <1>2, <2>1, ProjectionOnly DEF FailRun, Goto
<1>3. CASE FailGoal(w)
  <2>1. GoodWorker([worker[w] EXCEPT !.pc = "report"], accepted)
    BY <1>3, GotoFree DEF FailGoal, At, Free
  <2> QED
    BY <1>3, <2>1, ProjectionOnly DEF FailGoal, Goto
<1>4. CASE Reported(w)
  <2>1. GoodWorker([worker[w] EXCEPT !.pc = "project"], accepted)
    BY <1>4, GotoFree DEF Reported, At, Free
  <2> QED
    BY <1>0, <1>4, <2>1, WorkerOnly DEF Reported, Goto
<1>5. CASE FindComplete(w)
  <2>1. worker[w].pc = "project"
    BY <1>5 DEF FindComplete, At
  <2>2. Complete => batch.items \subseteq accepted
    BY BatchAssumption DEF Complete, ReceiptsAreReal, TypeOK
  <2>3. GoodWorker([worker[w] EXCEPT !.pc = IF Complete THEN "ok_loop" ELSE "idle"],
                   accepted)
    BY <2>1, <2>2, GotoFree, GotoProjection DEF Free
  <2> QED
    BY <1>0, <1>5, <2>3, WorkerOnly DEF FindComplete, Goto
<1>6. CASE ConvergeLoop(w)
  <2>1. worker[w].pc = "ok_loop" /\ batch.items \subseteq accepted
    BY <1>6 DEF ConvergeLoop, At, ReceiptsAreReal
  <2>2. /\ GoodWorker([worker[w] EXCEPT !.pc = "ok_run"], accepted)
        /\ GoodWorker([worker[w] EXCEPT !.pc = "idle"], accepted)
    BY <2>1, GotoFree, GotoProjection DEF Free
  <2>3. CASE Settles("converged")
    <3>1. Become(w, [worker[w] EXCEPT !.pc = "ok_run"])
      BY <1>6, <2>3 DEF ConvergeLoop, Goto
    <3>2. loop' \in {loop, "converged"}
      BY <1>6, <2>3 DEF ConvergeLoop, SettleLoop
    <3> QED
      BY <1>6, <2>1, <2>2, <3>1, <3>2, ProjectionOnly DEF ConvergeLoop
  <2>4. CASE ~Settles("converged")
    BY <1>6, <2>2, <2>4, ProjectionOnly DEF ConvergeLoop, Goto
  <2> QED
    BY <2>3, <2>4
<1>7. CASE AcceptRun(w)
  <2>1. worker[w].pc = "ok_run" /\ batch.items \subseteq accepted
    BY <1>7 DEF AcceptRun, At, ReceiptsAreReal
  <2>2. GoodWorker([worker[w] EXCEPT !.pc = "ok_goal"], accepted)
    BY <2>1, GotoProjection
  <2> QED
    BY <1>7, <2>1, <2>2, ProjectionOnly DEF AcceptRun, Goto
<1>8. CASE AcceptGoal(w)
  <2>1. worker[w].pc = "ok_goal" /\ batch.items \subseteq accepted
    BY <1>8 DEF AcceptGoal, At, ReceiptsAreReal
  <2>2. GoodWorker([worker[w] EXCEPT !.pc = "mark"], accepted)
    BY <2>1, GotoProjection
  <2> QED
    BY <1>8, <2>1, <2>2, ProjectionOnly DEF AcceptGoal, Goto
<1>9. CASE MarkProjected(w)
  <2>1. GoodWorker([worker[w] EXCEPT !.pc = "idle"], accepted)
    BY <1>9, GotoFree DEF MarkProjected, At, Free
  <2>2. \A i \in Item : (row[i].projected \/ i \in batch.items) \in BOOLEAN
    OBVIOUS
  <2>3. \A i \in Item : GoodRow(i, row'[i])
    BY <1>9, <2>2, PlainWrites DEF MarkProjected
  <2>4. GoodRows(row')
    BY <1>9, <2>3 DEF MarkProjected, GoodRows
  <2> QED
    BY <1>9, <2>1, <2>4, WorkerOnly DEF MarkProjected, Goto
<1>10. CASE Crash(w)
  <2>1. GoodWorker(Idle, accepted)
    BY Released DEF Idle, Free
  <2>2. GoodWorkers(worker', accepted)
    BY <1>10, <2>1, OneWorker DEF Crash, Become, TypeOK
  <2>3. crashes' \in 0..MaxCrashes
    BY <1>10, BoundAssumption DEF Crash, TypeOK
  <2>4. GoodRows(row')
    BY <1>0, <1>10 DEF Crash
  <2> QED
    BY <1>10, <2>2, <2>3, <2>4, StepKeepsInv
    DEF Crash, TypeOK, Kept, projection, AcceptedMeansDelivered
<1> QED
  BY <1>1, <1>2, <1>3, <1>4, <1>5, <1>6, <1>7, <1>8, <1>9, <1>10

\* The invariant holds of a batch that is about to be enqueued.
LEMMA InitOutboxInv == Init => OutboxInv
<1> SUFFICES ASSUME Init PROVE OutboxInv
  OBVIOUS
<1>1. TypeOK
  <2>1. Absent \in Row
    BY DEF Absent, Row, Status
  <2>2. Idle \in WorkerState /\ Idle.item = NoItem /\ Idle.pc = "idle"
    BY DEF Idle, WorkerState, Place
  <2>3. row \in [Item -> Row] /\ worker \in [Worker -> WorkerState]
    BY <2>1, <2>2 DEF Init
  <2>4. \A w \in Worker : worker[w].item # NoItem
                         <=> worker[w].pc \in {"deliver", "sent", "refused"}
    BY <2>2 DEF Init
  <2>5. /\ crashes \in 0..MaxCrashes /\ stalls \in 0..MaxStalls
        /\ requeues \in 0..MaxRequeues
    BY BoundAssumption DEF Init
  <2> QED
    BY <2>3, <2>4, <2>5 DEF Init, TypeOK
<1>2. ReceiptsAreReal
  BY DEF Init, ReceiptsAreReal, Absent, Idle
<1>3. AcceptedMeansDelivered
  BY DEF Init, AcceptedMeansDelivered
<1> QED
  BY <1>1, <1>2, <1>3 DEF OutboxInv

\* Every step keeps the invariant and the receipts.
LEMMA NextKeeps == OutboxInv /\ [Next]_vars => Kept
<1> SUFFICES ASSUME OutboxInv, [Next]_vars PROVE Kept
  OBVIOUS
<1>1. CASE Next
  BY <1>1, OutsideSteps, DrainSteps, ProjectionSteps DEF Next, WorkerStep
<1>2. CASE UNCHANGED vars
  BY <1>2 DEF vars, Kept, OutboxInv, TypeOK, ReceiptsAreReal, AcceptedMeansDelivered
<1> QED
  BY <1>1, <1>2

\* The invariant holds throughout.
LEMMA OutboxInvariant == Spec => []OutboxInv
<1>1. OutboxInv /\ [Next]_vars => OutboxInv'
  BY NextKeeps DEF Kept
<1> QED
  BY InitOutboxInv, <1>1, PTL DEF Spec

\* Rows, workers and projections keep their types.
THEOREM OutboxTypeCorrect == Spec => []TypeOK
<1>1. OutboxInv => TypeOK
  BY DEF OutboxInv
<1> QED
  BY OutboxInvariant, <1>1, PTL

\* A loop converges, and a Run and a Goal are accepted, only after the
\* connector's service accepted every item of the batch: for any number of
\* workers, items, crashes, stalled claims and requeues.
THEOREM ReceiptsAuthorize == Spec => []AcceptedMeansDelivered
<1>1. OutboxInv => AcceptedMeansDelivered
  BY DEF OutboxInv
<1> QED
  BY OutboxInvariant, <1>1, PTL

\* No step takes a receipt back.
THEOREM ReceiptsAreForever == Spec => SentIsForever
<1>1. OutboxInv /\ [Next]_vars
        => [\A i \in Item : row[i].status = "sent" => row'[i].status = "sent"]_row
  BY NextKeeps DEF Kept
<1> QED
  BY OutboxInvariant, <1>1, PTL DEF Spec, SentIsForever

-----------------------------------------------------------------------------
(* ConnectorIngress.  The invariant has a part for the poll loop, one for  *)
(* the tasks of the event loop, one for the files and their tokens, and    *)
(* one for each property.                                                  *)

-----------------------------------------------------------------------------
(* The poll loop.                                                          *)

\* Where the loop has a message in hand that it goes on with.
Held == {"dedup", "typing", "route", "wait", "reply"}

\* The id in hand is the one the transport gave, or made up for this message.
HoldsOne ==
    /\ svc.msg \in Message /\ svc.id = <<svc.msg, svc.id[2]>> /\ svc.id[2] \in Nat
    /\ svc.msg \notin Anonymous => svc.id = <<svc.msg, 0>>

SvcInv ==
    /\ log \in Seq(Message) /\ cursor \in 0..Len(log)
    /\ svc \in PollLoop /\ svc.at <= svc.upto /\ svc.upto <= Len(log)
    /\ svc.pc \in Held => HoldsOne

\* The loop lets go of its message, or has none.
LEMMA SvcRests ==
  ASSUME SvcInv, svc' \in PollLoop, svc'.pc \notin Held, svc'.at <= svc'.upto,
         svc'.upto <= Len(log), cursor' \in 0..Len(log), log' = log
  PROVE  SvcInv'
BY DEF SvcInv

\* The loop goes on with its message.
LEMMA SvcGoesOn ==
  ASSUME SvcInv, svc.pc \in Held, NEW pc \in Places, NEW reply \in Replies,
         svc' = [svc EXCEPT !.pc = pc, !.reply = reply], UNCHANGED <<log, cursor>>
  PROVE  SvcInv'
<1>1. /\ svc' \in PollLoop /\ svc'.at = svc.at /\ svc'.upto = svc.upto
      /\ svc'.msg = svc.msg /\ svc'.id = svc.id
  BY DEF SvcInv, PollLoop
<1>2. HoldsOne'
  BY <1>1 DEF SvcInv, HoldsOne
<1> QED
  BY <1>1, <1>2 DEF SvcInv

LEMMA SvcGoes ==
  ASSUME SvcInv, svc.pc \in Held, NEW pc \in Places, GoesTo(pc), UNCHANGED <<log, cursor>>
  PROVE  SvcInv'
<1>1. /\ svc' \in PollLoop /\ svc'.at = svc.at /\ svc'.upto = svc.upto
      /\ svc'.msg = svc.msg /\ svc'.id = svc.id
  BY DEF SvcInv, PollLoop, GoesTo
<1>2. HoldsOne'
  BY <1>1 DEF SvcInv, HoldsOne
<1> QED
  BY <1>1, <1>2 DEF SvcInv

LEMMA PollingFits ==
  ASSUME SvcInv, NEW at \in 0..Len(log), svc' = Polling(at), cursor' \in 0..Len(log), log' = log
  PROVE  SvcInv'
<1>1. svc' \in PollLoop /\ svc'.at = at /\ svc'.upto = at /\ svc'.pc = "poll"
  BY DEF SvcInv, PollLoop, Polling, Places, Replies
<1> QED
  BY <1>1, SvcRests DEF SvcInv, Held

LEMMA AfterUpdateFits ==
  ASSUME SvcInv, svc' = AfterUpdate, UNCHANGED <<log, cursor>>
  PROVE  SvcInv'
<1>1. svc' \in PollLoop /\ svc'.at = svc.at /\ svc'.upto = svc.upto /\ svc'.pc = "update"
  BY DEF SvcInv, PollLoop, AfterUpdate, Places, Replies
<1> QED
  BY <1>1, SvcRests DEF SvcInv, Held

LEMMA AfterFailureFits ==
  ASSUME SvcInv, svc' = AfterFailure, UNCHANGED <<log, cursor>>
  PROVE  SvcInv'
<1>1. svc.at \in 0..Len(log)
  BY DEF SvcInv, PollLoop
<1> QED
  BY <1>1, AfterUpdateFits, PollingFits DEF AfterFailure, SvcInv

LEMMA NextUpdateFits ==
  ASSUME SvcInv, NEW token \in Nat, NEW observed \in Nat, NextUpdate(token, observed),
         UNCHANGED <<log, cursor>>
  PROVE  SvcInv' /\ svc'.pc = "dedup" /\ svc'.token = token /\ svc'.observed = observed
<1>1. PICK m \in Message : m = log[svc.at + 1]
  BY DEF SvcInv, NextUpdate, PollLoop
<1>2. PICK n \in Nat : MessageId(m) = <<m, n>> /\ (m \notin Anonymous => n = 0)
  BY DEF SvcInv, PollLoop, MessageId
<1>3. svc' = [svc EXCEPT !.at = svc.at + 1, !.msg = m, !.id = <<m, n>>, !.token = token,
                         !.observed = observed, !.pc = "dedup"]
  BY <1>1, <1>2 DEF NextUpdate
<1>4. svc.at \in Nat /\ svc.upto \in Nat /\ svc.at < svc.upto
  BY DEF SvcInv, PollLoop, NextUpdate
<1>5. <<m, n>> \in Id \cup {None} /\ "dedup" \in Places
  BY DEF Id, Places
<1>6. /\ svc' \in PollLoop /\ svc'.at = svc.at + 1 /\ svc'.upto = svc.upto
      /\ svc'.msg = m /\ svc'.id = <<m, n>> /\ svc'.pc = "dedup" /\ svc'.token = token
      /\ svc'.observed = observed
  <2>1. PICK i \in Id \cup {None}, k \in Nat : i = <<m, n>> /\ k = svc.at + 1
    BY <1>4, <1>5
  <2>2. svc' = [svc EXCEPT !.at = k, !.msg = m, !.id = i, !.token = token,
                           !.observed = observed, !.pc = "dedup"]
    BY <1>3, <2>1
  <2>3. svc \in PollLoop /\ m \in Message \cup {None}
    BY DEF SvcInv
  <2> QED
    BY <1>5, <2>1, <2>2, <2>3 DEF PollLoop
<1>7. HoldsOne'
  BY <1>2, <1>6 DEF HoldsOne
<1> QED
  BY <1>4, <1>6, <1>7 DEF SvcInv

LEMMA SvcKept == ASSUME SvcInv, UNCHANGED <<svc, log, cursor>> PROVE SvcInv'
BY DEF SvcInv, HoldsOne

\* What does not move the poll loop.
Aside ==
    \/ QueueResult \/ RestoreTokens \/ DeadlinePasses \/ TokenAges \/ CircuitElapses
    \/ HandleIngress \/ IngressRaises \/ HandleCompleted \/ StartTurn
    \/ \E reply \in Surfaces \cup {"raised"} : FinishTurn(reply)
    \/ \E key \in seen : DedupLapses(key)
    \/ \E r \in OutboxRow : RetryDue(r) \/ DeliverAccepted(r) \/ DeliverLate(r)
    \/ \E r \in OutboxRow, again \in Failure \cup {"sent"} : DeliverRejected(r, again)
    \/ \E r \in OutboxRow, failure \in Failure : SendFails(r, failure)

\* What does.
Moves ==
    \/ Poll \/ EndOfBatch \/ ObserveUpdate \/ TakeUpdate \/ Dedup \/ TypingTicket
    \/ Publish \/ Receive \/ Timeout \/ ReplyWeixin \/ EndDrain
    \/ \E reply \in Replies : AnswersDirectly(reply)
    \/ \E sent \in BOOLEAN : ReplyTelegram(sent)
    \/ \E surfaces \in BOOLEAN : ProcessBackground(surfaces)
    \/ TypingTicketFails \/ LoopStalls \/ ServiceRestarts
    \/ \E m \in Message : Arrive(m)

LEMMA Kinds == IngressNext <=> Aside \/ Moves
BY DEF IngressNext, Step, BusWorker, Clock, Environment, Aside, Moves

LEMMA AsideRests == Aside => UNCHANGED <<kind, svc, log, cursor, restarts>>
<1>1. \A r \in OutboxRow : RetryDue(r) \/ DeliverAccepted(r) \/ DeliverLate(r)
         => UNCHANGED <<kind, svc, log, cursor, restarts>>
  BY DEF RetryDue, DeliverAccepted, DeliverLate, drainUnchanged, memory, history
<1>2. \A r \in OutboxRow, again \in Failure \cup {"sent"} : DeliverRejected(r, again)
         => UNCHANGED <<kind, svc, log, cursor, restarts>>
  BY DEF DeliverRejected, Ends, drainUnchanged
<1>3. \A r \in OutboxRow, failure \in Failure : SendFails(r, failure) => UNCHANGED <<kind, svc, log, cursor, restarts>>
  BY DEF SendFails, Ends, drainUnchanged
<1>4. QueueResult \/ RestoreTokens \/ DeadlinePasses \/ TokenAges \/ CircuitElapses
         => UNCHANGED <<kind, svc, log, cursor, restarts>>
  BY DEF QueueResult, RestoreTokens, DeadlinePasses, TokenAges, CircuitElapses, memory, history
<1>5. HandleIngress \/ IngressRaises \/ HandleCompleted \/ StartTurn
         => UNCHANGED <<kind, svc, log, cursor, restarts>>
  BY DEF HandleIngress, IngressRaises, HandleCompleted, StartTurn, history
<1>6. (\E reply \in Surfaces \cup {"raised"} : FinishTurn(reply))
         => UNCHANGED <<kind, svc, log, cursor, restarts>>
  BY DEF FinishTurn, history
<1>7. (\E key \in seen : DedupLapses(key)) => UNCHANGED <<kind, svc, log, cursor, restarts>>
  BY DEF DedupLapses, memory
<1> QED
  BY <1>1, <1>2, <1>3, <1>4, <1>5, <1>6, <1>7 DEF Aside

LEMMA SvcNext ==
  ASSUME IngressAssumption, SvcInv, clock \in Nat, [IngressNext]_ingressVars,
         svc.pc = "wait" => channel \in Channel
  PROVE  SvcInv'
<1> USE DEF Held
<1>0. svc.at \in 0..Len(log) /\ svc.upto \in 0..Len(log) /\ svc \in PollLoop /\ Len(log) \in Nat
      /\ cursor \in 0..Len(log)
  BY DEF SvcInv, PollLoop
<1>1. CASE Aside
  BY <1>1, AsideRests, SvcKept
<1>2. CASE Poll
  <2>1. cursor' \in 0..Len(log) /\ log' = log
    BY <1>0, <1>2 DEF Poll
  <2>2. svc' \in PollLoop /\ svc'.pc = "update" /\ svc'.at = svc.at /\ svc'.upto = Len(log)
    BY <1>0, <1>2 DEF Poll, PollLoop, Places
  <2> QED
    BY <1>0, <2>1, <2>2, SvcRests
<1>3. CASE EndOfBatch
  <2>1. CASE Weixin
    <3>1. svc' \in PollLoop /\ svc'.pc = "background" /\ svc'.at = svc.at /\ svc'.upto = svc.upto
      BY <1>0, <1>3, <2>1 DEF EndOfBatch, PollLoop, Places
    <3> QED
      BY <1>3, <3>1, SvcRests DEF EndOfBatch, SvcInv
  <2>2. CASE ~Weixin
    BY <1>0, <1>3, <2>2, PollingFits DEF EndOfBatch, SvcInv
  <2> QED
    BY <2>1, <2>2
<1>4. CASE ObserveUpdate
  <2>1. CASE log[svc.at + 1] \in Blocked
    <3>1. svc' = [svc EXCEPT !.at = svc.at + 1] /\ svc.pc = "update" /\ svc.at < svc.upto
          /\ UNCHANGED <<log, cursor>>
      BY <1>4, <2>1 DEF ObserveUpdate
    <3>2. PICK at \in Nat : at = svc.at + 1 /\ at <= svc.upto
      BY <1>0, <3>1
    <3>3. svc' = [svc EXCEPT !.at = at]
      BY <3>1, <3>2
    <3>4. /\ svc' \in PollLoop /\ svc'.pc = "update" /\ svc'.at = at
          /\ svc'.upto = svc.upto
      BY <1>0, <3>1, <3>3 DEF PollLoop
    <3>5. UNCHANGED <<log, cursor>> /\ svc'.at <= svc'.upto /\ svc'.upto <= Len(log)
      BY <1>0, <3>1, <3>2, <3>4
    <3> QED
      BY <1>0, <3>4, <3>5, SvcRests
  <2>2. CASE log[svc.at + 1] \notin Blocked
    <3>1. svc.at < svc.upto /\ UNCHANGED <<log, cursor>>
      BY <1>4 DEF ObserveUpdate
    <3>2. log[svc.at + 1] \in Message
      BY <1>0, <3>1 DEF SvcInv
    <3>3. PICK token \in Nat : token = TokenOf[log[svc.at + 1]]
      BY <3>2, IngressAssumption DEF IngressAssumption
    <3>4. NextUpdate(token, IF token = 0 THEN 0 ELSE clock + 1)
      BY <1>4, <2>2, <3>3 DEF ObserveUpdate
    <3>5. PICK observed \in Nat : observed = IF token = 0 THEN 0 ELSE clock + 1
      OBVIOUS
    <3> QED
      BY <3>1, <3>4, <3>5, NextUpdateFits
  <2> QED
    BY <2>1, <2>2
<1>5. CASE TakeUpdate
  BY <1>5, NextUpdateFits DEF TakeUpdate
<1>6. CASE Dedup
  <2>1. CASE svc' = AfterUpdate
    BY <1>6, <2>1, AfterUpdateFits DEF Dedup
  <2>2. CASE svc' # AfterUpdate
    <3>1. GoesTo(IF Weixin THEN "typing" ELSE "route") /\ UNCHANGED <<log, cursor>>
          /\ svc.pc = "dedup"
      BY <1>6, <2>2 DEF Dedup
    <3>2. "typing" \in Places /\ "route" \in Places
      BY DEF Places
    <3> QED
      BY <3>1, <3>2, SvcGoes
  <2> QED
    BY <2>1, <2>2
<1>7. CASE TypingTicket
  BY <1>7, SvcGoes DEF TypingTicket, Places
<1>8. CASE TypingTicketFails
  BY <1>8, AfterFailureFits DEF TypingTicketFails
<1>9. CASE Publish
  BY <1>9, SvcGoes DEF Publish, Places
<1>10. CASE Receive
  <2>1. channel.reply \in Replies
    BY <1>10 DEF Receive, Channel
  <2> QED
    BY <1>10, <2>1, SvcGoesOn DEF Receive, Places
<1>11. CASE Timeout \/ LoopStalls
  BY <1>11, SvcGoesOn DEF Timeout, LoopStalls, Places, Replies
<1>12. CASE \E reply \in Replies : AnswersDirectly(reply)
  BY <1>12, SvcGoesOn DEF AnswersDirectly, Places
<1>13. CASE ReplyWeixin
  <2>1. \/ GoesTo("drain") \/ svc' = AfterUpdate \/ svc' = AfterFailure
    BY <1>13 DEF ReplyWeixin
  <2>2. svc.pc = "reply" /\ UNCHANGED <<log, cursor>>
    BY <1>13 DEF ReplyWeixin
  <2> QED
    BY <2>1, <2>2, SvcGoes, AfterUpdateFits, AfterFailureFits DEF Places
<1>14. CASE \E sent \in BOOLEAN : ReplyTelegram(sent)
  <2>1. svc' = AfterUpdate \/ svc' = AfterFailure
    BY <1>14 DEF ReplyTelegram
  <2>2. UNCHANGED <<log, cursor>>
    BY <1>14 DEF ReplyTelegram
  <2> QED
    BY <2>1, <2>2, AfterUpdateFits, AfterFailureFits
<1>15. CASE \E surfaces \in BOOLEAN : ProcessBackground(surfaces)
  <2>1. /\ svc' \in PollLoop /\ svc'.pc = "drain" /\ svc'.at = svc.at
        /\ svc'.upto = svc.upto /\ UNCHANGED <<log, cursor>>
    BY <1>0, <1>15 DEF ProcessBackground, GoesTo, PollLoop, Places
  <2> QED
    BY <2>1, SvcRests DEF SvcInv
<1>16. CASE EndDrain
  <2>1. svc' = AfterUpdate \/ svc' = Polling(svc.at)
    BY <1>16 DEF EndDrain
  <2>2. UNCHANGED <<log, cursor>>
    BY <1>16 DEF EndDrain
  <2> QED
    BY <1>0, <2>1, <2>2, AfterUpdateFits, PollingFits
<1>17. CASE ServiceRestarts
  BY <1>0, <1>17, PollingFits DEF ServiceRestarts
<1>18. CASE \E m \in Message : Arrive(m)
  <2>1. PICK m \in Message : Arrive(m)
    BY <1>18
  <2>2. /\ log' \in Seq(Message) /\ Len(log') = Len(log) + 1
        /\ UNCHANGED <<svc, cursor>>
    BY <2>1, AppendProperties DEF Arrive, SvcInv, memory
  <2> QED
    <3>1. Len(log) <= Len(log')
      BY <1>0, <2>2
    <3>2. svc.pc \in Held => HoldsOne'
      BY <2>2 DEF SvcInv, HoldsOne
    <3>3. cursor' \in 0..Len(log') /\ svc'.at <= svc'.upto /\ svc'.upto <= Len(log')
      BY <1>0, <2>2 DEF SvcInv
    <3> QED
      BY <1>0, <2>2, <3>2, <3>3 DEF SvcInv
<1>19. CASE UNCHANGED ingressVars
  BY <1>19, SvcKept DEF ingressVars, memory
<1> QED
  BY <1>1, <1>2, <1>3, <1>4, <1>5, <1>6, <1>7, <1>8, <1>9, <1>10, <1>11, <1>12, <1>13, <1>14,
     <1>15, <1>16, <1>17, <1>18, <1>19, Kinds DEF Moves
-----------------------------------------------------------------------------
(* The tasks of the event loop.                                            *)

TasksInv ==
    /\ bus \in Seq(Event) /\ turn \in Event \cup {None} /\ channel \in Channel \cup {None}
    /\ asks \in BOOLEAN /\ prompted \in BOOLEAN /\ turns \in [Message -> Nat]
    /\ lapses \in Nat /\ faults \in Nat /\ restarts \in Nat
    /\ channel # None <=> svc.pc = "wait"
    /\ channel # None => channel.id = svc.id

\* A message in hand that has passed the deduplication and is not on the bus.
Entering == svc.pc \in {"typing", "route"}

\* What leaves the bus, the turn and the channel alone.
Apart ==
    \/ Poll \/ EndOfBatch \/ ObserveUpdate \/ TakeUpdate \/ Dedup \/ TypingTicket
    \/ ReplyWeixin \/ RestoreTokens \/ EndDrain
    \/ \E reply \in Replies : AnswersDirectly(reply)
    \/ \E sent \in BOOLEAN : ReplyTelegram(sent)
    \/ \E surfaces \in BOOLEAN : ProcessBackground(surfaces)
    \/ \E r \in OutboxRow : DeliverAccepted(r) \/ DeliverLate(r)
    \/ Clock \/ \E m \in Message : Arrive(m)
    \/ QueueResult \/ DeadlinePasses \/ TokenAges
    \/ \E key \in seen : DedupLapses(key)
    \/ TypingTicketFails
    \/ \E r \in OutboxRow, again \in Failure \cup {"sent"} : DeliverRejected(r, again)
    \/ \E r \in OutboxRow, failure \in Failure : SendFails(r, failure)
    \/ UNCHANGED ingressVars

\* What moves them.
Together ==
    \/ Publish \/ Receive \/ Timeout \/ LoopStalls \/ ServiceRestarts
    \/ HandleIngress \/ IngressRaises \/ HandleCompleted \/ StartTurn
    \/ \E reply \in Surfaces \cup {"raised"} : FinishTurn(reply)

LEMMA Sides == [IngressNext]_ingressVars <=> Apart \/ Together
BY DEF IngressNext, Step, BusWorker, Clock, Environment, Apart, Together

\* How the poll loop and the keys move meanwhile.
Advances ==
    /\ UNCHANGED <<seen, lapses>>
    /\ Entering' => Entering /\ svc'.msg = svc.msg /\ svc'.id = svc.id
Admits ==
    /\ svc.pc = "dedup" /\ seen' = seen \cup {Key} /\ UNCHANGED lapses
    /\ Entering' => Key \notin seen /\ svc'.msg = svc.msg /\ svc'.id = svc.id
Forgets ==
    /\ UNCHANGED svc /\ lapses' = lapses + 1 /\ \E key \in seen : seen' = seen \ {key}

Aloof ==
    /\ UNCHANGED <<kind, tasks, prompted, turns, restarts>>
    /\ UNCHANGED faults \/ faults' = faults + 1
    /\ UNCHANGED svc \/ (svc.pc # "wait" /\ svc'.pc # "wait")
    /\ Advances \/ Admits \/ Forgets

LEMMA ApartIsAloof == ASSUME SvcInv, Apart PROVE Aloof
<1> USE DEF Fault, history, memory, Entering, Advances
<1>0. svc \in PollLoop
  BY DEF SvcInv
<1>1. /\ AfterUpdate.pc = "update" /\ \A at : Polling(at).pc = "poll"
      /\ AfterFailure.pc \in {"update", "poll"}
  BY <1>0 DEF AfterUpdate, Polling, AfterFailure, PollLoop
<1>2. CASE Poll
  BY <1>0, <1>2 DEF Poll, Aloof, PollLoop
<1>3. CASE EndOfBatch
  BY <1>0, <1>1, <1>3 DEF EndOfBatch, Aloof, PollLoop
<1>4. CASE ObserveUpdate
  BY <1>0, <1>4 DEF ObserveUpdate, NextUpdate, Aloof, PollLoop
<1>5. CASE TakeUpdate
  BY <1>0, <1>5 DEF TakeUpdate, NextUpdate, Aloof, PollLoop
<1>6. CASE Dedup
  BY <1>0, <1>1, <1>6 DEF Dedup, Duplicate, GoesTo, Aloof, Admits, PollLoop
<1>7. CASE TypingTicket
  BY <1>0, <1>7 DEF TypingTicket, GoesTo, Aloof, PollLoop
<1>8. CASE ReplyWeixin
  BY <1>0, <1>1, <1>8 DEF ReplyWeixin, GoesTo, Aloof, PollLoop
<1>9. CASE RestoreTokens
  BY <1>9 DEF RestoreTokens, Aloof
<1>10. CASE EndDrain
  BY <1>0, <1>1, <1>10 DEF EndDrain, Aloof
<1>11. CASE \E reply \in Replies : AnswersDirectly(reply)
  BY <1>0, <1>11 DEF AnswersDirectly, Aloof, PollLoop
<1>12. CASE \E sent \in BOOLEAN : ReplyTelegram(sent)
  BY <1>0, <1>1, <1>12 DEF ReplyTelegram, Aloof
<1>13. CASE \E surfaces \in BOOLEAN : ProcessBackground(surfaces)
  BY <1>0, <1>13 DEF ProcessBackground, GoesTo, Aloof, PollLoop
<1>14. CASE \E r \in OutboxRow : DeliverAccepted(r) \/ DeliverLate(r)
  BY <1>14 DEF DeliverAccepted, DeliverLate, drainUnchanged, Aloof
<1>15. CASE Clock
  BY <1>15 DEF Clock, RetryDue, CircuitElapses, Aloof
<1>16. CASE \E m \in Message : Arrive(m)
  BY <1>16 DEF Arrive, Aloof
<1>17. CASE QueueResult \/ DeadlinePasses \/ TokenAges
  BY <1>17 DEF QueueResult, DeadlinePasses, TokenAges, Aloof
<1>18. CASE \E key \in seen : DedupLapses(key)
  BY <1>18 DEF DedupLapses, Forgets, Aloof
<1>19. CASE TypingTicketFails
  BY <1>0, <1>1, <1>19 DEF TypingTicketFails, Aloof
<1>20. CASE \E r \in OutboxRow, again \in Failure \cup {"sent"} : DeliverRejected(r, again)
  BY <1>20 DEF DeliverRejected, drainUnchanged, Aloof
<1>21. CASE \E r \in OutboxRow, failure \in Failure : SendFails(r, failure)
  BY <1>21 DEF SendFails, drainUnchanged, Aloof
<1>22. CASE UNCHANGED ingressVars
  BY <1>22 DEF ingressVars, Aloof
<1> QED
  BY <1>2, <1>3, <1>4, <1>5, <1>6, <1>7, <1>8, <1>9, <1>10, <1>11, <1>12, <1>13, <1>14, <1>15,
     <1>16, <1>17, <1>18, <1>19, <1>20, <1>21, <1>22 DEF Apart
-----------------------------------------------------------------------------
(* The bus worker.                                                         *)

LEMMA SurfacesAre == ASSUME NEW s \in Surfaces PROVE s \in {"text", "ask", "deferred", "empty"}
<1>1. PICK r \in {"none", "text", "ask"}, t \in BOOLEAN, a \in BOOLEAN : s = Surfaced(r, t, a)
  BY SMT DEF Surfaces
<1> QED
  BY <1>1 DEF Surfaced

LEMMA HeldId == ASSUME HoldsOne PROVE svc.id \in Id /\ svc.msg \in Message
<1>1. PICK n \in Nat : n = svc.id[2]
  BY DEF HoldsOne
<1>2. <<svc.msg, n>> \in Message \X Nat
  BY DEF HoldsOne
<1> QED
  BY <1>1, <1>2 DEF HoldsOne, Id

\* The bus passes its first event on, or drops it, or takes a new one.
LEMMA BusPops ==
  ASSUME bus \in Seq(Event), bus # <<>>
  PROVE  /\ Head(bus) \in Event /\ Tail(bus) \in Seq(Event) /\ Head(bus) = bus[1]
         /\ Len(bus) \in Nat \ {0} /\ Len(Tail(bus)) = Len(bus) - 1
         /\ \A k \in 1..Len(bus) - 1 : Tail(bus)[k] = bus[k + 1]
BY HeadTailProperties

LEMMA EventIs ==
  ASSUME NEW e \in Event
  PROVE  /\ e.type \in {"ingress", "intent", "completed"} /\ e.id \in Id /\ e.msg \in Message
         /\ e.asked \in BOOLEAN /\ e.ask \in BOOLEAN
         /\ \A b \in BOOLEAN : /\ [e EXCEPT !.type = "intent", !.ask = b] \in Event
                               /\ [e EXCEPT !.type = "intent", !.ask = b].type = "intent"
                               /\ [e EXCEPT !.type = "intent", !.ask = b].ask = b
                               /\ [e EXCEPT !.type = "intent", !.ask = b].id = e.id
                               /\ [e EXCEPT !.type = "intent", !.ask = b].msg = e.msg
                               /\ [e EXCEPT !.type = "intent", !.ask = b].asked = e.asked
BY DEF Event

\* What each step of the bus and of the router does to the tasks.
Published == /\ svc.pc = "route" /\ svc'.pc = "wait" /\ svc'.id = svc.id /\ svc'.msg = svc.msg
             /\ channel' = [id |-> svc.id, reply |-> "none"]
             /\ bus' = Append(bus, [type |-> "ingress", id |-> svc.id, msg |-> svc.msg,
                                    asked |-> prompted, ask |-> FALSE])
             /\ prompted' = FALSE /\ UNCHANGED <<turn, asks, turns, seen, lapses>>
             /\ UNCHANGED <<faults, restarts, kind>>

LEMMA PublishIs == SvcInv /\ Publish => Published
BY DEF SvcInv, Publish, Published, GoesTo, PollLoop

GaveUp == /\ svc.pc = "wait" /\ svc'.pc = "reply" /\ channel.reply = "none"
          /\ channel' = None
          /\ UNCHANGED <<bus, turn, asks, prompted, turns, seen, lapses, restarts, kind>>

LEMMA GivesUp ==
  ASSUME SvcInv
  PROVE  /\ Timeout => GaveUp /\ Silent /\ UNCHANGED faults
         /\ LoopStalls => GaveUp /\ faults' = faults + 1
BY DEF SvcInv, Timeout, LoopStalls, GaveUp, PollLoop, Silent, Fault, history

LEMMA ReceiveIs ==
  ASSUME SvcInv, Receive
  PROVE  /\ svc.pc = "wait" /\ svc'.pc = "reply" /\ channel.reply # "none" /\ channel' = None
         /\ prompted' = (channel.reply = "ask")
         /\ UNCHANGED <<bus, turn, asks, turns, seen, lapses, restarts, faults, kind>>
BY DEF SvcInv, Receive, PollLoop

LEMMA TasksNext ==
  ASSUME SvcInv, TasksInv, IngressAssumption, [IngressNext]_ingressVars
  PROVE  TasksInv'
<1> USE DEF TasksInv
<1>1. CASE Apart
  BY <1>1, ApartIsAloof DEF Aloof, tasks, Advances, Admits, Forgets
<1>2. CASE Publish
  <2>1. Published
    BY <1>2, PublishIs
  <2>0. svc.id \in Id /\ svc.msg \in Message
    BY <2>1, HeldId DEF SvcInv, Held, Published
  <2>2. PICK c \in Channel : c = [id |-> svc.id, reply |-> "none"]
    BY <2>0 DEF Channel, Replies
  <2>3. PICK e \in Event : e = [type |-> "ingress", id |-> svc.id, msg |-> svc.msg,
                                asked |-> prompted, ask |-> FALSE]
    BY <2>0 DEF Event
  <2>4. bus' \in Seq(Event)
    BY <2>1, <2>3, AppendProperties DEF Published
  <2>5. channel' \in Channel /\ channel' # None /\ channel'.id = svc'.id
    BY <2>1, <2>2 DEF Published, IngressAssumption
  <2> QED
    BY <2>1, <2>4, <2>5 DEF Published
<1>3. CASE Receive
  BY <1>3, ReceiveIs
<1>4. CASE Timeout \/ LoopStalls
  <2>1. GaveUp /\ faults' \in Nat
    BY <1>4, GivesUp
  <2> QED
    BY <2>1 DEF GaveUp
<1>5. CASE ServiceRestarts
  <2>1. /\ bus' = <<>> /\ turn' = None /\ channel' = None /\ asks' = FALSE /\ prompted' = FALSE
        /\ UNCHANGED <<turns, lapses, faults>> /\ restarts' = restarts + 1
        /\ svc' = Polling(cursor)
    BY <1>5 DEF ServiceRestarts
  <2>2. bus' \in Seq(Event)
    BY <2>1, EmptySeq
  <2>3. svc'.pc # "wait" /\ restarts' \in Nat
    BY <2>1 DEF Polling
  <2> QED
    BY <2>1, <2>2, <2>3
<1>6. CASE HandleIngress
  <2>1. PICK e \in Event : e = [Head(bus) EXCEPT !.type = "intent", !.ask = asks]
    BY <1>6, BusPops, EventIs DEF HandleIngress, Head1
  <2>2. bus' \in Seq(Event)
    BY <1>6, <2>1, BusPops, AppendProperties DEF HandleIngress, Head1
  <2> QED
    BY <1>6, <2>2 DEF HandleIngress, history
<1>7. CASE IngressRaises
  BY <1>7, BusPops DEF IngressRaises, Head1, Fault, history
<1>8. CASE HandleCompleted
  BY <1>8, BusPops, EventIs DEF HandleCompleted, Head1, history
<1>9. CASE StartTurn
  <2>1. Head(bus) \in Event /\ Tail(bus) \in Seq(Event)
    BY <1>9, BusPops DEF StartTurn, Head1
  <2>2. PICK m \in Message : m = Head(bus).msg
    BY <2>1, EventIs
  <2>3. turns' \in [Message -> Nat]
    BY <1>9, <2>2 DEF StartTurn
  <2> QED
    BY <1>9, <2>1, <2>3 DEF StartTurn
<1>10. CASE \E reply \in Surfaces \cup {"raised"} : FinishTurn(reply)
  <2>1. PICK reply \in {"text", "ask", "deferred", "empty", "raised"} : FinishTurn(reply)
    BY <1>10, SurfacesAre
  <2>2. turn \in Event
    BY <2>1 DEF FinishTurn
  <2>3. Completed(reply) \in Event
    BY <2>2, EventIs DEF Completed, Event
  <2>4. bus' \in Seq(Event)
    BY <2>1, <2>3, AppendProperties DEF FinishTurn
  <2>5. PICK told \in Replies : told = IF reply = "raised" THEN "empty" ELSE reply
    BY DEF Replies
  <2>6. channel' = Answers(told)
    BY <2>1, <2>5 DEF FinishTurn
  <2>7. CASE channel = None
    BY <2>1, <2>4, <2>6, <2>7 DEF Answers, FinishTurn, Fault, history
  <2>8. CASE channel # None
    <3>1. channel \in Channel
      BY <2>8
    <3>2. channel' \in Channel /\ channel'.id = channel.id
      BY <2>6, <3>1 DEF Answers, Channel
    <3> QED
      BY <2>1, <2>4, <2>8, <3>2 DEF FinishTurn, Fault, history, IngressAssumption
  <2> QED
    BY <2>7, <2>8
<1> QED
  BY <1>1, <1>2, <1>3, <1>4, <1>5, <1>6, <1>7, <1>8, <1>9, <1>10, Sides DEF Together
-----------------------------------------------------------------------------
(* Counting the events of a queue.                                         *)

One(b) == IF b THEN 1 ELSE 0
Occurs(s, E) == {k \in DOMAIN s : s[k] \in E}

LEMMA OccursFinite ==
  ASSUME NEW S, NEW s \in Seq(S), NEW E
  PROVE  IsFiniteSet(Occurs(s, E)) /\ Cardinality(Occurs(s, E)) \in Nat /\ Occurs(s, E) \subseteq 1..Len(s)
<1>1. Occurs(s, E) \subseteq 1..Len(s) /\ Len(s) \in Nat
  BY DEF Occurs
<1>2. IsFiniteSet(1..Len(s))
  BY <1>1, FS_Interval
<1> QED
  BY <1>1, <1>2, FS_Subset, FS_CardinalityType

LEMMA OccursPush ==
  ASSUME NEW S, NEW s \in Seq(S), NEW E, NEW e \in S
  PROVE  Cardinality(Occurs(Append(s, e), E)) = Cardinality(Occurs(s, E)) + One(e \in E)
<1>1. /\ Append(s, e) \in Seq(S) /\ Len(Append(s, e)) = Len(s) + 1 /\ Len(s) \in Nat
      /\ \A k \in 1..Len(s) : Append(s, e)[k] = s[k]
      /\ Append(s, e)[Len(s) + 1] = e
  BY AppendProperties
<1>2. Occurs(Append(s, e), E) = IF e \in E THEN Occurs(s, E) \cup {Len(s) + 1} ELSE Occurs(s, E)
  BY <1>1 DEF Occurs
<1>3. IsFiniteSet(Occurs(s, E)) /\ Len(s) + 1 \notin Occurs(s, E) /\ Cardinality(Occurs(s, E)) \in Nat
  BY <1>1, OccursFinite
<1>4. Cardinality(Occurs(s, E) \cup {Len(s) + 1}) = Cardinality(Occurs(s, E)) + 1
  BY <1>3, FS_AddElement
<1> QED
  BY <1>2, <1>3, <1>4 DEF One

LEMMA OccursPop ==
  ASSUME NEW S, NEW s \in Seq(S), NEW E, s # <<>>
  PROVE  Cardinality(Occurs(Tail(s), E)) + One(Head(s) \in E) <= Cardinality(Occurs(s, E))
<1>1. /\ Head(s) = s[1] /\ Tail(s) \in Seq(S) /\ Len(s) \in Nat \ {0} /\ Len(Tail(s)) = Len(s) - 1
      /\ \A k \in 1..Len(s) - 1 : Tail(s)[k] = s[k + 1]
  BY HeadTailProperties
<1> DEFINE rest == Occurs(s, E) \ {1}
           earlier == [k \in rest |-> k - 1]
<1>2. Occurs(Tail(s), E) = {earlier[k] : k \in rest}
  <2>1. ASSUME NEW k \in Occurs(Tail(s), E) PROVE \E j \in rest : k = earlier[j]
    <3>1. k + 1 \in rest /\ k = earlier[k + 1]
      BY <1>1 DEF Occurs
    <3> QED
      BY <3>1
  <2>2. ASSUME NEW k \in rest PROVE earlier[k] \in Occurs(Tail(s), E)
    BY <1>1 DEF Occurs
  <2> HIDE DEF rest, earlier
  <2> QED
    BY <2>1, <2>2, Zenon
<1>3. IsFiniteSet(Occurs(s, E)) /\ Cardinality(Occurs(s, E)) \in Nat
  BY OccursFinite
<1>4. IsFiniteSet(rest) /\ Cardinality(rest) = Cardinality(Occurs(s, E)) - One(1 \in Occurs(s, E))
  BY <1>3, FS_RemoveElement DEF One
<1>5. Cardinality(Occurs(Tail(s), E)) <= Cardinality(rest)
  <2>1. earlier \in Surjection(rest, Occurs(Tail(s), E))
    BY <1>2 DEF Surjection
  <2> QED
    BY <1>4, <2>1, FS_Surjection
<1>6. 1 \in Occurs(s, E) <=> Head(s) \in E
  BY <1>1 DEF Occurs
<1>7. Cardinality(Occurs(Tail(s), E)) \in Nat
  BY <1>1, OccursFinite
<1> HIDE DEF rest, earlier
<1> QED
  BY <1>3, <1>4, <1>5, <1>6, <1>7 DEF One

-----------------------------------------------------------------------------
(* One turn for each key.                                                  *)

\* The events that are, or become, a turn of the message.
Of(m) == {e \in Event : e.msg = m /\ e.type # "completed"}

KeyOf(m) == IF m \in Anonymous THEN <<"content", m>> ELSE <<m, 0>>

Given(m) == turns[m] + Cardinality(Occurs(bus, Of(m))) + One(Entering /\ svc.msg = m)

\* A message has been let through once for its key, and once for each lapse.
SeenInv == \A m \in Message :
    ~(Weixin /\ m \in Anonymous) => Given(m) <= lapses + One(KeyOf(m) \in seen)

LEMMA GivenIsNat == ASSUME TasksInv, NEW m \in Message
                    PROVE  /\ Given(m) \in Nat /\ turns[m] \in Nat
                           /\ Cardinality(Occurs(bus, Of(m))) \in Nat
BY OccursFinite DEF TasksInv, Given, One

LEMMA SeenNext ==
  ASSUME SvcInv, TasksInv, TasksInv', SeenInv, [IngressNext]_ingressVars
  PROVE  SeenInv'
<1> SUFFICES ASSUME NEW m \in Message, ~(Weixin' /\ m \in Anonymous)
             PROVE  Given(m)' <= lapses' + One(KeyOf(m) \in seen')
  BY DEF SeenInv
<1>0. /\ Given(m) \in Nat /\ turns[m] \in Nat /\ Cardinality(Occurs(bus, Of(m))) \in Nat
      /\ lapses \in Nat /\ bus \in Seq(Event)
  BY GivenIsNat DEF TasksInv
<1>a. ASSUME UNCHANGED <<kind, seen, lapses>>, Given(m)' <= Given(m), Given(m)' \in Nat
      PROVE  Given(m)' <= lapses' + One(KeyOf(m) \in seen')
  BY <1>0, <1>a DEF SeenInv, Weixin, One
<1>b. Given(m)' \in Nat
  BY OccursFinite DEF TasksInv, Given, One
<1>1. CASE Apart
  <2>1. Aloof
    BY <1>1, ApartIsAloof
  <2>2. UNCHANGED <<kind, bus, turns>>
    BY <2>1 DEF Aloof, tasks
  <2>3. CASE Advances
    <3>1. Given(m)' <= Given(m)
      BY <1>0, <2>2, <2>3 DEF Given, Advances, One
    <3> QED
      BY <1>a, <1>b, <2>2, <2>3, <3>1 DEF Advances
  <2>4. CASE Admits
    <3>1. CASE Entering' /\ svc'.msg = m
      <4>1. /\ svc.msg = m /\ HoldsOne /\ ~Entering /\ Key \notin seen /\ Key \in seen'
            /\ UNCHANGED lapses
        BY <2>4, <3>1 DEF Admits, SvcInv, Held, Entering
      <4>2. KeyOf(m) = Key
        BY <2>2, <4>1 DEF KeyOf, Key, HoldsOne, Weixin
      <4>3. Given(m)' = Given(m) + 1
        BY <1>0, <2>2, <3>1, <4>1 DEF Given, One
      <4>4. Given(m) <= lapses
        BY <1>0, <2>2, <4>1, <4>2 DEF SeenInv, One, Weixin
      <4> QED
        BY <1>0, <4>1, <4>2, <4>3, <4>4 DEF One
    <3>2. CASE ~(Entering' /\ svc'.msg = m)
      <4>1. Given(m)' <= Given(m)
        BY <1>0, <2>2, <3>2 DEF Given, One
      <4> QED
        BY <1>0, <1>b, <2>2, <2>4, <4>1 DEF Admits, SeenInv, One, Weixin
    <3> QED
      BY <3>1, <3>2
  <2>5. CASE Forgets
    <3>1. Given(m)' = Given(m)
      BY <2>2, <2>5 DEF Forgets, Given, Entering
    <3> QED
      BY <1>0, <2>2, <2>5, <3>1 DEF Forgets, SeenInv, One, Weixin
  <2> QED
    BY <2>1, <2>3, <2>4, <2>5 DEF Aloof
<1>2. CASE Publish
  <2>1. Published
    BY <1>2, PublishIs
  <2>2. svc.id \in Id /\ svc.msg \in Message
    BY <2>1, HeldId DEF SvcInv, Held, Published
  <2>3. PICK e \in Event : e = [type |-> "ingress", id |-> svc.id, msg |-> svc.msg,
                                asked |-> prompted, ask |-> FALSE]
    BY <2>2 DEF Event, TasksInv
  <2>4. e \in Of(m) <=> svc.msg = m
    BY <2>3 DEF Of
  <2>5. Cardinality(Occurs(bus, Of(m)))' = Cardinality(Occurs(bus, Of(m))) + One(svc.msg = m)
    BY <1>0, <2>1, <2>3, <2>4, OccursPush DEF Published, One
  <2>6. Given(m)' = Given(m)
    BY <1>0, <2>1, <2>5 DEF Given, One, Entering, Published
  <2> QED
    BY <1>0, <1>a, <2>1, <2>6 DEF Published
<1>3. CASE Receive \/ Timeout \/ LoopStalls
  <2>1. UNCHANGED <<kind, bus, turns, seen, lapses>> /\ svc'.pc = "reply"
    BY <1>3, ReceiveIs, GivesUp DEF GaveUp
  <2>2. Given(m)' <= Given(m)
    BY <1>0, <2>1 DEF Given, One, Entering
  <2> QED
    BY <1>a, <1>b, <2>1, <2>2
<1>4. CASE ServiceRestarts
  <2>1. UNCHANGED <<kind, turns, seen, lapses>> /\ svc'.pc = "poll" /\ bus' = <<>>
    BY <1>4 DEF ServiceRestarts, Polling
  <2>2. Cardinality(Occurs(bus, Of(m)))' = 0
    BY <2>1, FS_EmptySet DEF Occurs
  <2>3. Given(m)' <= Given(m)
    BY <1>0, <2>1, <2>2 DEF Given, One, Entering
  <2> QED
    BY <1>a, <1>b, <2>1, <2>3
<1>5. CASE HandleIngress
  <2>1. /\ bus # <<>> /\ Head(bus) \in Event /\ Tail(bus) \in Seq(Event)
        /\ Head(bus).type = "ingress" /\ UNCHANGED <<kind, turns, seen, lapses, svc>>
        /\ bus' = Append(Tail(bus), [Head(bus) EXCEPT !.type = "intent", !.ask = asks])
    BY <1>5, <1>0, BusPops DEF HandleIngress, Head1, history
  <2>2. PICK e \in Event : /\ e = [Head(bus) EXCEPT !.type = "intent", !.ask = asks]
                           /\ e.type = "intent" /\ e.msg = Head(bus).msg
    BY <2>1, EventIs DEF TasksInv
  <2>3. e \in Of(m) <=> Head(bus) \in Of(m)
    BY <2>1, <2>2 DEF Of
  <2>4. Cardinality(Occurs(Tail(bus), Of(m))) + One(Head(bus) \in Of(m)) <= Cardinality(Occurs(bus, Of(m)))
    BY <1>0, <2>1, OccursPop
  <2>5. Cardinality(Occurs(bus, Of(m)))' = Cardinality(Occurs(Tail(bus), Of(m))) + One(e \in Of(m))
    <3>1. PICK rest \in Seq(Event) : rest = Tail(bus)
      BY <2>1
    <3>2. bus' = Append(rest, e)
      BY <2>1, <2>2, <3>1
    <3>3. Cardinality(Occurs(Append(rest, e), Of(m))) = Cardinality(Occurs(rest, Of(m))) + One(e \in Of(m))
      BY OccursPush, Zenon
    <3> QED
      BY <3>1, <3>2, <3>3
  <2>6. Cardinality(Occurs(Tail(bus), Of(m))) \in Nat
    BY <2>1, OccursFinite
  <2>7. Given(m)' <= Given(m)
    BY <1>0, <2>1, <2>3, <2>4, <2>5, <2>6 DEF Given, One, Entering
  <2> QED
    BY <1>a, <1>b, <2>1, <2>7
<1>6. CASE IngressRaises \/ HandleCompleted
  <2>0. bus # <<>> /\ UNCHANGED <<kind, turns, seen, lapses, svc>> /\ bus' = Tail(bus)
    BY <1>6 DEF IngressRaises, HandleCompleted, Head1, history
  <2>1. /\ bus # <<>> /\ Tail(bus) \in Seq(Event)
        /\ UNCHANGED <<kind, turns, seen, lapses, svc>> /\ bus' = Tail(bus)
    BY <1>0, <2>0, BusPops
  <2>2. Cardinality(Occurs(Tail(bus), Of(m))) + One(Head(bus) \in Of(m)) <= Cardinality(Occurs(bus, Of(m)))
    BY <1>0, <2>1, OccursPop
  <2>3. Cardinality(Occurs(Tail(bus), Of(m))) \in Nat
    BY <2>1, OccursFinite
  <2>4. Given(m)' <= Given(m)
    BY <1>0, <2>1, <2>2, <2>3 DEF Given, One, Entering
  <2> QED
    BY <1>a, <1>b, <2>1, <2>4
<1>7. CASE StartTurn
  <2>1. /\ bus # <<>> /\ Head(bus) \in Event /\ Tail(bus) \in Seq(Event)
        /\ Head(bus).type = "intent" /\ UNCHANGED <<kind, seen, lapses, svc>> /\ bus' = Tail(bus)
        /\ turns' = [turns EXCEPT ![Head(bus).msg] = turns[Head(bus).msg] + 1]
    BY <1>0, <1>7, BusPops DEF StartTurn, Head1
  <2>2. PICK n \in Message : n = Head(bus).msg
    BY <2>1, EventIs
  <2>3. turns'[m] = turns[m] + One(n = m)
    BY <2>1, <2>2 DEF TasksInv, One
  <2>4. Head(bus) \in Of(m) <=> n = m
    BY <2>1, <2>2 DEF Of
  <2>5. Cardinality(Occurs(Tail(bus), Of(m))) + One(Head(bus) \in Of(m)) <= Cardinality(Occurs(bus, Of(m)))
    BY <1>0, <2>1, OccursPop
  <2>6. Cardinality(Occurs(Tail(bus), Of(m))) \in Nat
    BY <2>1, OccursFinite
  <2>7. Given(m)' <= Given(m)
    BY <1>0, <2>1, <2>3, <2>4, <2>5, <2>6 DEF Given, One, Entering
  <2> QED
    BY <1>a, <1>b, <2>1, <2>7
<1>8. CASE \E reply \in Surfaces \cup {"raised"} : FinishTurn(reply)
  <2>1. PICK reply \in {"text", "ask", "deferred", "empty", "raised"} : FinishTurn(reply)
    BY <1>8, SurfacesAre
  <2>2. UNCHANGED <<kind, turns, seen, lapses, svc>> /\ turn \in Event
        /\ (bus' = bus \/ bus' = Append(bus, Completed(reply)))
    BY <2>1 DEF FinishTurn, history, TasksInv
  <2>3. Completed(reply) \in Event /\ Completed(reply).type = "completed"
    BY <2>2, EventIs DEF Completed, Event
  <2>4. Completed(reply) \notin Of(m)
    BY <2>3 DEF Of
  <2>5. Cardinality(Occurs(bus, Of(m)))' = Cardinality(Occurs(bus, Of(m)))
    <3>1. PICK e \in Event : e = Completed(reply)
      BY <2>3
    <3>2. Cardinality(Occurs(Append(bus, e), Of(m))) = Cardinality(Occurs(bus, Of(m))) + One(e \in Of(m))
      BY <1>0, OccursPush, Zenon
    <3>3. Cardinality(Occurs(Append(bus, e), Of(m))) = Cardinality(Occurs(bus, Of(m)))
      BY <1>0, <2>4, <3>1, <3>2 DEF One
    <3>4. bus' = bus \/ bus' = Append(bus, e)
      BY <2>2, <3>1
    <3>5. Cardinality(Occurs(bus', Of(m))) = Cardinality(Occurs(bus, Of(m)))
      BY <3>3, <3>4, Zenon
    <3> QED
      BY <3>5
  <2>6. Given(m)' = Given(m)
    BY <2>2, <2>5 DEF Given, Entering
  <2> QED
    BY <1>0, <1>a, <2>2, <2>6
<1> QED
  BY <1>1, <1>2, <1>3, <1>4, <1>5, <1>6, <1>7, <1>8, Sides DEF Together
-----------------------------------------------------------------------------
(* The session, the rows and their tokens.                                 *)

FilesInv ==
    /\ kind \in Kind /\ clock \in Nat /\ session \in Session /\ rows \in [OutboxRow -> Delivery]
    /\ circuit \in BOOLEAN /\ restored \in BOOLEAN
    /\ rejected \subseteq Nat \ {0}

\* The session is as new as any token a row or the message in hand came with.
TokenInv ==
    /\ session.observed <= clock /\ session.token \notin rejected
    /\ \A r \in OutboxRow :
          rows[r].token # 0 => session.known /\ rows[r].observed <= session.observed
    /\ svc.token # 0 => session.known /\ svc.observed <= session.observed

\* What brings no token, or that of another with the instant it was observed.
Bears(x, y) == x.token = 0 \/ (x.token = y.token /\ x.observed = y.observed)

\* A row keeps its token, or is written with that of the message in hand.
RowsMove ==
    /\ rows' \in [OutboxRow -> Delivery]
    /\ \A r \in OutboxRow : Bears(rows'[r], rows[r]) \/ Bears(rows'[r], svc)

\* The entry of the peer is the one it was, with its token or without.
SessionStays ==
    /\ session' \in Session /\ session'.known = session.known
    /\ session'.observed = session.observed /\ session'.token \in {0, session.token}

LEMMA TokensStay ==
  ASSUME FilesInv, TokenInv, UNCHANGED clock, Bears(svc', svc), RowsMove, SessionStays,
         session'.token \notin rejected'
  PROVE  TokenInv'
<1>1. session'.observed <= clock'
  BY DEF SessionStays, TokenInv
<1>2. ASSUME NEW r \in OutboxRow, rows'[r].token # 0
      PROVE  session'.known /\ rows'[r].observed <= session'.observed
  BY <1>2 DEF RowsMove, Bears, SessionStays, TokenInv
<1>3. svc'.token # 0 => session'.known /\ svc'.observed <= session'.observed
  BY DEF SessionStays, TokenInv, Bears
<1> QED
  BY <1>1, <1>2, <1>3 DEF TokenInv

LEMMA RowWritten ==
  ASSUME FilesInv, NEW r \in OutboxRow, NEW d \in Delivery, rows' = [rows EXCEPT ![r] = d],
         Bears(d, rows[r]) \/ Bears(d, svc)
  PROVE  RowsMove
BY DEF FilesInv, RowsMove, Bears

LEMMA RowMarked ==
  ASSUME FilesInv, NEW r \in OutboxRow,
         NEW status \in {"absent", "pending", "waiting", "sent", "failed"},
         NEW error \in {"none", "session", "other"}, Marked(r, status, error)
  PROVE  RowsMove
<1>1. PICK d \in Delivery : d = rows[r]
  BY DEF FilesInv
<1>2. PICK e \in Delivery : e = [d EXCEPT !.status = status, !.error = error]
  BY DEF Delivery
<1>3. rows' = [rows EXCEPT ![r] = e]
  BY <1>1, <1>2 DEF Marked
<1>4. Bears(e, d)
  BY <1>2 DEF Delivery, Bears
<1> QED
  BY <1>1, <1>3, <1>4, RowWritten

\* However a delivery ends, its row is marked.
LEMMA RowEnds ==
  ASSUME FilesInv, NEW r \in OutboxRow, NEW result \in Failure \cup {"sent"}, Ends(r, result)
  PROVE  RowsMove /\ circuit' \in BOOLEAN
<1>1. \E status \in {"absent", "pending", "waiting", "sent", "failed"},
         error \in {"none", "session", "other"} : Marked(r, status, error)
  BY DEF Ends, Failure
<1>2. circuit' \in BOOLEAN
  BY DEF Ends
<1> QED
  BY <1>1, <1>2, RowMarked

LEMMA PendingRow ==
  ASSUME NEW token \in Nat, NEW observed \in Nat, NEW deadline \in BOOLEAN
  PROVE  /\ NewRow(token, observed, deadline) \in Delivery
         /\ NewRow(token, observed, deadline).token = token
         /\ NewRow(token, observed, deadline).observed = observed
<1>1. NoRow \in Delivery
  BY DEF Delivery, NoRow
<1>2. \A c \in Delivery : \A d : d = [c EXCEPT !.status = "pending", !.token = token,
                                               !.observed = observed, !.deadline = deadline]
         => d \in Delivery /\ d.token = token /\ d.observed = observed
  BY DEF Delivery
<1> QED
  BY <1>1, <1>2 DEF NewRow

LEMMA RowEnqueued ==
  ASSUME FilesInv, NEW r \in OutboxRow, NEW token \in Nat, NEW observed \in Nat,
         token = 0 \/ (token = svc.token /\ observed = svc.observed),
         NEW deadline \in BOOLEAN, rows' = Enqueued(r, token, observed, deadline)
  PROVE  RowsMove
<1>1. PICK d \in Delivery : /\ d = NewRow(token, observed, deadline)
                            /\ d.token = token /\ d.observed = observed
  BY PendingRow
<1>2. CASE rows[r].status = "absent"
  <2>1. rows' = [rows EXCEPT ![r] = d]
    BY <1>1, <1>2 DEF Enqueued
  <2>2. Bears(d, svc)
    BY <1>1 DEF Bears
  <2> QED
    BY <1>1, <2>1, <2>2, RowWritten
<1>3. CASE rows[r].status # "absent"
  BY <1>3 DEF Enqueued, RowsMove, FilesInv, Bears
<1> QED
  BY <1>2, <1>3

LEMMA RowsRest == FilesInv /\ UNCHANGED rows => RowsMove
BY DEF FilesInv, RowsMove, Bears

LEMMA RequeueMoves == ASSUME FilesInv, rows' = Requeued PROVE RowsMove
<1>1. ASSUME NEW r \in OutboxRow
      PROVE  Requeued[r] \in Delivery /\ Bears(Requeued[r], rows[r])
  <2>1. rows[r] \in Delivery
    BY DEF FilesInv
  <2>2. /\ [rows[r] EXCEPT !.status = "pending"] \in Delivery
        /\ Bears([rows[r] EXCEPT !.status = "pending"], rows[r])
    BY <2>1 DEF Delivery, Bears
  <2>3. Bears(rows[r], rows[r])
    BY DEF Bears
  <2> QED
    BY <2>1, <2>2, <2>3 DEF Requeued
<1>2. DOMAIN Requeued = OutboxRow /\ Requeued = [r \in OutboxRow |-> Requeued[r]]
  BY DEF Requeued
<1> QED
  BY <1>1, <1>2 DEF RowsMove

\* What the rows came with is no news to a session: restoring changes nothing.
LEMMA RestoresNothing ==
  ASSUME FilesInv, TokenInv, RestoreTokens
  PROVE  UNCHANGED <<session, rows, circuit, clock, rejected, svc, kind>> /\ restored' = TRUE
<1>1. UNCHANGED <<rows, circuit, clock, rejected, svc, kind>> /\ restored' = TRUE
  BY DEF RestoreTokens, history
<1>2. ASSUME NEW r \in Bearing PROVE Stored(rows[r].token, rows[r].observed) = session
  <2>1. /\ session.known /\ rows[r].observed <= session.observed
        /\ rows[r].observed \in Nat /\ session.observed \in Nat
    BY <1>2 DEF Bearing, TokenInv, FilesInv, Delivery, Session
  <2> QED
    BY <2>1 DEF Stored, Stores
<1>3. session' = session
  BY <1>2 DEF RestoreTokens
<1> QED
  BY <1>1, <1>3

\* A step that leaves the files alone.
FilesRest ==
    /\ UNCHANGED <<kind, clock, session, rows, rejected>>
    /\ circuit' \in BOOLEAN /\ restored' \in BOOLEAN /\ Bears(svc', svc)

LEMMA RestKeepsFiles ==
  ASSUME FilesInv, TokenInv, FilesRest
  PROVE  FilesInv' /\ TokenInv'
<1>1. FilesInv'
  BY DEF FilesInv, FilesRest
<1>2. RowsMove /\ SessionStays
  BY RowsRest DEF FilesRest, SessionStays, FilesInv
<1>3. TokenInv'
  BY <1>2, TokensStay DEF FilesRest, FilesInv, TokenInv
<1> QED
  BY <1>1, <1>3

\* A step that moves the rows, and may refuse the token of the session.
LEMMA RowsKeepFiles ==
  ASSUME FilesInv, TokenInv, UNCHANGED <<kind, clock>>, rejected' \subseteq Nat \ {0},
         circuit' \in BOOLEAN, restored' \in BOOLEAN, Bears(svc', svc),
         RowsMove, SessionStays, session'.token \notin rejected'
  PROVE  FilesInv' /\ TokenInv'
<1>1. FilesInv'
  BY DEF FilesInv, RowsMove, SessionStays
<1> QED
  BY <1>1, TokensStay

LEMMA SessionKept == ASSUME FilesInv, TokenInv, UNCHANGED <<session, rejected>>
                     PROVE  /\ SessionStays /\ session'.token \notin rejected'
                            /\ rejected' \subseteq Nat \ {0}
BY DEF FilesInv, TokenInv, SessionStays

LEMMA TogetherRests == ASSUME SvcInv, FilesInv, Together PROVE FilesRest
<1> USE DEF FilesRest, FilesInv, Bears, history
<1>0. svc \in PollLoop
  BY DEF SvcInv
<1>1. CASE Publish
  BY <1>0, <1>1 DEF Publish, GoesTo, PollLoop
<1>2. CASE Receive
  BY <1>0, <1>2 DEF Receive, PollLoop
<1>3. CASE Timeout \/ LoopStalls
  BY <1>0, <1>3 DEF Timeout, LoopStalls, PollLoop
<1>4. CASE ServiceRestarts
  BY <1>0, <1>4 DEF ServiceRestarts, Polling
<1>5. CASE HandleIngress \/ IngressRaises \/ HandleCompleted \/ StartTurn
  BY <1>5 DEF HandleIngress, IngressRaises, HandleCompleted, StartTurn
<1>6. CASE \E reply \in Surfaces \cup {"raised"} : FinishTurn(reply)
  BY <1>6 DEF FinishTurn
<1> QED
  BY <1>1, <1>2, <1>3, <1>4, <1>5, <1>6 DEF Together

\* The steps of the poll loop and of time that leave the files alone.
Reading ==
    \/ Poll \/ EndOfBatch \/ TakeUpdate \/ Dedup \/ TypingTicket \/ TypingTicketFails \/ EndDrain
    \/ \E reply \in Replies : AnswersDirectly(reply)
    \/ \E sent \in BOOLEAN : ReplyTelegram(sent)
    \/ \E m \in Message : Arrive(m)
    \/ \E key \in seen : DedupLapses(key)
    \/ CircuitElapses \/ UNCHANGED ingressVars

LEMMA ReadingRests == ASSUME SvcInv, FilesInv, Reading PROVE FilesRest
<1> USE DEF FilesRest, FilesInv, Bears, history, memory
<1>0. svc \in PollLoop
  BY DEF SvcInv
<1>1. AfterUpdate.token = 0 /\ AfterFailure.token = 0 /\ \A at : Polling(at).token = 0
  BY <1>0 DEF AfterUpdate, Polling, AfterFailure, PollLoop
<1>2. CASE Poll \/ EndOfBatch
  BY <1>0, <1>1, <1>2 DEF Poll, EndOfBatch, PollLoop
<1>3. CASE TakeUpdate
  BY <1>0, <1>3 DEF TakeUpdate, NextUpdate, PollLoop
<1>4. CASE Dedup \/ TypingTicket
  BY <1>0, <1>1, <1>4 DEF Dedup, TypingTicket, GoesTo, PollLoop
<1>5. CASE TypingTicketFails \/ EndDrain
  BY <1>1, <1>5 DEF TypingTicketFails, EndDrain
<1>6. CASE \E reply \in Replies : AnswersDirectly(reply)
  BY <1>0, <1>6 DEF AnswersDirectly, PollLoop
<1>7. CASE \E sent \in BOOLEAN : ReplyTelegram(sent)
  BY <1>1, <1>7 DEF ReplyTelegram
<1>8. CASE \E m \in Message : Arrive(m)
  BY <1>8 DEF Arrive
<1>9. CASE \E key \in seen : DedupLapses(key)
  BY <1>9 DEF DedupLapses
<1>10. CASE CircuitElapses \/ UNCHANGED ingressVars
  BY <1>10 DEF CircuitElapses, ingressVars
<1> QED
  BY <1>1, <1>2, <1>3, <1>4, <1>5, <1>6, <1>7, <1>8, <1>9, <1>10 DEF Reading

LEMMA ObserveKeepsFiles ==
  ASSUME IngressAssumption, SvcInv, FilesInv, TokenInv, ObserveUpdate
  PROVE  FilesInv' /\ TokenInv'
<1> DEFINE m == log[svc.at + 1]
<1>0. svc \in PollLoop /\ session \in Session /\ clock \in Nat
  BY DEF SvcInv, FilesInv
<1>1. UNCHANGED <<kind, restored>>
  BY DEF ObserveUpdate
<1>2. CASE m \in Blocked
  <2>1. UNCHANGED <<session, rows, circuit, clock, rejected>>
    BY <1>2 DEF ObserveUpdate
  <2>2. svc'.token = svc.token /\ svc'.observed = svc.observed
    BY <1>0, <1>2 DEF ObserveUpdate, PollLoop
  <2> QED
    BY <1>1, <2>1, <2>2, RestKeepsFiles DEF FilesRest, FilesInv, Bears
<1>3. CASE m \notin Blocked /\ TokenOf[m] = 0
  <2>1. NextUpdate(0, 0) /\ UNCHANGED <<session, rows, clock, rejected>> /\ circuit' = FALSE
    BY <1>3 DEF ObserveUpdate
  <2>2. svc'.token = 0
    BY <1>0, <2>1 DEF NextUpdate, PollLoop
  <2> QED
    BY <1>1, <2>1, <2>2, RestKeepsFiles DEF FilesRest, FilesInv, Bears
<1>4. CASE m \notin Blocked /\ TokenOf[m] # 0
  <2>0. svc.pc = "update" /\ svc.at < svc.upto
    BY DEF ObserveUpdate
  <2>1. m \in Message
    BY <1>0, <2>0 DEF SvcInv, PollLoop
  <2>2. PICK token \in Nat : token = TokenOf[m]
    BY <2>1 DEF IngressAssumption
  <2>3. PICK now \in Nat : now = clock + 1
    BY <1>0
  <2>4. /\ NextUpdate(token, now) /\ clock' = now /\ session' = Stored(token, now)
        /\ circuit' = FALSE /\ rejected' = rejected \ {token}
        /\ rows' = IF Stores(now) THEN Requeued ELSE rows
    BY <1>4, <2>2, <2>3 DEF ObserveUpdate
  <2>5. session.observed <= clock /\ session.observed \in Nat /\ session.observed < now
    BY <1>0, <2>3 DEF TokenInv, Session
  <2>6. Stores(now)
    BY <2>5 DEF Stores
  <2>7. /\ session' = [token |-> token, observed |-> now, known |-> TRUE, aged |-> FALSE]
        /\ rows' = Requeued
    BY <2>4, <2>6 DEF Stored
  <2>8. /\ session' \in Session /\ session'.token = token /\ session'.observed = now
        /\ session'.known
    BY <2>7 DEF Session
  <2>9. RowsMove
    BY <2>7, RequeueMoves
  <2>10. rejected' \subseteq Nat \ {0} /\ session'.token \notin rejected'
    BY <2>4, <2>8 DEF FilesInv
  <2>11. FilesInv'
    BY <1>1, <2>4, <2>8, <2>9, <2>10 DEF FilesInv, RowsMove
  <2>12. ASSUME NEW r \in OutboxRow, rows'[r].token # 0
         PROVE  rows'[r].observed <= session'.observed
    <3>1. rows[r] \in Delivery /\ rows'[r] \in Delivery
      BY <2>9 DEF FilesInv, RowsMove
    <3>2. \/ rows'[r].token = rows[r].token /\ rows'[r].observed = rows[r].observed
          \/ rows'[r].token = svc.token /\ rows'[r].observed = svc.observed
      BY <2>9, <2>12 DEF RowsMove, Bears
    <3>3. rows'[r].observed <= session.observed /\ rows'[r].observed \in Nat
      BY <2>12, <3>1, <3>2 DEF TokenInv, Delivery
    <3> QED
      BY <2>5, <2>8, <3>3
  <2>13. svc'.observed <= session'.observed /\ session'.observed <= clock'
    <3>1. svc'.observed = now
      BY <1>0, <2>3, <2>4 DEF NextUpdate, PollLoop
    <3> QED
      BY <2>4, <2>8, <3>1
  <2> QED
    BY <2>8, <2>10, <2>11, <2>12, <2>13 DEF TokenInv
<1> QED
  BY <1>2, <1>3, <1>4

\* Only the session's own token is ever sent.
LEMMA OwnToken ==
  ASSUME FilesInv, TokenInv, NEW r \in OutboxRow, Resolve(r) # 0
  PROVE  session.known /\ Resolve(r) = session.token
BY DEF Resolve, TokenInv, FilesInv

LEMMA RejectionKeepsFiles ==
  ASSUME FilesInv, TokenInv, NEW r \in OutboxRow, NEW again \in Failure \cup {"sent"},
         DeliverRejected(r, again)
  PROVE  FilesInv' /\ TokenInv'
<1>1. /\ UNCHANGED <<kind, clock, svc, restored>>
      /\ rejected' = rejected \cup {Resolve(r)} /\ session' = Invalidated /\ Resolve(r) # 0
  BY DEF DeliverRejected, drainUnchanged
<1>2. RowsMove /\ circuit' \in BOOLEAN
  BY RowEnds DEF DeliverRejected
<1>3. session \in Session /\ session.token \in Nat
  BY DEF FilesInv, Session
<1>4. session.known /\ Resolve(r) = session.token
  BY <1>1, OwnToken
<1>5. rejected' \subseteq Nat \ {0}
  BY <1>1, <1>3, <1>4 DEF FilesInv
<1>6. SessionStays /\ session'.token = 0
  BY <1>1, <1>3, <1>4 DEF Invalidated, SessionStays, Session
<1>7. session'.token \notin rejected'
  BY <1>5, <1>6
<1>8. Bears(svc', svc) /\ restored' \in BOOLEAN
  BY <1>1 DEF FilesInv, Bears
<1> QED
  BY <1>1, <1>2, <1>5, <1>6, <1>7, <1>8, RowsKeepFiles

LEMMA FilesNext ==
  ASSUME IngressAssumption, SvcInv, FilesInv, TokenInv, [IngressNext]_ingressVars
  PROVE  FilesInv' /\ TokenInv'
<1>0. svc \in PollLoop /\ circuit \in BOOLEAN /\ restored \in BOOLEAN
  BY DEF SvcInv, FilesInv
<1>1. CASE Together
  BY <1>1, TogetherRests, RestKeepsFiles
<1>2. CASE Reading
  BY <1>2, ReadingRests, RestKeepsFiles
<1>3. CASE ObserveUpdate
  BY <1>3, ObserveKeepsFiles
<1>4. CASE RestoreTokens
  BY <1>4, RestoresNothing, RestKeepsFiles DEF FilesRest, FilesInv, Bears
<1>5. CASE ReplyWeixin
  <2>1. /\ UNCHANGED <<kind, clock, session, rejected, circuit, restored>>
        /\ Bears(svc', svc)
        /\ \/ rows' = rows
           \/ svc.pc = "reply" /\ rows' = Enqueued(svc.msg, svc.token, svc.observed, FALSE)
    BY <1>0, <1>5 DEF ReplyWeixin, GoesTo, AfterUpdate, AfterFailure, Polling, PollLoop, Bears
  <2>2. svc.pc = "reply" => /\ svc.msg \in OutboxRow
                            /\ svc.token \in Nat /\ svc.observed \in Nat
    BY <1>0 DEF SvcInv, Held, HoldsOne, OutboxRow, PollLoop
  <2>3. RowsMove
    BY <2>1, <2>2, RowsRest, RowEnqueued
  <2> QED
    BY <1>0, <2>1, <2>3, SessionKept, RowsKeepFiles
<1>6. CASE QueueResult \/ \E surfaces \in BOOLEAN : ProcessBackground(surfaces)
  <2>1. /\ UNCHANGED <<kind, clock, session, rejected, circuit, restored>>
        /\ Bears(svc', svc)
        /\ rows' = rows \/ \E deadline \in BOOLEAN : rows' = Enqueued(Background, 0, 0, deadline)
    BY <1>0, <1>6 DEF QueueResult, ProcessBackground, GoesTo, PollLoop, memory, history, Bears
  <2>2. Background \in OutboxRow
    BY DEF OutboxRow
  <2>3. RowsMove
    BY <2>1, <2>2, RowsRest, RowEnqueued
  <2> QED
    BY <1>0, <2>1, <2>3, SessionKept, RowsKeepFiles
<1>7. CASE \E r \in OutboxRow : DeliverAccepted(r) \/ DeliverLate(r)
  <2>1. PICK r \in OutboxRow : DeliverAccepted(r) \/ DeliverLate(r)
    BY <1>7
  <2>2. RowsMove
    BY <2>1, RowMarked DEF DeliverAccepted, DeliverLate
  <2>3. UNCHANGED <<kind, clock, session, rejected, svc, restored>> /\ circuit' \in BOOLEAN
    BY <1>0, <2>1 DEF DeliverAccepted, DeliverLate, drainUnchanged
  <2> QED
    BY <1>0, <2>2, <2>3, SessionKept, RowsKeepFiles DEF Bears
<1>8. CASE \E r \in OutboxRow, again \in Failure \cup {"sent"} : DeliverRejected(r, again)
  BY <1>8, RejectionKeepsFiles
<1>9. CASE \E r \in OutboxRow, failure \in Failure : SendFails(r, failure)
  <2>1. PICK r \in OutboxRow, failure \in Failure : SendFails(r, failure)
    BY <1>9
  <2>2. RowsMove /\ circuit' \in BOOLEAN
    BY <2>1, RowEnds DEF SendFails
  <2>3. UNCHANGED <<kind, clock, session, rejected, svc, restored>>
    BY <2>1 DEF SendFails, drainUnchanged
  <2> QED
    BY <1>0, <2>2, <2>3, SessionKept, RowsKeepFiles DEF Bears
<1>10. CASE \E r \in OutboxRow : RetryDue(r)
  <2>1. PICK r \in OutboxRow : RetryDue(r)
    BY <1>10
  <2>2. PICK d \in Delivery : d = rows[r]
    BY DEF FilesInv
  <2>3. [d EXCEPT !.status = "pending"] \in Delivery /\ Bears([d EXCEPT !.status = "pending"], d)
    BY DEF Delivery, Bears
  <2>4. rows' = [rows EXCEPT ![r] = [d EXCEPT !.status = "pending"]]
    BY <2>1, <2>2 DEF RetryDue
  <2>5. RowsMove
    BY <2>2, <2>3, <2>4, RowWritten
  <2>6. UNCHANGED <<kind, clock, session, rejected, svc, circuit, restored>>
    BY <2>1 DEF RetryDue, memory, history
  <2> QED
    BY <1>0, <2>5, <2>6, SessionKept, RowsKeepFiles DEF Bears
<1>11. CASE DeadlinePasses
  <2>1. Background \in OutboxRow
    BY DEF OutboxRow
  <2>2. PICK d \in Delivery : d = rows[Background]
    BY <2>1 DEF FilesInv
  <2>3. [d EXCEPT !.late = TRUE] \in Delivery /\ Bears([d EXCEPT !.late = TRUE], d)
    BY DEF Delivery, Bears
  <2>4. rows' = [rows EXCEPT ![Background] = [d EXCEPT !.late = TRUE]]
    BY <1>11, <2>2 DEF DeadlinePasses
  <2>5. RowsMove
    BY <2>1, <2>2, <2>3, <2>4, RowWritten
  <2>6. UNCHANGED <<kind, clock, session, rejected, svc, circuit, restored>>
    BY <1>11 DEF DeadlinePasses, memory, history
  <2> QED
    BY <1>0, <2>5, <2>6, SessionKept, RowsKeepFiles DEF Bears
<1>12. CASE TokenAges
  <2>1. UNCHANGED <<kind, clock, rows, rejected, svc, circuit, restored>>
        /\ session' = [session EXCEPT !.aged = TRUE]
    BY <1>12 DEF TokenAges, memory, history
  <2>2. SessionStays /\ session'.token = session.token
    BY <2>1 DEF FilesInv, SessionStays, Session
  <2>3. session'.token \notin rejected' /\ rejected' \subseteq Nat \ {0}
    BY <2>1, <2>2 DEF TokenInv, FilesInv
  <2> QED
    BY <1>0, <2>1, <2>2, <2>3, RowsRest, RowsKeepFiles DEF Bears
<1> QED
  BY <1>1, <1>2, <1>3, <1>4, <1>5, <1>6, <1>7, <1>8, <1>9, <1>10, <1>11, <1>12, Sides
  DEF Apart, Clock, Reading
-----------------------------------------------------------------------------
(* While nothing fails: one event, or turn, for the channel that waits.    *)

AllDone(s) == \A k \in DOMAIN s : s[k].type = "completed"
OneOpen(s, id) ==
    \E k \in DOMAIN s : /\ s[k].type # "completed" /\ s[k].id = id
                        /\ \A j \in DOMAIN s : j # k => s[j].type = "completed"

LEMMA OpenPush ==
  ASSUME NEW s \in Seq(Event), AllDone(s), NEW e \in Event
  PROVE  /\ e.type = "completed" => AllDone(Append(s, e))
         /\ e.type # "completed" => OneOpen(Append(s, e), e.id)
<1>1. /\ DOMAIN Append(s, e) = 1..Len(s) + 1 /\ DOMAIN s = 1..Len(s) /\ Len(s) \in Nat
      /\ \A k \in 1..Len(s) : Append(s, e)[k] = s[k]
      /\ Append(s, e)[Len(s) + 1] = e
  BY AppendProperties
<1>2. \A k \in DOMAIN Append(s, e) : k # Len(s) + 1 => Append(s, e)[k].type = "completed"
  BY <1>1 DEF AllDone
<1>3. Len(s) + 1 \in DOMAIN Append(s, e)
  BY <1>1
<1>4. e.type = "completed" => AllDone(Append(s, e))
  BY <1>1, <1>2 DEF AllDone
<1>5. e.type # "completed" => OneOpen(Append(s, e), e.id)
  BY <1>1, <1>2, <1>3 DEF OneOpen
<1> QED
  BY <1>4, <1>5

LEMMA OpenPop ==
  ASSUME NEW s \in Seq(Event), s # <<>>
  PROVE  /\ AllDone(s) => AllDone(Tail(s)) /\ Head(s).type = "completed"
         /\ \A id : OneOpen(s, id) =>
               /\ Head(s).type = "completed" => OneOpen(Tail(s), id)
               /\ Head(s).type # "completed" => AllDone(Tail(s)) /\ Head(s).id = id
<1>1. /\ Head(s) = s[1] /\ Len(s) \in Nat \ {0} /\ DOMAIN s = 1..Len(s)
      /\ DOMAIN Tail(s) = 1..Len(s) - 1
      /\ \A k \in 1..Len(s) - 1 : Tail(s)[k] = s[k + 1]
  BY HeadTailProperties
<1>2. /\ \A k \in DOMAIN Tail(s) : k + 1 \in DOMAIN s /\ k + 1 # 1 /\ Tail(s)[k] = s[k + 1]
      /\ \A k \in DOMAIN s : k # 1 => k - 1 \in DOMAIN Tail(s) /\ Tail(s)[k - 1] = s[k]
      /\ 1 \in DOMAIN s
  BY <1>1
<1>3. AllDone(s) => AllDone(Tail(s)) /\ Head(s).type = "completed"
  BY <1>1, <1>2 DEF AllDone
<1>4. ASSUME NEW id, OneOpen(s, id), Head(s).type = "completed" PROVE OneOpen(Tail(s), id)
  <2>1. PICK k \in DOMAIN s : /\ s[k].type # "completed" /\ s[k].id = id
                              /\ \A j \in DOMAIN s : j # k => s[j].type = "completed"
    BY <1>4 DEF OneOpen
  <2>2. k # 1 /\ k - 1 \in DOMAIN Tail(s) /\ Tail(s)[k - 1] = s[k]
    BY <1>1, <1>2, <1>4, <2>1
  <2>3. \A j \in DOMAIN Tail(s) : j # k - 1 => j + 1 # k
    BY <1>1, <2>2
  <2>4. \A j \in DOMAIN Tail(s) : j # k - 1 => Tail(s)[j].type = "completed"
    BY <1>2, <2>1, <2>3
  <2> QED
    BY <2>1, <2>2, <2>4 DEF OneOpen
<1>5. ASSUME NEW id, OneOpen(s, id), Head(s).type # "completed"
      PROVE  AllDone(Tail(s)) /\ Head(s).id = id
  <2>1. PICK k \in DOMAIN s : /\ s[k].type # "completed" /\ s[k].id = id
                              /\ \A j \in DOMAIN s : j # k => s[j].type = "completed"
    BY <1>5 DEF OneOpen
  <2>2. k = 1
    BY <1>1, <1>2, <1>5, <2>1
  <2> QED
    BY <1>1, <1>2, <2>1, <2>2 DEF AllDone
<1> QED
  BY <1>3, <1>4, <1>5

Answered == channel # None /\ channel.reply # "none"

AtRest    == turn = None /\ AllDone(bus)
Serving == \/ turn # None /\ turn.id = channel.id /\ AllDone(bus)
           \/ turn = None /\ OneOpen(bus, channel.id)

AnswerInv == faults = 0 /\ restarts = 0 =>
    IF channel = None \/ Answered THEN AtRest ELSE Serving

\* No turn is given up: it is running, or its event is next.
LEMMA NeverSilent ==
  ASSUME SvcInv, TasksInv, AnswerInv, faults = 0, restarts = 0, svc.pc = "wait"
  PROVE  ~Silent
<1> SUFFICES ASSUME Silent PROVE FALSE
  OBVIOUS
<1>1. channel # None /\ channel.id = svc.id /\ ~Answered
  BY DEF Silent, TasksInv, Answered
<1>2. Serving
  BY <1>1 DEF AnswerInv
<1>3. turn = None /\ OneOpen(bus, svc.id)
  BY <1>1, <1>2 DEF Serving, Silent, Works
<1>4. Queued(svc.id)
  BY <1>3 DEF OneOpen, Queued
<1> QED
  BY <1>3, <1>4 DEF Silent

\* The end of a turn while nothing has failed.
LEMMA HeardEnd ==
  ASSUME IngressAssumption, TasksInv, AnswerInv, faults' = 0, restarts' = 0,
         NEW reply \in {"text", "ask", "deferred", "empty", "raised"}, FinishTurn(reply)
  PROVE  /\ channel # None /\ channel' = [id |-> turn.id, reply |-> channel'.reply]
         /\ channel' # None /\ channel'.reply # "none" /\ channel'.reply = reply
         /\ turn' = None /\ bus' = Append(bus, Completed(reply)) /\ AllDone(bus')
<1> USE DEF TasksInv
<1>1. reply \in {"text", "ask", "deferred"} /\ faults = 0 /\ restarts = 0
  BY DEF FinishTurn, Fault, history
<1>2. turn \in Event /\ channel \in Channel /\ turn.id = channel.id /\ AllDone(bus)
  BY <1>1 DEF FinishTurn, AnswerInv, AtRest, Serving
<1>3. PICK e \in Event : e = Completed(reply)
  BY <1>2, EventIs DEF Completed, Event
<1>4. bus' = Append(bus, e) /\ e.type = "completed"
  BY <1>1, <1>3 DEF FinishTurn, Completed
<1>5. AllDone(bus')
  BY <1>2, <1>4, OpenPush
<1>6. channel # None /\ channel' = [channel EXCEPT !.reply = reply]
  BY <1>1, <1>2 DEF FinishTurn, Answers, IngressAssumption
<1>7. channel' = [id |-> turn.id, reply |-> reply] /\ channel' \in Channel
  BY <1>1, <1>2, <1>6 DEF Channel, Replies
<1>8. channel'.reply = reply
  BY <1>7
<1> QED
  BY <1>1, <1>3, <1>4, <1>5, <1>6, <1>7, <1>8 DEF FinishTurn, IngressAssumption

LEMMA AnswerNext ==
  ASSUME IngressAssumption, SvcInv, TasksInv, AnswerInv, [IngressNext]_ingressVars
  PROVE  AnswerInv'
<1> SUFFICES ASSUME faults' = 0, restarts' = 0
             PROVE  (IF channel = None \/ Answered THEN AtRest ELSE Serving)'
  BY DEF AnswerInv
<1> USE DEF TasksInv
<1>1. CASE Apart
  <2>1. Aloof
    BY <1>1, ApartIsAloof
  <2>2. UNCHANGED <<bus, turn, channel>> /\ faults = 0 /\ restarts = 0
    BY <2>1 DEF Aloof, tasks
  <2>3. IF channel = None \/ Answered THEN AtRest ELSE Serving
    BY <2>2 DEF AnswerInv
  <2> QED
    BY <2>2, <2>3 DEF Answered, AtRest, Serving
<1>2. CASE Publish
  <2>1. Published
    BY <1>2, PublishIs
  <2>2. faults = 0 /\ restarts = 0 /\ channel = None
    BY <2>1 DEF Published
  <2>3. AtRest
    BY <2>2 DEF AnswerInv
  <2>4. svc.id \in Id /\ svc.msg \in Message
    BY <2>1, HeldId DEF SvcInv, Held, Published
  <2>5. PICK e \in Event : e = [type |-> "ingress", id |-> svc.id, msg |-> svc.msg,
                                asked |-> prompted, ask |-> FALSE]
    BY <2>4 DEF Event
  <2>a. e.type # "completed" /\ e.id = svc.id
    BY <2>5
  <2>6. OneOpen(bus', svc.id)
    BY <2>1, <2>3, <2>5, <2>a, OpenPush DEF Published, AtRest
  <2>7. channel' # None /\ channel'.id = svc.id /\ channel'.reply = "none"
    <3>1. [id |-> svc.id, reply |-> "none"] \in Channel
      BY <2>4 DEF Channel, Replies
    <3> QED
      BY <2>1, <3>1 DEF Published, IngressAssumption
  <2> QED
    BY <2>1, <2>3, <2>6, <2>7 DEF Published, Answered, Serving, AtRest
<1>3. CASE Receive
  <2>1. /\ channel' = None /\ UNCHANGED <<bus, turn, faults, restarts>>
        /\ channel # None /\ channel.reply # "none"
    BY <1>3, ReceiveIs
  <2>2. AtRest
    BY <2>1 DEF AnswerInv, Answered
  <2> QED
    BY <2>1, <2>2 DEF AtRest
<1>4. CASE Timeout \/ LoopStalls
  <2>1. faults = 0 /\ restarts = 0 /\ Silent /\ svc.pc = "wait"
    BY <1>4, GivesUp DEF GaveUp
  <2> QED
    BY <2>1, NeverSilent
<1>5. CASE ServiceRestarts
  BY <1>5 DEF ServiceRestarts
<1>6. CASE HandleIngress
  <2>1. /\ bus # <<>> /\ Head(bus) \in Event /\ Tail(bus) \in Seq(Event)
        /\ Head(bus).type = "ingress" /\ turn = None
        /\ UNCHANGED <<turn, channel, faults, restarts>>
        /\ bus' = Append(Tail(bus), [Head(bus) EXCEPT !.type = "intent", !.ask = asks])
    BY <1>6, BusPops DEF HandleIngress, Head1, history
  <2>2. PICK e \in Event : /\ e = [Head(bus) EXCEPT !.type = "intent", !.ask = asks]
                           /\ e.type = "intent" /\ e.id = Head(bus).id
    BY <2>1, EventIs
  <2>3. ~AllDone(bus)
    BY <2>1, OpenPop
  <2>4. channel # None /\ ~Answered /\ OneOpen(bus, channel.id)
    BY <2>1, <2>3 DEF AnswerInv, AtRest, Serving
  <2>5. AllDone(Tail(bus)) /\ Head(bus).id = channel.id
    BY <2>1, <2>4, OpenPop
  <2>6. OneOpen(bus', channel.id)
    BY <2>1, <2>2, <2>5, OpenPush
  <2> QED
    BY <2>1, <2>4, <2>6 DEF Answered, Serving
<1>7. CASE IngressRaises
  BY <1>7 DEF IngressRaises, Fault
<1>8. CASE HandleCompleted
  <2>1. /\ bus # <<>> /\ Head(bus).type = "completed" /\ turn = None
        /\ UNCHANGED <<turn, channel, faults, restarts>> /\ bus' = Tail(bus)
    BY <1>8 DEF HandleCompleted, Head1, history
  <2>2. IF channel = None \/ Answered THEN AtRest ELSE Serving
    BY <2>1 DEF AnswerInv
  <2>3. AllDone(bus) => AllDone(bus')
    BY <2>1, OpenPop
  <2>4. OneOpen(bus, channel.id) => OneOpen(bus', channel.id)
    BY <2>1, OpenPop
  <2> QED
    BY <2>1, <2>2, <2>3, <2>4 DEF Answered, AtRest, Serving
<1>9. CASE StartTurn
  <2>1. /\ bus # <<>> /\ Head(bus) \in Event /\ Head(bus).type = "intent" /\ turn = None
        /\ UNCHANGED <<channel, faults, restarts>> /\ bus' = Tail(bus) /\ turn' = Head(bus)
    BY <1>9, BusPops DEF StartTurn, Head1
  <2>2. ~AllDone(bus)
    BY <2>1, OpenPop
  <2>3. channel # None /\ ~Answered /\ OneOpen(bus, channel.id)
    BY <2>1, <2>2 DEF AnswerInv, AtRest, Serving
  <2>4. AllDone(bus') /\ turn'.id = channel.id /\ turn' # None
    BY <2>1, <2>3, OpenPop DEF IngressAssumption
  <2> QED
    BY <2>1, <2>3, <2>4 DEF Answered, Serving
<1>10. CASE \E reply \in Surfaces \cup {"raised"} : FinishTurn(reply)
  <2>1. PICK reply \in {"text", "ask", "deferred", "empty", "raised"} : FinishTurn(reply)
    BY <1>10, SurfacesAre
  <2>2. channel' # None /\ channel'.reply # "none" /\ turn' = None /\ AllDone(bus')
    BY <2>1, HeardEnd
  <2> QED
    BY <2>2 DEF Answered, AtRest
<1> QED
  BY <1>1, <1>2, <1>3, <1>4, <1>5, <1>6, <1>7, <1>8, <1>9, <1>10, Sides DEF Together
-----------------------------------------------------------------------------
(* While the keys last: one correlation id for each message let through.   *)

KeyFor(id) == IF id[1] \in Anonymous /\ ~Weixin THEN <<"content", id[1]>> ELSE id

Waiting == svc.pc \in {"typing", "route", "wait"}

KeysSeen ==
    /\ Waiting => KeyFor(svc.id) \in seen
    /\ turn # None => KeyFor(turn.id) \in seen
    /\ \A k \in DOMAIN bus : KeyFor(bus[k].id) \in seen

\* The id in hand is not on the bus.
NewId ==
    Entering => /\ turn # None => turn.id # svc.id
                /\ \A k \in DOMAIN bus : bus[k].id # svc.id

IdsInv == lapses = 0 => KeysSeen /\ NewId

LEMMA PushedIds ==
  ASSUME NEW s \in Seq(Event), NEW e \in Event, NEW k \in DOMAIN Append(s, e)
  PROVE  Append(s, e)[k] = e \/ (k \in DOMAIN s /\ Append(s, e)[k] = s[k])
BY AppendProperties

LEMMA PoppedIds ==
  ASSUME NEW s \in Seq(Event), s # <<>>, NEW k \in DOMAIN Tail(s)
  PROVE  k + 1 \in DOMAIN s /\ Tail(s)[k] = s[k + 1]
BY HeadTailProperties

LEMMA IdsNext ==
  ASSUME SvcInv, TasksInv, TasksInv', IdsInv, [IngressNext]_ingressVars
  PROVE  IdsInv'
<1> SUFFICES ASSUME lapses' = 0 PROVE KeysSeen' /\ NewId'
  BY DEF IdsInv
<1> USE DEF TasksInv
<1>0. bus \in Seq(Event) /\ lapses \in Nat
  OBVIOUS
\* The bus and the turn hold nothing that was not there.
<1>a. ASSUME lapses = 0, UNCHANGED <<kind, seen, svc>>,
             turn' = None \/ turn' = turn \/ \E k \in DOMAIN bus : turn'.id = bus[k].id,
             \A k \in DOMAIN bus' : \/ turn # None /\ bus'[k].id = turn.id
                                    \/ \E j \in DOMAIN bus : bus'[k].id = bus[j].id
      PROVE  KeysSeen' /\ NewId'
  <2>1. KeysSeen /\ NewId
    BY <1>a DEF IdsInv
  <2>2. \A id : KeyFor(id)' = KeyFor(id)
    BY <1>a DEF KeyFor, Weixin
  <2>3. KeysSeen'
    BY <1>a, <2>1, <2>2 DEF KeysSeen, Waiting
  <2>4. NewId'
    BY <1>a, <2>1 DEF NewId, Entering
  <2> QED
    BY <2>3, <2>4
<1>1. CASE Apart
  <2>1. Aloof
    BY <1>1, ApartIsAloof
  <2>2. UNCHANGED <<kind, bus, turn>> /\ ~Forgets /\ lapses = 0
    BY <2>1 DEF Aloof, tasks, Forgets, Advances, Admits
  <2>3. KeysSeen /\ NewId /\ \A id : KeyFor(id)' = KeyFor(id)
    BY <2>2 DEF IdsInv, KeyFor, Weixin
  <2>4. Waiting' /\ ~Entering' => Waiting /\ UNCHANGED svc
    BY <2>1 DEF Waiting, Entering, Aloof
  <2>5. CASE Advances
    <3>1. KeysSeen'
      <4>1. Waiting' => Waiting /\ svc'.id = svc.id
        BY <2>4, <2>5 DEF Advances, Waiting, Entering
      <4> QED
        BY <2>2, <2>3, <2>5, <4>1 DEF KeysSeen, Advances
    <3>2. NewId'
      BY <2>2, <2>3, <2>5 DEF NewId, Advances, Entering
    <3> QED
      BY <3>1, <3>2
  <2>6. CASE Admits
    <3>1. KeyFor(svc.id) = Key /\ ~Waiting /\ ~Entering
      <4>1. HoldsOne /\ svc.pc = "dedup"
        BY <2>6 DEF Admits, SvcInv, Held
      <4>2. svc.id[1] = svc.msg
        BY <4>1 DEF HoldsOne
      <4> QED
        BY <4>1, <4>2 DEF KeyFor, Key, Waiting, Entering
    <3>2. Waiting' => svc'.id = svc.id
      BY <2>4, <2>6, <3>1 DEF Admits, Waiting, Entering
    <3>3. KeysSeen'
      BY <2>2, <2>3, <2>6, <3>1, <3>2 DEF KeysSeen, Admits
    <3>4. NewId'
      <4> SUFFICES ASSUME Entering' PROVE /\ turn # None => turn.id # svc.id
                                          /\ \A k \in DOMAIN bus : bus[k].id # svc.id
        BY <2>2, <2>6 DEF NewId, Admits
      <4>1. KeyFor(svc.id) \notin seen
        BY <2>6, <3>1 DEF Admits
      <4> QED
        BY <2>3, <4>1 DEF KeysSeen
    <3> QED
      BY <3>3, <3>4
  <2> QED
    BY <2>1, <2>2, <2>5, <2>6 DEF Aloof
<1>2. CASE Publish
  <2>1. Published
    BY <1>2, PublishIs
  <2>2. lapses = 0 /\ KeysSeen /\ \A id : KeyFor(id)' = KeyFor(id)
    BY <2>1 DEF IdsInv, Published, KeyFor, Weixin
  <2>3. svc.id \in Id /\ svc.msg \in Message
    BY <2>1, HeldId DEF SvcInv, Held, Published
  <2>4. PICK e \in Event : e = [type |-> "ingress", id |-> svc.id, msg |-> svc.msg,
                                asked |-> prompted, ask |-> FALSE]
    BY <2>3 DEF Event
  <2>a. e.id = svc.id
    BY <2>4
  <2>5. bus' = Append(bus, e)
    BY <2>1, <2>4 DEF Published
  <2>6. KeyFor(svc.id) \in seen
    BY <2>1, <2>2 DEF KeysSeen, Waiting, Published
  <2>7. \A k \in DOMAIN bus' : KeyFor(bus'[k].id) \in seen
    BY <1>0, <2>2, <2>5, <2>6, <2>a, PushedIds DEF KeysSeen
  <2>8. KeysSeen'
    BY <2>1, <2>2, <2>6, <2>7 DEF KeysSeen, Published
  <2> QED
    BY <2>1, <2>8 DEF Published, NewId, Entering
<1>3. CASE Receive \/ Timeout \/ LoopStalls
  <2>1. UNCHANGED <<kind, bus, turn, seen, lapses>> /\ svc'.pc = "reply"
    BY <1>3, ReceiveIs, GivesUp DEF GaveUp
  <2>2. \A id : KeyFor(id)' = KeyFor(id)
    BY <2>1 DEF KeyFor, Weixin
  <2> QED
    BY <2>1, <2>2 DEF IdsInv, KeysSeen, NewId, Waiting, Entering
<1>4. CASE ServiceRestarts
  <2>1. svc'.pc = "poll" /\ turn' = None /\ bus' = <<>>
    BY <1>4 DEF ServiceRestarts, Polling
  <2>2. DOMAIN bus' = {}
    BY <2>1
  <2> QED
    BY <2>1, <2>2 DEF KeysSeen, NewId, Waiting, Entering
<1>5. CASE HandleIngress
  <2>1. /\ bus # <<>> /\ Head(bus) \in Event /\ Tail(bus) \in Seq(Event) /\ Head(bus) = bus[1]
        /\ 1 \in DOMAIN bus /\ UNCHANGED <<kind, seen, lapses, svc, turn>>
        /\ bus' = Append(Tail(bus), [Head(bus) EXCEPT !.type = "intent", !.ask = asks])
    BY <1>0, <1>5, BusPops DEF HandleIngress, Head1, history
  <2>2. PICK e \in Event : /\ e = [Head(bus) EXCEPT !.type = "intent", !.ask = asks]
                           /\ e.id = Head(bus).id
    BY <2>1, EventIs
  <2>3. ASSUME NEW k \in DOMAIN bus' PROVE \E j \in DOMAIN bus : bus'[k].id = bus[j].id
    <3>1. bus'[k] = e \/ (k \in DOMAIN Tail(bus) /\ bus'[k] = Tail(bus)[k])
      BY <2>1, <2>2, PushedIds
    <3> QED
      BY <1>0, <2>1, <2>2, <3>1, PoppedIds
  <2> QED
    BY <1>a, <2>1, <2>3
<1>6. CASE IngressRaises \/ HandleCompleted
  <2>1. bus # <<>> /\ UNCHANGED <<kind, seen, lapses, svc, turn>> /\ bus' = Tail(bus)
    BY <1>6 DEF IngressRaises, HandleCompleted, Head1, history
  <2>2. \A k \in DOMAIN bus' : \E j \in DOMAIN bus : bus'[k].id = bus[j].id
    BY <1>0, <2>1, PoppedIds
  <2> QED
    BY <1>a, <2>1, <2>2
<1>7. CASE StartTurn
  <2>1. /\ bus # <<>> /\ Head(bus) = bus[1] /\ 1 \in DOMAIN bus
        /\ UNCHANGED <<kind, seen, lapses, svc>> /\ bus' = Tail(bus) /\ turn' = Head(bus)
    BY <1>0, <1>7, BusPops DEF StartTurn, Head1
  <2>2. \A k \in DOMAIN bus' : \E j \in DOMAIN bus : bus'[k].id = bus[j].id
    BY <1>0, <2>1, PoppedIds
  <2> QED
    BY <1>a, <2>1, <2>2
<1>8. CASE \E reply \in Surfaces \cup {"raised"} : FinishTurn(reply)
  <2>1. PICK reply \in {"text", "ask", "deferred", "empty", "raised"} : FinishTurn(reply)
    BY <1>8, SurfacesAre
  <2>2. UNCHANGED <<kind, seen, lapses, svc>> /\ turn \in Event /\ turn' = None
        /\ (bus' = bus \/ bus' = Append(bus, Completed(reply)))
    BY <2>1 DEF FinishTurn, history
  <2>3. Completed(reply) \in Event /\ Completed(reply).id = turn.id
    BY <2>2, EventIs DEF Completed, Event
  <2>4. ASSUME NEW k \in DOMAIN bus'
        PROVE  bus'[k].id = turn.id \/ \E j \in DOMAIN bus : bus'[k].id = bus[j].id
    <3>1. PICK e \in Event : e = Completed(reply) /\ e.id = turn.id
      BY <2>3
    <3>2. bus' = bus \/ bus' = Append(bus, e)
      BY <2>2, <3>1
    <3>3. k \in DOMAIN bus \/ (bus' = Append(bus, e) /\ k \in DOMAIN Append(bus, e))
      BY <3>2
    <3>4. bus'[k] = e \/ (k \in DOMAIN bus /\ bus'[k] = bus[k])
      BY <1>0, <3>2, <3>3, PushedIds
    <3> QED
      BY <3>1, <3>4
  <2>5. turn # None
    BY <2>1 DEF FinishTurn
  <2> QED
    BY <1>a, <2>2, <2>4, <2>5
<1> QED
  BY <1>1, <1>2, <1>3, <1>4, <1>5, <1>6, <1>7, <1>8, Sides DEF Together
-----------------------------------------------------------------------------
(* The message that waits is the last the bus has taken in.                *)

LastIn(s, id) == \A k \in DOMAIN s : s[k].id = id =>
    /\ s[k].type = "intent" =>
          \A j \in DOMAIN s : s[j].type # "ingress" /\ (j > k => s[j].type = "completed")
    /\ s[k].type = "ingress" => \A j \in DOMAIN s : j > k => s[j].type # "ingress"

LEMMA LastInPush ==
  ASSUME NEW s \in Seq(Event), NEW e \in Event, NEW id
  PROVE  /\ LastIn(s, id) /\ e.type = "completed" => LastIn(Append(s, e), id)
         /\ e.type = "ingress" /\ (\A k \in DOMAIN s : s[k].id # id) => LastIn(Append(s, e), id)
<1>1. /\ DOMAIN Append(s, e) = 1..Len(s) + 1 /\ DOMAIN s = 1..Len(s) /\ Len(s) \in Nat
      /\ \A k \in 1..Len(s) : Append(s, e)[k] = s[k]
      /\ Append(s, e)[Len(s) + 1] = e
  BY AppendProperties
<1>2. ASSUME LastIn(s, id), e.type = "completed" PROVE LastIn(Append(s, e), id)
  <2> SUFFICES ASSUME NEW k \in 1..Len(s) + 1, Append(s, e)[k].id = id
               PROVE  /\ Append(s, e)[k].type = "intent" => \A j \in 1..Len(s) + 1 :
                           /\ Append(s, e)[j].type # "ingress"
                           /\ j > k => Append(s, e)[j].type = "completed"
                      /\ Append(s, e)[k].type = "ingress" => \A j \in 1..Len(s) + 1 :
                           j > k => Append(s, e)[j].type # "ingress"
    BY <1>1 DEF LastIn
  <2>1. CASE k = Len(s) + 1
    BY <1>1, <1>2, <2>1
  <2>2. CASE k # Len(s) + 1
    <3>1. k \in 1..Len(s) /\ Append(s, e)[k] = s[k]
      BY <1>1, <2>2
    <3>2. \A j \in 1..Len(s) + 1 : j \in 1..Len(s) \/ j = Len(s) + 1
      BY <1>1
    <3> QED
      BY <1>1, <1>2, <3>1, <3>2 DEF LastIn
  <2> QED
    BY <2>1, <2>2
<1>3. ASSUME e.type = "ingress", \A k \in DOMAIN s : s[k].id # id PROVE LastIn(Append(s, e), id)
  <2>1. \A k \in 1..Len(s) + 1 : Append(s, e)[k].id = id => k = Len(s) + 1
    BY <1>1, <1>3
  <2>2. \A j \in 1..Len(s) + 1 : ~(j > Len(s) + 1)
    BY <1>1
  <2> QED
    BY <1>1, <1>3, <2>1, <2>2 DEF LastIn
<1> QED
  BY <1>2, <1>3

LEMMA LastInPop ==
  ASSUME NEW s \in Seq(Event), s # <<>>, NEW id, LastIn(s, id)
  PROVE  /\ LastIn(Tail(s), id)
         /\ Head(s).type = "intent" /\ Head(s).id = id => AllDone(Tail(s))
         /\ \A e \in Event : Head(s).type = "ingress" /\ e.type = "intent" /\ e.id = Head(s).id
               => LastIn(Append(Tail(s), e), id)
<1>1. /\ Head(s) = s[1] /\ Len(s) \in Nat \ {0} /\ DOMAIN s = 1..Len(s)
      /\ DOMAIN Tail(s) = 1..Len(s) - 1 /\ Tail(s) \in Seq(Event) /\ Len(Tail(s)) = Len(s) - 1
      /\ \A k \in 1..Len(s) - 1 : Tail(s)[k] = s[k + 1]
  BY HeadTailProperties
<1>2. /\ \A k \in DOMAIN Tail(s) : k + 1 \in DOMAIN s /\ k + 1 > 1 /\ Tail(s)[k] = s[k + 1]
      /\ \A k, j \in DOMAIN Tail(s) : j > k => j + 1 > k + 1
      /\ 1 \in DOMAIN s
  BY <1>1
<1>3. LastIn(Tail(s), id)
  BY <1>2 DEF LastIn
<1>4. Head(s).type = "intent" /\ Head(s).id = id => AllDone(Tail(s))
  BY <1>1, <1>2 DEF LastIn, AllDone
<1>5. ASSUME NEW e \in Event, Head(s).type = "ingress", e.type = "intent", e.id = Head(s).id
      PROVE  LastIn(Append(Tail(s), e), id)
  <2> DEFINE q == Append(Tail(s), e)
  <2>1. /\ DOMAIN q = 1..Len(s) /\ q[Len(s)] = e
        /\ \A k \in 1..Len(s) - 1 : q[k] = Tail(s)[k]
    BY <1>1, AppendProperties
  <2>2. \A k \in DOMAIN q : k = Len(s) \/ k \in DOMAIN Tail(s)
    BY <1>1, <2>1
  <2>3. \A k \in DOMAIN Tail(s) : q[k] = Tail(s)[k]
    BY <1>1, <2>1
  <2>4. \A j \in DOMAIN q : ~(j > Len(s))
    BY <1>1, <2>1
  <2> HIDE DEF q
  <2> SUFFICES ASSUME NEW k \in DOMAIN q, q[k].id = id
               PROVE  /\ q[k].type = "intent" => \A j \in DOMAIN q :
                            q[j].type # "ingress" /\ (j > k => q[j].type = "completed")
                      /\ q[k].type = "ingress" => \A j \in DOMAIN q : j > k => q[j].type # "ingress"
    BY DEF LastIn, q
  <2>5. CASE k = Len(s)
    <3>1. s[1].id = id /\ s[1].type = "ingress" /\ q[k].type = "intent"
      BY <1>1, <1>5, <2>1, <2>5
    <3>2. \A j \in DOMAIN s : j > 1 => s[j].type # "ingress"
      BY <1>2, <3>1 DEF LastIn
    <3>3. \A j \in DOMAIN Tail(s) : q[j].type # "ingress"
      BY <1>2, <2>3, <3>2
    <3> QED
      BY <1>5, <2>1, <2>2, <2>4, <2>5, <3>1, <3>3
  <2>6. CASE k \in DOMAIN Tail(s)
    <3>1. q[k] = s[k + 1] /\ k + 1 \in DOMAIN s
      BY <1>2, <2>3, <2>6
    <3>2. q[k].type # "intent"
      BY <1>1, <1>2, <1>5, <3>1 DEF LastIn
    <3>3. ASSUME q[k].type = "ingress", NEW j \in DOMAIN q, j > k PROVE q[j].type # "ingress"
      <4>1. CASE j = Len(s)
        BY <1>5, <2>1, <4>1
      <4>2. CASE j \in DOMAIN Tail(s)
        <5>1. q[j] = s[j + 1] /\ j + 1 \in DOMAIN s /\ j + 1 > k + 1
          BY <1>2, <2>3, <2>6, <3>3, <4>2
        <5> QED
          BY <3>1, <3>3, <5>1 DEF LastIn
      <4> QED
        BY <2>2, <4>1, <4>2
    <3> QED
      BY <3>2, <3>3
  <2> QED
    BY <2>2, <2>5, <2>6
<1> QED
  BY <1>3, <1>4, <1>5

OrderInv ==
    lapses = 0 /\ channel # None /\ ~Answered =>
        /\ LastIn(bus, channel.id)
        /\ turn # None /\ turn.id = channel.id => AllDone(bus)

LEMMA OrderNext ==
  ASSUME IngressAssumption, SvcInv, TasksInv, TasksInv', IdsInv, OrderInv,
         [IngressNext]_ingressVars
  PROVE  OrderInv'
<1> SUFFICES ASSUME lapses' = 0, channel' # None, ~Answered'
             PROVE  /\ LastIn(bus', channel'.id)
                    /\ turn' # None /\ turn'.id = channel'.id => AllDone(bus')
  BY DEF OrderInv
<1> USE DEF TasksInv
<1>0. bus \in Seq(Event) /\ lapses \in Nat
  OBVIOUS
\* A step that leaves the channel as it is.
<1>a. ASSUME UNCHANGED <<channel, lapses>>
      PROVE  /\ channel # None /\ ~Answered /\ LastIn(bus, channel.id) /\ channel'.id = channel.id
             /\ turn # None /\ turn.id = channel.id => AllDone(bus)
  BY <1>a DEF OrderInv, Answered
<1>1. CASE Apart
  <2>1. UNCHANGED <<bus, turn, channel>> /\ lapses = 0
    BY <1>1, ApartIsAloof DEF Aloof, tasks, Forgets, Advances, Admits
  <2> QED
    BY <1>a, <2>1
<1>2. CASE Publish
  <2>1. Published
    BY <1>2, PublishIs
  <2>2. lapses = 0 /\ NewId /\ Entering
    BY <2>1 DEF IdsInv, Published, Entering
  <2>3. svc.id \in Id /\ svc.msg \in Message
    BY <2>1, HeldId DEF SvcInv, Held, Published
  <2>4. PICK e \in Event : e = [type |-> "ingress", id |-> svc.id, msg |-> svc.msg,
                                asked |-> prompted, ask |-> FALSE]
    BY <2>3 DEF Event
  <2>5. e.type = "ingress" /\ bus' = Append(bus, e)
    BY <2>1, <2>4 DEF Published
  <2>6. channel'.id = svc.id
    BY <2>1 DEF Published
  <2>7. LastIn(bus', svc.id)
    BY <1>0, <2>2, <2>5, LastInPush DEF NewId
  <2> QED
    BY <2>1, <2>2, <2>6, <2>7 DEF Published, NewId
<1>3. CASE Receive \/ Timeout \/ LoopStalls
  BY <1>3, ReceiveIs, GivesUp DEF GaveUp
<1>4. CASE ServiceRestarts
  BY <1>4 DEF ServiceRestarts
<1>5. CASE HandleIngress
  <2>1. /\ bus # <<>> /\ Head(bus) \in Event /\ Head(bus).type = "ingress" /\ turn = None
        /\ UNCHANGED <<turn, channel, lapses>>
        /\ bus' = Append(Tail(bus), [Head(bus) EXCEPT !.type = "intent", !.ask = asks])
    BY <1>0, <1>5, BusPops DEF HandleIngress, Head1, history
  <2>2. PICK e \in Event : /\ e = [Head(bus) EXCEPT !.type = "intent", !.ask = asks]
                           /\ e.type = "intent" /\ e.id = Head(bus).id
    BY <2>1, EventIs
  <2>3. LastIn(bus, channel.id) /\ channel'.id = channel.id
    BY <1>a, <2>1
  <2>4. LastIn(Append(Tail(bus), e), channel.id)
    BY <1>0, <2>1, <2>2, <2>3, LastInPop
  <2> QED
    BY <2>1, <2>2, <2>3, <2>4
<1>6. CASE IngressRaises \/ HandleCompleted
  <2>1. bus # <<>> /\ UNCHANGED <<turn, channel, lapses>> /\ bus' = Tail(bus) /\ turn = None
    BY <1>6 DEF IngressRaises, HandleCompleted, Head1, history
  <2>2. LastIn(bus, channel.id) /\ channel'.id = channel.id
    BY <1>a, <2>1
  <2>3. LastIn(bus', channel.id)
    BY <1>0, <2>1, <2>2, LastInPop
  <2> QED
    BY <2>1, <2>2, <2>3
<1>7. CASE StartTurn
  <2>1. /\ bus # <<>> /\ Head(bus).type = "intent" /\ UNCHANGED <<channel, lapses>>
        /\ bus' = Tail(bus) /\ turn' = Head(bus)
    BY <1>0, <1>7, BusPops DEF StartTurn, Head1
  <2>2. LastIn(bus, channel.id) /\ channel'.id = channel.id
    BY <1>a, <2>1
  <2>3. /\ LastIn(bus', channel.id)
        /\ Head(bus).type = "intent" /\ Head(bus).id = channel.id => AllDone(bus')
    BY <1>0, <2>1, <2>2, LastInPop
  <2> QED
    BY <2>1, <2>2, <2>3
<1>8. CASE \E reply \in Surfaces \cup {"raised"} : FinishTurn(reply)
  <2>1. PICK reply \in {"text", "ask", "deferred", "empty", "raised"} : FinishTurn(reply)
    BY <1>8, SurfacesAre
  <2>2. PICK told \in {"text", "ask", "deferred", "empty"} :
           told = IF reply = "raised" THEN "empty" ELSE reply
    OBVIOUS
  <2>3. /\ turn \in Event /\ turn' = None /\ UNCHANGED lapses /\ channel' = Answers(told)
        /\ (bus' = bus \/ bus' = Append(bus, Completed(reply)))
    BY <2>1, <2>2 DEF FinishTurn, history
  <2>4. UNCHANGED channel
    <3>1. CASE channel # None /\ channel.id = turn.id
      <4>1. channel \in Channel /\ channel' = [channel EXCEPT !.reply = told]
        BY <2>3, <3>1 DEF Answers
      <4>2. channel'.reply = told
        BY <4>1 DEF Channel
      <4> QED
        BY <4>2 DEF Answered
    <3> QED
      BY <2>3, <3>1 DEF Answers
  <2>5. LastIn(bus, channel.id) /\ channel'.id = channel.id
    BY <1>a, <2>3, <2>4
  <2>6. Completed(reply) \in Event /\ Completed(reply).type = "completed"
    BY <2>3, EventIs DEF Completed, Event
  <2>7. LastIn(Append(bus, Completed(reply)), channel.id)
    <3>1. PICK e \in Event : e = Completed(reply) /\ e.type = "completed"
      BY <2>6
    <3>2. LastIn(Append(bus, e), channel.id)
      BY <1>0, <2>5, <3>1, LastInPush
    <3> QED
      BY <3>1, <3>2
  <2> QED
    BY <2>3, <2>5, <2>7
<1> QED
  BY <1>1, <1>2, <1>3, <1>4, <1>5, <1>6, <1>7, <1>8, Sides DEF Together
\* Once the channel has its answer, nothing of its message is left to run.
Over(s, id) == \A k \in DOMAIN s : s[k].id = id => s[k].type = "completed"

LEMMA OverMoves ==
  ASSUME NEW s \in Seq(Event), NEW id, Over(s, id)
  PROVE  /\ s # <<>> => Over(Tail(s), id) /\ (Head(s).id = id => Head(s).type = "completed")
         /\ \A e \in Event : e.id # id \/ e.type = "completed" => Over(Append(s, e), id)
<1>1. s # <<>> => Over(Tail(s), id) /\ (Head(s).id = id => Head(s).type = "completed")
  <2> SUFFICES ASSUME s # <<>>
               PROVE  Over(Tail(s), id) /\ (Head(s).id = id => Head(s).type = "completed")
    OBVIOUS
  <2>1. Over(Tail(s), id)
    BY PoppedIds DEF Over
  <2>2. Head(s) = s[1] /\ 1 \in DOMAIN s
    BY HeadTailProperties
  <2> QED
    BY <2>1, <2>2 DEF Over
<1>2. ASSUME NEW e \in Event, e.id # id \/ e.type = "completed" PROVE Over(Append(s, e), id)
  BY <1>2, PushedIds DEF Over
<1> QED
  BY <1>1, <1>2

OverInv ==
    lapses = 0 /\ Answered => Over(bus, channel.id) /\ (turn # None => turn.id # channel.id)

LEMMA OverNext ==
  ASSUME SvcInv, TasksInv, OrderInv, OverInv, [IngressNext]_ingressVars
  PROVE  OverInv'
<1> SUFFICES ASSUME lapses' = 0, Answered'
             PROVE  Over(bus', channel'.id) /\ (turn' # None => turn'.id # channel'.id)
  BY DEF OverInv
<1> USE DEF TasksInv
<1>0. bus \in Seq(Event) /\ lapses \in Nat
  OBVIOUS
<1>a. ASSUME UNCHANGED <<channel, lapses>>
      PROVE  /\ Answered /\ Over(bus, channel.id) /\ channel'.id = channel.id
             /\ turn # None => turn.id # channel.id
  BY <1>a DEF OverInv, Answered
<1>1. CASE Apart
  <2>1. UNCHANGED <<bus, turn, channel>> /\ lapses = 0
    BY <1>1, ApartIsAloof DEF Aloof, tasks, Forgets, Advances, Admits
  <2> QED
    BY <1>a, <2>1
<1>2. CASE Publish
  <2>1. channel' = [id |-> svc.id, reply |-> "none"]
    BY <1>2 DEF Publish
  <2>2. channel'.reply = "none"
    BY <2>1
  <2> QED
    BY <2>2 DEF Answered
<1>3. CASE Receive \/ Timeout \/ LoopStalls
  BY <1>3, ReceiveIs, GivesUp DEF GaveUp, Answered
<1>4. CASE ServiceRestarts
  BY <1>4 DEF ServiceRestarts, Answered
<1>5. CASE HandleIngress
  <2>1. /\ bus # <<>> /\ Head(bus) \in Event /\ Tail(bus) \in Seq(Event)
        /\ Head(bus).type = "ingress" /\ turn = None /\ UNCHANGED <<turn, channel, lapses>>
        /\ bus' = Append(Tail(bus), [Head(bus) EXCEPT !.type = "intent", !.ask = asks])
    BY <1>0, <1>5, BusPops DEF HandleIngress, Head1, history
  <2>2. PICK e \in Event : /\ e = [Head(bus) EXCEPT !.type = "intent", !.ask = asks]
                           /\ e.id = Head(bus).id
    BY <2>1, EventIs
  <2>3. Over(bus, channel.id) /\ channel'.id = channel.id
    BY <1>a, <2>1
  <2>4. Over(Tail(bus), channel.id) /\ e.id # channel.id
    BY <1>0, <2>1, <2>2, <2>3, OverMoves
  <2>5. Over(Append(Tail(bus), e), channel.id)
    BY <2>1, <2>4, OverMoves
  <2> QED
    BY <2>1, <2>2, <2>3, <2>5
<1>6. CASE IngressRaises \/ HandleCompleted
  <2>1. bus # <<>> /\ UNCHANGED <<turn, channel, lapses>> /\ bus' = Tail(bus)
    BY <1>6 DEF IngressRaises, HandleCompleted, Head1, history
  <2> QED
    BY <1>0, <1>a, <2>1, OverMoves
<1>7. CASE StartTurn
  <2>1. /\ bus # <<>> /\ Head(bus).type = "intent" /\ UNCHANGED <<channel, lapses>>
        /\ bus' = Tail(bus) /\ turn' = Head(bus)
    BY <1>0, <1>7, BusPops DEF StartTurn, Head1
  <2> QED
    BY <1>0, <1>a, <2>1, OverMoves
<1>8. CASE \E reply \in Surfaces \cup {"raised"} : FinishTurn(reply)
  <2>1. PICK reply \in {"text", "ask", "deferred", "empty", "raised"} : FinishTurn(reply)
    BY <1>8, SurfacesAre
  <2>2. PICK told \in {"text", "ask", "deferred", "empty"} :
           told = IF reply = "raised" THEN "empty" ELSE reply
    OBVIOUS
  <2>3. /\ turn \in Event /\ turn # None /\ turn' = None /\ lapses = 0 /\ channel' = Answers(told)
        /\ (bus' = bus \/ bus' = Append(bus, Completed(reply)))
    BY <2>1, <2>2 DEF FinishTurn, history
  <2>4. Over(bus, channel.id) /\ channel'.id = channel.id
    <3>1. CASE channel # None /\ channel.id = turn.id
      <4>1. channel \in Channel /\ channel' = [channel EXCEPT !.reply = told]
        BY <2>3, <3>1 DEF Answers
      <4>2. channel'.id = channel.id
        BY <4>1 DEF Channel
      <4>3. ~Answered
        BY <2>3, <3>1 DEF OverInv
      <4>4. AllDone(bus)
        BY <2>3, <3>1, <4>3 DEF OrderInv
      <4> QED
        BY <4>2, <4>4 DEF AllDone, Over
    <3>2. CASE ~(channel # None /\ channel.id = turn.id)
      <4>1. UNCHANGED <<channel, lapses>>
        BY <2>3, <3>2 DEF Answers
      <4> QED
        BY <1>a, <4>1
    <3> QED
      BY <3>1, <3>2
  <2>5. Completed(reply) \in Event /\ Completed(reply).type = "completed"
    BY <2>3, EventIs DEF Completed, Event
  <2>6. Over(Append(bus, Completed(reply)), channel.id)
    <3>1. PICK e \in Event : e = Completed(reply) /\ e.type = "completed"
      BY <2>5
    <3>2. Over(Append(bus, e), channel.id)
      BY <1>0, <2>4, <3>1, OverMoves
    <3> QED
      BY <3>1, <3>2
  <2> QED
    BY <2>3, <2>4, <2>6
<1> QED
  BY <1>1, <1>2, <1>3, <1>4, <1>5, <1>6, <1>7, <1>8, Sides DEF Together

-----------------------------------------------------------------------------
(* The question and the message that follows it.                           *)

\* What IntentAgent will know when it comes to the k-th event.
Told(s, a, k) == IF k = 1 THEN a ELSE s[k - 1].ask

\* An event that follows a question.
Follows(e) == e.type = "ingress" /\ e.asked

NoneFollows(s) == \A k \in DOMAIN s : ~Follows(s[k])

\* The one that does is the last, behind completions, the last of which tells.
FollowsLast(s, a, id) == \A k \in DOMAIN s : Follows(s[k]) =>
    /\ s[k].id = id /\ k = Len(s) /\ Told(s, a, k)
    /\ \A j \in DOMAIN s : j # k => s[j].type = "completed"

Remembers(s) == \A k \in DOMAIN s : s[k].type = "intent" /\ s[k].asked => s[k].ask

LEMMA FollowPush ==
  ASSUME NEW s \in Seq(Event), NEW e \in Event, NEW a
  PROVE  /\ NoneFollows(s) /\ ~Follows(e) => NoneFollows(Append(s, e))
         /\ AllDone(s) /\ Told(s, a, Len(s) + 1) => FollowsLast(Append(s, e), a, e.id)
         /\ Remembers(s) /\ (e.type = "intent" /\ e.asked => e.ask) => Remembers(Append(s, e))
         /\ e.ask => Told(Append(s, e), a, Len(Append(s, e)) + 1)
<1>1. /\ DOMAIN Append(s, e) = 1..Len(s) + 1 /\ DOMAIN s = 1..Len(s) /\ Len(s) \in Nat
      /\ \A k \in 1..Len(s) : Append(s, e)[k] = s[k]
      /\ Append(s, e)[Len(s) + 1] = e /\ Len(Append(s, e)) = Len(s) + 1
  BY AppendProperties
<1>2. \A k \in DOMAIN Append(s, e) : k = Len(s) + 1 \/ k \in DOMAIN s
  BY <1>1
<1>3. NoneFollows(s) /\ ~Follows(e) => NoneFollows(Append(s, e))
  BY <1>1, <1>2 DEF NoneFollows
<1>4. Remembers(s) /\ (e.type = "intent" /\ e.asked => e.ask) => Remembers(Append(s, e))
  BY <1>1, <1>2 DEF Remembers
<1>5. e.ask => Told(Append(s, e), a, Len(Append(s, e)) + 1)
  BY <1>1 DEF Told
<1>6. ASSUME AllDone(s), Told(s, a, Len(s) + 1) PROVE FollowsLast(Append(s, e), a, e.id)
  <2>1. \A k \in DOMAIN Append(s, e) : k # Len(s) + 1 => Append(s, e)[k].type = "completed"
    BY <1>1, <1>2, <1>6 DEF AllDone
  <2>2. Told(Append(s, e), a, Len(s) + 1)
    <3>1. CASE Len(s) = 0
      BY <1>1, <1>6, <3>1 DEF Told
    <3>2. CASE Len(s) # 0
      <4>1. Len(s) \in 1..Len(s) /\ Len(s) + 1 # 1 /\ (Len(s) + 1) - 1 = Len(s)
        BY <1>1, <3>2
      <4> QED
        BY <1>1, <1>6, <4>1 DEF Told
    <3> QED
      BY <3>1, <3>2
  <2>3. \A k \in DOMAIN Append(s, e) : Follows(Append(s, e)[k]) => k = Len(s) + 1
    BY <2>1 DEF Follows
  <2> QED
    BY <1>1, <2>1, <2>2, <2>3 DEF FollowsLast
<1> QED
  BY <1>3, <1>4, <1>5, <1>6

LEMMA FollowPop ==
  ASSUME NEW s \in Seq(Event), s # <<>>, NEW a, NEW id
  PROVE  /\ NoneFollows(s) => NoneFollows(Tail(s)) /\ ~Follows(Head(s))
         /\ Remembers(s) => /\ Remembers(Tail(s))
                            /\ Head(s).type = "intent" /\ Head(s).asked => Head(s).ask
         /\ Told(s, a, Len(s) + 1) => Told(Tail(s), Head(s).ask, Len(Tail(s)) + 1)
         /\ FollowsLast(s, a, id) =>
               /\ Head(s).type = "completed" => FollowsLast(Tail(s), Head(s).ask, id)
               /\ Head(s).type # "completed" => NoneFollows(Tail(s))
               /\ Follows(Head(s)) => a
<1>1. /\ Head(s) = s[1] /\ Len(s) \in Nat \ {0} /\ DOMAIN s = 1..Len(s)
      /\ DOMAIN Tail(s) = 1..Len(s) - 1 /\ Tail(s) \in Seq(Event) /\ Len(Tail(s)) = Len(s) - 1
      /\ \A k \in 1..Len(s) - 1 : Tail(s)[k] = s[k + 1]
  BY HeadTailProperties
<1>2. /\ \A k \in DOMAIN Tail(s) : k + 1 \in DOMAIN s /\ k + 1 # 1 /\ Tail(s)[k] = s[k + 1]
      /\ \A k, j \in DOMAIN Tail(s) : j # k => j + 1 # k + 1
      /\ 1 \in DOMAIN s
  BY <1>1
<1>3. NoneFollows(s) => NoneFollows(Tail(s)) /\ ~Follows(Head(s))
  BY <1>1, <1>2 DEF NoneFollows
<1>4. Remembers(s) => /\ Remembers(Tail(s))
                      /\ Head(s).type = "intent" /\ Head(s).asked => Head(s).ask
  BY <1>1, <1>2 DEF Remembers
<1>5. \A k \in 1..Len(s) : Told(s, a, k + 1) => Told(Tail(s), Head(s).ask, k)
  BY <1>1 DEF Told
<1>6. Told(s, a, Len(s) + 1) => Told(Tail(s), Head(s).ask, Len(Tail(s)) + 1)
  BY <1>1, <1>5
<1>7. ASSUME FollowsLast(s, a, id), Head(s).type = "completed"
      PROVE  FollowsLast(Tail(s), Head(s).ask, id)
  <2> SUFFICES ASSUME NEW k \in DOMAIN Tail(s), Follows(Tail(s)[k])
               PROVE  /\ Tail(s)[k].id = id /\ k = Len(Tail(s)) /\ Told(Tail(s), Head(s).ask, k)
                      /\ \A j \in DOMAIN Tail(s) : j # k => Tail(s)[j].type = "completed"
    BY DEF FollowsLast
  <2>1. /\ s[k + 1].id = id /\ k + 1 = Len(s) /\ Told(s, a, k + 1)
        /\ \A j \in DOMAIN s : j # k + 1 => s[j].type = "completed"
    BY <1>2, <1>7 DEF FollowsLast
  <2>2. k \in 1..Len(s) /\ k = Len(s) - 1
    BY <1>1, <2>1
  <2> QED
    BY <1>1, <1>2, <1>5, <2>1, <2>2
<1>8. ASSUME FollowsLast(s, a, id), Head(s).type # "completed" PROVE NoneFollows(Tail(s))
  BY <1>1, <1>2, <1>8 DEF FollowsLast, NoneFollows
<1>9. ASSUME FollowsLast(s, a, id), Follows(Head(s)) PROVE a
  BY <1>1, <1>2, <1>9 DEF FollowsLast, Told
<1> QED
  BY <1>3, <1>4, <1>6, <1>7, <1>8, <1>9

\* The last answer was a question, or the answer that waits to be taken is one.
Asking == prompted \/ (Answered /\ channel.reply = "ask")

AskBody ==
    /\ Asking => turn = None /\ AllDone(bus) /\ Told(bus, asks, Len(bus) + 1)
    /\ \/ NoneFollows(bus)
       \/ /\ turn = None /\ channel # None /\ ~Answered /\ ~prompted
          /\ FollowsLast(bus, asks, channel.id)
    /\ turn # None /\ turn.asked => turn.ask
    /\ Remembers(bus)

AskInv == lapses = 0 => AskBody

\* A step of the bus that has something to do: nobody has just been asked.
LEMMA BusyAsksNone ==
  ASSUME bus \in Seq(Event), bus # <<>>, Head(bus).type # "completed", AskBody
  PROVE  /\ ~Asking /\ NoneFollows(Tail(bus)) /\ Remembers(Tail(bus))
         /\ Follows(Head(bus)) => asks
         /\ Head(bus).type = "intent" /\ Head(bus).asked => Head(bus).ask
<1>1. ~AllDone(bus)
  BY OpenPop
<1> QED
  BY <1>1, FollowPop DEF AskBody

LEMMA AskNext ==
  ASSUME IngressAssumption, SvcInv, TasksInv, TasksInv', OrderInv, OverInv, AskInv,
         [IngressNext]_ingressVars
  PROVE  AskInv'
<1> SUFFICES ASSUME lapses' = 0 PROVE AskBody'
  BY DEF AskInv
<1> USE DEF TasksInv
<1>0. bus \in Seq(Event) /\ lapses \in Nat /\ asks \in BOOLEAN
  OBVIOUS
<1>a. lapses = 0 => AskBody
  BY DEF AskInv
<1>1. CASE Apart
  <2>1. UNCHANGED <<bus, turn, channel, asks, prompted>> /\ lapses = 0
    BY <1>1, ApartIsAloof DEF Aloof, tasks, Forgets, Advances, Admits
  <2> QED
    BY <1>a, <2>1 DEF AskBody, Asking, Answered
<1>2. CASE Publish
  <2>1. Published /\ channel = None
    BY <1>2, PublishIs DEF Published
  <2>2. AskBody /\ NoneFollows(bus) /\ Remembers(bus)
    BY <1>a, <2>1 DEF Published, AskBody
  <2>3. svc.id \in Id /\ svc.msg \in Message
    BY <2>1, HeldId DEF SvcInv, Held, Published
  <2>4. PICK e \in Event : e = [type |-> "ingress", id |-> svc.id, msg |-> svc.msg,
                                asked |-> prompted, ask |-> FALSE]
    BY <2>3 DEF Event
  <2>5. e.type = "ingress" /\ e.id = svc.id /\ e.asked = prompted
    BY <2>4
  <2>6. bus' = Append(bus, e) /\ ~prompted' /\ UNCHANGED <<turn, asks>>
    BY <2>1, <2>4 DEF Published
  <2>7. channel' # None /\ channel'.id = svc.id /\ channel'.reply = "none" /\ ~Answered'
    <3>1. [id |-> svc.id, reply |-> "none"] \in Channel
      BY <2>3 DEF Channel, Replies
    <3> QED
      BY <2>1, <3>1 DEF Published, IngressAssumption, Answered
  <2>8. Remembers(bus')
    BY <1>0, <2>2, <2>5, <2>6, FollowPush
  <2>9. NoneFollows(bus') \/ (turn = None /\ FollowsLast(bus', asks, svc.id))
    <3>1. CASE prompted
      <4>1. turn = None /\ AllDone(bus) /\ Told(bus, asks, Len(bus) + 1)
        BY <2>2, <3>1 DEF AskBody, Asking
      <4> QED
        BY <1>0, <2>5, <2>6, <4>1, FollowPush
    <3>2. CASE ~prompted
      <4>1. ~Follows(e)
        BY <2>5, <3>2 DEF Follows
      <4> QED
        BY <1>0, <2>2, <2>6, <4>1, FollowPush
    <3> QED
      BY <3>1, <3>2
  <2>10. turn' # None /\ turn'.asked => turn'.ask
    BY <2>2, <2>6 DEF AskBody
  <2>11. ~Asking'
    BY <2>6, <2>7 DEF Asking
  <2> QED
    BY <2>6, <2>7, <2>8, <2>9, <2>10, <2>11 DEF AskBody
<1>3. CASE Receive
  <2>1. /\ channel # None /\ channel.reply # "none" /\ channel' = None
        /\ prompted' = (channel.reply = "ask") /\ UNCHANGED <<bus, turn, asks, lapses>>
    BY <1>3, ReceiveIs
  <2>2. AskBody /\ NoneFollows(bus)
    BY <1>a, <2>1 DEF AskBody, Answered
  <2>3. Asking' => Asking
    BY <2>1 DEF Asking, Answered
  <2> QED
    BY <2>1, <2>2, <2>3 DEF AskBody
<1>4. CASE Timeout \/ LoopStalls
  <2>1. GaveUp /\ (Silent \/ Works(svc.id)) /\ channel.id = svc.id
    BY <1>4, GivesUp DEF LoopStalls, GaveUp
  <2>2. channel' = None /\ UNCHANGED <<bus, turn, asks, prompted, lapses>> /\ AskBody
    BY <1>a, <2>1 DEF GaveUp
  <2>3. NoneFollows(bus)
    <3> SUFFICES ASSUME ~NoneFollows(bus) PROVE FALSE
      OBVIOUS
    <3>1. turn = None /\ FollowsLast(bus, asks, channel.id)
      BY <2>2 DEF AskBody
    <3>2. PICK k \in DOMAIN bus : Follows(bus[k])
      BY DEF NoneFollows
    <3>3. bus[k].id = svc.id /\ bus[k].type # "completed"
      BY <2>1, <3>1, <3>2 DEF FollowsLast, Follows
    <3>4. Queued(svc.id)
      BY <3>3 DEF Queued
    <3> QED
      BY <2>1, <3>1, <3>4 DEF Silent, Works
  <2>4. Asking' => Asking
    BY <2>2 DEF Asking, Answered
  <2> QED
    BY <2>2, <2>3, <2>4 DEF AskBody
<1>5. CASE ServiceRestarts
  <2>1. bus' = <<>> /\ turn' = None /\ channel' = None /\ ~prompted'
    BY <1>5 DEF ServiceRestarts
  <2>2. DOMAIN bus' = {}
    BY <2>1
  <2>3. ~Asking'
    BY <2>1 DEF Asking, Answered
  <2> QED
    BY <2>1, <2>2, <2>3 DEF AskBody, NoneFollows, Remembers
<1>6. CASE HandleIngress
  <2>1. /\ bus # <<>> /\ Head(bus) \in Event /\ Tail(bus) \in Seq(Event)
        /\ Head(bus).type = "ingress" /\ turn = None /\ AskBody
        /\ UNCHANGED <<turn, channel, prompted, lapses>>
        /\ bus' = Append(Tail(bus), [Head(bus) EXCEPT !.type = "intent", !.ask = asks])
    BY <1>0, <1>6, <1>a, BusPops DEF HandleIngress, Head1, history
  <2>2. PICK e \in Event : /\ e = [Head(bus) EXCEPT !.type = "intent", !.ask = asks]
                           /\ e.type = "intent" /\ e.asked = Head(bus).asked /\ e.ask = asks
    <3>1. PICK h \in Event : h = Head(bus)
      BY <2>1
    <3>2. PICK b \in BOOLEAN : b = asks
      BY <1>0
    <3>3. /\ [h EXCEPT !.type = "intent", !.ask = b] \in Event
          /\ [h EXCEPT !.type = "intent", !.ask = b].type = "intent"
          /\ [h EXCEPT !.type = "intent", !.ask = b].asked = h.asked
          /\ [h EXCEPT !.type = "intent", !.ask = b].ask = b
      BY DEF Event
    <3> QED
      BY <3>1, <3>2, <3>3, Zenon
  <2>3. /\ ~Asking /\ NoneFollows(Tail(bus)) /\ Remembers(Tail(bus))
        /\ Follows(Head(bus)) => asks
    BY <1>0, <2>1, BusyAsksNone
  <2>4. ~Follows(e) /\ (e.type = "intent" /\ e.asked => e.ask)
    BY <2>1, <2>2, <2>3 DEF Follows
  <2>5. NoneFollows(Append(Tail(bus), e)) /\ Remembers(Append(Tail(bus), e))
    BY <2>1, <2>3, <2>4, FollowPush
  <2>6. ~Asking'
    BY <2>1, <2>3 DEF Asking, Answered
  <2> QED
    BY <2>1, <2>2, <2>5, <2>6 DEF AskBody
<1>7. CASE IngressRaises
  <2>1. /\ bus # <<>> /\ Head(bus).type = "ingress" /\ turn = None /\ AskBody
        /\ UNCHANGED <<turn, channel, prompted, lapses, asks>> /\ bus' = Tail(bus)
    BY <1>7, <1>a DEF IngressRaises, Head1, history
  <2>2. ~Asking /\ NoneFollows(Tail(bus)) /\ Remembers(Tail(bus))
    BY <1>0, <2>1, BusyAsksNone
  <2>3. ~Asking'
    BY <2>1, <2>2 DEF Asking, Answered
  <2> QED
    BY <2>1, <2>2, <2>3 DEF AskBody
<1>8. CASE HandleCompleted
  <2>1. /\ bus # <<>> /\ Head(bus).type = "completed" /\ turn = None /\ AskBody
        /\ UNCHANGED <<turn, channel, prompted, lapses>> /\ bus' = Tail(bus)
        /\ asks' = Head(bus).ask
    BY <1>8, <1>a DEF HandleCompleted, Head1, history
  <2>2. Asking' => Asking
    BY <2>1 DEF Asking, Answered
  <2>3. Asking => AllDone(bus') /\ Told(bus', asks', Len(bus') + 1)
    <3>1. ASSUME Asking PROVE AllDone(bus) /\ Told(bus, asks, Len(bus) + 1)
      BY <2>1, <3>1 DEF AskBody
    <3>2. AllDone(bus) => AllDone(Tail(bus))
      BY <1>0, <2>1, OpenPop
    <3>3. Told(bus, asks, Len(bus) + 1) => Told(Tail(bus), Head(bus).ask, Len(Tail(bus)) + 1)
      BY <1>0, <2>1, FollowPop
    <3> QED
      BY <2>1, <3>1, <3>2, <3>3
  <2>4. /\ NoneFollows(bus) => NoneFollows(bus')
        /\ FollowsLast(bus, asks, channel.id) => FollowsLast(bus', asks', channel.id)
        /\ Remembers(bus) => Remembers(bus')
    BY <1>0, <2>1, FollowPop
  <2> QED
    BY <2>1, <2>2, <2>3, <2>4 DEF AskBody, Answered
<1>9. CASE StartTurn
  <2>1. /\ bus # <<>> /\ Head(bus).type = "intent" /\ turn = None /\ AskBody
        /\ UNCHANGED <<channel, prompted, lapses, asks>> /\ bus' = Tail(bus) /\ turn' = Head(bus)
    BY <1>9, <1>a DEF StartTurn, Head1
  <2>2. /\ ~Asking /\ NoneFollows(Tail(bus)) /\ Remembers(Tail(bus))
        /\ Head(bus).type = "intent" /\ Head(bus).asked => Head(bus).ask
    BY <1>0, <2>1, BusyAsksNone
  <2>3. ~Asking'
    BY <2>1, <2>2 DEF Asking, Answered
  <2> QED
    BY <2>1, <2>2, <2>3 DEF AskBody
<1>10. CASE \E reply \in Surfaces \cup {"raised"} : FinishTurn(reply)
  <2>1. PICK reply \in {"text", "ask", "deferred", "empty", "raised"} : FinishTurn(reply)
    BY <1>10, SurfacesAre
  <2>2. PICK told \in {"text", "ask", "deferred", "empty"} :
           told = IF reply = "raised" THEN "empty" ELSE reply
    OBVIOUS
  <2>3. /\ turn \in Event /\ turn # None /\ turn' = None /\ channel' = Answers(told)
        /\ UNCHANGED <<lapses, prompted, asks>>
        /\ bus' = IF reply = "raised" THEN bus ELSE Append(bus, Completed(reply))
    BY <2>1, <2>2 DEF FinishTurn, history
  <2>4. AskBody /\ ~Asking /\ NoneFollows(bus) /\ Remembers(bus)
    BY <1>a, <2>3 DEF AskBody
  <2>5. Completed(reply) \in Event /\ Completed(reply).type = "completed"
        /\ Completed(reply).ask = (reply = "ask")
    BY <2>3, EventIs DEF Completed, Event
  <2>6. PICK e \in Event : e = Completed(reply)
    BY <2>5
  <2>7. e.type = "completed" /\ (reply = "ask" => e.ask) /\ ~Follows(e)
    BY <2>5, <2>6 DEF Follows
  <2>8. bus' = bus \/ bus' = Append(bus, e)
    BY <2>3, <2>6
  <2>9. NoneFollows(bus') /\ Remembers(bus')
    <3>1. NoneFollows(Append(bus, e)) /\ Remembers(Append(bus, e))
      BY <1>0, <2>4, <2>7, FollowPush
    <3> QED
      BY <2>4, <2>8, <3>1, Zenon
  <2>10. Asking' => AllDone(bus') /\ Told(bus', asks', Len(bus') + 1)
    <3> SUFFICES ASSUME Asking' PROVE AllDone(bus') /\ Told(bus', asks', Len(bus') + 1)
      OBVIOUS
    <3>1. channel # None /\ channel.id = turn.id
      BY <2>3, <2>4 DEF Asking, Answered, Answers
    <3>2. channel \in Channel /\ channel' = [channel EXCEPT !.reply = told]
      BY <2>3, <3>1 DEF Answers
    <3>3. channel'.reply = told
      BY <3>2 DEF Channel
    <3>4. told = "ask"
      BY <2>3, <2>4, <3>3 DEF Asking
    <3>5. reply = "ask" /\ bus' = Append(bus, e)
      BY <2>2, <2>3, <2>6, <3>4
    <3>6. ~Answered /\ lapses = 0
      BY <2>3, <3>1 DEF OverInv
    <3>7. AllDone(bus)
      BY <2>3, <3>1, <3>6 DEF OrderInv
    <3>8. AllDone(Append(bus, e))
      BY <1>0, <2>7, <3>7, OpenPush
    <3>9. Told(Append(bus, e), asks, Len(Append(bus, e)) + 1)
      BY <1>0, <2>7, <3>5, FollowPush
    <3> QED
      BY <2>3, <3>5, <3>8, <3>9
  <2> QED
    BY <2>3, <2>9, <2>10 DEF AskBody
<1> QED
  BY <1>1, <1>2, <1>3, <1>4, <1>5, <1>6, <1>7, <1>8, <1>9, <1>10, Sides DEF Together

-----------------------------------------------------------------------------
(* The invariant of the service, and what it says.                         *)

OutcomeInv == outcome \in [Message -> {"none"} \cup Settled]

LEMMA OutcomeNext == ASSUME SvcInv, OutcomeInv, [IngressNext]_ingressVars PROVE OutcomeInv'
<1>a. ASSUME NEW m \in Message, NEW o \in Settled, Settle(m, o) PROVE OutcomeInv'
  BY <1>a DEF Settle, OutcomeInv
<1>b. UNCHANGED outcome => OutcomeInv'
  BY DEF OutcomeInv
<1>c. {"blocked", "answered", "queued", "deferred", "failed"} \subseteq Settled
  BY DEF Settled
<1>d. svc.pc \in Held => svc.msg \in Message
  BY DEF SvcInv, HoldsOne
<1> USE DEF history, memory
<1>1. CASE Together
  <2>1. CASE ServiceRestarts
    BY <2>1 DEF ServiceRestarts, OutcomeInv, Settled
  <2>2. CASE ~ServiceRestarts
    <3>1. UNCHANGED outcome
      BY <1>1, <2>2 DEF Together, Publish, Receive, Timeout, LoopStalls, HandleIngress,
                        IngressRaises, HandleCompleted, StartTurn, FinishTurn
    <3> QED
      BY <1>b, <3>1
  <2> QED
    BY <2>1, <2>2
<1>2. CASE ObserveUpdate
  <2>1. svc.at < svc.upto => log[svc.at + 1] \in Message
    BY DEF SvcInv, PollLoop
  <2>2. UNCHANGED outcome \/ (svc.at < svc.upto /\ Settle(log[svc.at + 1], "blocked"))
    BY <1>2 DEF ObserveUpdate
  <2> QED
    BY <1>a, <1>b, <1>c, <2>1, <2>2
<1>3. CASE Dedup
  <2>1. UNCHANGED outcome \/ Settle(svc.msg, "blocked")
    BY <1>3 DEF Dedup
  <2> QED
    BY <1>3, <1>a, <1>b, <1>c, <1>d, <2>1 DEF Dedup, Held
<1>4. CASE TypingTicketFails
  BY <1>4, <1>a, <1>c, <1>d DEF TypingTicketFails, Held
<1>5. CASE ReplyWeixin
  <2>1. Settle(svc.msg, "queued") \/ Settle(svc.msg, "deferred") \/ Settle(svc.msg, "failed")
    BY <1>5 DEF ReplyWeixin
  <2> QED
    BY <1>5, <1>a, <1>c, <1>d, <2>1 DEF ReplyWeixin, Held
<1>6. CASE \E sent \in BOOLEAN : ReplyTelegram(sent)
  <2>1. Settle(svc.msg, "answered") \/ Settle(svc.msg, "deferred") \/ Settle(svc.msg, "failed")
    BY <1>6 DEF ReplyTelegram
  <2> QED
    BY <1>6, <1>a, <1>c, <1>d, <2>1 DEF ReplyTelegram, Held
<1>7. CASE Poll \/ EndOfBatch \/ TakeUpdate \/ TypingTicket \/ RestoreTokens \/ EndDrain
           \/ QueueResult \/ DeadlinePasses \/ TokenAges \/ Clock \/ UNCHANGED ingressVars
  <2>1. UNCHANGED outcome
    BY <1>7 DEF Poll, EndOfBatch, TakeUpdate, TypingTicket, RestoreTokens, EndDrain, QueueResult,
                DeadlinePasses, TokenAges, Clock, RetryDue, CircuitElapses, ingressVars
  <2> QED
    BY <1>b, <2>1
<1>8. CASE \/ \E reply \in Replies : AnswersDirectly(reply)
           \/ \E surfaces \in BOOLEAN : ProcessBackground(surfaces)
           \/ \E r \in OutboxRow : DeliverAccepted(r) \/ DeliverLate(r)
           \/ \E r \in OutboxRow, again \in Failure \cup {"sent"} : DeliverRejected(r, again)
           \/ \E r \in OutboxRow, failure \in Failure : SendFails(r, failure)
           \/ \E m \in Message : Arrive(m)
           \/ \E key \in seen : DedupLapses(key)
  <2>1. UNCHANGED outcome
    BY <1>8 DEF AnswersDirectly, ProcessBackground, DeliverAccepted, DeliverLate, DeliverRejected,
                SendFails, Ends, drainUnchanged, Arrive, DedupLapses
  <2> QED
    BY <1>b, <2>1
<1> QED
  BY <1>1, <1>2, <1>3, <1>4, <1>5, <1>6, <1>7, <1>8, Sides DEF Apart

IngressInv ==
    /\ SvcInv /\ TasksInv /\ FilesInv /\ TokenInv /\ OutcomeInv
    /\ SeenInv /\ AnswerInv
    /\ IdsInv /\ OrderInv /\ OverInv /\ AskInv

LEMMA IngressStarts == IngressInit => IngressInv
<1> SUFFICES ASSUME IngressInit PROVE IngressInv
  OBVIOUS
<1> USE DEF IngressInit
<1>0. bus = <<>> /\ bus \in Seq(Event) /\ DOMAIN bus = {} /\ log \in Seq(Message) /\ Len(log) = 0
  BY EmptySeq
<1>1. SvcInv
  BY <1>0 DEF SvcInv, PollLoop, Polling, Places, Replies, Held
<1>2. TasksInv
  BY <1>0 DEF TasksInv, Polling
<1>3. FilesInv
  BY DEF FilesInv, NoSession, NoRow, Session, Delivery
<1>4. TokenInv
  BY DEF TokenInv, NoSession, NoRow, Polling
<1>5. OutcomeInv
  BY DEF OutcomeInv
<1>6. SeenInv
  <2> SUFFICES ASSUME NEW m \in Message PROVE Given(m) <= lapses + One(KeyOf(m) \in seen)
    BY DEF SeenInv
  <2>1. Cardinality(Occurs(bus, Of(m))) = 0
    BY <1>0, FS_EmptySet DEF Occurs
  <2> QED
    BY <2>1 DEF Given, One, Entering, Polling
<1>7. AllDone(bus) /\ NoneFollows(bus) /\ Remembers(bus)
  BY <1>0 DEF AllDone, NoneFollows, Remembers
<1>8. AnswerInv
  BY <1>7 DEF AnswerInv, AtRest
<1>9. IdsInv
  BY <1>0 DEF IdsInv, KeysSeen, NewId, Waiting, Entering, Polling
<1>10. OrderInv /\ OverInv /\ AskInv
  BY <1>7 DEF OrderInv, OverInv, AskInv, AskBody, Asking, Answered
<1> QED
  BY <1>1, <1>2, <1>3, <1>4, <1>5, <1>6, <1>8, <1>9, <1>10 DEF IngressInv

LEMMA IngressKeeps == ASSUME IngressInv, [IngressNext]_ingressVars PROVE IngressInv'
<1>1. SvcInv /\ TasksInv /\ FilesInv /\ TokenInv /\ OutcomeInv
  BY DEF IngressInv
<1>2. SvcInv'
  BY <1>1, SvcNext, IngressAssumption DEF TasksInv, FilesInv
<1>3. TasksInv'
  BY <1>1, TasksNext, IngressAssumption
<1>4. FilesInv' /\ TokenInv'
  BY <1>1, FilesNext, IngressAssumption
<1>5. OutcomeInv'
  BY <1>1, OutcomeNext
<1>6. SeenInv'
  BY <1>1, <1>3, SeenNext DEF IngressInv
<1>7. AnswerInv'
  BY <1>1, AnswerNext, IngressAssumption DEF IngressInv
<1>8. IdsInv' /\ OverInv'
  BY <1>1, <1>3, IdsNext, OverNext DEF IngressInv
<1>9. OrderInv'
  BY <1>1, <1>3, OrderNext, IngressAssumption DEF IngressInv
<1>10. AskInv'
  BY <1>1, <1>3, AskNext, IngressAssumption DEF IngressInv
<1> QED
  BY <1>2, <1>3, <1>4, <1>5, <1>6, <1>7, <1>8, <1>9, <1>10 DEF IngressInv

LEMMA IngressAlways == IngressSpec => []IngressInv
<1>1. IngressInit => IngressInv
  BY IngressStarts
<1>2. IngressInv /\ [IngressNext]_ingressVars => IngressInv'
  BY IngressKeeps
<1> QED
  BY <1>1, <1>2, PTL DEF IngressSpec

\* The poll loop, the bus, the files and the histories have their types, for
\* any messages, kinds of connector and bounds.
THEOREM IngressTypeCorrect == IngressSpec => []IngressTypeOK
<1>1. IngressInv => IngressTypeOK
  BY DEF IngressInv, SvcInv, TasksInv, FilesInv, OutcomeInv, IngressTypeOK
<1> QED
  BY <1>1, IngressAlways, PTL

\* The agent loop sees a message once for its key and once for every lapse of
\* it, whatever is redelivered and however often the process restarts
\* (ConnectorIngressDeduplicator.check).
THEOREM MessagesAreSeenOnce == IngressSpec => []SeenOnce
<1>1. ASSUME IngressInv, NEW m \in Message, ~(Weixin /\ m \in Anonymous)
      PROVE  turns[m] <= 1 + lapses
  <2>1. /\ Given(m) <= lapses + One(KeyOf(m) \in seen) /\ lapses \in Nat
        /\ turns[m] \in Nat /\ Cardinality(Occurs(bus, Of(m))) \in Nat
    BY <1>1, GivenIsNat DEF IngressInv, SeenInv, TasksInv
  <2> QED
    BY <2>1 DEF Given, One
<1>2. IngressInv => SeenOnce
  BY <1>1 DEF SeenOnce
<1> QED
  BY <1>2, IngressAlways, PTL

\* A context token the chat service has refused is not the token of a row that
\* can be claimed until an update brings it again, whatever rows came with it,
\* in what order they fail and however often the process restarts
\* (WeixinSessionStore.put and invalidate).
THEOREM RefusedTokensRest == IngressSpec => []RejectedTokensRest
<1>1. ASSUME IngressInv, NEW r \in OutboxRow PROVE Resolve(r) \notin rejected
  <2>1. 0 \notin rejected
    BY <1>1 DEF IngressInv, FilesInv
  <2>2. session.token \notin rejected
    BY <1>1 DEF IngressInv, TokenInv
  <2>3. Resolve(r) = 0 \/ Resolve(r) = session.token
    BY <1>1, OwnToken DEF IngressInv
  <2> QED
    BY <2>1, <2>2, <2>3
<1>2. IngressInv => RejectedTokensRest
  BY <1>1 DEF RejectedTokensRest
<1> QED
  BY <1>2, IngressAlways, PTL

\* While no key has lapsed, the turn after a question knows of the question
\* (IntentAgent._pending_asks).
THEOREM QuestionsReachTheNextTurn == IngressSpec => []QuestionsAreRemembered
<1>1. IngressInv => QuestionsAreRemembered
  BY DEF IngressInv, AskInv, AskBody, Remembers, QuestionsAreRemembered
<1> QED
  BY <1>1, IngressAlways, PTL

\* While nothing has failed, every turn that ends is heard by the router, which
\* still waits for it (ConnectorRouter._await_response).
THEOREM TurnsAreHeard == IngressSpec => AnswersAreHeard
<1>1. ASSUME IngressInv, [IngressNext]_ingressVars,
             turn # None, turn' = None, faults' = 0, restarts' = 0
      PROVE  channel # None /\ channel' = [id |-> turn.id, reply |-> channel'.reply]
  <2>1. SvcInv /\ TasksInv /\ AnswerInv
    BY <1>1 DEF IngressInv
  <2>2. CASE \E reply \in Surfaces \cup {"raised"} : FinishTurn(reply)
    <3>1. PICK reply \in {"text", "ask", "deferred", "empty", "raised"} : FinishTurn(reply)
      BY <2>2, SurfacesAre
    <3> QED
      BY <1>1, <2>1, <3>1, HeardEnd, IngressAssumption
  <2>3. CASE ~\E reply \in Surfaces \cup {"raised"} : FinishTurn(reply)
    <3>1. CASE Apart
      BY <1>1, <2>1, <3>1, ApartIsAloof DEF Aloof, tasks
    <3>2. CASE ServiceRestarts
      BY <1>1, <2>1, <3>2 DEF ServiceRestarts, TasksInv
    <3>3. CASE Together /\ ~ServiceRestarts
      BY <1>1, <2>3, <3>3 DEF Together, Publish, Receive, Timeout, LoopStalls, HandleIngress,
                              IngressRaises, HandleCompleted, StartTurn, Head1
    <3> QED
      BY <1>1, <3>1, <3>2, <3>3, Sides
  <2> QED
    BY <2>2, <2>3
<1>2. IngressInv /\ [IngressNext]_ingressVars
        => [turn # None /\ turn' = None /\ faults' = 0 /\ restarts' = 0
              => channel # None /\ channel' = [id |-> turn.id, reply |-> channel'.reply]]_ingressVars
  BY <1>1
<1> QED
  BY <1>2, IngressAlways, PTL DEF IngressSpec, AnswersAreHeard
===============================================================================
