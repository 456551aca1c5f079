----------------------------- MODULE LoopRunStore ------------------------------
(****************************************************************************)
(* One row of the loop_runs table and everyone who reads and writes it:     *)
(* execution drivers (a queue pass of the daemon, a foreground graph        *)
(* runner), their heartbeat threads, the daemon's reconciliation, and       *)
(* control commands (cancel, approve, reject, delivery receipts).           *)
(*                                                                          *)
(* The store opens a transaction only at the first write, so an operation   *)
(* that SELECTs, decides and then UPDATEs is two steps here: the read       *)
(* leaves its decision in call[p], and Commit applies it if the row still   *)
(* has the version that was read.  Operations under BEGIN IMMEDIATE, and    *)
(* single UPDATE statements, are one step.                                  *)
(*                                                                          *)
(* Rows are independent (every statement names one id, and a batch claim    *)
(* treats each row alike), so the module keeps one.  The evidence column is *)
(* reduced to `kinds`: which retry or delivery facts the row carries.       *)
(****************************************************************************)
EXTENDS Integers, LoopGraph

CONSTANTS
  Driver,        \* execution owners; an identity is never reused
  Controller,    \* control commands running outside any lease
  NoOwner,       \* the empty lease_owner column
  LeaseSeconds,  \* length of a claim and of a renewal
  Grace,         \* DETACHED_EXECUTION_RECOVERY_GRACE_SECONDS
  RetryAfter,    \* retry_after_seconds of a retryable pause
  Evidence,      \* the sets of facts a pause may carry
  MaxTime,       \* bound on the clock
  MaxVersion     \* bound on the row's version

ASSUME NoOwnerAssumption == NoOwner \notin Driver
ASSUME ProcAssumption == Driver \cap Controller = {}
ASSUME TimeAssumption ==
  /\ LeaseSeconds \in Nat \ {0}
  /\ Grace \in Nat /\ RetryAfter \in Nat
  /\ MaxTime \in Nat /\ MaxVersion \in Nat
ASSUME EvidenceAssumption ==
  Evidence \subseteq SUBSET {"retry", "resource", "delivery"} /\ {} \in Evidence

VARIABLES
  row,    \* the persisted row
  now,    \* time.time()
  phase,  \* phase[d]: where driver d stands
  beat,   \* beat[d]: its heartbeat thread: off, on, or lost (renewal refused)
  call    \* call[p]: the read half of a read-check-write operation of p

vars == <<row, now, phase, beat, call>>

Proc == Driver \cup Controller

Mode == {"background", "foreground"}

Row == [node: LoopNode, terminal: TerminalState, version: Nat,
        owner: Driver \cup {NoOwner}, expires: Nat, updated: Nat,
        mode: Mode, kinds: Evidence]

Phase == {"idle", "listed", "retrying", "queued", "running", "failing",
          "stopped", "crashed"}

Op == {"none", "transition", "fail", "cancel", "reopen", "reopen_retry",
       "settle"}

\* What an operation uses of the row it read.
Snapshot == [node: LoopNode, terminal: TerminalState, version: Nat,
             owner: Driver \cup {NoOwner}, expires: Nat, kinds: Evidence]

Call == [op: Op, target: LoopNode \cup Suspended \cup Final, kinds: Evidence,
         at: Nat, seen: Snapshot]

--------------------------------------------------------------------------------
\* LoopRunStore.create_run: an ordinary loop starts active at PLAN; the
\* registration record of a schedule is created converged.
CreatedRow(n, t, m) ==
  [node |-> n, terminal |-> t, version |-> 0, owner |-> NoOwner,
   expires |-> 0, updated |-> 0, mode |-> m, kinds |-> {}]

Select(r) ==
  [node |-> r.node, terminal |-> r.terminal, version |-> r.version,
   owner |-> r.owner, expires |-> r.expires, kinds |-> r.kinds]

NoCall ==
  [op |-> "none", target |-> "plan", kinds |-> {}, at |-> 0,
   seen |-> Select(CreatedRow("plan", Active, "background"))]

Init ==
  /\ \/ \E m \in Mode : row = CreatedRow("plan", Active, m)
     \/ row = CreatedRow("evaluate", "converged", "background")
  /\ now = 0
  /\ phase = [d \in Driver |-> "idle"]
  /\ beat = [d \in Driver |-> "off"]
  /\ call = [p \in Proc |-> NoCall]

Tick ==
  /\ now < MaxTime
  /\ now' = now + 1
  /\ UNCHANGED <<row, phase, beat, call>>

--------------------------------------------------------------------------------
\* Claims.

\* Mutant: the expiry comparison of the claim is turned around.
ClaimableWhileValid(d) ==
  row.owner = NoOwner \/ row.owner = d \/ row.expires >= now

\* The lease clause every claim shares: free, mine, or expired.
Claimable(d) ==
  row.owner = NoOwner \/ row.owner = d \/ row.expires <= now

Claimed(d) ==
  /\ row.version < MaxVersion
  /\ row' = [row EXCEPT !.owner = d, !.expires = now + LeaseSeconds,
                        !.version = row.version + 1, !.updated = now]

\* claim_active_for_execution_mode, background loops.
ClaimBackground(d) ==
  /\ phase[d] = "idle"
  /\ row.terminal = Active
  /\ row.mode = "background"
  /\ Claimable(d)
  /\ Claimed(d)
  /\ phase' = [phase EXCEPT ![d] = "queued"]
  /\ UNCHANGED <<now, beat, call>>

\* claim_active_for_execution_mode, foreground loops nobody touched for the
\* grace period.
ClaimDetached(d) ==
  /\ phase[d] = "idle"
  /\ row.terminal = Active
  /\ row.mode = "foreground"
  /\ row.updated + Grace <= now
  /\ Claimable(d)
  /\ Claimed(d)
  /\ phase' = [phase EXCEPT ![d] = "queued"]
  /\ UNCHANGED <<now, beat, call>>

\* list_retryable_pauses: a typed retry gate of any loop, or a resource pause
\* of a background loop, whose delay has passed.
IsRetryablePause ==
  /\ row.terminal = "paused"
  /\ \/ "retry" \in row.kinds
     \/ row.mode = "background" /\ "resource" \in row.kinds
  /\ row.updated + RetryAfter <= now

ListRetryable(d) ==
  /\ phase[d] = "idle"
  /\ IsRetryablePause
  /\ phase' = [phase EXCEPT ![d] = "listed"]
  /\ UNCHANGED <<row, now, beat, call>>

\* claim_for_execution(allow_paused=True) on a listed candidate, which may
\* have moved on since it was listed.
ClaimRetryable(d) ==
  /\ phase[d] = "listed"
  /\ \/ /\ row.terminal \in {Active, "paused"}
        /\ Claimable(d)
        /\ Claimed(d)
        /\ phase' = [phase EXCEPT ![d] = "retrying"]
     \/ /\ ~(row.terminal \in {Active, "paused"} /\ Claimable(d))
        /\ phase' = [phase EXCEPT ![d] = "stopped"]
        /\ UNCHANGED row
  /\ UNCHANGED <<now, beat, call>>

\* A foreground turn or an approval continuation takes the loop up without a
\* prior claim.
TakeUp(d) ==
  /\ phase[d] = "idle"
  /\ phase' = [phase EXCEPT ![d] = "queued"]
  /\ UNCHANGED <<row, now, beat, call>>

\* DurableStateGraphRunner: claim_for_execution and the heartbeat's start.
Start(d) ==
  /\ phase[d] = "queued"
  /\ call[d].op = "none"
  /\ row.terminal = Active
  /\ Claimable(d)
  /\ Claimed(d)
  /\ phase' = [phase EXCEPT ![d] = "running"]
  /\ beat' = [beat EXCEPT ![d] = "on"]
  /\ UNCHANGED <<now, call>>

\* The claim is refused ("already claimed by another execution driver"), or
\* the loop was found stopped and the run returns at once.
StartRefused(d) ==
  /\ phase[d] = "queued"
  /\ call[d].op = "none"
  /\ \/ /\ IsStopped(row.terminal) \/ ~Claimable(d)
        /\ phase' = [phase EXCEPT ![d] = "failing"]
     \/ /\ IsStopped(row.terminal)
        /\ phase' = [phase EXCEPT ![d] = "stopped"]
  /\ UNCHANGED <<row, now, beat, call>>

\* process_queue_once gives a claimed loop back, a retry too, when its Goal
\* is gone.
GiveBack(d) ==
  /\ phase[d] \in {"queued", "retrying"}
  /\ call[d].op = "none"
  /\ row.owner = d
  /\ row.version < MaxVersion
  /\ row' = [row EXCEPT !.owner = NoOwner, !.expires = 0,
                        !.version = row.version + 1, !.updated = now]
  /\ phase' = [phase EXCEPT ![d] = "stopped"]
  /\ UNCHANGED <<now, beat, call>>

--------------------------------------------------------------------------------
\* Heartbeat: runs in a thread of its own, so also between the two halves of
\* the driver's transition.

\* renew_execution_lease moves the expiry and leaves the version alone.
RenewLease(d) ==
  /\ row.terminal = Active
  /\ row.owner = d
  /\ row.expires > now
  /\ row' = [row EXCEPT !.expires = now + LeaseSeconds, !.updated = now]

Renew(d) ==
  /\ beat[d] = "on"
  /\ RenewLease(d)
  /\ UNCHANGED <<now, phase, beat, call>>

\* A refused renewal: a stopped loop ends the heartbeat, anything else marks
\* the driver as having lost its lease.
RenewRefused(d) ==
  /\ beat[d] = "on"
  /\ ~(row.terminal = Active /\ row.owner = d /\ row.expires > now)
  /\ beat' = [beat EXCEPT ![d] = IF IsStopped(row.terminal) THEN "off"
                                                           ELSE "lost"]
  /\ UNCHANGED <<row, now, phase, call>>

--------------------------------------------------------------------------------
\* The read half of the read-check-write operations.

Decide(p, op, target, kinds) ==
  call' = [call EXCEPT ![p] = [op |-> op, target |-> target, kinds |-> kinds,
                               at |-> IF op = "fail" THEN now ELSE 0,
                               seen |-> Select(row)]]

\* Mutant: transition() that checks the graph and not the lease.
ReadTransitionUnleased(d, target, kinds) ==
  /\ phase[d] = "running"
  /\ beat[d] # "lost"
  /\ call[d].op = "none"
  /\ ~IsStopped(row.terminal)
  /\ \E e \in BaseEdges : e[1] = row.node /\ e[2] = target
  /\ target \notin Suspended => kinds = row.kinds
  /\ Decide(d, "transition", target, kinds)
  /\ UNCHANGED <<row, now, phase, beat>>

\* transition() of a running driver: not stopped, an edge of the graph, and
\* the lease is this driver's and unexpired.  The evidence is merged into the
\* row's, whose facts it may add to, replace or clear; they are read again
\* of a suspended row only.
ReadTransition(d, target, kinds) ==
  /\ phase[d] = "running"
  /\ beat[d] # "lost"
  /\ call[d].op = "none"
  /\ ~IsStopped(row.terminal)
  /\ \E e \in BaseEdges : e[1] = row.node /\ e[2] = target
  /\ row.owner = d
  /\ row.expires > now
  /\ target \notin Suspended => kinds = row.kinds
  /\ Decide(d, "transition", target, kinds)
  /\ UNCHANGED <<row, now, phase, beat>>

\* An uncaught exception of the run, a lost lease among them.
Raise(d) ==
  /\ phase[d] = "running"
  /\ call[d].op = "none"
  /\ phase' = [phase EXCEPT ![d] = "failing"]
  /\ beat' = [beat EXCEPT ![d] = "off"]
  /\ UNCHANGED <<row, now, call>>

\* A run taken up at a node between two transitions has no phase to execute
\* there: it returns, and keeps the lease.
ReturnIdle(d) ==
  /\ phase[d] = "running"
  /\ call[d].op = "none"
  /\ row.node \in {"reflect", "escalate", "pause"}
  /\ phase' = [phase EXCEPT ![d] = "stopped"]
  /\ beat' = [beat EXCEPT ![d] = "off"]
  /\ UNCHANGED <<row, now, call>>

\* fail_active_run after the exception.
ReadFail(d) ==
  /\ phase[d] = "failing"
  /\ call[d].op = "none"
  /\ \/ /\ ~IsStopped(row.terminal) /\ row.owner = d /\ row.expires > now
        /\ Decide(d, "fail", "failed", {})
        /\ UNCHANGED phase
     \/ /\ IsStopped(row.terminal) \/ row.owner # d \/ row.expires <= now
        /\ phase' = [phase EXCEPT ![d] = "stopped"]
        /\ UNCHANGED call
  /\ UNCHANGED <<row, now, beat>>

\* reopen_retryable_pause / reopen_resource_pause of a claimed retry; a row
\* that is no longer such a pause raises out of the queue pass.
ReadReopenRetry(d) ==
  /\ phase[d] = "retrying"
  /\ call[d].op = "none"
  /\ \/ /\ row.terminal = "paused"
        /\ row.kinds \cap {"retry", "resource"} # {}
        /\ \E target \in {"plan", "execute", "evaluate"} :
              Decide(d, "reopen_retry", target, {})
        /\ UNCHANGED phase
     \/ /\ ~(row.terminal = "paused" /\ row.kinds \cap {"retry", "resource"} # {})
        /\ phase' = [phase EXCEPT ![d] = "stopped"]
        /\ UNCHANGED call
  /\ UNCHANGED <<row, now, beat>>

\* resume_loop: reopen_for_resume when the loop is suspended.
ReadReopen(p) ==
  /\ p \in Driver => phase[p] = "queued"
  /\ call[p].op = "none"
  /\ row.terminal \in Suspended
  /\ Decide(p, "reopen", "execute", {})
  /\ UNCHANGED <<row, now, phase, beat>>

\* cancel_loop of an active loop: transition() without a lease owner.
ReadCancel(c) ==
  /\ call[c].op = "none"
  /\ ~IsStopped(row.terminal)
  /\ Connected(row.node, "cancelled")
  /\ Decide(c, "cancel", "cancelled", row.kinds)
  /\ UNCHANGED <<row, now, phase, beat>>

\* cancel_external_wait and reject_external_gate, pause_external_wait, and
\* complete_external_delivery of a delivery pause.
ReadSettle(c) ==
  /\ call[c].op = "none"
  /\ \/ /\ row.terminal \in Suspended
        /\ \E target \in {"cancelled", "paused"} : Decide(c, "settle", target, {})
     \/ /\ row.terminal = "paused"
        /\ "delivery" \in row.kinds
        /\ \E target \in {"converged", "failed"} : Decide(c, "settle", target, {})
  /\ UNCHANGED <<row, now, phase, beat>>

--------------------------------------------------------------------------------
\* The write half.

\* Mutant: the UPDATE without its version clause.
AnyVersion(p) == TRUE

\* UPDATE ... WHERE id = ? AND version = ?
SameVersion(p) == row.version = call[p].seen.version

\* transition(): the new node or stop state, and the lease columns as they
\* were READ; a stop state clears the lease.
TransitionWrite(p) ==
  LET seen   == call[p].seen
      target == call[p].target
      stops  == target \in Suspended \cup Final
  IN  [row EXCEPT
         !.node     = IF stops THEN seen.node ELSE target,
         !.terminal = IF stops THEN target ELSE Active,
         !.version  = seen.version + 1,
         !.owner    = IF stops THEN NoOwner ELSE seen.owner,
         !.expires  = IF stops THEN 0 ELSE seen.expires,
         !.kinds    = call[p].kinds,
         !.updated  = now]

\* reopen_*: active again at the resume node; the lease columns stay.
ReopenWrite(p) ==
  [row EXCEPT !.node = call[p].target, !.terminal = Active,
              !.version = call[p].seen.version + 1, !.updated = now]

\* _transition_to: a stop state, and no lease.
SettleWrite(p) ==
  [row EXCEPT !.terminal = call[p].target,
              !.version = call[p].seen.version + 1,
              !.owner = NoOwner, !.expires = 0, !.updated = now]

\* Whether the UPDATE matches the row; fail_active_run also names its lease.
WriteMatches(p) ==
  /\ SameVersion(p)
  /\ call[p].op = "fail" => row.owner = p /\ row.expires > call[p].at

Written(p) ==
  CASE call[p].op \in {"transition", "cancel"}    -> TransitionWrite(p)
    [] call[p].op \in {"reopen", "reopen_retry"}  -> ReopenWrite(p)
    [] OTHER                                      -> SettleWrite(p)

\* What the driver does after its write was accepted.
AfterWrite(d) ==
  CASE call[d].op = "transition" /\ call[d].target \in LoopNode -> "running"
    [] call[d].op \in {"reopen", "reopen_retry"}                -> "queued"
    [] OTHER                                                    -> "stopped"

\* "loop state changed concurrently": a transition raises inside the run, the
\* other operations raise out of it.
AfterConflict(d) ==
  IF call[d].op = "transition" THEN "failing" ELSE "stopped"

Finish(p, next) ==
  /\ call' = [call EXCEPT ![p] = NoCall]
  /\ IF p \in Driver
     THEN /\ phase' = [phase EXCEPT ![p] = next]
          /\ beat' = [beat EXCEPT ![p] = IF next = "running" THEN beat[p]
                                                             ELSE "off"]
     ELSE UNCHANGED <<phase, beat>>
  /\ UNCHANGED now

Commit(p) ==
  /\ call[p].op # "none"
  /\ WriteMatches(p)
  /\ row.version < MaxVersion
  /\ row' = Written(p)
  /\ Finish(p, AfterWrite(p))

Conflict(p) ==
  /\ call[p].op # "none"
  /\ ~WriteMatches(p)
  /\ UNCHANGED row
  /\ Finish(p, AfterConflict(p))

--------------------------------------------------------------------------------
\* Process death, and what reconciliation does about it.

\* The process of a driver dies: an open transaction is rolled back.
Crash(d) ==
  /\ phase[d] \notin {"idle", "stopped", "crashed"}
  /\ phase' = [phase EXCEPT ![d] = "crashed"]
  /\ beat' = [beat EXCEPT ![d] = "off"]
  /\ call' = [call EXCEPT ![d] = NoCall]
  /\ UNCHANGED <<row, now>>

Released ==
  /\ row.version < MaxVersion
  /\ row' = [row EXCEPT !.owner = NoOwner, !.expires = 0,
                        !.version = row.version + 1, !.updated = now]

\* release_execution_leases_for_owners: only owners whose process is gone.
ReleaseUnavailable ==
  /\ row.terminal = Active
  /\ row.owner # NoOwner
  /\ phase[row.owner] = "crashed"
  /\ Released
  /\ UNCHANGED <<now, phase, beat, call>>

\* release_expired_execution_leases.
ReleaseExpired ==
  /\ row.terminal = Active
  /\ row.owner # NoOwner
  /\ row.expires > 0
  /\ row.expires <= now
  /\ Released
  /\ UNCHANGED <<now, phase, beat, call>>

--------------------------------------------------------------------------------
DriverStep(d) ==
  \/ ClaimBackground(d) \/ ClaimDetached(d)
  \/ ListRetryable(d) \/ ClaimRetryable(d)
  \/ TakeUp(d) \/ Start(d) \/ StartRefused(d) \/ GiveBack(d)
  \/ Renew(d) \/ RenewRefused(d)
  \/ \E target \in LoopNode \cup Suspended \cup Final, kinds \in Evidence :
        ReadTransition(d, target, kinds)
  \/ Raise(d) \/ ReturnIdle(d) \/ ReadFail(d) \/ ReadReopenRetry(d)
  \/ ReadReopen(d) \/ Commit(d) \/ Conflict(d) \/ Crash(d)

ControllerStep(c) ==
  ReadReopen(c) \/ ReadCancel(c) \/ ReadSettle(c) \/ Commit(c) \/ Conflict(c)

Next ==
  \/ \E d \in Driver : DriverStep(d)
  \/ \E c \in Controller : ControllerStep(c)
  \/ ReleaseUnavailable \/ ReleaseExpired \/ Tick

Spec == Init /\ [][Next]_vars

--------------------------------------------------------------------------------
\* Properties.

\* Type correctness of the row, the drivers and the pending operations.
TypeOK ==
  /\ row \in Row
  /\ now \in Nat
  /\ phase \in [Driver -> Phase]
  /\ beat \in [Driver -> {"off", "on", "lost"}]
  /\ call \in [Proc -> Call]

\* Lease ownership is a fact about loops that can still be claimed: a final
\* loop and one waiting for an approval name no owner, and an expiry is
\* recorded exactly when an owner is (transition, _transition_to, claims and
\* releases all agree on the two columns).
LeaseShape ==
  /\ row.owner = NoOwner <=> row.expires = 0
  /\ row.owner # NoOwner => row.terminal \in {Active, "paused"}

\* What compare-and-swap rests on: as long as the version a caller read is
\* still the row's version, the node, the stop state, the owner and the
\* evidence it read are still the row's too (only a renewal moves the expiry
\* without a new version).
SnapshotFresh ==
  \A p \in Proc : call[p].op # "none" =>
    LET seen == call[p].seen IN
      /\ seen.version <= row.version
      /\ seen.version = row.version =>
           /\ seen.node = row.node
           /\ seen.terminal = row.terminal
           /\ seen.owner = row.owner
           /\ seen.kinds = row.kinds

\* What the read half has established for the write half, per operation.
CallShape ==
  \A p \in Proc :
    LET seen == call[p].seen
        target == call[p].target
    IN  /\ call[p].op \in {"transition", "fail"} =>
              p \in Driver /\ seen.owner = p /\ seen.expires # 0
        /\ call[p].op \in {"transition", "fail", "cancel"} =>
              seen.terminal = Active
        /\ call[p].op = "transition" => Connected(seen.node, target)
        /\ call[p].op = "fail" => target = "failed"
        /\ call[p].op = "cancel" => target = "cancelled"
        /\ call[p].op \in {"reopen", "reopen_retry"} =>
              /\ seen.terminal \in Suspended
              /\ target \in {"plan", "execute", "evaluate"}
        /\ call[p].op = "settle" =>
              /\ seen.terminal \in Suspended
              /\ \/ target \in {"cancelled", "paused"}
                 \/ seen.terminal = "paused" /\ target \in {"converged", "failed"}

\* The inductive invariant behind the theorems of LoopRunStoreProofs.
StoreInv == TypeOK /\ LeaseShape /\ SnapshotFresh /\ CallShape

\* "a foreground driver and daemon cannot both advance one loop": a driver's
\* transition or failure reaches the row only while the row names that driver
\* as its owner, whatever happened between its read and its write.
OnlyHolderAdvances ==
  [][\A d \in Driver :
       (/\ call[d].op \in {"transition", "fail"}
        /\ call'[d].op = "none"
        /\ row' # row) => row.owner = d /\ row.terminal = Active]_vars

\* A final loop never changes again: no late transition, failure, reopening,
\* receipt, claim or release touches its row.
FinalIsForever == [][row.terminal \in Final => row' = row]_vars

\* Reconciliation and claims may take the lease of an active loop from its
\* owner only when it has expired or the owner's process is gone; otherwise
\* only the owner itself gives it up.
LeaseNotStolen ==
  [][\A d \in Driver :
       (/\ row.owner = d /\ row.terminal = Active /\ row.expires > now
        /\ row'.owner # d /\ row'.terminal = Active)
       => phase[d] = "crashed" \/ phase'[d] = "stopped"]_vars

\* The store's split operations behave as indivisible ones.
Atomic == INSTANCE LoopRunAtomic
            WITH node <- row.node, terminal <- row.terminal, owner <- row.owner

\* The row's node, stop state and owner change only as LoopRunAtomic allows.
ImplementsAtomic == Atomic!AtomicSpec
================================================================================
