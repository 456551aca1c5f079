-------------------------- MODULE LoopRunStoreProofs ---------------------------
(* Proofs about LoopRunStore, for every set of drivers and controllers and    *)
(* every lease length, grace period and bound.                                *)
EXTENDS LoopRunStore, TLAPS

\* A driver's edge of the base graph is an edge of the default graph.
LEMMA BaseEdgeConnected ==
  ASSUME NEW e \in BaseEdges PROVE Connected(e[1], e[2])
  BY DEF Connected, DefaultStateGraph

\* The vocabularies of loop_contracts.py do not overlap.
LEMMA Vocabulary ==
  /\ LoopNode \cap (Suspended \cup Final) = {}
  /\ Suspended \cap Final = {}
  /\ Active \notin Suspended \cup Final \cup LoopNode
  BY DEF LoopNode, Suspended, Final, Active

\* create_run writes a well typed row.
LEMMA CreatedRowType ==
  ASSUME NEW n \in LoopNode, NEW t \in TerminalState, NEW m \in Mode
  PROVE  CreatedRow(n, t, m) \in Row
  BY NoOwnerAssumption, EvidenceAssumption DEF CreatedRow, Row

\* The blank pending operation is well typed.
LEMMA NoCallType == NoCall \in Call /\ NoCall.op = "none"
  BY NoOwnerAssumption, EvidenceAssumption
     DEF NoCall, Call, Select, CreatedRow, Snapshot, Op, LoopNode,
         TerminalState, Active

\* The initial rows satisfy the invariant: nothing has been read yet.
LEMMA InitStoreInv == Init => StoreInv
  <1> SUFFICES ASSUME Init PROVE StoreInv
    OBVIOUS
  <1>0. /\ "plan" \in LoopNode /\ "evaluate" \in LoopNode
        /\ Active \in TerminalState /\ "converged" \in TerminalState
        /\ "background" \in Mode
    BY DEF LoopNode, TerminalState, Final, Mode
  <1>1. row \in Row
    BY <1>0, CreatedRowType DEF Init
  <1>2. TypeOK
    BY <1>1, NoCallType DEF Init, TypeOK, Phase
  <1>3. LeaseShape
    BY DEF Init, LeaseShape, CreatedRow
  <1>4. SnapshotFresh /\ CallShape
    BY NoCallType DEF Init, SnapshotFresh, CallShape
  <1> QED BY <1>2, <1>3, <1>4 DEF StoreInv

--------------------------------------------------------------------------------
\* A step that gives the row a later version, leaves the pending operations
\* alone and keeps the lease columns consistent preserves the invariant.
LEMMA BumpStep ==
  ASSUME StoreInv, row' \in Row, row'.version > row.version,
         now' \in Nat, phase' \in [Driver -> Phase],
         beat' \in [Driver -> {"off", "on", "lost"}],
         LeaseShape', UNCHANGED call
  PROVE  StoreInv'
  <1>1. TypeOK'
    BY DEF StoreInv, TypeOK
  <1>2. SnapshotFresh'
    <2> SUFFICES ASSUME NEW p \in Proc, call[p].op # "none"
                 PROVE  /\ call[p].seen.version <= row'.version
                        /\ call[p].seen.version # row'.version
      BY DEF SnapshotFresh
    <2>1. call[p].seen.version <= row.version
      BY DEF StoreInv, SnapshotFresh
    <2>2. call[p].seen.version \in Nat /\ row.version \in Nat /\ row'.version \in Nat
      BY DEF StoreInv, TypeOK, Call, Snapshot, Row
    <2> QED BY <2>1, <2>2
  <1>3. CallShape'
    BY DEF StoreInv, CallShape
  <1> QED BY <1>1, <1>2, <1>3 DEF StoreInv

\* A step that leaves the row and the pending operations alone.
LEMMA LocalStep ==
  ASSUME StoreInv, UNCHANGED <<row, call>>,
         now' \in Nat, phase' \in [Driver -> Phase],
         beat' \in [Driver -> {"off", "on", "lost"}]
  PROVE  StoreInv'
  BY DEF StoreInv, TypeOK, LeaseShape, SnapshotFresh, CallShape

\* The effect of the claims on the row.
LEMMA ClaimedRow ==
  ASSUME StoreInv, NEW d \in Driver, Claimed(d),
         row.terminal \in {Active, "paused"}
  PROVE  /\ row' \in Row /\ row'.version > row.version /\ LeaseShape'
         /\ row'.owner = d /\ row'.node = row.node
         /\ row'.terminal = row.terminal
  <1>1. row \in Row /\ now \in Nat
    BY DEF StoreInv, TypeOK
  <1>2. /\ row'.owner = d /\ row'.node = row.node /\ row'.terminal = row.terminal
        /\ row'.version = row.version + 1 /\ row'.expires = now + LeaseSeconds
    BY <1>1 DEF Claimed, Row
  <1>a. row' = [node |-> row.node, terminal |-> row.terminal,
                version |-> row.version + 1, owner |-> d,
                expires |-> now + LeaseSeconds, updated |-> now,
                mode |-> row.mode, kinds |-> row.kinds]
    BY <1>1 DEF Claimed, Row
  <1>3. row' \in Row
    BY <1>1, <1>a, TimeAssumption DEF Row
  <1>4. LeaseShape'
    BY <1>1, <1>2, TimeAssumption, NoOwnerAssumption DEF LeaseShape
  <1> QED BY <1>1, <1>2, <1>3, <1>4 DEF Row

\* The effect of the releases on the row.
LEMMA ReleasedRow ==
  ASSUME StoreInv, Released
  PROVE  /\ row' \in Row /\ row'.version > row.version /\ LeaseShape'
         /\ row'.owner = NoOwner /\ row'.node = row.node
         /\ row'.terminal = row.terminal
  <1>1. row \in Row /\ now \in Nat
    BY DEF StoreInv, TypeOK
  <1>2. /\ row'.owner = NoOwner /\ row'.node = row.node
        /\ row'.terminal = row.terminal
        /\ row'.version = row.version + 1 /\ row'.expires = 0
    BY <1>1 DEF Released, Row
  <1>a. row' = [node |-> row.node, terminal |-> row.terminal,
                version |-> row.version + 1, owner |-> NoOwner,
                expires |-> 0, updated |-> now,
                mode |-> row.mode, kinds |-> row.kinds]
    BY <1>1 DEF Released, Row
  <1>3. row' \in Row
    BY <1>1, <1>a DEF Row
  <1> QED BY <1>1, <1>2, <1>3 DEF Row, LeaseShape

\* The read half: the snapshot is the current row.
LEMMA DecideStep ==
  ASSUME StoreInv, NEW p \in Proc, NEW op \in Op \ {"none"},
         NEW target \in LoopNode \cup Suspended \cup Final,
         NEW kinds \in Evidence, Decide(p, op, target, kinds),
         UNCHANGED <<row, now, phase, beat>>,
         op \in {"transition", "fail"} =>
           p \in Driver /\ row.owner = p /\ row.expires # 0,
         op \in {"transition", "fail", "cancel"} => row.terminal = Active,
         op = "transition" => Connected(row.node, target),
         op = "fail" => target = "failed",
         op = "cancel" => target = "cancelled",
         op \in {"reopen", "reopen_retry"} =>
           row.terminal \in Suspended /\ target \in {"plan", "execute", "evaluate"},
         op = "settle" =>
           /\ row.terminal \in Suspended
           /\ \/ target \in {"cancelled", "paused"}
              \/ row.terminal = "paused" /\ target \in {"converged", "failed"}
  PROVE  StoreInv'
  <1>1. row \in Row /\ now \in Nat /\ call \in [Proc -> Call]
    BY DEF StoreInv, TypeOK
  <1>2. Select(row) \in Snapshot
    BY <1>1 DEF Row, Select, Snapshot
  <1>3. /\ Select(row).node = row.node /\ Select(row).terminal = row.terminal
        /\ Select(row).version = row.version /\ Select(row).owner = row.owner
        /\ Select(row).expires = row.expires /\ Select(row).kinds = row.kinds
    BY DEF Select
  <1> DEFINE c == [op |-> op, target |-> target, kinds |-> kinds,
                   at |-> IF op = "fail" THEN now ELSE 0, seen |-> Select(row)]
  <1>4. c \in Call
    BY <1>1, <1>2 DEF Call
  <1>5. call' = [call EXCEPT ![p] = c]
    BY DEF Decide
  <1>6. call' \in [Proc -> Call]
    BY <1>1, <1>4, <1>5
  <1>7. TypeOK'
    BY <1>6 DEF StoreInv, TypeOK
  <1>8. LeaseShape'
    BY DEF StoreInv, LeaseShape
  <1>9. \A q \in Proc : q # p => call'[q] = call[q]
    BY <1>1, <1>5
  <1>10. call'[p].op = op /\ call'[p].target = target /\ call'[p].seen = Select(row)
    BY <1>1, <1>5
  <1>11. SnapshotFresh'
    <2> SUFFICES ASSUME NEW q \in Proc, call'[q].op # "none"
                 PROVE  /\ call'[q].seen.version <= row.version
                        /\ call'[q].seen.version = row.version =>
                             /\ call'[q].seen.node = row.node
                             /\ call'[q].seen.terminal = row.terminal
                             /\ call'[q].seen.owner = row.owner
                             /\ call'[q].seen.kinds = row.kinds
      BY DEF SnapshotFresh
    <2>1. CASE q = p
      BY <2>1, <1>1, <1>3, <1>10 DEF Row
    <2>2. CASE q # p
      BY <2>2, <1>9 DEF StoreInv, SnapshotFresh
    <2> QED BY <2>1, <2>2
  <1>12. CallShape'
    <2>1. ASSUME NEW q \in Proc, q # p PROVE call'[q] = call[q]
      BY <2>1, <1>9
    <2> QED BY <2>1, <1>3, <1>10 DEF StoreInv, CallShape
  <1> QED BY <1>7, <1>8, <1>11, <1>12 DEF StoreInv

--------------------------------------------------------------------------------
\* What is known of the row when a compare-and-swap matches: the columns that
\* the operation decided on are the current ones.
LEMMA MatchedSnapshot ==
  ASSUME StoreInv, NEW p \in Proc, call[p].op # "none", WriteMatches(p)
  PROVE  /\ row \in Row /\ now \in Nat /\ call[p] \in Call
         /\ call[p].seen \in Snapshot
         /\ call[p].seen.version = row.version
         /\ call[p].seen.node = row.node
         /\ call[p].seen.terminal = row.terminal
         /\ call[p].seen.owner = row.owner
         /\ call[p].seen.kinds = row.kinds
  BY DEF StoreInv, TypeOK, Call, WriteMatches, SameVersion, SnapshotFresh

\* A matched transition or cancel moves the active row along its edge.
LEMMA TransitionRow ==
  ASSUME StoreInv, NEW p \in Proc, call[p].op \in {"transition", "cancel"},
         WriteMatches(p), row' = TransitionWrite(p)
  PROVE  /\ row' \in Row /\ row'.version > row.version /\ LeaseShape'
         /\ row.terminal = Active
         /\ call[p].target \in LoopNode =>
              /\ row'.node = call[p].target /\ row'.terminal = Active
              /\ row'.owner = row.owner
         /\ call[p].target \notin LoopNode =>
              /\ row'.node = row.node /\ row'.terminal = call[p].target
              /\ row'.owner = NoOwner
  <1> DEFINE seen == call[p].seen
             target == call[p].target
             stops == target \in Suspended \cup Final
  <1>1. /\ row \in Row /\ now \in Nat /\ call[p] \in Call /\ seen \in Snapshot
        /\ seen.version = row.version /\ seen.node = row.node
        /\ seen.terminal = row.terminal /\ seen.owner = row.owner
    BY MatchedSnapshot
  <1>2. target \in LoopNode \cup Suspended \cup Final
    BY <1>1 DEF Call
  <1>3. row' = [node     |-> IF stops THEN seen.node ELSE target,
                terminal |-> IF stops THEN target ELSE Active,
                version  |-> seen.version + 1,
                owner    |-> IF stops THEN NoOwner ELSE seen.owner,
                expires  |-> IF stops THEN 0 ELSE seen.expires,
                updated  |-> now,
                mode     |-> row.mode,
                kinds    |-> call[p].kinds]
    BY <1>1 DEF TransitionWrite, Row
  <1>4. row.terminal = Active
    BY <1>1 DEF StoreInv, CallShape
  <1>5. CASE stops
    <2>1. target \notin LoopNode /\ target \in TerminalState
      BY <1>5, Vocabulary DEF TerminalState
    <2>2. row' \in Row
      BY <1>1, <1>3, <1>5, <2>1 DEF Row, Call, Snapshot
    <2> QED BY <1>1, <1>3, <1>4, <1>5, <2>1, <2>2 DEF LeaseShape, Row
  <1>6. CASE ~stops
    <2>1. target \in LoopNode /\ Active \in TerminalState
      BY <1>2, <1>6 DEF TerminalState
    <2>2. row' \in Row
      BY <1>1, <1>3, <1>6, <2>1 DEF Row, Call, Snapshot
    <2>3. call[p].op = "transition"
      <3>1. call[p].op = "cancel" => target = "cancelled"
        BY DEF StoreInv, CallShape
      <3> QED BY <3>1, <1>6 DEF Final
    <2>4. seen.owner = p /\ p \in Driver /\ seen.expires # 0
      BY <2>3 DEF StoreInv, CallShape
    <2>5. LeaseShape'
      BY <1>1, <1>3, <1>6, <2>4, NoOwnerAssumption DEF LeaseShape
    <2> QED BY <1>1, <1>3, <1>4, <1>6, <2>1, <2>2, <2>5 DEF Row
  <1> QED BY <1>5, <1>6

\* A matched reopening makes a suspended row active and keeps its lease.
LEMMA ReopenRow ==
  ASSUME StoreInv, NEW p \in Proc, call[p].op \in {"reopen", "reopen_retry"},
         WriteMatches(p), row' = ReopenWrite(p)
  PROVE  /\ row' \in Row /\ row'.version > row.version /\ LeaseShape'
         /\ row.terminal \in Suspended
         /\ row'.node \in {"plan", "execute", "evaluate"}
         /\ row'.terminal = Active /\ row'.owner = row.owner
  <1>1. /\ row \in Row /\ now \in Nat /\ call[p] \in Call
        /\ call[p].seen \in Snapshot
        /\ call[p].seen.version = row.version
        /\ call[p].seen.terminal = row.terminal
    BY MatchedSnapshot
  <1>2. /\ row.terminal \in Suspended
        /\ call[p].target \in {"plan", "execute", "evaluate"}
    BY <1>1 DEF StoreInv, CallShape
  <1>3. row' = [node |-> call[p].target, terminal |-> Active,
                version |-> row.version + 1, owner |-> row.owner,
                expires |-> row.expires, updated |-> now,
                mode |-> row.mode, kinds |-> row.kinds]
    BY <1>1 DEF ReopenWrite, Row
  <1>4. call[p].target \in LoopNode /\ Active \in TerminalState
    BY <1>2 DEF LoopNode, TerminalState
  <1>5. row' \in Row
    BY <1>1, <1>3, <1>4 DEF Row
  <1>6. LeaseShape'
    BY <1>3 DEF StoreInv, LeaseShape
  <1> QED BY <1>1, <1>2, <1>3, <1>5, <1>6 DEF Row

\* A matched failure or settlement stops the row and clears its lease.
LEMMA SettleRow ==
  ASSUME StoreInv, NEW p \in Proc, call[p].op \in {"fail", "settle"},
         WriteMatches(p), row' = SettleWrite(p)
  PROVE  /\ row' \in Row /\ row'.version > row.version /\ LeaseShape'
         /\ row'.node = row.node /\ row'.owner = NoOwner
         /\ row'.terminal = call[p].target
         /\ call[p].op = "fail" =>
              /\ row.terminal = Active /\ row.owner = p /\ p \in Driver
              /\ row'.terminal = "failed"
         /\ call[p].op = "settle" =>
              /\ row.terminal \in Suspended
              /\ \/ row'.terminal \in {"cancelled", "paused"}
                 \/ row.terminal = "paused" /\ row'.terminal \in {"converged", "failed"}
  <1>1. /\ row \in Row /\ now \in Nat /\ call[p] \in Call
        /\ call[p].seen \in Snapshot
        /\ call[p].seen.version = row.version
        /\ call[p].seen.terminal = row.terminal
        /\ call[p].seen.owner = row.owner
    BY MatchedSnapshot
  <1>2. /\ call[p].op = "fail" =>
             /\ row.terminal = Active /\ row.owner = p /\ p \in Driver
             /\ call[p].target = "failed"
        /\ call[p].op = "settle" =>
             /\ row.terminal \in Suspended
             /\ \/ call[p].target \in {"cancelled", "paused"}
                \/ row.terminal = "paused" /\ call[p].target \in {"converged", "failed"}
    BY <1>1 DEF StoreInv, CallShape
  <1>3. row' = [node |-> row.node, terminal |-> call[p].target,
                version |-> row.version + 1, owner |-> NoOwner,
                expires |-> 0, updated |-> now,
                mode |-> row.mode, kinds |-> row.kinds]
    BY <1>1 DEF SettleWrite, Row
  <1>4. call[p].target \in TerminalState
    BY <1>2 DEF TerminalState, Suspended, Final
  <1>5. row' \in Row
    BY <1>1, <1>3, <1>4 DEF Row
  <1> QED BY <1>1, <1>2, <1>3, <1>5 DEF Row, LeaseShape

\* The end of an operation, matched or not.
LEMMA FinishStep ==
  ASSUME StoreInv, NEW p \in Proc, NEW next \in Phase, Finish(p, next),
         \/ UNCHANGED row
         \/ row' \in Row /\ row'.version > row.version /\ LeaseShape'
  PROVE  StoreInv'
  <1>1. row \in Row /\ call \in [Proc -> Call]
    BY DEF StoreInv, TypeOK
  <1>2. call' = [call EXCEPT ![p] = NoCall]
    BY DEF Finish
  <1>3. call' \in [Proc -> Call]
    BY <1>1, <1>2, NoCallType
  <1>4. /\ phase' \in [Driver -> Phase]
        /\ beat' \in [Driver -> {"off", "on", "lost"}]
        /\ now' \in Nat
    BY DEF Finish, StoreInv, TypeOK
  <1>5. TypeOK'
    BY <1>1, <1>3, <1>4 DEF TypeOK
  <1>6. LeaseShape'
    BY DEF StoreInv, LeaseShape
  <1>7. /\ call'[p].op = "none"
        /\ \A q \in Proc : q # p => call'[q] = call[q]
    BY <1>1, <1>2, NoCallType
  <1>8. SnapshotFresh'
    <2> SUFFICES ASSUME NEW q \in Proc, call'[q].op # "none"
                 PROVE  /\ call'[q].seen.version <= row'.version
                        /\ call'[q].seen.version = row'.version =>
                             /\ call'[q].seen.node = row'.node
                             /\ call'[q].seen.terminal = row'.terminal
                             /\ call'[q].seen.owner = row'.owner
                             /\ call'[q].seen.kinds = row'.kinds
      BY DEF SnapshotFresh
    <2>1. q # p /\ call'[q] = call[q]
      BY <1>7
    <2>2. call[q].seen.version \in Nat /\ row.version \in Nat /\ row'.version \in Nat
      BY <1>1 DEF StoreInv, TypeOK, Call, Snapshot, Row
    <2> QED BY <2>1, <2>2 DEF StoreInv, SnapshotFresh
  <1>9. CallShape'
    <2> SUFFICES ASSUME NEW q \in Proc, call'[q].op # "none"
                 PROVE  call'[q] = call[q]
      BY DEF StoreInv, CallShape
    <2> QED BY <1>7
  <1> QED BY <1>5, <1>6, <1>8, <1>9 DEF StoreInv

\* The write half of every operation.
LEMMA CommitStep == ASSUME StoreInv, NEW p \in Proc, Commit(p) PROVE StoreInv'
  <1>1. AfterWrite(p) \in Phase
    BY DEF AfterWrite, Phase
  <1>2. call[p].op \in Op \ {"none"} /\ WriteMatches(p) /\ row' = Written(p)
    BY DEF Commit, StoreInv, TypeOK, Call
  <1>3. row' \in Row /\ row'.version > row.version /\ LeaseShape'
    <2>1. CASE call[p].op \in {"transition", "cancel"}
      BY <2>1, <1>2, TransitionRow DEF Written
    <2>2. CASE call[p].op \in {"reopen", "reopen_retry"}
      BY <2>2, <1>2, ReopenRow DEF Written
    <2>3. CASE call[p].op \in {"fail", "settle"}
      BY <2>3, <1>2, SettleRow DEF Written
    <2> QED BY <1>2, <2>1, <2>2, <2>3 DEF Op
  <1> QED BY <1>1, <1>3, FinishStep DEF Commit

\* The invariant holds after every step of a driver.
LEMMA DriverStepInv ==
  ASSUME StoreInv, NEW d \in Driver, DriverStep(d) PROVE StoreInv'
  <1>0. /\ row \in Row /\ now \in Nat /\ d \in Proc
        /\ phase \in [Driver -> Phase] /\ beat \in [Driver -> {"off", "on", "lost"}]
        /\ call \in [Proc -> Call]
    BY DEF StoreInv, TypeOK, Proc
  <1>1. CASE ClaimBackground(d)
    BY <1>0, <1>1, ClaimedRow, BumpStep DEF ClaimBackground, Phase
  <1>2. CASE ClaimDetached(d)
    BY <1>0, <1>2, ClaimedRow, BumpStep DEF ClaimDetached, Phase
  <1>3. CASE ListRetryable(d)
    BY <1>0, <1>3, LocalStep DEF ListRetryable, Phase
  <1>4. CASE ClaimRetryable(d)
    <2>1. phase' \in [Driver -> Phase]
      BY <1>0, <1>4 DEF ClaimRetryable, Phase
    <2>2. CASE Claimed(d) /\ row.terminal \in {Active, "paused"}
      BY <1>0, <1>4, <2>1, <2>2, ClaimedRow, BumpStep DEF ClaimRetryable
    <2>3. CASE UNCHANGED row
      BY <1>0, <1>4, <2>1, <2>3, LocalStep DEF ClaimRetryable
    <2> QED BY <1>4, <2>2, <2>3 DEF ClaimRetryable
  <1>5. CASE TakeUp(d)
    BY <1>0, <1>5, LocalStep DEF TakeUp, Phase
  <1>6. CASE Start(d)
    BY <1>0, <1>6, ClaimedRow, BumpStep DEF Start, Phase
  <1>7. CASE StartRefused(d)
    <2>1. phase' \in [Driver -> Phase]
      BY <1>0, <1>7 DEF StartRefused, Phase
    <2> QED BY <1>0, <1>7, <2>1, LocalStep DEF StartRefused
  <1>8. CASE GiveBack(d)
    BY <1>0, <1>8, ReleasedRow, BumpStep DEF GiveBack, Released, Phase
  <1>9. CASE Renew(d)
    <2>1. /\ row.owner = d /\ row.terminal = Active
          /\ row' = [node |-> row.node, terminal |-> row.terminal,
                     version |-> row.version, owner |-> row.owner,
                     expires |-> now + LeaseSeconds, updated |-> now,
                     mode |-> row.mode, kinds |-> row.kinds]
      BY <1>0, <1>9 DEF Renew, RenewLease, Row
    <2>2. row' \in Row
      BY <1>0, <2>1, TimeAssumption DEF Row
    <2>3. TypeOK'
      BY <1>0, <1>9, <2>2 DEF Renew, TypeOK
    <2>4. LeaseShape'
      BY <1>0, <2>1, TimeAssumption, NoOwnerAssumption DEF LeaseShape
    <2>5. SnapshotFresh' /\ CallShape'
      BY <1>9, <2>1 DEF Renew, StoreInv, SnapshotFresh, CallShape
    <2> QED BY <2>3, <2>4, <2>5 DEF StoreInv
  <1>10. CASE RenewRefused(d)
    BY <1>0, <1>10, LocalStep DEF RenewRefused
  <1>11. ASSUME NEW target \in LoopNode \cup Suspended \cup Final,
                NEW kinds \in Evidence, ReadTransition(d, target, kinds)
         PROVE  StoreInv'
    <2>1. Connected(row.node, target)
      BY <1>11, BaseEdgeConnected DEF ReadTransition
    <2>2. row.terminal = Active
      BY <1>0, <1>11 DEF ReadTransition, IsStopped, Row, TerminalState
    <2>3. row.expires # 0
      BY <1>0, <1>11 DEF ReadTransition, Row
    <2>4. "transition" \in Op \ {"none"}
      BY DEF Op
    <2> QED BY <1>0, <1>11, <2>1, <2>2, <2>3, <2>4, DecideStep DEF ReadTransition
  <1>12. CASE Raise(d)
    BY <1>0, <1>12, LocalStep DEF Raise, Phase
  <1>13. CASE ReturnIdle(d)
    BY <1>0, <1>13, LocalStep DEF ReturnIdle, Phase
  <1>14. CASE ReadFail(d)
    <2>1. CASE /\ ~IsStopped(row.terminal) /\ row.owner = d /\ row.expires > now
               /\ Decide(d, "fail", "failed", {}) /\ UNCHANGED phase
      <3>1. row.terminal = Active /\ row.expires # 0
        BY <1>0, <2>1 DEF IsStopped, Row, TerminalState
      <3>2. "fail" \in Op \ {"none"} /\ "failed" \in LoopNode \cup Suspended \cup Final
        BY DEF Op, Final
      <3> QED BY <1>0, <1>14, <2>1, <3>1, <3>2, EvidenceAssumption, DecideStep DEF ReadFail
    <2>2. CASE phase' = [phase EXCEPT ![d] = "stopped"] /\ UNCHANGED call
      BY <1>0, <1>14, <2>2, LocalStep DEF ReadFail, Phase
    <2> QED BY <1>14, <2>1, <2>2 DEF ReadFail
  <1>15. CASE ReadReopenRetry(d)
    <2>1. ASSUME row.terminal = "paused", UNCHANGED phase,
                 NEW target \in {"plan", "execute", "evaluate"},
                 Decide(d, "reopen_retry", target, {})
          PROVE  StoreInv'
      <3>1. row.terminal \in Suspended /\ target \in LoopNode \cup Suspended \cup Final
        BY <2>1 DEF Suspended, LoopNode
      <3>2. "reopen_retry" \in Op \ {"none"}
        BY DEF Op
      <3> QED BY <1>0, <1>15, <2>1, <3>1, <3>2, EvidenceAssumption, DecideStep
              DEF ReadReopenRetry
    <2>2. CASE phase' = [phase EXCEPT ![d] = "stopped"] /\ UNCHANGED call
      BY <1>0, <1>15, <2>2, LocalStep DEF ReadReopenRetry, Phase
    <2> QED BY <1>15, <2>1, <2>2 DEF ReadReopenRetry
  <1>16. CASE ReadReopen(d)
    <2>1. "reopen" \in Op \ {"none"} /\ "execute" \in LoopNode \cup Suspended \cup Final
      BY DEF Op, LoopNode
    <2> QED BY <1>0, <1>16, <2>1, EvidenceAssumption, DecideStep DEF ReadReopen
  <1>17. CASE Commit(d)
    BY <1>0, <1>17, CommitStep
  <1>18. CASE Conflict(d)
    <2>1. AfterConflict(d) \in Phase
      BY DEF AfterConflict, Phase
    <2> QED BY <1>0, <1>18, <2>1, FinishStep DEF Conflict
  <1>19. CASE Crash(d)
    <2>1. "crashed" \in Phase /\ Finish(d, "crashed")
      BY <1>19 DEF Crash, Finish, Phase
    <2> QED BY <1>0, <1>19, <2>1, FinishStep DEF Crash
  <1> QED BY <1>1, <1>2, <1>3, <1>4, <1>5, <1>6, <1>7, <1>8, <1>9, <1>10, <1>11,
             <1>12, <1>13, <1>14, <1>15, <1>16, <1>17, <1>18, <1>19 DEF DriverStep

\* The invariant holds after every step of a control command.
LEMMA ControllerStepInv ==
  ASSUME StoreInv, NEW c \in Controller, ControllerStep(c) PROVE StoreInv'
  <1>0. /\ row \in Row /\ now \in Nat /\ c \in Proc /\ c \notin Driver
    BY ProcAssumption DEF StoreInv, TypeOK, Proc
  <1>1. CASE ReadReopen(c)
    <2>1. "reopen" \in Op \ {"none"} /\ "execute" \in LoopNode \cup Suspended \cup Final
      BY DEF Op, LoopNode
    <2> QED BY <1>0, <1>1, <2>1, EvidenceAssumption, DecideStep DEF ReadReopen
  <1>2. CASE ReadCancel(c)
    <2>1. row.terminal = Active
      BY <1>0, <1>2 DEF ReadCancel, IsStopped, Row, TerminalState
    <2>2. "cancel" \in Op \ {"none"} /\ "cancelled" \in LoopNode \cup Suspended \cup Final
      BY DEF Op, Final
    <2>3. row.kinds \in Evidence
      BY <1>0 DEF Row
    <2> QED BY <1>0, <1>2, <2>1, <2>2, <2>3, DecideStep DEF ReadCancel
  <1>3. CASE ReadSettle(c)
    <2>1. ASSUME NEW target \in {"cancelled", "paused", "converged", "failed"},
                 Decide(c, "settle", target, {}),
                 row.terminal \in Suspended,
                 \/ target \in {"cancelled", "paused"}
                 \/ row.terminal = "paused" /\ target \in {"converged", "failed"}
          PROVE  StoreInv'
      <3>1. "settle" \in Op \ {"none"} /\ target \in LoopNode \cup Suspended \cup Final
        BY DEF Op, Final, Suspended
      <3> QED BY <1>0, <1>3, <2>1, <3>1, EvidenceAssumption, DecideStep DEF ReadSettle
    <2>2. CASE row.terminal \in Suspended /\ \E target \in {"cancelled", "paused"} :
                 Decide(c, "settle", target, {})
      BY <2>1, <2>2
    <2>3. CASE row.terminal = "paused" /\ \E target \in {"converged", "failed"} :
                 Decide(c, "settle", target, {})
      BY <2>1, <2>3 DEF Suspended
    <2> QED BY <1>3, <2>2, <2>3 DEF ReadSettle
  <1>4. CASE Commit(c)
    BY <1>0, <1>4, CommitStep
  <1>5. CASE Conflict(c)
    <2>1. AfterConflict(c) \in Phase
      BY DEF AfterConflict, Phase
    <2> QED BY <1>0, <1>5, <2>1, FinishStep DEF Conflict
  <1> QED BY <1>1, <1>2, <1>3, <1>4, <1>5 DEF ControllerStep

\* The invariant is inductive.
LEMMA NextStoreInv == StoreInv /\ [Next]_vars => StoreInv'
  <1> SUFFICES ASSUME StoreInv, [Next]_vars PROVE StoreInv'
    OBVIOUS
  <1>0. /\ row \in Row /\ now \in Nat
        /\ phase \in [Driver -> Phase] /\ beat \in [Driver -> {"off", "on", "lost"}]
    BY DEF StoreInv, TypeOK
  <1>1. CASE UNCHANGED vars
    BY <1>0, <1>1, LocalStep DEF vars
  <1>2. CASE ReleaseUnavailable
    BY <1>0, <1>2, ReleasedRow, BumpStep DEF ReleaseUnavailable
  <1>3. CASE ReleaseExpired
    BY <1>0, <1>3, ReleasedRow, BumpStep DEF ReleaseExpired
  <1>4. CASE Tick
    BY <1>0, <1>4, LocalStep DEF Tick
  <1> QED BY <1>1, <1>2, <1>3, <1>4, DriverStepInv, ControllerStepInv DEF Next

\* The row, the drivers and the pending operations are always well typed.
THEOREM TypeCorrect == Spec => []TypeOK
  <1>1. StoreInv => TypeOK
    BY DEF StoreInv
  <1> QED BY <1>1, InitStoreInv, NextStoreInv, PTL DEF Spec

\* A version that still matches vouches for every column the operations
\* decide on, in every reachable state.
THEOREM SnapshotsAreFresh == Spec => []SnapshotFresh
  <1>1. StoreInv => SnapshotFresh
    BY DEF StoreInv
  <1> QED BY <1>1, InitStoreInv, NextStoreInv, PTL DEF Spec

\* The lease columns agree with each other and with the stop state.
THEOREM LeaseColumnsAgree == Spec => []LeaseShape
  <1>1. StoreInv => LeaseShape
    BY DEF StoreInv
  <1> QED BY <1>1, InitStoreInv, NextStoreInv, PTL DEF Spec

--------------------------------------------------------------------------------
\* LoopRunAtomic speaks the same vocabulary as the store.
LEMMA SameVocabulary ==
  /\ Atomic!Active = Active /\ Atomic!LoopNode = LoopNode
  /\ Atomic!Suspended = Suspended /\ Atomic!Final = Final
  /\ \A m, n : Atomic!Connected(m, n) <=> Connected(m, n)
  BY DEF Atomic!Active, Active, Atomic!LoopNode, LoopNode, Atomic!Suspended,
     Suspended, Atomic!Final, Final, Atomic!Connected, Connected,
     Atomic!DefaultStateGraph, DefaultStateGraph, Atomic!BaseEdges, BaseEdges,
     Atomic!ControlEdges, ControlEdges

\* A matched write is one of the indivisible operations of LoopRunAtomic.
LEMMA CommitIsAtomic ==
  ASSUME StoreInv, NEW p \in Proc, Commit(p)
  PROVE  /\ row.terminal \notin Final
         /\ call[p].op \in {"transition", "fail"} =>
              row.owner = p /\ row.terminal = Active
         /\ Atomic!AtomicNext
  <1>1. call[p].op \in Op \ {"none"} /\ WriteMatches(p) /\ row' = Written(p)
    BY DEF Commit, StoreInv, TypeOK, Call
  <1>2. /\ call[p].seen.node = row.node /\ call[p].seen.owner = row.owner
        /\ call[p].target \in LoopNode \cup Suspended \cup Final
    BY <1>1, MatchedSnapshot DEF Call
  <1>3. CASE call[p].op = "transition"
    <2>1. row' = TransitionWrite(p)
      BY <1>1, <1>3 DEF Written
    <2>2. p \in Driver /\ row.owner = p /\ Connected(row.node, call[p].target)
      BY <1>2, <1>3 DEF StoreInv, CallShape
    <2>3. row.terminal = Active
      BY <1>1, <1>3, <2>1, TransitionRow
    <2>4. Atomic!Advance(p)
      <3>1. CASE call[p].target \in LoopNode
        BY <1>1, <1>3, <2>1, <2>2, <2>3, <3>1, TransitionRow, SameVocabulary DEF Atomic!Advance
      <3>2. CASE call[p].target \notin LoopNode
        BY <1>1, <1>2, <1>3, <2>1, <2>2, <2>3, <3>2, TransitionRow, SameVocabulary DEF Atomic!Advance
      <3> QED BY <3>1, <3>2
    <2> QED BY <2>2, <2>3, <2>4, Vocabulary DEF Atomic!AtomicNext
  <1>4. CASE call[p].op = "cancel"
    <2>1. row' = TransitionWrite(p)
      BY <1>1, <1>4 DEF Written
    <2>2. call[p].target = "cancelled" /\ call[p].target \notin LoopNode
      BY <1>4 DEF StoreInv, CallShape, LoopNode
    <2>3. Atomic!Cancel
      BY <1>1, <1>4, <2>1, <2>2, TransitionRow, SameVocabulary DEF Atomic!Cancel
    <2> QED BY <1>4, <2>3, Vocabulary, SameVocabulary DEF Atomic!AtomicNext, Atomic!Cancel
  <1>5. CASE call[p].op \in {"reopen", "reopen_retry"}
    <2>1. row' = ReopenWrite(p)
      BY <1>1, <1>5 DEF Written
    <2>2. Atomic!Resume
      BY <1>1, <1>5, <2>1, ReopenRow, SameVocabulary DEF Atomic!Resume
    <2> QED BY <1>5, <2>2, Vocabulary, SameVocabulary DEF Atomic!AtomicNext, Atomic!Resume
  <1>6. CASE call[p].op = "fail"
    <2>1. row' = SettleWrite(p)
      BY <1>1, <1>6 DEF Written
    <2>2. Atomic!Fail(p) /\ p \in Driver
      BY <1>1, <1>6, <2>1, SettleRow, SameVocabulary DEF Atomic!Fail
    <2> QED BY <1>6, <2>2, Vocabulary, SameVocabulary DEF Atomic!AtomicNext, Atomic!Fail
  <1>7. CASE call[p].op = "settle"
    <2>1. row' = SettleWrite(p)
      BY <1>1, <1>7 DEF Written
    <2>2. Atomic!Settle
      BY <1>1, <1>7, <2>1, SettleRow, SameVocabulary DEF Atomic!Settle
    <2> QED BY <1>7, <2>2, Vocabulary, SameVocabulary DEF Atomic!AtomicNext, Atomic!Settle
  <1> QED BY <1>1, <1>3, <1>4, <1>5, <1>6, <1>7 DEF Op

\* Every step is an indivisible operation or leaves the three columns alone,
\* and no step touches a final row.
LEMMA StepIsAtomic ==
  ASSUME StoreInv, [Next]_vars
  PROVE  /\ [Atomic!AtomicNext]_(Atomic!avars)
         /\ row.terminal \in Final => row' = row
  <1>0. /\ row \in Row /\ now \in Nat /\ LeaseShape
    BY DEF StoreInv, TypeOK
  <1> DEFINE Goal == /\ [Atomic!AtomicNext]_(Atomic!avars)
                     /\ row.terminal \in Final => row' = row
  <1>1. ASSUME UNCHANGED row PROVE Goal
    BY <1>1 DEF Atomic!avars
  <1>2. ASSUME NEW d \in Driver, Claimed(d), row.terminal \in {Active, "paused"}
        PROVE  Goal
    <2>1. Atomic!Claim(d)
      BY <1>2, ClaimedRow, SameVocabulary DEF Atomic!Claim
    <2>2. row.terminal \notin Final
      BY <1>2 DEF Active, Final
    <2> QED BY <1>2, <2>1, <2>2 DEF Atomic!AtomicNext
  <1>3. ASSUME Released, row.owner # NoOwner PROVE Goal
    <2>1. row.terminal \in {Active, "paused"}
      BY <1>0, <1>3 DEF LeaseShape
    <2>2. Atomic!Release
      BY <1>3, <2>1, ReleasedRow, SameVocabulary DEF Atomic!Release
    <2>3. row.terminal \notin Final
      BY <2>1 DEF Active, Final
    <2> QED BY <2>2, <2>3 DEF Atomic!AtomicNext
  <1>4. ASSUME NEW d \in Driver, Renew(d) PROVE Goal
    <2>1. /\ row'.node = row.node /\ row'.terminal = row.terminal
          /\ row'.owner = row.owner /\ row.terminal = Active
      BY <1>0, <1>4 DEF Renew, RenewLease, Row
    <2> QED BY <2>1, Vocabulary DEF Atomic!avars
  <1>5. ASSUME NEW p \in Proc, Commit(p) PROVE Goal
    BY <1>5, CommitIsAtomic
  <1>6. ASSUME NEW d \in Driver, DriverStep(d) PROVE Goal
    <2>1. d \in Proc /\ d # NoOwner
      BY NoOwnerAssumption DEF Proc
    <2>2. CASE ClaimBackground(d) \/ ClaimDetached(d) \/ ClaimRetryable(d) \/ Start(d)
      BY <1>1, <1>2, <2>2 DEF ClaimBackground, ClaimDetached, ClaimRetryable, Start
    <2>3. CASE GiveBack(d)
      BY <1>3, <2>1, <2>3 DEF GiveBack, Released
    <2>4. CASE Renew(d) \/ Commit(d)
      BY <1>4, <1>5, <2>1, <2>4
    <2>5. ASSUME NEW target, NEW kinds, ReadTransition(d, target, kinds) PROVE Goal
      BY <1>1, <2>5 DEF ReadTransition
    <2>6. CASE \/ ListRetryable(d) \/ TakeUp(d) \/ StartRefused(d) \/ RenewRefused(d)
               \/ Raise(d) \/ ReturnIdle(d) \/ ReadFail(d) \/ ReadReopenRetry(d)
               \/ ReadReopen(d) \/ Conflict(d) \/ Crash(d)
      BY <1>1, <2>6 DEF ListRetryable, TakeUp, StartRefused, RenewRefused, Raise,
         ReturnIdle, ReadFail, ReadReopenRetry, ReadReopen, Conflict, Crash
    <2> HIDE DEF Goal
    <2> QED BY <1>6, <2>2, <2>3, <2>4, <2>5, <2>6 DEF DriverStep
  <1>7. ASSUME NEW c \in Controller, ControllerStep(c) PROVE Goal
    BY <1>1, <1>5, <1>7 DEF ControllerStep, ReadReopen, ReadCancel, ReadSettle,
       Conflict, Proc
  <1>8. ASSUME ReleaseUnavailable \/ ReleaseExpired PROVE Goal
    BY <1>3, <1>8 DEF ReleaseUnavailable, ReleaseExpired
  <1>9. ASSUME Tick \/ UNCHANGED vars PROVE Goal
    BY <1>1, <1>9 DEF Tick, vars
  <1> HIDE DEF Goal
  <1>10. Goal
    BY <1>6, <1>7, <1>8, <1>9 DEF Next
  <1> QED BY <1>10 DEF Goal

\* The store implements the indivisible operations of LoopRunAtomic: a split
\* read and write never behaves otherwise than one step.
THEOREM StoreIsAtomic == Spec => ImplementsAtomic
  <1>1. Init => Atomic!AtomicInit
    BY SameVocabulary DEF Init, Atomic!AtomicInit, CreatedRow
  <1>2. StoreInv /\ [Next]_vars => [Atomic!AtomicNext]_(Atomic!avars)
    BY StepIsAtomic
  <1> QED BY <1>1, <1>2, InitStoreInv, NextStoreInv, PTL
          DEF Spec, ImplementsAtomic, Atomic!AtomicSpec

\* A final LoopRun is never written again.
THEOREM FinalRowsAreForever == Spec => FinalIsForever
  <1>1. StoreInv /\ [Next]_vars => [row.terminal \in Final => row' = row]_vars
    BY StepIsAtomic
  <1> QED BY <1>1, InitStoreInv, NextStoreInv, PTL DEF Spec, FinalIsForever

\* A driver's pending operation ends with a changed row only by its own commit.
LEMMA OwnCommit ==
  ASSUME StoreInv, [Next]_vars, NEW d \in Driver,
         call[d].op # "none", call'[d].op = "none", row' # row
  PROVE  Commit(d)
  <1>0. call \in [Proc -> Call] /\ d \in Proc
    BY DEF StoreInv, TypeOK, Proc
  <1>1. call'[d] # call[d]
    OBVIOUS
  <1>2. ASSUME NEW p \in Proc, Commit(p) PROVE Commit(d)
    <2>1. call' = [call EXCEPT ![p] = NoCall]
      BY <1>2 DEF Commit, Finish
    <2>2. p = d
      BY <1>0, <1>1, <1>2, <2>1
    <2> QED BY <1>2, <2>2
  <1>3. ASSUME NEW e \in Driver, DriverStep(e) PROVE Commit(d)
    <2>1. CASE \/ ClaimBackground(e) \/ ClaimDetached(e) \/ ListRetryable(e)
               \/ ClaimRetryable(e) \/ TakeUp(e) \/ Start(e) \/ StartRefused(e)
               \/ GiveBack(e) \/ Renew(e) \/ RenewRefused(e) \/ Raise(e)
               \/ ReturnIdle(e)
      BY <1>1, <2>1 DEF ClaimBackground, ClaimDetached, ListRetryable,
         ClaimRetryable, TakeUp, Start, StartRefused, GiveBack, Renew,
         RenewRefused, Raise, ReturnIdle
    <2>2. ASSUME NEW target, NEW kinds, ReadTransition(e, target, kinds) PROVE FALSE
      BY <2>2 DEF ReadTransition
    <2>3. CASE \/ ReadFail(e) \/ ReadReopenRetry(e) \/ ReadReopen(e)
               \/ Conflict(e) \/ Crash(e)
      BY <2>3 DEF ReadFail, ReadReopenRetry, ReadReopen, Conflict, Crash
    <2>4. CASE Commit(e)
      BY <1>2, <2>4 DEF Proc
    <2> QED BY <1>3, <2>1, <2>2, <2>3, <2>4 DEF DriverStep
  <1>4. ASSUME NEW c \in Controller, ControllerStep(c) PROVE Commit(d)
    BY <1>2, <1>4 DEF ControllerStep, ReadReopen, ReadCancel, ReadSettle,
       Conflict, Proc
  <1>5. CASE ReleaseUnavailable \/ ReleaseExpired \/ Tick
    BY <1>1, <1>5 DEF ReleaseUnavailable, ReleaseExpired, Tick
  <1>6. CASE UNCHANGED vars
    BY <1>1, <1>6 DEF vars
  <1> QED BY <1>3, <1>4, <1>5, <1>6 DEF Next

\* Only the driver the row names as its owner advances or fails the loop.
THEOREM HolderAdvances == Spec => OnlyHolderAdvances
  <1>1. ASSUME StoreInv, [Next]_vars
        PROVE  [\A d \in Driver :
                  (/\ call[d].op \in {"transition", "fail"}
                   /\ call'[d].op = "none"
                   /\ row' # row) => row.owner = d /\ row.terminal = Active]_vars
    <2>1. ASSUME NEW d \in Driver, call[d].op \in {"transition", "fail"},
                 call'[d].op = "none", row' # row
          PROVE  row.owner = d /\ row.terminal = Active
      <3>1. Commit(d)
        BY <1>1, <2>1, OwnCommit
      <3> QED BY <1>1, <2>1, <3>1, CommitIsAtomic DEF Proc
    <2> QED BY <2>1
  <1> QED BY <1>1, InitStoreInv, NextStoreInv, PTL DEF Spec, OnlyHolderAdvances

\* What a driver may lose its unexpired lease by while the loop stays active:
\* its own stop, or the release after its crash.
Surrendered(d) ==
  (/\ row.owner = d /\ row.terminal = Active /\ row.expires > now
   /\ row'.owner # d /\ row'.terminal = Active)
  => phase[d] = "crashed" \/ phase'[d] = "stopped"

\* A matched write keeps the owner of a row that was active and stays it: the
\* snapshot it restores the lease from is the row's own.
LEMMA CommitKeepsOwner ==
  ASSUME StoreInv, NEW p \in Proc, Commit(p),
         row.terminal = Active, row'.terminal = Active
  PROVE  row'.owner = row.owner
  <1>1. call[p].op \in Op \ {"none"} /\ WriteMatches(p) /\ row' = Written(p)
    BY DEF Commit, StoreInv, TypeOK, Call
  <1>2. /\ Active \notin Suspended \cup Final
        /\ call[p].target \in LoopNode \cup Suspended \cup Final
    BY <1>1, Vocabulary, MatchedSnapshot DEF Call
  <1>3. CASE call[p].op \in {"transition", "cancel"}
    <2>1. row' = TransitionWrite(p)
      BY <1>1, <1>3 DEF Written
    <2> QED BY <1>1, <1>2, <1>3, <2>1, TransitionRow
  <1>4. CASE call[p].op \in {"reopen", "reopen_retry"}
    BY <1>1, <1>4, ReopenRow DEF Written
  <1>5. CASE call[p].op \in {"fail", "settle"}
    <2>1. row' = SettleWrite(p)
      BY <1>1, <1>5 DEF Written
    <2> QED BY <1>1, <1>2, <1>5, <2>1, SettleRow DEF Active, Suspended
  <1> QED BY <1>1, <1>3, <1>4, <1>5 DEF Op

\* No step takes an unexpired lease from a live driver.
LEMMA StepSurrenders ==
  ASSUME StoreInv, [Next]_vars, NEW d \in Driver
  PROVE  Surrendered(d)
  <1>0. /\ row \in Row /\ now \in Nat /\ LeaseShape
        /\ phase \in [Driver -> Phase] /\ d # NoOwner /\ d \in Proc
    BY NoOwnerAssumption DEF StoreInv, TypeOK, Proc
  <1>1. ASSUME UNCHANGED row PROVE Surrendered(d)
    BY <1>1 DEF Surrendered
  <1>2. ASSUME NEW e \in Driver, Claimable(e), Claimed(e) PROVE Surrendered(d)
    <2>1. row'.owner = e
      BY <1>0, <1>2 DEF Claimed, Row
    <2>2. row.owner = d /\ row.expires > now => e = d
      BY <1>0, <1>2 DEF Claimable, Row
    <2> QED BY <2>1, <2>2 DEF Surrendered
  <1>3. ASSUME NEW e \in Driver, GiveBack(e) PROVE Surrendered(d)
    BY <1>0, <1>3 DEF GiveBack, Surrendered
  <1>4. ASSUME NEW e \in Driver, Renew(e) PROVE Surrendered(d)
    <2>1. row'.owner = row.owner
      BY <1>0, <1>4 DEF Renew, RenewLease, Row
    <2> QED BY <2>1 DEF Surrendered
  <1>5. ASSUME NEW p \in Proc, Commit(p) PROVE Surrendered(d)
    BY <1>5, CommitKeepsOwner DEF Surrendered
  <1>6. ASSUME NEW e \in Driver, DriverStep(e) PROVE Surrendered(d)
    <2>1. CASE ClaimBackground(e) \/ ClaimDetached(e) \/ ClaimRetryable(e) \/ Start(e)
      BY <1>1, <1>2, <2>1 DEF ClaimBackground, ClaimDetached, ClaimRetryable, Start
    <2>2. CASE GiveBack(e) \/ Renew(e) \/ Commit(e)
      BY <1>3, <1>4, <1>5, <2>2 DEF Proc
    <2>3. ASSUME NEW target, NEW kinds, ReadTransition(e, target, kinds)
          PROVE  Surrendered(d)
      BY <1>1, <2>3 DEF ReadTransition
    <2>4. CASE \/ ListRetryable(e) \/ TakeUp(e) \/ StartRefused(e) \/ RenewRefused(e)
               \/ Raise(e) \/ ReturnIdle(e) \/ ReadFail(e) \/ ReadReopenRetry(e)
               \/ ReadReopen(e) \/ Conflict(e) \/ Crash(e)
      BY <1>1, <2>4 DEF ListRetryable, TakeUp, StartRefused, RenewRefused, Raise,
         ReturnIdle, ReadFail, ReadReopenRetry, ReadReopen, Conflict, Crash
    <2> QED BY <1>6, <2>1, <2>2, <2>3, <2>4 DEF DriverStep
  <1>7. ASSUME NEW c \in Controller, ControllerStep(c) PROVE Surrendered(d)
    BY <1>1, <1>5, <1>7 DEF ControllerStep, ReadReopen, ReadCancel, ReadSettle,
       Conflict, Proc
  <1>8. CASE ReleaseUnavailable
    BY <1>8 DEF ReleaseUnavailable, Surrendered
  <1>9. CASE ReleaseExpired
    BY <1>0, <1>9 DEF ReleaseExpired, Surrendered, Row
  <1>10. CASE Tick \/ UNCHANGED vars
    BY <1>1, <1>10 DEF Tick, vars
  <1> QED BY <1>6, <1>7, <1>8, <1>9, <1>10 DEF Next

\* Claims and reconciliation take an active loop only from a driver whose lease
\* has expired or whose process is gone; else the driver gives it up itself.
THEOREM LeasesAreNotStolen == Spec => LeaseNotStolen
  <1>1. StoreInv /\ [Next]_vars => [\A d \in Driver : Surrendered(d)]_vars
    BY StepSurrenders
  <1> QED BY <1>1, InitStoreInv, NextStoreInv, PTL
          DEF Spec, LeaseNotStolen, Surrendered

================================================================================
