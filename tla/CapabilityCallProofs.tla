------------------------ MODULE CapabilityCallProofs -------------------------
(***************************************************************************)
(* Theorems about the two ledgers a capability call goes through: the      *)
(* effect journal, for any number of calls and any lease length, and the   *)
(* resource ledger, for any drivers, grants and limits.                    *)
(***************************************************************************)
EXTENDS EffectJournal, ResourceLedger, FiniteSetTheorems, TLAPS

-----------------------------------------------------------------------------
(* The effect journal.                                                      *)

\* The journal starts empty.
LEMMA InitJournalInv == Init => JournalInv
  BY NoCallAssumption DEF Init, JournalInv, TypeOK, Row, NoRow, Status, Result,
     Reply, PC,
     HolderIsRecorded, Holding, CallHistory, CompletedByOwner, SuccessIsAccounted

\* fail() and an expired reservation keep the row a row.
LEMMA MarkedRow ==
  ASSUME row \in Row, row' = [row EXCEPT !.status = "uncertain", !.expires = 0]
  PROVE  row' \in Row
  <1>1. row' = [status |-> "uncertain", owner |-> row.owner, expires |-> 0,
                result |-> row.result]
    BY DEF Row
  <1> QED BY <1>1 DEF Row, Status

\* Every step of one invocation keeps the invariant.
LEMMA CallKeepsJournalInv ==
  ASSUME JournalInv, NEW c \in Call, Step(c) \/ Crash(c)
  PROVE  JournalInv'
  <1> USE NoCallAssumption, LeaseAssumption
  <1>0. TypeOK /\ HolderIsRecorded /\ CallHistory /\ CompletedByOwner /\ SuccessIsAccounted
    BY DEF JournalInv
  <1> SUFFICES /\ TypeOK' /\ HolderIsRecorded' /\ CallHistory' /\ CompletedByOwner'
               /\ SuccessIsAccounted'
    BY DEF JournalInv
  <1> USE <1>0
  <1>1. CASE Reserve(c) /\ ReserveNew(c)
    <2>1. TypeOK'
      BY <1>1 DEF Reserve, ReserveNew, TypeOK, Row, NoRow, Status, Result, Reply, PC
    <2>2. HolderIsRecorded'
      BY <1>1 DEF Reserve, ReserveNew, TypeOK, Row, NoRow, HolderIsRecorded,
         Holding, CallHistory
    <2>3. CallHistory'
      BY <1>1 DEF Reserve, ReserveNew, TypeOK, CallHistory
    <2>4. CompletedByOwner'
      BY <1>1 DEF Reserve, ReserveNew, TypeOK, Row, NoRow, HolderIsRecorded,
         Holding, CallHistory, CompletedByOwner
    <2>5. SuccessIsAccounted'
      BY <1>1 DEF Reserve, ReserveNew, TypeOK, Row, NoRow, HolderIsRecorded,
         Holding, CallHistory, CompletedByOwner, SuccessIsAccounted
    <2> QED BY <2>1, <2>2, <2>3, <2>4, <2>5
  <1>2. CASE Reserve(c) /\ ReserveReplay(c)
    <2>1. TypeOK'
      BY <1>2 DEF Reserve, ReserveReplay, Return, TypeOK, Row, NoRow, Status,
         Result, Reply, PC
    <2>2. HolderIsRecorded'
      BY <1>2 DEF Reserve, ReserveReplay, Return, TypeOK, Row, NoRow,
         HolderIsRecorded, Holding, CallHistory
    <2>3. CallHistory'
      BY <1>2 DEF Reserve, ReserveReplay, Return, TypeOK, CallHistory
    <2>4. CompletedByOwner'
      BY <1>2 DEF Reserve, ReserveReplay, Return, TypeOK, Row, NoRow,
         HolderIsRecorded, Holding, CallHistory, CompletedByOwner
    <2>5. SuccessIsAccounted'
      BY <1>2 DEF Reserve, ReserveReplay, Return, TypeOK, Row, NoRow,
         HolderIsRecorded, Holding, CallHistory, CompletedByOwner,
         SuccessIsAccounted
    <2> QED BY <2>1, <2>2, <2>3, <2>4, <2>5
  <1>3. CASE Reserve(c) /\ ReserveBusy(c)
    <2>1. TypeOK'
      BY <1>3 DEF Reserve, ReserveBusy, Return, TypeOK, Row, NoRow, Status,
         Result, Reply, PC
    <2>2. HolderIsRecorded'
      BY <1>3 DEF Reserve, ReserveBusy, Return, TypeOK, Row, NoRow,
         HolderIsRecorded, Holding, CallHistory
    <2>3. CallHistory'
      BY <1>3 DEF Reserve, ReserveBusy, Return, TypeOK, CallHistory
    <2>4. CompletedByOwner'
      BY <1>3 DEF Reserve, ReserveBusy, Return, TypeOK, Row, NoRow,
         HolderIsRecorded, Holding, CallHistory, CompletedByOwner
    <2>5. SuccessIsAccounted'
      BY <1>3 DEF Reserve, ReserveBusy, Return, TypeOK, Row, NoRow,
         HolderIsRecorded, Holding, CallHistory, CompletedByOwner,
         SuccessIsAccounted
    <2> QED BY <2>1, <2>2, <2>3, <2>4, <2>5
  <1>4. CASE Reserve(c) /\ ReserveUncertain(c)
    <2>1. TypeOK'
      <3>1. row' \in Row
        <4>1. CASE row' = row
          BY <4>1 DEF TypeOK
        <4>2. CASE row' = [row EXCEPT !.status = "uncertain", !.expires = 0]
          BY <4>2, MarkedRow DEF TypeOK
        <4> QED BY <1>4, <4>1, <4>2 DEF ReserveUncertain
      <3> QED BY <1>4, <3>1 DEF Reserve, ReserveUncertain, Return, TypeOK, Reply, PC
    <2>2. HolderIsRecorded'
      BY <1>4 DEF Reserve, ReserveUncertain, Return, TypeOK, Row, NoRow,
         HolderIsRecorded, Holding, CallHistory
    <2>3. CallHistory'
      BY <1>4 DEF Reserve, ReserveUncertain, Return, TypeOK, CallHistory
    <2>4. CompletedByOwner'
      BY <1>4 DEF Reserve, ReserveUncertain, Return, TypeOK, Row, NoRow,
         HolderIsRecorded, Holding, CallHistory, CompletedByOwner
    <2>5. SuccessIsAccounted'
      BY <1>4 DEF Reserve, ReserveUncertain, Return, TypeOK, Row, NoRow,
         HolderIsRecorded, Holding, CallHistory, CompletedByOwner,
         SuccessIsAccounted
    <2> QED BY <2>1, <2>2, <2>3, <2>4, <2>5
  <1>5. CASE GrantDenied(c)
    <2>1. TypeOK'
      BY <1>5 DEF GrantDenied, Abandon, Owns, Return, TypeOK, Row, NoRow, Status,
         Result, Reply, PC
    <2>2. HolderIsRecorded'
      BY <1>5 DEF GrantDenied, Abandon, Owns, Return, TypeOK, Row, NoRow,
         HolderIsRecorded, Holding, CallHistory
    <2>3. CallHistory'
      BY <1>5 DEF GrantDenied, Abandon, Owns, Return, TypeOK, CallHistory
    <2>4. CompletedByOwner'
      BY <1>5 DEF GrantDenied, Abandon, Owns, Return, TypeOK, Row, NoRow,
         HolderIsRecorded, Holding, CallHistory, CompletedByOwner
    <2>5. SuccessIsAccounted'
      BY <1>5 DEF GrantDenied, Abandon, Owns, Return, TypeOK, Row, NoRow,
         HolderIsRecorded, Holding, CallHistory, CompletedByOwner,
         SuccessIsAccounted
    <2> QED BY <2>1, <2>2, <2>3, <2>4, <2>5
  <1>6. CASE ReserveAudit(c)
    <2>1. TypeOK'
      BY <1>6 DEF ReserveAudit, TypeOK, Row, NoRow, Status, Result, Reply, PC
    <2>2. HolderIsRecorded'
      BY <1>6 DEF ReserveAudit, TypeOK, Row, NoRow, HolderIsRecorded, Holding,
         CallHistory
    <2>3. CallHistory'
      BY <1>6 DEF ReserveAudit, TypeOK, CallHistory
    <2>4. CompletedByOwner'
      BY <1>6 DEF ReserveAudit, TypeOK, Row, NoRow, HolderIsRecorded, Holding,
         CallHistory, CompletedByOwner
    <2>5. SuccessIsAccounted'
      BY <1>6 DEF ReserveAudit, TypeOK, Row, NoRow, HolderIsRecorded, Holding,
         CallHistory, CompletedByOwner, SuccessIsAccounted
    <2> QED BY <2>1, <2>2, <2>3, <2>4, <2>5
  <1>7. CASE AuditUnavailable(c)
    <2>1. TypeOK'
      BY <1>7 DEF AuditUnavailable, Abandon, Owns, Return, TypeOK, Row, NoRow,
         Status, Result, Reply, PC
    <2>2. HolderIsRecorded'
      BY <1>7 DEF AuditUnavailable, Abandon, Owns, Return, TypeOK, Row, NoRow,
         HolderIsRecorded, Holding, CallHistory
    <2>3. CallHistory'
      BY <1>7 DEF AuditUnavailable, Abandon, Owns, Return, TypeOK, CallHistory
    <2>4. CompletedByOwner'
      BY <1>7 DEF AuditUnavailable, Abandon, Owns, Return, TypeOK, Row, NoRow,
         HolderIsRecorded, Holding, CallHistory, CompletedByOwner
    <2>5. SuccessIsAccounted'
      BY <1>7 DEF AuditUnavailable, Abandon, Owns, Return, TypeOK, Row, NoRow,
         HolderIsRecorded, Holding, CallHistory, CompletedByOwner,
         SuccessIsAccounted
    <2> QED BY <2>1, <2>2, <2>3, <2>4, <2>5
  <1>8. CASE Perform(c)
    <2>1. TypeOK'
      BY <1>8 DEF Perform, TypeOK, Row, NoRow, Status, Result, Reply, PC
    <2>2. HolderIsRecorded'
      BY <1>8 DEF Perform, TypeOK, Row, NoRow, HolderIsRecorded, Holding,
         CallHistory
    <2>3. CallHistory'
      BY <1>8 DEF Perform, TypeOK, CallHistory
    <2>4. CompletedByOwner'
      BY <1>8 DEF Perform, TypeOK, Row, NoRow, HolderIsRecorded, Holding,
         CallHistory, CompletedByOwner
    <2>5. SuccessIsAccounted'
      BY <1>8 DEF Perform, TypeOK, Row, NoRow, HolderIsRecorded, Holding,
         CallHistory, CompletedByOwner, SuccessIsAccounted
    <2> QED BY <2>1, <2>2, <2>3, <2>4, <2>5
  <1>9. CASE HandlerReturns(c)
    <2>1. TypeOK'
      BY <1>9 DEF HandlerReturns, TypeOK, Row, NoRow, Status, Result, Reply, PC
    <2>2. HolderIsRecorded'
      BY <1>9 DEF HandlerReturns, TypeOK, Row, NoRow, HolderIsRecorded, Holding,
         CallHistory
    <2>3. CallHistory'
      BY <1>9 DEF HandlerReturns, TypeOK, CallHistory
    <2>4. CompletedByOwner'
      BY <1>9 DEF HandlerReturns, TypeOK, Row, NoRow, HolderIsRecorded, Holding,
         CallHistory, CompletedByOwner
    <2>5. SuccessIsAccounted'
      BY <1>9 DEF HandlerReturns, TypeOK, Row, NoRow, HolderIsRecorded, Holding,
         CallHistory, CompletedByOwner, SuccessIsAccounted
    <2> QED BY <2>1, <2>2, <2>3, <2>4, <2>5
  <1>10. CASE HandlerRaises(c)
    <2>1. TypeOK'
      BY <1>10 DEF HandlerRaises, MarkUncertain, Owns, TypeOK, Row, NoRow,
         Status, Result, Reply, PC
    <2>2. HolderIsRecorded'
      BY <1>10 DEF HandlerRaises, MarkUncertain, Owns, TypeOK, Row, NoRow,
         HolderIsRecorded, Holding, CallHistory
    <2>3. CallHistory'
      BY <1>10 DEF HandlerRaises, MarkUncertain, Owns, TypeOK, CallHistory
    <2>4. CompletedByOwner'
      BY <1>10 DEF HandlerRaises, MarkUncertain, Owns, TypeOK, Row, NoRow,
         HolderIsRecorded, Holding, CallHistory, CompletedByOwner
    <2>5. SuccessIsAccounted'
      BY <1>10 DEF HandlerRaises, MarkUncertain, Owns, TypeOK, Row, NoRow,
         HolderIsRecorded, Holding, CallHistory, CompletedByOwner,
         SuccessIsAccounted
    <2> QED BY <2>1, <2>2, <2>3, <2>4, <2>5
  <1>11. CASE CompleteAudit(c)
    <2>1. TypeOK'
      BY <1>11 DEF CompleteAudit, TypeOK, Row, NoRow, Status, Result, Reply, PC
    <2>2. HolderIsRecorded'
      BY <1>11 DEF CompleteAudit, TypeOK, Row, NoRow, HolderIsRecorded, Holding,
         CallHistory
    <2>3. CallHistory'
      BY <1>11 DEF CompleteAudit, TypeOK, CallHistory
    <2>4. CompletedByOwner'
      BY <1>11 DEF CompleteAudit, TypeOK, Row, NoRow, HolderIsRecorded, Holding,
         CallHistory, CompletedByOwner
    <2>5. SuccessIsAccounted'
      BY <1>11 DEF CompleteAudit, TypeOK, Row, NoRow, HolderIsRecorded, Holding,
         CallHistory, CompletedByOwner, SuccessIsAccounted
    <2> QED BY <2>1, <2>2, <2>3, <2>4, <2>5
  <1>12. CASE AuditCompletionFails(c)
    <2>1. TypeOK'
      <3>1. row' \in Row
        BY <1>12, MarkedRow DEF AuditCompletionFails, MarkUncertain, TypeOK
      <3> QED BY <1>12, <3>1 DEF AuditCompletionFails, Return, TypeOK, Result,
      Reply, PC
    <2>2. HolderIsRecorded'
      BY <1>12 DEF AuditCompletionFails, MarkUncertain, Owns, Return, TypeOK,
         Row, NoRow, HolderIsRecorded, Holding, CallHistory
    <2>3. CallHistory'
      BY <1>12 DEF AuditCompletionFails, MarkUncertain, Owns, Return, TypeOK,
         CallHistory
    <2>4. CompletedByOwner'
      BY <1>12 DEF AuditCompletionFails, MarkUncertain, Owns, Return, TypeOK,
         Row, NoRow, HolderIsRecorded, Holding, CallHistory, CompletedByOwner
    <2>5. SuccessIsAccounted'
      BY <1>12 DEF AuditCompletionFails, MarkUncertain, Owns, Return, TypeOK,
         Row, NoRow, HolderIsRecorded, Holding, CallHistory, CompletedByOwner,
         SuccessIsAccounted
    <2> QED BY <2>1, <2>2, <2>3, <2>4, <2>5
  <1>13. CASE Complete(c) /\ Owns(c)
    <2>1. /\ row' = [status |-> "completed", owner |-> c, expires |-> 0,
                    result |-> outcome[c]]
          /\ pc' = [pc EXCEPT ![c] = "done"]
          /\ reply' = [reply EXCEPT ![c] = outcome[c]]
          /\ pc[c] = "recording"
          /\ UNCHANGED <<now, tool, audit, outcome, performed>>
      BY <1>13 DEF Complete, Record, Owns, Return, TypeOK, Row
    <2>2. outcome[c] \in Result \cup {"none"}
      BY DEF TypeOK
    <2>3. TypeOK'
      BY <2>1, <2>2 DEF TypeOK, Row, Status, Result, Reply, PC
    <2>4. HolderIsRecorded' /\ CallHistory'
      BY <2>1 DEF TypeOK, HolderIsRecorded, Holding, CallHistory
    <2>5. CompletedByOwner'
      BY <2>1 DEF TypeOK, CallHistory, CompletedByOwner
    <2>6. row.status = "active"
      BY <1>13 DEF Owns
    <2>7. SuccessIsAccounted'
      BY <2>1, <2>6 DEF TypeOK, CallHistory, SuccessIsAccounted
    <2> QED BY <2>3, <2>4, <2>5, <2>7
  <1>14. CASE Complete(c) /\ ~Owns(c)
    <2>1. TypeOK'
      BY <1>14 DEF Complete, Record, Return, TypeOK, Row, NoRow, Status, Result,
         Reply, PC
    <2>2. HolderIsRecorded'
      BY <1>14 DEF Complete, Record, Return, TypeOK, Row, NoRow,
         HolderIsRecorded, Holding, CallHistory
    <2>3. CallHistory'
      BY <1>14 DEF Complete, Record, Return, TypeOK, CallHistory
    <2>4. CompletedByOwner'
      BY <1>14 DEF Complete, Record, Return, TypeOK, Row, NoRow,
         HolderIsRecorded, Holding, CallHistory, CompletedByOwner
    <2>5. SuccessIsAccounted'
      BY <1>14 DEF Complete, Record, Return, TypeOK, Row, NoRow,
         HolderIsRecorded, Holding, CallHistory, CompletedByOwner,
         SuccessIsAccounted
    <2> QED BY <2>1, <2>2, <2>3, <2>4, <2>5
  <1>15. CASE Crash(c)
    <2>1. TypeOK'
      BY <1>15 DEF Crash, TypeOK, Row, NoRow, Status, Result, Reply, PC
    <2>2. HolderIsRecorded'
      BY <1>15 DEF Crash, TypeOK, Row, NoRow, HolderIsRecorded, Holding, CallHistory
    <2>3. CallHistory'
      BY <1>15 DEF Crash, TypeOK, CallHistory
    <2>4. CompletedByOwner'
      BY <1>15 DEF Crash, TypeOK, Row, NoRow, HolderIsRecorded, Holding,
         CallHistory, CompletedByOwner
    <2>5. SuccessIsAccounted'
      BY <1>15 DEF Crash, TypeOK, Row, NoRow, HolderIsRecorded, Holding,
         CallHistory, CompletedByOwner, SuccessIsAccounted
    <2> QED BY <2>1, <2>2, <2>3, <2>4, <2>5
  <1> QED
    BY <1>1, <1>2, <1>3, <1>4, <1>5, <1>6, <1>7, <1>8, <1>9, <1>10, <1>11, <1>12, <1>13,
       <1>14, <1>15 DEF Step, Reserve

\* JournalInv is inductive.
LEMMA NextJournalInv == JournalInv /\ [Next]_vars => JournalInv'
  <1> SUFFICES ASSUME JournalInv, [Next]_vars PROVE JournalInv'
    OBVIOUS
  <1>1. CASE Tick
    BY <1>1 DEF Tick, JournalInv, TypeOK, HolderIsRecorded, Holding, CallHistory,
       CompletedByOwner, SuccessIsAccounted
  <1>2. CASE \E c \in Call : Step(c) \/ Crash(c)
    BY <1>2, CallKeepsJournalInv
  <1>3. CASE UNCHANGED vars
    BY <1>3 DEF vars, JournalInv, TypeOK, HolderIsRecorded, Holding, CallHistory,
       CompletedByOwner, SuccessIsAccounted
  <1> QED BY <1>1, <1>2, <1>3 DEF Next

--------------------------------------------------------------------------------
\* For one effect key at most one invocation ever changes the world.
THEOREM EffectsHappenAtMostOnce == Spec => []AtMostOnce
  <1>1. JournalInv => AtMostOnce
    BY DEF JournalInv, TypeOK, HolderIsRecorded, Holding, AtMostOnce
  <1> QED BY <1>1, InitJournalInv, NextJournalInv, PTL DEF Spec

\* A reported success has its effect, its journal record and its audit record.
THEOREM SuccessesAreAccounted == Spec => []SuccessIsAccounted
  <1>1. JournalInv => SuccessIsAccounted
    BY DEF JournalInv
  <1> QED BY <1>1, InitJournalInv, NextJournalInv, PTL DEF Spec

\* Rows, calls and audit records keep their types.
THEOREM JournalTypeCorrect == Spec => []TypeOK
  <1>1. JournalInv => TypeOK
    BY DEF JournalInv
  <1> QED BY <1>1, InitJournalInv, NextJournalInv, PTL DEF Spec

\* A completed or uncertain record is never rewritten.
THEOREM SettledRecordsAreForever == Spec => SettledIsForever
  <1>1. ASSUME JournalInv, [Next]_vars
        PROVE  [row.status \in {"completed", "uncertain"} => row' = row]_vars
    <2> SUFFICES ASSUME row.status \in {"completed", "uncertain"} PROVE row' = row
      OBVIOUS
    <2>1. ASSUME NEW c \in Call PROVE ~Owns(c)
      BY DEF Owns
    <2>2. ASSUME NEW c \in Call, Step(c) \/ Crash(c) PROVE row' = row
      BY <2>1, <2>2 DEF Step, Crash, Reserve, ReserveNew, ReserveReplay,
         ReserveBusy,
         ReserveUncertain, GrantDenied, ReserveAudit, AuditUnavailable, Perform,
         HandlerReturns, HandlerRaises, CompleteAudit, AuditCompletionFails,
         Complete,
         Record, Abandon, MarkUncertain
    <2> QED BY <1>1, <2>2 DEF Next, Tick, vars
  <1> QED BY <1>1, InitJournalInv, NextJournalInv, PTL DEF Spec, SettledIsForever

-----------------------------------------------------------------------------
(* The resource ledger.                                                     *)

\* The floor of the SQL updates, MAX(0, n).
LEMMA FloorType ==
  ASSUME NEW n \in Int
  PROVE  NotNegative(n) \in Nat /\ (n >= 0 => NotNegative(n) = n)
BY DEF NotNegative

\* The active grants are finitely many.
LEMMA ActiveFinite == IsFiniteSet(Active) /\ Cardinality(Active) \in Nat
<1>1. Active \subseteq Grant
  BY DEF Active
<1>2. IsFiniteSet(Active)
  BY <1>1, GrantAssumption, FS_Subset
<1> QED
  BY <1>2, FS_CardinalityType

\* The initial ledger is empty.
LEMMA InitLedgerInv == LedgerInit => LedgerInv
<1> SUFFICES ASSUME LedgerInit PROVE LedgerInv
  OBVIOUS
<1> USE NameAssumption, LimitAssumption DEF LedgerInit
<1>1. LedgerTypeOK
  BY DEF LedgerTypeOK, Scope, GrantRow, Reason
<1>2. CallHasGrant
  BY DEF CallHasGrant, InCall
<1>3. Active = {}
  BY DEF Active
<1>4. SlotsAreGrants
  BY <1>3, FS_EmptySet DEF SlotsAreGrants
<1>5. WithinLimits
  BY DEF WithinLimits
<1> QED
  BY <1>1, <1>2, <1>4, <1>5 DEF LedgerInv

\* An admitted request leaves room in every counted limit.
LEMMA AdmittedFits ==
  ASSUME LedgerTypeOK, NEW r, Decision(r) = "none"
  PROVE  /\ scope.active + 1 <= MaxConcurrent
         /\ CallBudget > 0 => scope.calls + 1 <= CallBudget
<1>1. scope.active \in Nat /\ scope.calls \in Nat
  BY DEF LedgerTypeOK, Scope
<1>2. ~(scope.active + 1 > MaxConcurrent)
  BY DEF Decision
<1>3. ~(CallBudget > 0 /\ scope.calls + 1 > CallBudget)
  BY <1>2 DEF Decision
<1> QED
  BY <1>1, <1>2, <1>3, LimitAssumption

\* A decision is one of the typed reasons.
LEMMA DecisionType == ASSUME NEW r PROVE Decision(r) \in Reason
BY DEF Decision, Reason

\* reserve adds one active grant and one to the counter.
LEMMA ReserveStep ==
  ASSUME LedgerInv, NEW d \in Driver, NEW g \in Grant,
         NEW r \in Amount, NEW kind \in {"model", "capability"},
         ReserveGrant(d, g, r, kind)
  PROVE  LedgerInv'
<1> USE DEF LedgerInv
<1>1. LedgerTypeOK'
  <2>1. scope' \in Scope
    BY DEF ReserveGrant, LedgerTypeOK, Scope, Amount
  <2>2. grants' \in [Grant -> GrantRow]
    <3>1. [status |-> "active", tokens |-> r.tokens, cost |-> r.cost] \in GrantRow
      BY DEF GrantRow, Amount
    <3> QED
      BY <3>1 DEF ReserveGrant, LedgerTypeOK
  <2>3. at' \in [Driver -> {"idle", "ready", "model", "capability", "stopped", "crashed"}]
    BY DEF ReserveGrant, LedgerTypeOK
  <2>4. using' \in [Driver -> Grant \cup {NoGrant}] /\ refusal' \in [Driver -> Reason]
    BY DEF ReserveGrant, LedgerTypeOK, Reason
  <2> QED
    BY <2>1, <2>2, <2>3, <2>4 DEF ReserveGrant, LedgerTypeOK
<1>2. CallHasGrant'
  BY DEF ReserveGrant, LedgerTypeOK, CallHasGrant, InCall
<1>3. Active' = Active \cup {g} /\ g \notin Active
  BY DEF ReserveGrant, LedgerTypeOK, Active
<1>4. Cardinality(Active') = Cardinality(Active) + 1
  BY <1>3, ActiveFinite, FS_AddElement
<1>5. SlotsAreGrants'
  BY <1>4 DEF ReserveGrant, SlotsAreGrants
<1>6. WithinLimits'
  BY AdmittedFits DEF ReserveGrant, WithinLimits
<1> QED
  BY <1>1, <1>2, <1>5, <1>6

\* A release removes one active grant and one from the counter, or nothing.
LEMMA ReleaseStep ==
  ASSUME LedgerTypeOK, SlotsAreGrants, WithinLimits,
         NEW g \in Grant, NEW u \in Amount, Release(g, u)
  PROVE  /\ scope' \in Scope /\ grants' \in [Grant -> GrantRow]
         /\ SlotsAreGrants' /\ WithinLimits'
<1>1. CASE grants[g].status # "active"
  BY <1>1 DEF Release, LedgerTypeOK, SlotsAreGrants, WithinLimits, Active
<1>2. CASE grants[g].status = "active"
  <2>1. /\ scope' = Credited(1, g, u)
        /\ grants' = [grants EXCEPT ![g] = [status |-> "released", tokens |-> u.tokens,
                                            cost |-> u.cost]]
    BY <1>2 DEF Release
  <2>2. /\ scope.tokens + u.tokens - grants[g].tokens \in Int
        /\ scope.cost + u.cost - grants[g].cost \in Int
        /\ scope.active - 1 \in Int /\ scope.calls \in Nat /\ scope.active \in Nat
    BY DEF LedgerTypeOK, Scope, GrantRow, Amount
  <2>3. /\ scope' \in Scope
        /\ scope'.active = NotNegative(scope.active - 1) /\ scope'.calls = scope.calls
    <3> DEFINE T == NotNegative(scope.tokens + u.tokens - grants[g].tokens)
               C == NotNegative(scope.cost + u.cost - grants[g].cost)
               A == NotNegative(scope.active - 1)
    <3>1. T \in Nat /\ C \in Nat /\ A \in Nat
      BY <2>2, FloorType
    <3>2. scope' = [scope EXCEPT !.tokens = T, !.cost = C, !.active = A]
      BY <2>1 DEF Credited
    <3> HIDE DEF T, C, A
    <3>3. scope' = [calls |-> scope.calls, tokens |-> T, cost |-> C, active |-> A]
      BY <3>2 DEF LedgerTypeOK, Scope
    <3>4. scope' \in Scope /\ scope'.active = A /\ scope'.calls = scope.calls
      BY <2>2, <3>1, <3>3 DEF Scope
    <3> QED
      BY <3>4 DEF A
  <2>4. grants' \in [Grant -> GrantRow]
    <3>1. [status |-> "released", tokens |-> u.tokens, cost |-> u.cost] \in GrantRow
      BY DEF GrantRow, Amount
    <3> QED
      BY <2>1, <3>1 DEF LedgerTypeOK
  <2>5. Active' = Active \ {g} /\ g \in Active
    BY <1>2, <2>1 DEF LedgerTypeOK, Active
  <2>6. Cardinality(Active') = Cardinality(Active) - 1 /\ Cardinality(Active) > 0
    BY <2>5, ActiveFinite, FS_RemoveElement, FS_EmptySet
  <2>7. scope'.active = scope.active - 1 /\ scope'.calls = scope.calls
    BY <2>2, <2>3, <2>6, FloorType DEF SlotsAreGrants
  <2> QED
    BY <2>2, <2>3, <2>4, <2>6, <2>7, LimitAssumption DEF SlotsAreGrants, WithinLimits
<1> QED
  BY <1>1, <1>2

\* Reconciliation empties the set of active grants and the counter.
LEMMA FreeSlotsStep ==
  ASSUME LedgerTypeOK, SlotsAreGrants, WithinLimits, FreeSlots
  PROVE  /\ scope' \in Scope /\ grants' \in [Grant -> GrantRow]
         /\ SlotsAreGrants' /\ WithinLimits'
<1>1. NotNegative(scope.active - Cardinality(Active)) = 0
  BY FloorType DEF SlotsAreGrants, LedgerTypeOK, Scope
<1>2. scope' = [calls |-> scope.calls, tokens |-> scope.tokens, cost |-> scope.cost,
                active |-> 0]
  BY <1>1 DEF FreeSlots, LedgerTypeOK, Scope
<1>3. grants' \in [Grant -> GrantRow]
  <2>1. ASSUME NEW h \in Grant
        PROVE  [grants[h] EXCEPT !.status = "released"] \in GrantRow
    <3>1. [grants[h] EXCEPT !.status = "released"]
            = [status |-> "released", tokens |-> grants[h].tokens, cost |-> grants[h].cost]
      BY DEF LedgerTypeOK, GrantRow
    <3> QED
      BY <3>1 DEF LedgerTypeOK, GrantRow
  <2> QED
    BY <2>1 DEF FreeSlots, LedgerTypeOK
<1>4. Active' = {}
  BY DEF FreeSlots, Active, LedgerTypeOK, GrantRow
<1> QED
  BY <1>2, <1>3, <1>4, FS_EmptySet, LimitAssumption
     DEF SlotsAreGrants, WithinLimits, LedgerTypeOK, Scope

\* A step that leaves the ledger's rows alone.
LEMMA OtherStep ==
  ASSUME LedgerInv, LedgerTypeOK', CallHasGrant', UNCHANGED <<scope, grants>>
  PROVE  LedgerInv'
BY DEF LedgerInv, SlotsAreGrants, WithinLimits, Active

\* Every step of a driver keeps LedgerInv.
LEMMA DriverStepInv ==
  ASSUME LedgerInv, NEW d \in Driver, DriverStep(d)
  PROVE  LedgerInv'
<1> USE DEF LedgerInv
<1>a. \A r \in ModelRequest : r \in Amount
  BY AmountAssumption
<1>b. NoAmount \in Amount
  BY DEF NoAmount, Amount
<1>1. CASE Claim(d)
  BY <1>1, OtherStep DEF Claim, LedgerTypeOK, CallHasGrant, InCall
<1>2. ASSUME NEW g \in Grant, NEW r \in ModelRequest, ReserveGrant(d, g, r, "model")
      PROVE  LedgerInv'
  BY <1>2, <1>a, ReserveStep
<1>3. ASSUME NEW g \in Grant, ReserveGrant(d, g, NoAmount, "capability")
      PROVE  LedgerInv'
  BY <1>3, <1>b, ReserveStep
<1>4. ASSUME NEW r \in ModelRequest, ModelRefused(d, r)
      PROVE  LedgerInv'
  <2>1. LedgerTypeOK'
    BY <1>4, DecisionType DEF ModelRefused, LeaseGivenUp, LedgerTypeOK
  <2> QED
    BY <1>4, <2>1, OtherStep DEF ModelRefused, CallHasGrant, InCall, LedgerTypeOK
<1>5. CASE CapabilityRefused(d)
  <2>1. LedgerTypeOK'
    BY <1>5, DecisionType DEF CapabilityRefused, LedgerTypeOK
  <2> QED
    BY <1>5, <2>1, OtherStep DEF CapabilityRefused, CallHasGrant, InCall
<1>6. CASE Finish(d)
  <2>1. using[d] \in Grant
    BY <1>6 DEF Finish, CallHasGrant
  <2>2. Reserved(using[d]) \in Amount
    BY <2>1 DEF Reserved, Amount, LedgerTypeOK, GrantRow
  <2>3. PICK u \in Amount : Release(using[d], u)
    BY <1>6, <2>2, AmountAssumption DEF Finish
  <2>4. /\ scope' \in Scope /\ grants' \in [Grant -> GrantRow]
        /\ SlotsAreGrants' /\ WithinLimits'
    BY <2>1, <2>3, ReleaseStep
  <2>5. LedgerTypeOK'
    BY <1>6, <2>4 DEF Finish, LedgerTypeOK
  <2>6. CallHasGrant'
    BY <1>6 DEF Finish, CallHasGrant, InCall, LedgerTypeOK
  <2> QED
    BY <2>4, <2>5, <2>6
<1>7. CASE Cancelled(d)
  BY <1>7, OtherStep DEF Cancelled, LedgerTypeOK, CallHasGrant, InCall
<1>8. CASE Stop(d)
  BY <1>8, OtherStep DEF Stop, LeaseGivenUp, LedgerTypeOK, CallHasGrant, InCall
<1>9. CASE DriverCrashes(d)
  BY <1>9, OtherStep DEF DriverCrashes, LedgerTypeOK, CallHasGrant, InCall
<1> QED
  BY <1>1, <1>2, <1>3, <1>4, <1>5, <1>6, <1>7, <1>8, <1>9 DEF DriverStep

\* LedgerInv is inductive.
LEMMA NextLedgerInv == LedgerInv /\ [LedgerNext]_ledgerVars => LedgerInv'
<1> SUFFICES ASSUME LedgerInv, [LedgerNext]_ledgerVars PROVE LedgerInv'
  OBVIOUS
<1> USE DEF LedgerInv
<1>1. ASSUME NEW d \in Driver, DriverStep(d) PROVE LedgerInv'
  BY <1>1, DriverStepInv
<1>2. CASE Expire
  BY <1>2, OtherStep DEF Expire, LedgerTypeOK, CallHasGrant, InCall
<1>3. CASE LedgerTick
  BY <1>3, OtherStep DEF LedgerTick, LedgerTypeOK, CallHasGrant, InCall
<1>4. CASE ReleaseLease
  BY <1>4, OtherStep DEF ReleaseLease, LedgerTypeOK, CallHasGrant, InCall
<1>5. CASE ListScope
  BY <1>5, OtherStep DEF ListScope, LedgerTypeOK, CallHasGrant, InCall
<1>6. CASE ReleaseGrants
  <2>1. /\ scope' \in Scope /\ grants' \in [Grant -> GrantRow]
        /\ SlotsAreGrants' /\ WithinLimits'
    BY <1>6, FreeSlotsStep DEF ReleaseGrants
  <2> QED
    BY <1>6, <2>1 DEF ReleaseGrants, LedgerTypeOK, CallHasGrant, InCall
<1>7. CASE UNCHANGED ledgerVars
  BY <1>7, OtherStep DEF ledgerVars, LedgerTypeOK, CallHasGrant, InCall
<1> QED
  BY <1>1, <1>2, <1>3, <1>4, <1>5, <1>6, <1>7 DEF LedgerNext

\* Whatever crashes, is cancelled, expires or is released late, the scope's
\* slot counter (resource_scopes.active) is the number of its active grants.
THEOREM SlotCounterIsExact == LedgerSpec => []SlotsAreGrants
<1>1. LedgerInv => SlotsAreGrants
  BY DEF LedgerInv
<1> QED
  BY <1>1, InitLedgerInv, NextLedgerInv, PTL DEF LedgerSpec

\* max_concurrent and call_budget bound the scope for any number of drivers,
\* those that lost their lease included.
THEOREM LimitsHold == LedgerSpec => []WithinLimits
<1>1. LedgerInv => WithinLimits
  BY DEF LedgerInv
<1> QED
  BY <1>1, InitLedgerInv, NextLedgerInv, PTL DEF LedgerSpec

\* Every reachable ledger is well typed; its counters never go below zero.
THEOREM LedgerTypeCorrect == LedgerSpec => []LedgerTypeOK
<1>1. LedgerInv => LedgerTypeOK
  BY DEF LedgerInv
<1> QED
  BY <1>1, InitLedgerInv, NextLedgerInv, PTL DEF LedgerSpec

\* A released grant's charge is final (release() and
\* release_active_grants_for_scopes touch active grants only).
THEOREM GrantsSettleOnce == LedgerSpec => SettledOnce
<1>1. LedgerInv /\ [LedgerNext]_ledgerVars
        => [\A g \in Grant : grants[g].status = "released" => grants'[g] = grants[g]]_ledgerVars
  <2> SUFFICES ASSUME LedgerInv, LedgerNext, NEW g \in Grant, grants[g].status = "released"
               PROVE  grants'[g] = grants[g]
    BY DEF ledgerVars
  <2>1. ASSUME NEW d \in Driver, DriverStep(d) PROVE grants'[g] = grants[g]
    <3>1. ASSUME NEW h \in Grant, NEW r, NEW kind, ReserveGrant(d, h, r, kind)
          PROVE  grants'[g] = grants[g]
      BY <3>1 DEF ReserveGrant, LedgerInv, LedgerTypeOK
    <3>2. CASE Finish(d)
      BY <3>2 DEF Finish, Release, LedgerInv, LedgerTypeOK
    <3> QED
      BY <2>1, <3>1, <3>2
         DEF DriverStep, Claim, ModelRefused, CapabilityRefused, Cancelled, Stop, DriverCrashes
  <2>2. CASE ReleaseGrants
    BY <2>2 DEF ReleaseGrants, FreeSlots, Active
  <2> QED
    BY <2>1, <2>2 DEF LedgerNext, Expire, LedgerTick, ReleaseLease, ListScope
<1> QED
  BY <1>1, InitLedgerInv, NextLedgerInv, PTL DEF LedgerSpec, SettledOnce

-----------------------------------------------------------------------------
(* The totals of the ledger.  Sums are recursive; what is needed of them is  *)
(* proved by induction over the sets of grants, from the library's fact that *)
(* a set of numbers has a least element.                                     *)

\* Every set of numbers that is not empty has a least element: induction over
\* the natural numbers, stated of sets.
LEMMA LeastNumber ==
  ASSUME NEW T \in SUBSET Nat, T # {}
  PROVE  \E m \in T : \A k \in T : m <= k
  <1> DEFINE Less == {ss \in Nat \X Nat : ss[1] < ss[2]}
  <1>1. OpToRel(<, Nat) = Less
    BY Zenon DEF OpToRel
  <1>2. IsWellFoundedOn(Less, Nat)
    BY <1>1, NatLessThanWellFounded
  <1> HIDE DEF Less
  <1>3. PICK m \in T : \A k \in T : ~(<<k, m>> \in Less)
    BY <1>2, WFMin
  <1>4. ASSUME NEW k \in T PROVE m <= k
    <2>1. m \in Nat /\ k \in Nat
      OBVIOUS
    <2>2. k < m => <<k, m>> \in Less
      BY <2>1 DEF Less
    <2> QED BY <1>3, <2>1, <2>2
  <1> QED BY <1>4

\* The order in which a sum over grants goes through a set.
Front(s) == CHOOSE x \in s : TRUE

\* The element a sum takes first is one of the set, which loses it.
LEMMA FrontType ==
  ASSUME NEW s \in SUBSET Grant, s # {}
  PROVE  /\ Front(s) \in s /\ Front(s) \in Grant
         /\ s \ {Front(s)} \in SUBSET Grant
         /\ IsFiniteSet(s) /\ IsFiniteSet(s \ {Front(s)})
         /\ Cardinality(s \ {Front(s)}) = Cardinality(s) - 1
         /\ Cardinality(s) \in Nat
  <1>1. Front(s) \in s
    BY DEF Front
  <1>2. IsFiniteSet(s)
    BY GrantAssumption, FS_Subset
  <1> QED BY <1>1, <1>2, FS_RemoveElement, FS_CardinalityType

\* Induction over the sets of grants, along the order of a sum.
LEMMA GrantInduction ==
  ASSUME NEW Q, Q \subseteq SUBSET Grant,
         \A s \in SUBSET Grant : (s # {} => s \ {Front(s)} \in Q) => s \in Q
  PROVE  Q = SUBSET Grant
  <1> SUFFICES ASSUME Q # SUBSET Grant PROVE FALSE
    OBVIOUS
  <1> DEFINE T == {Cardinality(s) : s \in (SUBSET Grant) \ Q}
  <1>1. \A s \in SUBSET Grant : Cardinality(s) \in Nat
    BY GrantAssumption, FS_Subset, FS_CardinalityType
  <1>2. T \in SUBSET Nat /\ T # {}
    BY <1>1
  <1>3. PICK m \in T : \A k \in T : m <= k
    BY <1>2, LeastNumber
  <1>4. PICK s \in (SUBSET Grant) \ Q : m = Cardinality(s)
    OBVIOUS
  <1>5. s # {} /\ s \ {Front(s)} \notin Q
    OBVIOUS
  <1>6. /\ s \ {Front(s)} \in (SUBSET Grant) \ Q
        /\ Cardinality(s \ {Front(s)}) = Cardinality(s) - 1
        /\ Cardinality(s) \in Nat
    BY <1>4, <1>5, FrontType
  <1>7. Cardinality(s \ {Front(s)}) \in T
    BY <1>6
  <1> HIDE DEF T
  <1> QED BY <1>3, <1>4, <1>6, <1>7

\* One step of the recursion by which Folds sums the weights w.
SumBody(w, h) ==
  [s \in SUBSET Grant |-> IF s = {} THEN 0 ELSE w[Front(s)] + h[s \ {Front(s)}]]

\* h is the function the recursion defines.
IsSum(w, h) == h \in [SUBSET Grant -> Nat] /\ h = SumBody(w, h)

\* A step of the recursion sums natural numbers.
LEMMA SumBodyType ==
  ASSUME NEW w \in [Grant -> Nat], NEW h \in [SUBSET Grant -> Nat]
  PROVE  SumBody(w, h) \in [SUBSET Grant -> Nat]
  <1>1. ASSUME NEW s \in SUBSET Grant
        PROVE  (IF s = {} THEN 0 ELSE w[Front(s)] + h[s \ {Front(s)}]) \in Nat
    <2>1. CASE s = {}
      BY <2>1
    <2>2. CASE s # {}
      <3>1. w[Front(s)] \in Nat /\ h[s \ {Front(s)}] \in Nat
        BY <2>2, FrontType
      <3> QED BY <2>2, <3>1
    <2> QED BY <2>1, <2>2
  <1> QED BY <1>1 DEF SumBody

\* The recursion has a solution: one for sets of up to n grants, for every n.
LEMMA SumExists ==
  ASSUME NEW w \in [Grant -> Nat]
  PROVE  \E h : IsSum(w, h)
  <1> DEFINE Upto(n) == {s \in SUBSET Grant : Cardinality(s) <= n}
             Solves(h, n) == \A s \in Upto(n) : h[s] = SumBody(w, h)[s]
             T == {n \in Nat : ~\E h \in [SUBSET Grant -> Nat] : Solves(h, n)}
  <1>0. \A s \in SUBSET Grant : Cardinality(s) \in Nat /\ IsFiniteSet(s)
    BY GrantAssumption, FS_Subset, FS_CardinalityType
  <1>1. T = {}
    <2> SUFFICES ASSUME T # {} PROVE FALSE
      OBVIOUS
    <2>1. PICK m \in T : \A k \in T : m <= k
      BY LeastNumber
    <2>2. CASE m = 0
      <3> DEFINE h == [s \in SUBSET Grant |-> 0]
      <3>1. ASSUME NEW s \in Upto(0) PROVE h[s] = SumBody(w, h)[s]
        <4>1. s = {}
          BY <1>0, <3>1, FS_EmptySet
        <4> QED BY <4>1 DEF SumBody
      <3> QED BY <2>1, <2>2, <3>1
    <2>3. CASE m # 0
      <3>1. m - 1 \in Nat /\ m - 1 \notin T /\ m \in Nat
        <4>1. m \in Nat /\ m - 1 \in Nat /\ ~(m <= m - 1)
          BY <2>3
        <4> HIDE DEF T
        <4> QED BY <2>1, <4>1
      <3>2. PICK h \in [SUBSET Grant -> Nat] : Solves(h, m - 1)
        BY <3>1
      <3> DEFINE k == SumBody(w, h)
      <3>3. k \in [SUBSET Grant -> Nat]
        BY SumBodyType
      <3>4. ASSUME NEW s \in Upto(m) PROVE k[s] = SumBody(w, k)[s]
        <4>1. CASE s = {}
          BY <4>1 DEF SumBody
        <4>2. CASE s # {}
          <5>1. s \ {Front(s)} \in Upto(m - 1)
            BY <1>0, <3>1, <4>2, FrontType
          <5>2. k[s \ {Front(s)}] = h[s \ {Front(s)}]
            BY <3>2, <5>1
          <5> QED BY <4>2, <5>2 DEF SumBody
        <4> QED BY <4>1, <4>2
      <3>5. Solves(k, m)
        BY <3>4
      <3> HIDE DEF Solves, k
      <3> QED BY <2>1, <3>3, <3>5
    <2> QED BY <2>2, <2>3
  <1>2. PICK h \in [SUBSET Grant -> Nat] : Solves(h, Cardinality(Grant))
    BY <1>0, <1>1
  <1>3. ASSUME NEW s \in SUBSET Grant PROVE h[s] = SumBody(w, h)[s]
    <2>1. Cardinality(s) <= Cardinality(Grant)
      BY GrantAssumption, FS_Subset
    <2> QED BY <1>2, <2>1
  <1>4. h = SumBody(w, h)
    <2> DEFINE k == SumBody(w, h)
    <2>1. k \in [SUBSET Grant -> Nat] /\ \A s \in SUBSET Grant : h[s] = k[s]
      BY <1>3, SumBodyType
    <2> HIDE DEF k
    <2>2. h = k
      BY <2>1
    <2> QED BY <2>2 DEF k
  <1> QED BY <1>4 DEF IsSum

\* A sum of natural numbers is one.
LEMMA SumType ==
  ASSUME NEW w \in [Grant -> Nat], NEW h, h = SumBody(w, h)
  PROVE  IsSum(w, h)
  <1> DEFINE Q == {s \in SUBSET Grant : h[s] \in Nat}
  <1>1. ASSUME NEW s \in SUBSET Grant, s # {} => s \ {Front(s)} \in Q
        PROVE  s \in Q
    <2>1. CASE s = {}
      BY <2>1 DEF SumBody
    <2>2. CASE s # {}
      <3>1. /\ w[Front(s)] \in Nat /\ h[s \ {Front(s)}] \in Nat
            /\ h[s] = w[Front(s)] + h[s \ {Front(s)}]
        BY <1>1, <2>2, FrontType DEF SumBody
      <3> QED BY <3>1
    <2> QED BY <2>1, <2>2
  <1>2. Q = SUBSET Grant
    <2> HIDE DEF Q
    <2>1. Q \subseteq SUBSET Grant
      BY DEF Q
    <2> QED BY <1>1, <2>1, GrantInduction
  <1>3. DOMAIN h = SUBSET Grant /\ h = [s \in SUBSET Grant |-> h[s]]
    BY DEF SumBody
  <1> QED BY <1>2, <1>3 DEF IsSum

\* Sums of the same weights but for one grant differ by what that grant's
\* weights differ.
LEMMA SumChange ==
  ASSUME NEW w \in [Grant -> Nat], NEW v \in [Grant -> Nat], NEW g \in Grant,
         \A x \in Grant \ {g} : v[x] = w[x],
         NEW h, NEW k, IsSum(w, h), IsSum(v, k)
  PROVE  k[Grant] + w[g] = h[Grant] + v[g]
  <1> USE DEF IsSum
  <1> DEFINE Share(u, s) == IF g \in s THEN u[g] ELSE 0
             Q == {s \in SUBSET Grant : k[s] + Share(w, s) = h[s] + Share(v, s)}
  <1>1. ASSUME NEW s \in SUBSET Grant, s # {} => s \ {Front(s)} \in Q
        PROVE  s \in Q
    <2>1. CASE s = {}
      <3>1. h[s] = 0 /\ k[s] = 0
        BY <2>1 DEF SumBody
      <3> QED BY <2>1, <3>1
    <2>2. CASE s # {}
      <3> DEFINE f == Front(s)
                 r == s \ {f}
      <3>1. /\ f \in s /\ f \in Grant /\ r \in SUBSET Grant
        BY <2>2, FrontType
      <3>2. h[s] = w[f] + h[r] /\ k[s] = v[f] + k[r]
        BY <2>2 DEF SumBody
      <3>3. k[r] + Share(w, r) = h[r] + Share(v, r)
        BY <1>1, <2>2
      <3>4. /\ w[f] \in Nat /\ v[f] \in Nat /\ h[r] \in Nat /\ k[r] \in Nat
            /\ w[g] \in Nat /\ v[g] \in Nat
        BY <3>1
      <3>5. CASE f = g
        <4>1. g \in s /\ g \notin r
          BY <3>1, <3>5
        <4> QED BY <3>2, <3>3, <3>4, <3>5, <4>1
      <3>6. CASE f # g
        <4>1. (g \in s <=> g \in r) /\ v[f] = w[f]
          BY <3>1, <3>6
        <4> HIDE DEF f, r
        <4> QED BY <3>2, <3>3, <3>4, <4>1
      <3> QED BY <3>5, <3>6
    <2> QED BY <2>1, <2>2
  <1>2. Q = SUBSET Grant
    <2> HIDE DEF Q
    <2>1. Q \subseteq SUBSET Grant
      BY DEF Q
    <2> QED BY <1>1, <2>1, GrantInduction
  <1> QED BY <1>2

\* The sum of zeros.
LEMMA SumOfZeros ==
  ASSUME NEW w, NEW h,
         \A x \in Grant : w[x] = 0, IsSum(w, h)
  PROVE  h[Grant] = 0
  <1> USE DEF IsSum
  <1> DEFINE Q == {s \in SUBSET Grant : h[s] = 0}
  <1>1. ASSUME NEW s \in SUBSET Grant, s # {} => s \ {Front(s)} \in Q
        PROVE  s \in Q
    <2>1. CASE s = {}
      BY <2>1 DEF SumBody
    <2>2. CASE s # {}
      <3>1. w[Front(s)] = 0 /\ h[s] = w[Front(s)] + h[s \ {Front(s)}]
        BY <2>2, FrontType DEF SumBody
      <3> QED BY <1>1, <2>2, <3>1
    <2> QED BY <2>1, <2>2
  <1>2. Q = SUBSET Grant
    <2> HIDE DEF Q
    <2>1. Q \subseteq SUBSET Grant
      BY DEF Q
    <2> QED BY <1>1, <2>1, GrantInduction
  <1> QED BY <1>2

\* The weights of the two totals.
Tokens(rows) == [g \in Grant |-> rows[g].tokens]
Costs(rows) == [g \in Grant |-> rows[g].cost]

\* MapThenSumSet unfolds the recursion.
LEMMA TokensUnfold ==
  ASSUME NEW rows \in [Grant -> GrantRow]
  PROVE  \E h : IsSum(Tokens(rows), h) /\ TokensOf(rows) = h[Grant]
  <1> DEFINE Unfolded(h) == [s \in SUBSET Grant |->
                IF s = {} THEN 0
                ELSE rows[CHOOSE x \in s : TRUE].tokens + h[s \ {CHOOSE x \in s : TRUE}]]
             sum == CHOOSE h : h = Unfolded(h)
  <1>1. TokensOf(rows) = sum[Grant]
    BY Zenon DEF TokensOf, MapThenSumSet, MapThenFoldSet
  <1>2. Tokens(rows) \in [Grant -> Nat]
    BY DEF Tokens, GrantRow
  <1>3. ASSUME NEW h PROVE Unfolded(h) = SumBody(Tokens(rows), h)
    <2>1. ASSUME NEW s \in SUBSET Grant, s # {}
          PROVE  rows[Front(s)].tokens = Tokens(rows)[Front(s)]
      BY <2>1, FrontType DEF Tokens
    <2> QED BY <2>1 DEF SumBody, Front
  <1> HIDE DEF Unfolded
  <1>4. PICK h : h = Unfolded(h)
    BY <1>2, <1>3, SumExists DEF IsSum
  <1>5. sum = Unfolded(sum)
    BY <1>4
  <1> HIDE DEF sum
  <1>6. sum = SumBody(Tokens(rows), sum)
    BY <1>3, <1>5
  <1> QED BY <1>1, <1>2, <1>6, SumType

\* The same of the costs.
LEMMA CostsUnfold ==
  ASSUME NEW rows \in [Grant -> GrantRow]
  PROVE  \E h : IsSum(Costs(rows), h) /\ CostOf(rows) = h[Grant]
  <1> DEFINE Unfolded(h) == [s \in SUBSET Grant |->
                IF s = {} THEN 0
                ELSE rows[CHOOSE x \in s : TRUE].cost + h[s \ {CHOOSE x \in s : TRUE}]]
             sum == CHOOSE h : h = Unfolded(h)
  <1>1. CostOf(rows) = sum[Grant]
    BY Zenon DEF CostOf, MapThenSumSet, MapThenFoldSet
  <1>2. Costs(rows) \in [Grant -> Nat]
    BY DEF Costs, GrantRow
  <1>3. ASSUME NEW h PROVE Unfolded(h) = SumBody(Costs(rows), h)
    <2>1. ASSUME NEW s \in SUBSET Grant, s # {}
          PROVE  rows[Front(s)].cost = Costs(rows)[Front(s)]
      BY <2>1, FrontType DEF Costs
    <2> QED BY <2>1 DEF SumBody, Front
  <1> HIDE DEF Unfolded
  <1>4. PICK h : h = Unfolded(h)
    BY <1>2, <1>3, SumExists DEF IsSum
  <1>5. sum = Unfolded(sum)
    BY <1>4
  <1> HIDE DEF sum
  <1>6. sum = SumBody(Costs(rows), sum)
    BY <1>3, <1>5
  <1> QED BY <1>1, <1>2, <1>6, SumType

\* Rows whose charges agree but for one grant have totals that differ by its
\* charge.
LEMMA TotalsChange ==
  ASSUME NEW old \in [Grant -> GrantRow], NEW new \in [Grant -> GrantRow],
         NEW g \in Grant,
         \A x \in Grant \ {g} : new[x].tokens = old[x].tokens /\ new[x].cost = old[x].cost
  PROVE  /\ TokensOf(new) + old[g].tokens = TokensOf(old) + new[g].tokens
         /\ CostOf(new) + old[g].cost = CostOf(old) + new[g].cost
  <1>1. /\ Tokens(old) \in [Grant -> Nat] /\ Tokens(new) \in [Grant -> Nat]
        /\ \A x \in Grant \ {g} : Tokens(new)[x] = Tokens(old)[x]
        /\ Tokens(old)[g] = old[g].tokens /\ Tokens(new)[g] = new[g].tokens
    BY DEF Tokens, GrantRow
  <1>2. TokensOf(new) + old[g].tokens = TokensOf(old) + new[g].tokens
    <2>1. PICK h : IsSum(Tokens(old), h) /\ TokensOf(old) = h[Grant]
      BY TokensUnfold
    <2>2. PICK k : IsSum(Tokens(new), k) /\ TokensOf(new) = k[Grant]
      BY TokensUnfold
    <2>3. PICK w \in [Grant -> Nat] : w = Tokens(old)
      BY <1>1
    <2>4. PICK v \in [Grant -> Nat] : v = Tokens(new)
      BY <1>1
    <2>5. IsSum(w, h) /\ IsSum(v, k) /\ \A x \in Grant \ {g} : v[x] = w[x]
      BY <1>1, <2>1, <2>2, <2>3, <2>4
    <2>6. k[Grant] + w[g] = h[Grant] + v[g]
      BY <2>5, SumChange
    <2> QED BY <1>1, <2>1, <2>2, <2>3, <2>4, <2>6
  <1>3. /\ Costs(old) \in [Grant -> Nat] /\ Costs(new) \in [Grant -> Nat]
        /\ \A x \in Grant \ {g} : Costs(new)[x] = Costs(old)[x]
        /\ Costs(old)[g] = old[g].cost /\ Costs(new)[g] = new[g].cost
    BY DEF Costs, GrantRow
  <1>4. CostOf(new) + old[g].cost = CostOf(old) + new[g].cost
    <2>1. PICK h : IsSum(Costs(old), h) /\ CostOf(old) = h[Grant]
      BY CostsUnfold
    <2>2. PICK k : IsSum(Costs(new), k) /\ CostOf(new) = k[Grant]
      BY CostsUnfold
    <2>3. PICK w \in [Grant -> Nat] : w = Costs(old)
      BY <1>3
    <2>4. PICK v \in [Grant -> Nat] : v = Costs(new)
      BY <1>3
    <2>5. IsSum(w, h) /\ IsSum(v, k) /\ \A x \in Grant \ {g} : v[x] = w[x]
      BY <1>3, <2>1, <2>2, <2>3, <2>4
    <2>6. k[Grant] + w[g] = h[Grant] + v[g]
      BY <2>5, SumChange
    <2> QED BY <1>3, <2>1, <2>2, <2>3, <2>4, <2>6
  <1> QED BY <1>2, <1>4

\* The totals are numbers.
LEMMA TotalsType ==
  ASSUME NEW rows \in [Grant -> GrantRow]
  PROVE  TokensOf(rows) \in Nat /\ CostOf(rows) \in Nat
  <1>1. PICK h : IsSum(Tokens(rows), h) /\ TokensOf(rows) = h[Grant]
    BY TokensUnfold
  <1>2. PICK k : IsSum(Costs(rows), k) /\ CostOf(rows) = k[Grant]
    BY CostsUnfold
  <1> QED BY <1>1, <1>2 DEF IsSum

\* Rows that charge the same have the same totals.
LEMMA TotalsSame ==
  ASSUME NEW old \in [Grant -> GrantRow], NEW new \in [Grant -> GrantRow],
         \A x \in Grant : new[x].tokens = old[x].tokens /\ new[x].cost = old[x].cost
  PROVE  TokensOf(new) = TokensOf(old) /\ CostOf(new) = CostOf(old)
  <1>1. CASE Grant = {}
    <2>1. new = old
      BY <1>1
    <2> QED BY <2>1
  <1>2. ASSUME NEW g \in Grant
        PROVE  TokensOf(new) = TokensOf(old) /\ CostOf(new) = CostOf(old)
    <2>1. /\ TokensOf(new) + old[g].tokens = TokensOf(old) + old[g].tokens
          /\ CostOf(new) + old[g].cost = CostOf(old) + old[g].cost
      BY TotalsChange
    <2>2. old[g].tokens \in Nat /\ old[g].cost \in Nat
      BY DEF GrantRow
    <2>3. /\ TokensOf(new) \in Nat /\ TokensOf(old) \in Nat
          /\ CostOf(new) \in Nat /\ CostOf(old) \in Nat
      BY TotalsType
    <2> QED BY <2>1, <2>2, <2>3
  <1> QED BY <1>1, <1>2

\* Rows that charge nothing.
LEMMA TotalsZero ==
  ASSUME NEW rows \in [Grant -> GrantRow],
         \A x \in Grant : rows[x].tokens = 0 /\ rows[x].cost = 0
  PROVE  TokensOf(rows) = 0 /\ CostOf(rows) = 0
  <1>1. \A x \in Grant : Tokens(rows)[x] = 0 /\ Costs(rows)[x] = 0
    BY DEF Tokens, Costs
  <1>2. PICK h : IsSum(Tokens(rows), h) /\ TokensOf(rows) = h[Grant]
    BY TokensUnfold
  <1>3. PICK k : IsSum(Costs(rows), k) /\ CostOf(rows) = k[Grant]
    BY CostsUnfold
  <1>4. h[Grant] = 0
    BY <1>1, <1>2, SumOfZeros
  <1>5. k[Grant] = 0
    BY <1>1, <1>3, SumOfZeros
  <1> QED BY <1>2, <1>3, <1>4, <1>5

\* Reserving and releasing a grant move its charge and the scope's totals alike.
LEMMA ChargesStep ==
  ASSUME LedgerTypeOK, LedgerTypeOK', ChargesAddUp, NEW g \in Grant,
         \A x \in Grant \ {g} : grants'[x] = grants[x],
         scope'.tokens = NotNegative(scope.tokens + grants'[g].tokens - grants[g].tokens),
         scope'.cost = NotNegative(scope.cost + grants'[g].cost - grants[g].cost)
  PROVE  ChargesAddUp'
  <1>1. grants \in [Grant -> GrantRow] /\ grants' \in [Grant -> GrantRow]
    BY DEF LedgerTypeOK
  <1>2. /\ grants[g].tokens \in Nat /\ grants'[g].tokens \in Nat
        /\ grants[g].cost \in Nat /\ grants'[g].cost \in Nat
    BY <1>1 DEF GrantRow
  <1>3. /\ TokensOf(grants') + grants[g].tokens = TokensOf(grants) + grants'[g].tokens
        /\ CostOf(grants') + grants[g].cost = CostOf(grants) + grants'[g].cost
    BY <1>1, TotalsChange
  <1>4. /\ TokensOf(grants) \in Nat /\ TokensOf(grants') \in Nat
        /\ CostOf(grants) \in Nat /\ CostOf(grants') \in Nat
    BY <1>1, TotalsType
  <1>5. scope.tokens = TokensOf(grants) /\ scope.cost = CostOf(grants)
    BY DEF ChargesAddUp
  <1>6. scope'.tokens = TokensOf(grants') /\ scope'.cost = CostOf(grants')
    BY <1>2, <1>3, <1>4, <1>5 DEF NotNegative
  <1> QED BY <1>6 DEF ChargesAddUp

\* Every step of the ledger keeps the totals equal to the charges.
LEMMA NextChargeInv ==
  ChargeInv /\ [LedgerNext]_ledgerVars => ChargeInv'
<1> SUFFICES ASSUME ChargeInv, [LedgerNext]_ledgerVars PROVE ChargeInv'
  OBVIOUS
<1> DEFINE Charged == UnreservedIsFree' /\ ChargesAddUp'
<1>i. LedgerInv /\ LedgerInv' /\ UnreservedIsFree /\ ChargesAddUp
  BY NextLedgerInv DEF ChargeInv
<1>0. /\ LedgerTypeOK /\ LedgerTypeOK' /\ CallHasGrant
      /\ scope \in Scope /\ grants \in [Grant -> GrantRow]
      /\ grants' \in [Grant -> GrantRow]
  BY <1>i DEF LedgerInv, LedgerTypeOK
<1>1. ASSUME UNCHANGED <<scope, grants>> PROVE Charged
  BY <1>i, <1>1 DEF ChargesAddUp, UnreservedIsFree
<1>2. ASSUME NEW d \in Driver, NEW g \in Grant, NEW r \in Amount, NEW kind,
             ReserveGrant(d, g, r, kind)
      PROVE  Charged
  <2>1. /\ r.tokens \in Nat /\ r.cost \in Nat
        /\ scope.tokens \in Nat /\ scope.cost \in Nat
    BY <1>0 DEF Amount, Scope
  <2>2. /\ grants'[g].tokens = r.tokens /\ grants'[g].cost = r.cost
        /\ \A x \in Grant \ {g} : grants'[x] = grants[x]
        /\ scope'.tokens = scope.tokens + r.tokens
        /\ scope'.cost = scope.cost + r.cost
    BY <1>0, <1>2 DEF ReserveGrant
  <2>3. /\ scope'.tokens = NotNegative(scope.tokens + grants'[g].tokens - grants[g].tokens)
        /\ scope'.cost = NotNegative(scope.cost + grants'[g].cost - grants[g].cost)
    <3>1. grants[g].tokens = 0 /\ grants[g].cost = 0
      BY <1>i, <1>2 DEF ReserveGrant, UnreservedIsFree
    <3> QED BY <2>1, <2>2, <3>1 DEF NotNegative
  <2>4. UnreservedIsFree'
    BY <1>0, <1>i, <1>2, <2>2 DEF ReserveGrant, UnreservedIsFree
  <2> QED BY <1>0, <1>i, <2>2, <2>3, <2>4, ChargesStep
<1>3. ASSUME NEW g \in Grant, NEW u \in Amount, Release(g, u) PROVE Charged
  <2>1. CASE grants[g].status # "active"
    BY <1>1, <1>3, <2>1 DEF Release
  <2>2. CASE grants[g].status = "active"
    <3>1. /\ grants'[g].tokens = u.tokens /\ grants'[g].cost = u.cost
          /\ \A x \in Grant \ {g} : grants'[x] = grants[x]
      BY <1>0, <1>3, <2>2 DEF Release
    <3>2. /\ scope'.tokens = NotNegative(scope.tokens + u.tokens - grants[g].tokens)
          /\ scope'.cost = NotNegative(scope.cost + u.cost - grants[g].cost)
      BY <1>0, <1>3, <2>2 DEF Release, Credited, Scope
    <3>3. UnreservedIsFree'
      BY <1>0, <1>i, <1>3, <2>2, <3>1 DEF Release, UnreservedIsFree
    <3> QED BY <1>0, <1>i, <3>1, <3>2, <3>3, ChargesStep
  <2> QED BY <2>1, <2>2
<1>4. ASSUME ReleaseGrants PROVE Charged
  <2>1. \A x \in Grant : grants'[x].tokens = grants[x].tokens
                        /\ grants'[x].cost = grants[x].cost
    BY <1>0, <1>4 DEF ReleaseGrants, FreeSlots, GrantRow
  <2>2. scope'.tokens = scope.tokens /\ scope'.cost = scope.cost
    BY <1>0, <1>4 DEF ReleaseGrants, FreeSlots, Scope
  <2>3. TokensOf(grants') = TokensOf(grants) /\ CostOf(grants') = CostOf(grants)
    BY <1>0, <2>1, TotalsSame
  <2>4. UnreservedIsFree'
    BY <1>0, <1>i, <1>4, <2>1 DEF ReleaseGrants, FreeSlots, Active, GrantRow, UnreservedIsFree
  <2> QED BY <1>i, <2>2, <2>3, <2>4 DEF ChargesAddUp
<1>5. ASSUME NEW d \in Driver, DriverStep(d) PROVE Charged
  <2>1. ModelRequest \subseteq Amount /\ NoAmount \in Amount /\ Usage \subseteq Amount
    BY AmountAssumption DEF NoAmount, Amount
  <2>2. ASSUME NEW g \in Grant, NEW r \in Amount, NEW kind, ReserveGrant(d, g, r, kind)
        PROVE  Charged
    BY <1>2, <2>2 DEF ReserveGrant
  <2>3. CASE Finish(d)
    <3>1. using[d] \in Grant
      BY <1>0, <2>3 DEF Finish, CallHasGrant
    <3>2. Reserved(using[d]) \in Amount
      BY <1>0, <3>1 DEF Reserved, Amount, GrantRow
    <3>3. PICK u \in Amount : Release(using[d], u)
      BY <2>1, <2>3, <3>2 DEF Finish
    <3> QED BY <1>3, <3>1, <3>3
  <2> HIDE DEF Charged
  <2> QED
    BY <1>1, <1>5, <2>1, <2>2, <2>3
       DEF DriverStep, Claim, ModelRefused, CapabilityRefused, Cancelled, Stop,
           DriverCrashes
<1> HIDE DEF Charged
<1>6. Charged
  BY <1>1, <1>4, <1>5
     DEF LedgerNext, Expire, LedgerTick, ReleaseLease, ListScope, ledgerVars
<1> QED
  BY <1>i, <1>6 DEF ChargeInv, Charged

\* The initial ledger charges nothing.
LEMMA InitChargeInv == LedgerInit => ChargeInv
<1> SUFFICES ASSUME LedgerInit PROVE ChargeInv
  OBVIOUS
<1>1. LedgerInv
  BY InitLedgerInv
<1>2. \A g \in Grant : grants[g].tokens = 0 /\ grants[g].cost = 0
  BY DEF LedgerInit
<1>3. TokensOf(grants) = 0 /\ CostOf(grants) = 0
  BY <1>1, <1>2, TotalsZero DEF LedgerInv, LedgerTypeOK
<1>4. ChargesAddUp
  BY <1>3 DEF LedgerInit, ChargesAddUp
<1> QED
  BY <1>1, <1>2, <1>4 DEF ChargeInv, UnreservedIsFree

\* resource_scopes' totals are the sums of what the scope's grants are charged,
\* in whatever order reservations, late reports and reconciliations fall: no
\* charge is lost, counted twice or cut off at the zero floor of the update.
THEOREM TotalsAddUp == LedgerSpec => []ChargesAddUp
<1>1. ChargeInv => ChargesAddUp
  BY DEF ChargeInv
<1> QED
  BY <1>1, InitChargeInv, NextChargeInv, PTL DEF LedgerSpec

=============================================================================
