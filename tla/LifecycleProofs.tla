---------------------------- MODULE LifecycleProofs ----------------------------
(****************************************************************************)
(* For any number of drivers, approvals, crashes and stop states: the rows  *)
(* of Lifecycle are well typed, a success is only ever reported of a        *)
(* converged loop, and a cancellation only when something cancelled.        *)
(****************************************************************************)
EXTENDS Lifecycle, TLAPS

\* The rows the code writes are rows, whatever they are computed from.
LEMMA RowTypes ==
  /\ NoRow \in Row /\ Running \in Row /\ Accepted \in Row /\ Failed \in Row
  /\ Canceled \in Row /\ Parked \in Row /\ RejectedRow \in Row
  /\ R("running", "approved", "accepted", "none") \in Row
  /\ R("pending", "approved", "none", "none") \in Row
BY DEF Row, R, NoRow, Running, Accepted, Failed, Canceled, Parked, RejectedRow

\* The table of _run_updates_for_loop covers every stop state.
LEMMA RunForLoopType ==
  ASSUME NEW r \in Row, NEW t \in TerminalState
  PROVE  RunForLoop(r, t) \in Row
BY DEF Row, R, RunForLoop, Accepted, Failed, Canceled, TerminalState, Suspended,
       Final, Active

\* The mapping of _goal_state_for_run covers every Run.
LEMMA GoalForRunType ==
  ASSUME NEW r \in Row
  PROVE  GoalForRun(r) \in Row
BY DEF Row, R, GoalForRun, Accepted, Running

\* Every saga payload turns a Run into a Run.
LEMMA RunForSagaType ==
  ASSUME NEW r \in Row, NEW k \in Key
  PROVE  RunForSaga(r, k) \in Row
<1>1. k.op \in {"result", "exception", "cancel", "pause"} /\ k.end \in TerminalState
  BY DEF Key
<1> QED BY <1>1, RowTypes, RunForLoopType DEF RunForSaga

\* The operation keys the code builds are keys.
LEMMA KeyTypes ==
  /\ \A v \in 0 .. MaxVersion, t \in TerminalState : ResultKey(v, t) \in Key
  /\ \A v \in 0 .. MaxVersion : ExceptionKey(v) \in Key
  /\ WaitKey("cancel") \in Key /\ WaitKey("pause") \in Key
BY LifecycleAssumption
   DEF Key, ResultKey, ExceptionKey, WaitKey, TerminalState

\* A process that does nothing has a task.
LEMMA IdleType == Idle \in Task
<1>1. "idle" \in PC BY DEF PC, OpenPC, ApplyPC
<1>2. 0 \in 0 .. MaxGates BY LifecycleAssumption
<1>3. WaitKey("cancel") \in Key /\ NoRow \in Row BY KeyTypes, RowTypes
<1> QED BY <1>1, <1>2, <1>3 DEF Idle, Task

\* TypeOK holds before anything is opened.
LEMMA InitTypeOK == Init => TypeOK
<1> SUFFICES ASSUME Init PROVE TypeOK
  OBVIOUS
<1>1. /\ kind \in LoopKind /\ loop \in {"none"} \cup TerminalState
      /\ holder \in Driver \cup {NoOwner} /\ queued \in BOOLEAN
      /\ sagas \subseteq Key /\ unresolved \subseteq sagas /\ held \subseteq sagas
  BY DEF Init
<1>2. ver \in 0 .. MaxVersion /\ gate \in 0 .. MaxGates /\ faults \in 0 .. MaxFaults
  BY LifecycleAssumption DEF Init
<1>3. gates \in [1 .. MaxGates -> Gate \cup {"none"}]
  BY DEF Init
<1>4. run \in Row /\ goal \in Row /\ act \in [Actor -> Task]
  BY RowTypes, IdleType DEF Init
<1> QED BY <1>1, <1>2, <1>3, <1>4 DEF TypeOK

\* Updating one field of a well-typed task, or the whole of it.
LEMMA TaskUpdate ==
  ASSUME NEW x \in Task, NEW pc \in PC
  PROVE  /\ [x EXCEPT !.pc = pc] \in Task
         /\ \A k \in Key : [x EXCEPT !.pc = pc, !.key = k] \in Task
         /\ \A r \in Row : [x EXCEPT !.pc = pc, !.row = r] \in Task
         /\ \A s \in SUBSET Key : [x EXCEPT !.pc = pc, !.todo = s] \in Task
         /\ \A g \in 0 .. MaxGates : [x EXCEPT !.gate = g] \in Task
         /\ \A b \in BOOLEAN, k \in Key :
              [x EXCEPT !.pc = pc, !.deliver = b, !.key = k] \in Task
BY DEF Task

\* Who works on the objective.
LEMMA Actors ==
  Control \in Actor /\ Daemon \in Actor /\ \A d \in Driver : d \in Actor
BY DEF Actor

\* The places the actions name are places.
LEMMA PCs == OpenPC \cup ApplyPC \subseteq PC /\
  {"idle", "compensate", "compensate_goal", "mark_run", "mark_goal", "claim",
   "execute", "raised", "prepare", "outbox", "cancel_wait", "cancel_active",
   "cancel_run", "cancel_goal", "reject_loop", "reject_goal", "recover",
   "orphan_run", "orphan_goal", "orphan_close", "reconcile", "reopen",
   "read_wait"} \subseteq PC
BY DEF PC

\* The states the actions write to the loop row are stop states.
LEMMA LoopStates ==
  /\ {Active, "cancelled", "paused", "failed", "converged"} \subseteq TerminalState
  /\ Suspended \subseteq TerminalState /\ Outcome \subseteq TerminalState
  /\ \A t : IsStopped(t) => t \in TerminalState
  /\ "none" \notin TerminalState
BY LifecycleAssumption DEF TerminalState, Suspended, Final, Active, IsStopped

\* A saga starts with its loop transition or with the Run.
LEMMA FirstStepType == \A k : FirstStep(k) \in {"apply_loop", "apply_run"}
BY DEF FirstStep

\* What an actor does next is well typed when its task is.
LEMMA ActType ==
  ASSUME TypeOK, NEW a \in Actor
  PROVE  /\ act[a] \in Task
         /\ \A t \in Task : Become(a, t) => act' \in [Actor -> Task]
         /\ \A pc \in PC : Goto(a, pc) => act' \in [Actor -> Task]
         /\ Rest(a) => act' \in [Actor -> Task]
         /\ AfterSaga(a) => act' \in [Actor -> Task]
<1>1. act \in [Actor -> Task] /\ act[a] \in Task BY DEF TypeOK
<1>2. \A t \in Task : Become(a, t) => act' \in [Actor -> Task]
  BY <1>1 DEF Become
<1>3. \A pc \in PC : Goto(a, pc) => act' \in [Actor -> Task]
  BY <1>1, <1>2, TaskUpdate DEF Goto
<1>4. Rest(a) => act' \in [Actor -> Task]
  BY <1>2, IdleType DEF Rest
<1>5. AfterSaga(a) => act' \in [Actor -> Task]
  <2>1. act[a].todo \ {act[a].key} \in SUBSET Key
    BY <1>1 DEF Task
  <2>2. "recover" \in PC BY PCs
  <2>3. [Idle EXCEPT !.pc = "recover", !.todo = act[a].todo \ {act[a].key}] \in Task
    BY <2>1, <2>2, TaskUpdate, IdleType
  <2> QED BY <1>2, <1>4, <2>3 DEF AfterSaga
<1> QED BY <1>1, <1>2, <1>3, <1>4, <1>5

\* Every operation keeps the rows, the saga table and the tasks well typed.
LEMMA NextTypeOK == TypeOK /\ [Next]_vars => TypeOK'
<1> SUFFICES ASSUME TypeOK, [Next]_vars PROVE TypeOK'
  OBVIOUS
<1>a. Control \in Actor /\ Daemon \in Actor /\ act[Control] \in Task /\ act[Daemon] \in Task
  BY Actors, ActType
<1>1. CASE OpenRun
  <2>1. act' \in [Actor -> Task]
    BY <1>1, <1>a, ActType, Actors, PCs
       DEF OpenRun, OpenPC, ApplyPC
  <2> QED
    BY <1>1, <2>1, RowTypes, LifecycleAssumption DEF OpenRun, TypeOK, loopRow, sagaTable, Fault
<1>2. CASE OpenGoal
  <2>1. [act[Control] EXCEPT !.pc = "open_loop", !.row = Running] \in Task
    BY <1>a, TaskUpdate, RowTypes, PCs DEF OpenPC
  <2>2. act' \in [Actor -> Task]
    BY <1>2, <1>a, <2>1, ActType DEF OpenGoal
  <2> QED BY <1>2, <2>2, RowTypes DEF OpenGoal, TypeOK, loopRow, sagaTable
<1>3. CASE OpenGoalRaises
  <2>1. act' \in [Actor -> Task]
    BY <1>3, <1>a, ActType, Actors, PCs
       DEF OpenGoalRaises, OpenPC, ApplyPC
  <2> QED
    BY <1>3, <2>1, RowTypes, LifecycleAssumption DEF OpenGoalRaises, TypeOK, loopRow, sagaTable, Fault
<1>4. CASE OpenLoop
  <2>1. act' \in [Actor -> Task]
    BY <1>4, <1>a, ActType, Actors, PCs DEF OpenLoop, OpenPC, ApplyPC
  <2> QED
    BY <1>4, <2>1, RowTypes, LoopStates, LifecycleAssumption
       DEF OpenLoop, TypeOK, loopRow, sagaTable, Fault
<1>5. CASE RegisterRun
  <2>1. act' \in [Actor -> Task]
    BY <1>5, <1>a, ActType, Actors, PCs
       DEF RegisterRun, OpenPC, ApplyPC
  <2> QED
    BY <1>5, <2>1, RowTypes, LifecycleAssumption DEF RegisterRun, TypeOK, loopRow, sagaTable, Fault
<1>6. CASE RegisterGoal
  <2>1. act' \in [Actor -> Task]
    BY <1>6, <1>a, ActType, Actors, PCs
       DEF RegisterGoal, OpenPC, ApplyPC
  <2> QED
    BY <1>6, <2>1, RowTypes, LifecycleAssumption DEF RegisterGoal, TypeOK, loopRow, sagaTable, Fault
<1>7. CASE OpenRaises
  <2>1. act' \in [Actor -> Task]
    BY <1>7, <1>a, ActType, Actors, PCs
       DEF OpenRaises, OpenPC, ApplyPC
  <2> QED
    BY <1>7, <2>1, RowTypes, LifecycleAssumption DEF OpenRaises, TypeOK, loopRow, sagaTable, Fault
<1>8. CASE CompensateRun
  <2>1. act' \in [Actor -> Task]
    BY <1>8, <1>a, ActType, Actors, PCs
       DEF CompensateRun, OpenPC, ApplyPC
  <2> QED
    BY <1>8, <2>1, RowTypes, LifecycleAssumption DEF CompensateRun, TypeOK, loopRow, sagaTable, Fault
<1>9. CASE CompensateGoal
  <2>1. act' \in [Actor -> Task]
    BY <1>9, <1>a, ActType, Actors, PCs DEF CompensateGoal, OpenPC, ApplyPC
  <2> QED
    BY <1>9, <2>1, RowTypes, LoopStates, LifecycleAssumption, GoalForRunType
       DEF CompensateGoal, TypeOK, loopRow, sagaTable, Fault
<1>10. CASE LeaseExpires
  <2>1. act' \in [Actor -> Task]
    BY <1>10, <1>a, ActType, Actors, PCs
       DEF LeaseExpires, OpenPC, ApplyPC, TypeOK
  <2> QED
    BY <1>10, <2>1, RowTypes, LifecycleAssumption DEF LeaseExpires, TypeOK, loopRow, sagaTable, Fault
<1>11. CASE CancelRequested
  <2>1. act' \in [Actor -> Task]
    BY <1>11, <1>a, ActType, Actors, PCs
       DEF CancelRequested, OpenPC, ApplyPC
  <2> QED
    BY <1>11, <2>1, RowTypes, LifecycleAssumption DEF CancelRequested, TypeOK, loopRow, sagaTable, Fault
<1>12. CASE CancelLoop
  <2>1. act' \in [Actor -> Task]
    BY <1>12, <1>a, ActType, Actors, PCs DEF CancelLoop, OpenPC, ApplyPC
  <2> QED
    BY <1>12, <2>1, RowTypes, LoopStates, LifecycleAssumption
       DEF CancelLoop, TypeOK, loopRow, sagaTable, Fault
<1>13. CASE CancelRun
  <2>1. act' \in [Actor -> Task]
    BY <1>13, <1>a, ActType, Actors, PCs
       DEF CancelRun, OpenPC, ApplyPC
  <2> QED
    BY <1>13, <2>1, RowTypes, LifecycleAssumption DEF CancelRun, TypeOK, loopRow, sagaTable, Fault
<1>14. CASE CancelGoal
  <2>1. act' \in [Actor -> Task]
    BY <1>14, <1>a, ActType, Actors, PCs
       DEF CancelGoal, OpenPC, ApplyPC
  <2> QED
    BY <1>14, <2>1, RowTypes, LifecycleAssumption DEF CancelGoal, TypeOK, loopRow, sagaTable, Fault
<1>15. CASE RejectLoop
  <2>1. act' \in [Actor -> Task]
    BY <1>15, <1>a, ActType, Actors, PCs DEF RejectLoop, OpenPC, ApplyPC
  <2> QED
    BY <1>15, <2>1, RowTypes, LoopStates, LifecycleAssumption
       DEF RejectLoop, TypeOK, loopRow, sagaTable, Fault
<1>16. CASE RejectGoal
  <2>1. act' \in [Actor -> Task]
    BY <1>16, <1>a, ActType, Actors, PCs
       DEF RejectGoal, OpenPC, ApplyPC
  <2> QED
    BY <1>16, <2>1, RowTypes, LifecycleAssumption DEF RejectGoal, TypeOK, loopRow, sagaTable, Fault
<1>17. CASE DaemonStart
  <2>1. unresolved \in SUBSET Key BY DEF TypeOK
  <2>2. [act[Daemon] EXCEPT !.pc = "recover", !.todo = unresolved] \in Task
    BY <1>a, <2>1, TaskUpdate, PCs
  <2>3. act' \in [Actor -> Task]
    BY <1>17, <1>a, <2>2, ActType DEF DaemonStart
  <2> QED BY <1>17, <2>3 DEF DaemonStart, TypeOK, loopRow, sagaTable
<1>18. CASE Recover
  <2>1. ASSUME NEW k \in act[Daemon].todo
        PROVE  [act[Daemon] EXCEPT !.pc = FirstStep(k), !.key = k] \in Task
    <3>1. k \in Key BY <1>a DEF Task
    <3>2. FirstStep(k) \in PC BY FirstStepType, PCs DEF ApplyPC
    <3> QED BY <1>a, <3>1, <3>2, TaskUpdate
  <2>2. act' \in [Actor -> Task]
    <3>1. CASE act[Daemon].todo = {}
      BY <1>18, <1>a, <3>1, ActType, PCs DEF Recover
    <3>2. CASE act[Daemon].todo # {}
      <4>1. PICK k \in act[Daemon].todo :
              Become(Daemon, [act[Daemon] EXCEPT !.pc = FirstStep(k), !.key = k])
        BY <1>18, <3>2 DEF Recover
      <4> QED BY <1>a, <2>1, <4>1, ActType
    <3> QED BY <3>1, <3>2
  <2> QED BY <1>18, <2>2 DEF Recover, TypeOK, loopRow, sagaTable
<1>19. CASE OrphanRun
  <2>1. act' \in [Actor -> Task]
    BY <1>19, <1>a, ActType, Actors, PCs
       DEF OrphanRun, OpenPC, ApplyPC
  <2> QED
    BY <1>19, <2>1, RowTypes, LifecycleAssumption DEF OrphanRun, TypeOK, loopRow, sagaTable, Fault
<1>20. CASE OrphanGoal
  <2>1. act' \in [Actor -> Task]
    BY <1>20, <1>a, ActType, Actors, PCs
       DEF OrphanGoal, OpenPC, ApplyPC
  <2> QED
    BY <1>20, <2>1, RowTypes, LifecycleAssumption DEF OrphanGoal, TypeOK, loopRow, sagaTable, Fault
<1>21. CASE OrphanClose
  <2>1. act' \in [Actor -> Task]
    BY <1>21, <1>a, ActType, Actors, PCs
       DEF OrphanClose, OpenPC, ApplyPC
  <2> QED
    BY <1>21, <2>1, RowTypes, LifecycleAssumption DEF OrphanClose, TypeOK, loopRow, sagaTable, Fault
<1>22. CASE ReconcileStart
  <2>1. act' \in [Actor -> Task]
    BY <1>22, <1>a, ActType, Actors, PCs DEF ReconcileStart, OpenPC, ApplyPC
  <2> QED
    BY <1>22, <2>1, RowTypes, LoopStates, LifecycleAssumption
       DEF ReconcileStart, TypeOK, loopRow, sagaTable, Fault, Gate
<1>23. CASE Reconcile
  <2> DEFINE v == Verdict(GateStatus)
  <2>1. v \in {"leave", "reopen", "pause", "cancel"}
    BY DEF Verdict
  <2>2. v \in {"pause", "cancel"} =>
          [act[Daemon] EXCEPT !.pc = "read_wait", !.key = WaitKey(v)] \in Task
    BY <1>a, TaskUpdate, KeyTypes, PCs
  <2>3. \/ Rest(Daemon)
        \/ Goto(Daemon, "reopen")
        \/ /\ v \in {"pause", "cancel"}
           /\ Become(Daemon, [act[Daemon] EXCEPT !.pc = "read_wait", !.key = WaitKey(v)])
    BY <1>23, <2>1 DEF Reconcile
  <2>4. act' \in [Actor -> Task]
    BY <1>a, <2>2, <2>3, ActType, PCs
  <2> QED BY <1>23, <2>4 DEF Reconcile, TypeOK, loopRow, sagaTable
<1>24. CASE ReconcileReopen
  <2>1. act' \in [Actor -> Task]
    BY <1>24, <1>a, ActType, Actors, PCs DEF ReconcileReopen, OpenPC, ApplyPC
  <2> QED
    BY <1>24, <2>1, RowTypes, LoopStates, LifecycleAssumption
       DEF ReconcileReopen, TypeOK, loopRow, sagaTable, Fault, Reopen
<1>25. CASE RetentionCancel
  <2>1. [act[Daemon] EXCEPT !.pc = "read_wait", !.key = WaitKey("cancel")] \in Task
    BY <1>a, TaskUpdate, KeyTypes, PCs
  <2>2. act' \in [Actor -> Task]
    BY <1>25, <1>a, <2>1, ActType DEF RetentionCancel
  <2> QED BY <1>25, <2>2 DEF RetentionCancel, TypeOK, loopRow, sagaTable
<1>26. CASE ReadWait
  <2>1. act' \in [Actor -> Task]
    BY <1>26, <1>a, ActType, Actors, PCs
       DEF ReadWait, OpenPC, ApplyPC
  <2> QED
    BY <1>26, <2>1, RowTypes, LifecycleAssumption DEF ReadWait, TypeOK, loopRow, sagaTable, Fault
<1>27. ASSUME NEW d \in Driver, Resume(d) PROVE TypeOK'
  <2>1. act' \in [Actor -> Task]
    BY <1>27, <1>a, ActType, Actors, PCs DEF Resume, OpenPC, ApplyPC
  <2> QED
    BY <1>27, <2>1, RowTypes, LoopStates, LifecycleAssumption
       DEF Resume, TypeOK, loopRow, sagaTable, Fault, Reopen
<1>28. ASSUME NEW d \in Driver, MarkRun(d) PROVE TypeOK'
  <2>1. act' \in [Actor -> Task]
    BY <1>28, <1>a, ActType, Actors, PCs
       DEF MarkRun, OpenPC, ApplyPC
  <2> QED
    BY <1>28, <2>1, RowTypes, LifecycleAssumption DEF MarkRun, TypeOK, loopRow, sagaTable, Fault
<1>29. ASSUME NEW d \in Driver, MarkGoal(d) PROVE TypeOK'
  <2>1. act' \in [Actor -> Task]
    BY <1>29, <1>a, ActType, Actors, PCs
       DEF MarkGoal, OpenPC, ApplyPC
  <2> QED
    BY <1>29, <2>1, RowTypes, LifecycleAssumption DEF MarkGoal, TypeOK, loopRow, sagaTable, Fault
<1>30. ASSUME NEW d \in Driver, Claim(d) PROVE TypeOK'
  <2>a. d \in Actor /\ act[d] \in Task BY Actors, ActType
  <2>1. act' \in [Actor -> Task]
    <3>1. CASE IsStopped(loop)
      <4>1. ResultKey(ver, loop) \in Key
        BY <3>1, KeyTypes, LoopStates DEF TypeOK
      <4>2. [act[d] EXCEPT !.pc = "prepare", !.key = ResultKey(ver, loop)] \in Task
        BY <2>a, <4>1, TaskUpdate, PCs
      <4> QED BY <1>30, <2>a, <4>2, ActType, PCs DEF Claim
    <3>2. CASE ~IsStopped(loop)
      BY <1>30, <2>a, <3>2, ActType, PCs DEF Claim
    <3> QED BY <3>1, <3>2
  <2> QED BY <1>30, <2>1 DEF Claim, TypeOK, sagaTable
<1>31. ASSUME NEW d \in Driver, RequestApproval(d) PROVE TypeOK'
  <2>a. d \in Actor /\ act[d] \in Task BY Actors, ActType
  <2>b. PICK k \in 1 .. MaxGates :
          /\ gates' = [gates EXCEPT ![k] = "pending"]
          /\ Become(d, [act[d] EXCEPT !.gate = k])
    BY <1>31 DEF RequestApproval
  <2>1. [act[d] EXCEPT !.gate = k] \in Task
    <3>1. k \in 0 .. MaxGates BY LifecycleAssumption
    <3> QED BY <2>a, <3>1, TaskUpdate, PCs
  <2>2. act' \in [Actor -> Task] BY <2>a, <2>b, <2>1, ActType
  <2>3. gates' \in [1 .. MaxGates -> Gate \cup {"none"}]
    BY <2>b DEF TypeOK, Gate
  <2> QED BY <1>31, <2>2, <2>3 DEF RequestApproval, TypeOK, loopRow, sagaTable
<1>32. ASSUME NEW d \in Driver, Stop(d) PROVE TypeOK'
  <2>a. d \in Actor /\ act[d].gate \in 0 .. MaxGates BY Actors, ActType DEF Task
  <2>b. PICK t \in Outcome, deliver \in BOOLEAN :
          /\ loop' = t
          /\ IF t = Active THEN UNCHANGED <<ver, holder, gate>>
             ELSE ver' = ver + 1 /\ holder' = NoOwner /\ gate' = act[d].gate
          /\ Become(d, [Idle EXCEPT !.pc = "prepare", !.deliver = deliver,
                                    !.key = ResultKey(ver', t)])
    BY <1>32 DEF Stop
  <2>c. ver < MaxVersion BY <1>32 DEF Stop
  <2>1. ver' \in 0 .. MaxVersion /\ gate' \in 0 .. MaxGates /\ holder' \in Driver \cup {NoOwner}
    BY <2>a, <2>b, <2>c, LifecycleAssumption DEF TypeOK
  <2>2. ResultKey(ver', t) \in Key BY <2>1, KeyTypes, LoopStates
  <2>3. [Idle EXCEPT !.pc = "prepare", !.deliver = deliver, !.key = ResultKey(ver', t)]
          \in Task
    BY <2>2, TaskUpdate, IdleType, PCs
  <2>4. act' \in [Actor -> Task] BY <2>a, <2>b, <2>3, ActType
  <2>5. loop' \in TerminalState BY <2>b, LoopStates
  <2> QED BY <1>32, <2>1, <2>4, <2>5 DEF Stop, TypeOK, sagaTable
<1>33. ASSUME NEW d \in Driver, Raise(d) PROVE TypeOK'
  <2>1. [Idle EXCEPT !.pc = "raised"] \in Task
    BY TaskUpdate, IdleType, PCs
  <2>2. act' \in [Actor -> Task]
    BY <1>33, <2>1, Actors, ActType DEF Raise
  <2> QED BY <1>33, <2>2 DEF Raise, TypeOK, loopRow, sagaTable
<1>34. ASSUME NEW d \in Driver, FailLoop(d) PROVE TypeOK'
  <2>a. d \in Actor /\ act[d] \in Task BY Actors, ActType
  <2>1. CASE loop = Active /\ holder = d
    <3>c. ver < MaxVersion
      BY <1>34, <2>1 DEF FailLoop, IsStopped, Active, Suspended, Final
    <3>1. ver + 1 \in 0 .. MaxVersion BY <3>c, LifecycleAssumption DEF TypeOK
    <3>2. [act[d] EXCEPT !.pc = "prepare", !.key = ExceptionKey(ver + 1)] \in Task
      BY <2>a, <3>1, KeyTypes, TaskUpdate, PCs
    <3>3. /\ loop' = "failed" /\ ver' = ver + 1 /\ holder' = NoOwner /\ gate' = gate
          /\ Become(d, [act[d] EXCEPT !.pc = "prepare", !.key = ExceptionKey(ver + 1)])
      BY <1>34, <2>1, LoopStates DEF FailLoop, IsStopped, Active, Suspended, Final
    <3>4. act' \in [Actor -> Task] BY <2>a, <3>2, <3>3, ActType
    <3> QED BY <1>34, <3>1, <3>3, <3>4, LoopStates DEF FailLoop, TypeOK, sagaTable
  <2>2. CASE ~(loop = Active /\ holder = d)
    <3>1. [act[d] EXCEPT !.pc = "prepare", !.key = ExceptionKey(ver)] \in Task
      BY <2>a, KeyTypes, TaskUpdate, PCs DEF TypeOK
    <3>2. act' \in [Actor -> Task] /\ UNCHANGED loopRow
      BY <1>34, <2>a, <2>2, <3>1, ActType DEF FailLoop
    <3> QED BY <1>34, <3>2 DEF FailLoop, TypeOK, loopRow, sagaTable
  <2> QED BY <2>1, <2>2
<1>35. ASSUME NEW d \in Driver, Enqueue(d) PROVE TypeOK'
  <2>1. act' \in [Actor -> Task]
    BY <1>35, <1>a, ActType, Actors, PCs
       DEF Enqueue, OpenPC, ApplyPC
  <2> QED
    BY <1>35, <2>1, RowTypes, LifecycleAssumption DEF Enqueue, TypeOK, loopRow, sagaTable, Fault
<1>36. ASSUME NEW a \in Driver \cup {Daemon}, Prepare(a) PROVE TypeOK'
  <2>a. a \in Actor /\ act[a] \in Task BY Actors, ActType
  <2>b. act[a].key \in Key BY <2>a DEF Task
  <2>1. act' \in [Actor -> Task]
    BY <1>36, <2>a, ActType, PCs, FirstStepType DEF Prepare, ApplyPC
  <2>2. sagas' \subseteq Key /\ unresolved' \subseteq Key /\ held' \subseteq Key
    BY <1>36, <2>b DEF Prepare, TypeOK
  <2> QED BY <1>36, <2>1, <2>2 DEF Prepare, TypeOK, loopRow
<1>37. ASSUME NEW a \in Driver \cup {Daemon}, ApplyLoop(a) PROVE TypeOK'
  <2>a. a \in Actor /\ act[a] \in Task BY Actors, ActType
  <2>b. act[a].key \in Key BY <2>a DEF Task
  <2>1. act' \in [Actor -> Task]
    BY <1>37, <2>a, ActType, PCs DEF ApplyLoop, MarkFailed, ApplyPC
  <2>2. loop' \in {"none"} \cup TerminalState /\ holder' \in Driver \cup {NoOwner}
    BY <1>37, LoopStates DEF ApplyLoop, WaitTarget, TypeOK, loopRow
  <2>3. sagas' = sagas /\ unresolved' \subseteq Key /\ held' = held
    BY <1>37, <2>b DEF ApplyLoop, MarkFailed, sagaTable, TypeOK
  <2> QED BY <1>37, <2>1, <2>2, <2>3 DEF ApplyLoop, MarkFailed, TypeOK, loopRow
<1>38. ASSUME NEW a \in Driver \cup {Daemon}, ApplyRun(a) PROVE TypeOK'
  <2>a. a \in Actor /\ act[a] \in Task BY Actors, ActType
  <2>b. RunForSaga(run, act[a].key) \in Row
    BY <2>a, RunForSagaType DEF TypeOK, Task
  <2>1. [act[a] EXCEPT !.pc = "apply_goal", !.row = RunForSaga(run, act[a].key)] \in Task
    BY <2>a, <2>b, TaskUpdate, PCs DEF ApplyPC
  <2>2. act' \in [Actor -> Task] BY <1>38, <2>a, <2>1, ActType DEF ApplyRun
  <2> QED BY <1>38, <2>b, <2>2 DEF ApplyRun, TypeOK, loopRow, sagaTable
<1>39. ASSUME NEW a \in Driver \cup {Daemon}, ApplyGoal(a) PROVE TypeOK'
  <2>a. a \in Actor /\ act[a] \in Task BY Actors, ActType
  <2>b. GoalForRun(act[a].row) \in Row
    BY <2>a, GoalForRunType DEF Task
  <2>1. [act[a] EXCEPT !.pc = "complete", !.row = NoRow] \in Task
    BY <2>a, RowTypes, TaskUpdate, PCs DEF ApplyPC
  <2>2. act' \in [Actor -> Task] BY <1>39, <2>a, <2>1, ActType DEF ApplyGoal
  <2> QED BY <1>39, <2>b, <2>2 DEF ApplyGoal, TypeOK, loopRow, sagaTable
<1>40. ASSUME NEW a \in Driver \cup {Daemon}, Complete(a) PROVE TypeOK'
  <2>1. act' \in [Actor -> Task]
    BY <1>40, <1>a, ActType, Actors, PCs
       DEF Complete, OpenPC, ApplyPC
  <2> QED
    BY <1>40, <2>1, RowTypes, LifecycleAssumption DEF Complete, TypeOK, loopRow, sagaTable, Fault
<1>41. ASSUME NEW a \in Driver \cup {Daemon}, ApplyRaises(a) PROVE TypeOK'
  <2>a. a \in Actor /\ act[a] \in Task BY Actors, ActType
  <2>b. act[a].key \in Key BY <2>a DEF Task
  <2>1. act' \in [Actor -> Task]
    BY <1>41, <2>a, ActType DEF ApplyRaises, MarkFailed
  <2>2. sagas' = sagas /\ unresolved' \subseteq Key /\ held' = held
    BY <1>41, <2>b DEF ApplyRaises, MarkFailed, TypeOK
  <2>3. faults' \in 0 .. MaxFaults
    BY <1>41, LifecycleAssumption DEF ApplyRaises, Fault, TypeOK
  <2> QED BY <1>41, <2>1, <2>2, <2>3 DEF ApplyRaises, TypeOK, loopRow
<1>42. ASSUME NEW k \in 1 .. MaxGates, Approve(k) PROVE TypeOK'
  <2>1. act' \in [Actor -> Task]
    BY <1>42, <1>a, ActType, PCs DEF Approve, TypeOK
  <2>2. gates' \in [1 .. MaxGates -> Gate \cup {"none"}]
    BY <1>42 DEF Approve, TypeOK, Gate
  <2> QED BY <1>42, <2>1, <2>2, RowTypes DEF Approve, TypeOK, loopRow, sagaTable
<1>43. ASSUME NEW k \in 1 .. MaxGates, Reject(k) PROVE TypeOK'
  <2>1. act' \in [Actor -> Task]
    BY <1>43, <1>a, ActType, PCs DEF Reject, TypeOK
  <2>2. gates' \in [1 .. MaxGates -> Gate \cup {"none"}]
    BY <1>43 DEF Reject, TypeOK, Gate
  <2> QED BY <1>43, <2>1, <2>2, RowTypes DEF Reject, TypeOK, loopRow, sagaTable
<1>44. ASSUME NEW a \in Actor, Crash(a) PROVE TypeOK'
  <2>1. act' \in [Actor -> Task]
    BY <1>44, <1>a, ActType, Actors, PCs
       DEF Crash, OpenPC, ApplyPC
  <2> QED
    BY <1>44, <2>1, RowTypes, LifecycleAssumption DEF Crash, TypeOK, loopRow, sagaTable, Fault
<1>50. CASE UNCHANGED vars
  BY <1>50 DEF vars, TypeOK
<1> QED
  BY <1>1, <1>2, <1>3, <1>4, <1>5, <1>6, <1>7, <1>8, <1>9, <1>10, <1>11, <1>12, <1>13, <1>14, <1>15, <1>16, <1>17, <1>18, <1>19, <1>20, <1>21, <1>22, <1>23, <1>24, <1>25, <1>26, <1>27, <1>28, <1>29, <1>30, <1>31, <1>32, <1>33, <1>34, <1>35, <1>36, <1>37, <1>38, <1>39, <1>40, <1>41, <1>42, <1>43, <1>44, <1>50
     DEF Next, Open, Drive, Saga, Command, Serve

\* Every row the stores hold, every message in flight, is well typed.
THEOREM TypeCorrect == Spec => []TypeOK
BY InitTypeOK, NextTypeOK, PTL DEF Spec

(****************************************************************************)
(* The open order.  A loop row is created once, by the open that created    *)
(* the Run, and what an open registers as converged stays so.               *)
(****************************************************************************)

OpenInv ==
  /\ run = NoRow => loop = "none"
  /\ act[Control].pc \in {"open_goal", "open_loop"} => loop = "none"
  /\ act[Control].pc \in {"register_run", "register_goal"} => loop = "converged"
  /\ act[Control].pc \in OpenPC => run # NoRow

\* Projections never delete the Run, and report success only of a converged
\* result, a cancellation only of a cancelled one.
LEMMA Projection ==
  ASSUME NEW r \in Row, NEW k \in Key
  PROVE  /\ RunForSaga(r, k) # NoRow
         /\ Success(RunForSaga(r, k)) => k.op = "result" /\ k.end = "converged"
         /\ RunForSaga(r, k).res = "canceled" =>
              \/ k.op = "cancel"
              \/ k.op = "result" /\ k.end \in {"cancelled", "superseded"}
         /\ Success(GoalForRun(r)) => Success(r)
         /\ GoalForRun(r).res = "canceled" => r.res = "canceled"
         /\ GoalForRun(r) # NoRow
<1>1. k.op \in {"result", "exception", "cancel", "pause"} /\ k.end \in TerminalState
  BY DEF Key
<1>2. /\ RunForLoop(r, k.end) # NoRow
      /\ Success(RunForLoop(r, k.end)) => k.end = "converged"
      /\ RunForLoop(r, k.end).res = "canceled" => k.end \in {"cancelled", "superseded"}
  BY <1>1 DEF RunForLoop, R, NoRow, Success, Accepted, Failed, Canceled,
              TerminalState, Suspended, Final, Active, Row
<1>3. /\ Success(GoalForRun(r)) => Success(r)
      /\ GoalForRun(r).res = "canceled" => r.res = "canceled"
      /\ GoalForRun(r) # NoRow
  BY DEF GoalForRun, R, NoRow, Success, Accepted, Running, Row
<1>4. /\ Failed # NoRow /\ Canceled # NoRow /\ Parked # NoRow
      /\ ~Success(Failed) /\ ~Success(Canceled) /\ ~Success(Parked)
      /\ Failed.res # "canceled" /\ Parked.res # "canceled"
  BY DEF Failed, Canceled, Parked, NoRow, R, Success
<1> QED BY <1>1, <1>2, <1>3, <1>4 DEF RunForSaga

\* What the rows the code writes report, and that none of them is empty.
LEMMA RowFacts ==
  /\ Running # NoRow /\ Accepted # NoRow /\ Failed # NoRow /\ Canceled # NoRow
  /\ RejectedRow # NoRow /\ R("pending", "approved", "none", "none") # NoRow
  /\ R("running", "approved", "accepted", "none") # NoRow
  /\ ~Success(NoRow) /\ ~Success(Running) /\ ~Success(Failed) /\ ~Success(Canceled)
  /\ ~Success(RejectedRow) /\ ~Success(R("pending", "approved", "none", "none"))
  /\ NoRow.res = "none" /\ Running.res = "none" /\ Failed.res = "failed"
  /\ Accepted.res = "success" /\ R("pending", "approved", "none", "none").res = "none"
  /\ R("running", "approved", "accepted", "none").res = "none"
BY DEF Running, Accepted, Failed, Canceled, RejectedRow, R, NoRow, Success

\* Only the open leaves "none", and what converged or was cancelled stays so.
LoopMoves ==
  /\ loop = "none" => loop' = "none" \/ OpenLoop
  /\ loop # "none" => loop' # "none"
  /\ loop \in {"converged", "cancelled", "superseded"} => loop' = loop
  /\ OpenLoop => loop = "none"

\* Every step moves the loop row as LoopMoves says.
LEMMA NextLoop == TypeOK /\ OpenInv /\ [Next]_vars => LoopMoves
<1> SUFFICES ASSUME TypeOK, OpenInv, [Next]_vars PROVE LoopMoves
  OBVIOUS
<1> USE DEF LoopMoves
<1>s. /\ Suspended \cap {"none", "converged", "cancelled", "superseded", Active} = {}
      /\ Active \notin {"none", "converged", "cancelled", "superseded"}
      /\ ~IsStopped(Active) /\ ~IsStopped("none")
  BY DEF Suspended, Active, IsStopped, Final
<1>0. OpenLoop => loop = "none"
  BY DEF OpenLoop, OpenInv, At
<1>1. CASE OpenLoop BY <1>1, <1>0, <1>s
<1>2. CASE UNCHANGED loop BY <1>2, <1>0
<1>3. CASE CancelLoop BY <1>3, <1>s, <1>0 DEF CancelLoop, loopRow
<1>4. CASE RejectLoop BY <1>4, <1>s, <1>0 DEF RejectLoop, loopRow
<1>5. CASE ReconcileReopen BY <1>5, <1>s, <1>0 DEF ReconcileReopen, Reopen
<1>6. ASSUME NEW d \in Driver, Resume(d) PROVE LoopMoves
  BY <1>6, <1>s, <1>0 DEF Resume, Reopen
<1>7. ASSUME NEW d \in Driver, Stop(d) PROVE LoopMoves
  BY <1>7, <1>s, <1>0, LoopStates DEF Stop
<1>8. ASSUME NEW d \in Driver, FailLoop(d) PROVE LoopMoves
  BY <1>8, <1>s, <1>0 DEF FailLoop, loopRow
<1>9. ASSUME NEW a \in Driver \cup {Daemon}, ApplyLoop(a) PROVE LoopMoves
  BY <1>9, <1>s, <1>0 DEF ApplyLoop, WaitAllowed, WaitTarget, loopRow
<1>10. ASSUME NEW a \in Driver \cup {Daemon}, Saga(a), ~ApplyLoop(a) PROVE UNCHANGED loop
  BY <1>10 DEF Saga, Prepare, ApplyRun, ApplyGoal, Complete, loopRow
<1>11. ASSUME NEW d \in Driver, Drive(d), ~Stop(d), ~FailLoop(d) PROVE UNCHANGED loop
  BY <1>11 DEF Drive, MarkRun, MarkGoal, Claim, Raise, Enqueue, loopRow
<1>12. ASSUME NEW d \in Driver, RequestApproval(d) PROVE UNCHANGED loop
  BY <1>12 DEF RequestApproval, loopRow
<1>13. ASSUME Open, ~OpenLoop PROVE UNCHANGED loop
  BY <1>13 DEF Open, OpenRun, OpenGoal, RegisterRun, RegisterGoal, CompensateRun,
               CompensateGoal, loopRow
<1>14. ASSUME OpenGoalRaises \/ OpenRaises \/ LeaseExpires \/ CancelRequested
                \/ DaemonStart \/ ReconcileStart \/ RetentionCancel
       PROVE  UNCHANGED loop
  BY <1>14 DEF OpenGoalRaises, OpenRaises, LeaseExpires, CancelRequested, DaemonStart,
               ReconcileStart, RetentionCancel, loopRow
<1>15. ASSUME Command, ~CancelLoop, ~RejectLoop PROVE UNCHANGED loop
  BY <1>15 DEF Command, CancelRun, CancelGoal, RejectGoal, loopRow
<1>16. ASSUME Serve, ~ReconcileReopen PROVE UNCHANGED loop
  BY <1>16 DEF Serve, Recover, OrphanRun, OrphanGoal, OrphanClose, Reconcile, ReadWait,
               loopRow
<1>17. ASSUME NEW k \in 1 .. MaxGates, Approve(k) \/ Reject(k) PROVE UNCHANGED loop
  BY <1>17 DEF Approve, Reject, loopRow
<1>18. ASSUME NEW a \in Actor, Crash(a) PROVE UNCHANGED loop
  BY <1>18 DEF Crash, loopRow
<1>19. ASSUME NEW a \in Driver \cup {Daemon}, ApplyRaises(a) PROVE UNCHANGED loop
  BY <1>19 DEF ApplyRaises, loopRow
<1>20. CASE UNCHANGED vars BY <1>20, <1>0 DEF vars
<1> QED
  BY <1>1, <1>2, <1>3, <1>4, <1>5, <1>6, <1>7, <1>8, <1>9, <1>10, <1>11, <1>12,
     <1>13, <1>14, <1>15, <1>16, <1>17, <1>18, <1>19, <1>20 DEF Next

\* A created Run is never deleted.
LEMMA RunStays == TypeOK /\ [Next]_vars /\ run # NoRow => run' # NoRow
<1> SUFFICES ASSUME TypeOK, [Next]_vars, run # NoRow PROVE run' # NoRow
  OBVIOUS
<1>1. CASE UNCHANGED run BY <1>1
<1>2. ASSUME Open PROVE run' # NoRow
  BY <1>2, RowFacts DEF Open, OpenRun, OpenGoal, OpenLoop, RegisterRun, RegisterGoal,
                        CompensateRun, CompensateGoal
<1>3. ASSUME OpenGoalRaises \/ OpenRaises \/ LeaseExpires \/ CancelRequested
               \/ DaemonStart \/ ReconcileStart \/ RetentionCancel
      PROVE  UNCHANGED run
  BY <1>3 DEF OpenGoalRaises, OpenRaises, LeaseExpires, CancelRequested, DaemonStart,
              ReconcileStart, RetentionCancel
<1>4. ASSUME NEW d \in Driver, Drive(d) PROVE run' # NoRow
  BY <1>4, RowFacts DEF Drive, MarkRun, MarkGoal, Claim, Stop, Raise, FailLoop, Enqueue
<1>5. ASSUME NEW d \in Driver, Resume(d) \/ RequestApproval(d) PROVE UNCHANGED run
  BY <1>5 DEF Resume, RequestApproval
<1>6. ASSUME NEW a \in Driver \cup {Daemon}, ApplyRun(a) PROVE run' # NoRow
  <2>1. run \in Row /\ act[a].key \in Key BY Actors, ActType DEF TypeOK, Task
  <2> QED BY <1>6, <2>1, Projection DEF ApplyRun
<1>7. ASSUME NEW a \in Driver \cup {Daemon}, Saga(a) \/ ApplyRaises(a), ~ApplyRun(a)
      PROVE  UNCHANGED run
  BY <1>7 DEF Saga, Prepare, ApplyLoop, ApplyGoal, Complete, ApplyRaises
<1>8. ASSUME Command PROVE run' # NoRow
  BY <1>8, RowFacts DEF Command, CancelLoop, CancelRun, CancelGoal, RejectLoop, RejectGoal
<1>9. ASSUME NEW k \in 1 .. MaxGates, Approve(k) \/ Reject(k) PROVE run' # NoRow
  BY <1>9, RowFacts DEF Approve, Reject
<1>10. ASSUME Serve PROVE run' # NoRow
  BY <1>10, RowFacts DEF Serve, Recover, OrphanRun, OrphanGoal, OrphanClose, Reconcile,
                         ReconcileReopen, ReadWait
<1>11. ASSUME NEW a \in Actor, Crash(a) PROVE UNCHANGED run
  BY <1>11 DEF Crash
<1>12. CASE UNCHANGED vars BY <1>12 DEF vars
<1> QED
  BY <1>1, <1>2, <1>3, <1>4, <1>5, <1>6, <1>7, <1>8, <1>9, <1>10, <1>11, <1>12
     DEF Next

\* A task an actor takes up, seen by everyone.
LEMMA ActStep ==
  ASSUME TypeOK, NEW a \in Actor
  PROVE  /\ \A t : Become(a, t) => act'[a] = t
         /\ \A t : Become(a, t) => \A b \in Actor : b # a => act'[b] = act[b]
         /\ \A pc : Goto(a, pc) => /\ act'[a].pc = pc
                                   /\ act'[a].todo = act[a].todo
                                   /\ act'[a].key = act[a].key
                                   /\ \A b \in Actor : b # a => act'[b] = act[b]
         /\ Rest(a) => /\ act'[a] = Idle
                       /\ \A b \in Actor : b # a => act'[b] = act[b]
<1>1. act \in [Actor -> Task] /\ act[a] \in Task BY DEF TypeOK
<1>2. \A t : Become(a, t) => act'[a] = t /\ \A b \in Actor : b # a => act'[b] = act[b]
  BY <1>1 DEF Become
<1>3. \A pc : [act[a] EXCEPT !.pc = pc].pc = pc
              /\ [act[a] EXCEPT !.pc = pc].todo = act[a].todo
              /\ [act[a] EXCEPT !.pc = pc].key = act[a].key
  BY <1>1 DEF Task
<1>4. ASSUME NEW pc, Goto(a, pc)
      PROVE  /\ act'[a].pc = pc /\ act'[a].todo = act[a].todo /\ act'[a].key = act[a].key
             /\ \A b \in Actor : b # a => act'[b] = act[b]
  <2>1. Become(a, [act[a] EXCEPT !.pc = pc]) BY <1>4 DEF Goto
  <2>2. act'[a] = [act[a] EXCEPT !.pc = pc] BY <2>1, <1>2
  <2> QED BY <2>1, <2>2, <1>2, <1>3
<1>5. Rest(a) => act'[a] = Idle /\ \A b \in Actor : b # a => act'[b] = act[b]
  BY <1>2 DEF Rest
<1> QED BY <1>2, <1>4, <1>5

\* Nobody else moves the serving process.
LEMMA OthersKeepControl ==
  TypeOK /\ [Next]_vars =>
    \/ act'[Control] = act[Control]
    \/ Open \/ OpenGoalRaises \/ OpenRaises \/ CancelRequested \/ Command \/ Crash(Control)
    \/ \E k \in 1 .. MaxGates : Reject(k)
<1> SUFFICES ASSUME TypeOK, [Next]_vars,
                    ~(Open \/ OpenGoalRaises \/ OpenRaises \/ CancelRequested \/ Command
                        \/ Crash(Control) \/ \E k \in 1 .. MaxGates : Reject(k))
             PROVE  act'[Control] = act[Control]
  OBVIOUS
<1>a. Control \in Actor /\ Daemon \in Actor /\ Control # Daemon /\ Control \notin Driver
  BY Actors, LifecycleAssumption
<1>1. ASSUME NEW a \in Actor \ {Control}, NEW t, Become(a, t)
      PROVE  act'[Control] = act[Control]
  BY <1>1, <1>a, ActStep
<1>2. ASSUME NEW d \in Driver, Resume(d) \/ RequestApproval(d) \/ Drive(d)
      PROVE  act'[Control] = act[Control]
  <2>1. \E t : Become(d, t)
    BY <1>2, Zenon DEF Resume, RequestApproval, Drive, MarkRun, MarkGoal, Claim, Stop,
                Raise, FailLoop, Enqueue, Goto, Rest
  <2> QED BY <2>1, <1>1, <1>a, Actors
<1>3. ASSUME NEW a \in Driver \cup {Daemon}, Saga(a) \/ ApplyRaises(a)
      PROVE  act'[Control] = act[Control]
  <2>1. \E t : Become(a, t)
    BY <1>3, Zenon DEF Saga, Prepare, ApplyLoop, ApplyRun, ApplyGoal, Complete,
                ApplyRaises, MarkFailed, AfterSaga, Goto, Rest
  <2> QED BY <2>1, <1>1, <1>a, Actors
<1>4. ASSUME DaemonStart \/ ReconcileStart \/ RetentionCancel \/ Serve
      PROVE  act'[Control] = act[Control]
  <2>1. \E t : Become(Daemon, t)
    BY <1>4, Zenon DEF DaemonStart, ReconcileStart, RetentionCancel, Serve, Recover,
                OrphanRun, OrphanGoal, OrphanClose, Reconcile, ReconcileReopen, ReadWait,
                Goto, Rest
  <2> QED BY <2>1, <1>1, <1>a
<1>5. ASSUME NEW a \in Actor, Crash(a) PROVE act'[Control] = act[Control]
  BY <1>5, <1>1 DEF Crash, Rest
<1>6. ASSUME NEW k \in 1 .. MaxGates, Approve(k) PROVE act'[Control] = act[Control]
  BY <1>6 DEF Approve
<1>7. CASE LeaseExpires \/ UNCHANGED vars BY <1>7 DEF LeaseExpires, vars
<1> QED BY <1>2, <1>3, <1>4, <1>5, <1>6, <1>7 DEF Next

\* The serving process enters an open only at its beginning and follows it in
\* order.
ControlMoves ==
  \/ act'[Control].pc = act[Control].pc
  \/ act'[Control].pc \notin OpenPC \cup {"compensate", "compensate_goal"}
  \/ OpenRun /\ act'[Control].pc = "open_goal"
  \/ OpenGoal /\ act'[Control].pc = "open_loop"
  \/ OpenLoop /\ loop' = "converged" /\ act'[Control].pc = "register_run"
  \/ RegisterRun /\ act'[Control].pc = "register_goal"
  \/ /\ act[Control].pc \in OpenPC \cup {"compensate"}
     /\ act'[Control].pc \in {"compensate", "compensate_goal"}

\* Every step moves the opening process as ControlMoves says.
LEMMA NextControl == TypeOK /\ [Next]_vars => ControlMoves
<1> SUFFICES ASSUME TypeOK, [Next]_vars PROVE ControlMoves
  OBVIOUS
<1> USE DEF ControlMoves, OpenPC
<1>a. Control \in Actor BY Actors
<1>c. Idle.pc = "idle" BY DEF Idle
<1>1. CASE Open
  <2>1. CASE OpenGoal
    <3>1. [act[Control] EXCEPT !.pc = "open_loop", !.row = Running].pc = "open_loop"
      BY <1>a, ActType DEF Task
    <3> QED BY <2>1, <3>1, <1>a, ActType DEF OpenGoal, Become, TypeOK
  <2>2. CASE OpenRun \/ RegisterRun \/ CompensateRun
    BY <2>2, <1>a, <1>c, ActStep DEF OpenRun, RegisterRun, CompensateRun, At
  <2>3. CASE RegisterGoal \/ CompensateGoal
    BY <2>3, <1>a, <1>c, ActStep DEF RegisterGoal, CompensateGoal
  <2>4. CASE OpenLoop
    BY <2>4, <1>a, <1>c, ActStep DEF OpenLoop
  <2> QED BY <1>1, <2>1, <2>2, <2>3, <2>4 DEF Open
<1>2. CASE OpenGoalRaises \/ OpenRaises
  BY <1>2, <1>a, ActStep DEF OpenGoalRaises, OpenRaises, At
<1>3. CASE CancelRequested \/ Command
  BY <1>3, <1>a, <1>c, ActStep
     DEF CancelRequested, Command, CancelLoop, CancelRun, CancelGoal, RejectLoop,
         RejectGoal
<1>4. ASSUME NEW k \in 1 .. MaxGates, Reject(k) PROVE ControlMoves
  BY <1>4, <1>a, ActStep DEF Reject
<1>5. CASE Crash(Control)
  BY <1>5, <1>a, <1>c, ActStep DEF Crash
<1>6. CASE act'[Control] = act[Control] BY <1>6
<1> QED BY <1>1, <1>2, <1>3, <1>4, <1>5, <1>6, OthersKeepControl

\* OpenInv is inductive.
LEMMA NextOpenInv == TypeOK /\ OpenInv /\ [Next]_vars => OpenInv'
<1> SUFFICES ASSUME TypeOK, OpenInv, [Next]_vars PROVE OpenInv'
  OBVIOUS
<1>1. LoopMoves /\ ControlMoves /\ (run # NoRow => run' # NoRow)
  BY NextLoop, NextControl, RunStays
<1>2. run' = NoRow => loop' = "none"
  BY <1>1 DEF OpenInv, LoopMoves, OpenLoop, At, OpenPC
<1>3. act'[Control].pc \in OpenPC => run' # NoRow
  BY <1>1, RowFacts DEF OpenInv, ControlMoves, OpenRun, OpenGoal, OpenLoop, RegisterRun,
                        At, OpenPC
<1>4. act'[Control].pc \in {"open_goal", "open_loop"} => loop' = "none"
  <2>1. CASE OpenRun
    BY <2>1 DEF OpenRun, OpenInv, Exists, loopRow
  <2>2. CASE ~OpenRun
    <3>1. OpenLoop => act'[Control].pc \notin {"open_goal", "open_loop"}
      <4>1. Control \in Actor /\ Idle.pc = "idle" BY Actors DEF Idle
      <4> QED BY <4>1, ActStep DEF OpenLoop
    <3>2. act'[Control].pc \in {"open_goal", "open_loop"} =>
            act[Control].pc \in {"open_goal", "open_loop"} /\ ~OpenLoop
      BY <1>1, <2>2, <3>1 DEF ControlMoves, OpenPC, OpenGoal, OpenLoop, RegisterRun, At
    <3> QED BY <1>1, <3>2 DEF OpenInv, LoopMoves
  <2> QED BY <2>1, <2>2
<1>5. act'[Control].pc \in {"register_run", "register_goal"} => loop' = "converged"
  BY <1>1 DEF ControlMoves, OpenInv, LoopMoves, OpenPC, OpenRun, OpenGoal, RegisterRun, At
<1> QED BY <1>2, <1>3, <1>4, <1>5 DEF OpenInv

\* OpenInv holds before anything is opened.
LEMMA InitOpenInv == Init => OpenInv
<1> SUFFICES ASSUME Init PROVE OpenInv
  OBVIOUS
<1>1. act[Control].pc = "idle" BY Actors DEF Init, Idle
<1> QED BY <1>1 DEF Init, OpenInv, OpenPC

(****************************************************************************)
(* Success.  SuccessIsConverged alone is not inductive: a success may be on *)
(* its way in a saga row, in the saga an actor replays, in the Run it just  *)
(* wrote and in a delivery it owes.  While the loop has not converged all   *)
(* of these are silent.                                                     *)
(****************************************************************************)

Claims(k) == k.op = "result" /\ k.end = "converged"

Vouches(t) ==
  \/ Success(t.row) \/ t.deliver \/ t.pc = "outbox"
  \/ Claims(t.key) \/ \E k \in t.todo : Claims(k)

Quiet == \A a \in Actor : ~Vouches(act[a])

Silent ==
  /\ ~Success(run) /\ ~Success(goal) /\ ~queued
  /\ \A k \in unresolved : ~Claims(k)
  /\ Quiet

SuccessInv == OpenInv /\ (Silent \/ loop = "converged")

\* A task that vouches for no success still does not after an update that
\* adds none.
LEMMA QuietTask ==
  ASSUME NEW x \in Task, ~Vouches(x), NEW pc, pc # "outbox"
  PROVE  /\ ~Vouches([x EXCEPT !.pc = pc])
         /\ \A r : ~Success(r) => ~Vouches([x EXCEPT !.pc = pc, !.row = r])
         /\ \A k : ~Claims(k) => ~Vouches([x EXCEPT !.pc = pc, !.key = k])
         /\ \A s : (\A k \in s : ~Claims(k)) => ~Vouches([x EXCEPT !.pc = pc, !.todo = s])
         /\ \A k : ~Claims(k) =>
                     ~Vouches([x EXCEPT !.pc = pc, !.deliver = FALSE, !.key = k])
         /\ \A g : ~Vouches([x EXCEPT !.gate = g])
<1> USE DEF Vouches, Task
<1>1. ~Vouches([x EXCEPT !.pc = pc]) OBVIOUS
<1>2. \A r : ~Success(r) => ~Vouches([x EXCEPT !.pc = pc, !.row = r]) OBVIOUS
<1>3. \A k : ~Claims(k) => ~Vouches([x EXCEPT !.pc = pc, !.key = k]) OBVIOUS
<1>4. \A s : (\A k \in s : ~Claims(k)) => ~Vouches([x EXCEPT !.pc = pc, !.todo = s])
  OBVIOUS
<1>5. \A k : ~Claims(k) => ~Vouches([x EXCEPT !.pc = pc, !.deliver = FALSE, !.key = k])
  OBVIOUS
<1>6. \A g : ~Vouches([x EXCEPT !.gate = g]) OBVIOUS
<1> QED BY <1>1, <1>2, <1>3, <1>4, <1>5, <1>6

\* Only the key of a converged result claims a success.
LEMMA QuietKeys ==
  /\ ~Vouches(Idle)
  /\ \A op : op # "result" => ~Claims(WaitKey(op))
  /\ \A v : ~Claims(ExceptionKey(v))
  /\ \A v, t : t # "converged" => ~Claims(ResultKey(v, t))
BY RowFacts DEF Vouches, Idle, Claims, WaitKey, ExceptionKey, ResultKey

\* When no task vouches for a success, none does after a step that adds none.
LEMMA QuietAct ==
  ASSUME TypeOK, Quiet, NEW a \in Actor
  PROVE  /\ \A t : ~Vouches(t) /\ Become(a, t) => Quiet'
         /\ \A pc : pc # "outbox" /\ Goto(a, pc) => Quiet'
         /\ Rest(a) => Quiet'
         /\ AfterSaga(a) => Quiet'
<1>1. act[a] \in Task /\ ~Vouches(act[a]) BY ActType DEF Quiet
<1>2. \A t : ~Vouches(t) /\ Become(a, t) => Quiet'
  BY ActStep DEF Quiet
<1>3. \A pc : pc # "outbox" /\ Goto(a, pc) => Quiet'
  BY <1>1, <1>2, QuietTask DEF Goto
<1>4. Rest(a) => Quiet'
  BY <1>2, QuietKeys DEF Rest
<1>5. AfterSaga(a) => Quiet'
  <2>1. \A k \in act[a].todo \ {act[a].key} : ~Claims(k)
    BY <1>1 DEF Vouches
  <2>2. ~Vouches([Idle EXCEPT !.pc = "recover", !.todo = act[a].todo \ {act[a].key}])
    BY <2>1, IdleType, QuietKeys, QuietTask
  <2> QED BY <1>2, <1>4, <2>2 DEF AfterSaga
<1> QED BY <1>2, <1>3, <1>4, <1>5

\* As long as the loop has not converged, no step adds a success anywhere.
LEMMA NextSilent ==
  TypeOK /\ OpenInv /\ Silent /\ loop # "converged" /\ [Next]_vars
    => Silent' \/ loop' = "converged"
<1> SUFFICES ASSUME TypeOK, OpenInv, Silent, loop # "converged", [Next]_vars,
                    loop' # "converged"
             PROVE  Silent'
  OBVIOUS
<1>a. /\ Control \in Actor /\ Daemon \in Actor /\ act[Control] \in Task
      /\ act[Daemon] \in Task /\ ~Vouches(act[Control]) /\ ~Vouches(act[Daemon])
      /\ Quiet
  BY Actors, ActType DEF Silent, Quiet
<1>b. \A a \in Actor : /\ act[a] \in Task /\ ~Vouches(act[a])
                       /\ ~Success(act[a].row) /\ ~act[a].deliver /\ ~Claims(act[a].key)
                       /\ \A k \in act[a].todo : ~Claims(k)
  BY ActType DEF Silent, Quiet, Vouches
<1>1. CASE OpenRun
  BY <1>1, <1>a, QuietAct, RowFacts DEF OpenRun, Silent, sagaTable
<1>2. CASE OpenGoal
  <2>1. ~Vouches([act[Control] EXCEPT !.pc = "open_loop", !.row = Running])
    BY <1>a, QuietTask, RowFacts
  <2> QED BY <1>2, <2>1, <1>a, QuietAct, RowFacts DEF OpenGoal, Silent, sagaTable
<1>3. CASE OpenGoalRaises
  BY <1>3, <1>a, QuietAct, RowFacts DEF OpenGoalRaises, Silent, sagaTable
<1>4. CASE OpenLoop
  BY <1>4, <1>a, QuietAct DEF OpenLoop, Silent, sagaTable
<1>5. CASE RegisterRun \/ RegisterGoal
  BY <1>5 DEF RegisterRun, RegisterGoal, OpenInv, At
<1>6. CASE OpenRaises
  BY <1>6, <1>a, QuietAct DEF OpenRaises, Silent, sagaTable
<1>7. CASE CompensateRun
  BY <1>7, <1>a, QuietAct, RowFacts DEF CompensateRun, Silent, sagaTable
<1>8. CASE CompensateGoal
  <2>1. Failed \in Row /\ WaitKey("cancel") \in Key BY RowTypes, KeyTypes
  <2>2. ~Success(GoalForRun(Failed)) BY <2>1, Projection, RowFacts
  <2> QED BY <1>8, <2>2, <1>a, QuietAct DEF CompensateGoal, Silent, sagaTable
<1>9. ASSUME NEW d \in Driver, Resume(d) PROVE Silent'
  BY <1>9, <1>a, Actors, QuietAct DEF Resume, Silent, sagaTable
<1>10. ASSUME NEW d \in Driver, MarkRun(d) PROVE Silent'
  BY <1>10, <1>a, Actors, QuietAct, RowFacts DEF MarkRun, Silent, sagaTable
<1>11. ASSUME NEW d \in Driver, MarkGoal(d) PROVE Silent'
  BY <1>11, <1>a, Actors, QuietAct, RowFacts DEF MarkGoal, Silent, sagaTable
<1>12. ASSUME NEW d \in Driver, Claim(d) PROVE Silent'
  <2>1. ~Vouches([act[d] EXCEPT !.pc = "prepare", !.key = ResultKey(ver, loop)])
    BY <1>b, Actors, QuietTask, QuietKeys
  <2> QED BY <1>12, <2>1, <1>a, Actors, QuietAct DEF Claim, Silent, sagaTable
<1>13. ASSUME NEW d \in Driver, RequestApproval(d) PROVE Silent'
  <2>1. \A k : ~Vouches([act[d] EXCEPT !.gate = k])
    BY <1>b, Actors, QuietTask
  <2> QED BY <1>13, <2>1, <1>a, Actors, QuietAct DEF RequestApproval, Silent, sagaTable
<1>14. ASSUME NEW d \in Driver, Stop(d) PROVE Silent'
  <2>1. PICK t \in Outcome, deliver \in BOOLEAN :
          /\ deliver => t = "converged"
          /\ loop' = t
          /\ Become(d, [Idle EXCEPT !.pc = "prepare", !.deliver = deliver,
                                    !.key = ResultKey(ver', t)])
    BY <1>14 DEF Stop
  <2>2. t # "converged" /\ deliver = FALSE BY <2>1
  <2>3. ~Vouches([Idle EXCEPT !.pc = "prepare", !.deliver = FALSE,
                              !.key = ResultKey(ver', t)])
    BY <2>2, IdleType, QuietKeys, QuietTask
  <2>4. Quiet' BY <2>1, <2>2, <2>3, <1>a, Actors, QuietAct
  <2> QED BY <1>14, <2>4 DEF Stop, Silent, sagaTable
<1>15. ASSUME NEW d \in Driver, Raise(d) PROVE Silent'
  <2>1. ~Vouches([Idle EXCEPT !.pc = "raised"])
    BY IdleType, QuietKeys, QuietTask
  <2> QED BY <1>15, <2>1, <1>a, Actors, QuietAct DEF Raise, Silent, sagaTable
<1>16. ASSUME NEW d \in Driver, FailLoop(d) PROVE Silent'
  <2>1. \A v : ~Vouches([act[d] EXCEPT !.pc = "prepare", !.key = ExceptionKey(v)])
    BY <1>b, Actors, QuietTask, QuietKeys
  <2>2. Quiet' BY <1>16, <2>1, <1>a, Actors, QuietAct DEF FailLoop
  <2> QED BY <1>16, <2>2 DEF FailLoop, Silent, sagaTable
<1>17. CASE LeaseExpires
  BY <1>17 DEF LeaseExpires, Silent, Quiet, sagaTable
<1>18. ASSUME NEW a \in Driver \cup {Daemon}, Prepare(a) PROVE Silent'
  <2>1. a \in Actor BY Actors
  <2>2. \A k \in unresolved' : ~Claims(k)
    BY <1>18, <2>1, <1>b DEF Prepare, Silent
  <2> QED BY <1>18, <2>1, <2>2, <1>a, QuietAct, FirstStepType DEF Prepare, Silent
<1>19. ASSUME NEW a \in Driver \cup {Daemon}, MarkFailed(a)
       PROVE  Quiet' /\ \A k \in unresolved' : ~Claims(k)
  BY <1>19, <1>a, <1>b, Actors, QuietAct DEF MarkFailed, Silent
<1>20. ASSUME NEW a \in Driver \cup {Daemon}, ApplyLoop(a) PROVE Silent'
  <2>1. Quiet' /\ \A k \in unresolved' : ~Claims(k)
    BY <1>20, <1>19, <1>a, Actors, QuietAct DEF ApplyLoop, sagaTable, Silent
  <2> QED BY <1>20, <2>1 DEF ApplyLoop, Silent
<1>21. ASSUME NEW a \in Driver \cup {Daemon}, ApplyRun(a) PROVE Silent'
  <2>1. run \in Row /\ act[a].key \in Key /\ a \in Actor
    BY Actors, ActType DEF TypeOK, Task
  <2>2. ~Success(RunForSaga(run, act[a].key))
    BY <2>1, <1>b, Projection DEF Claims
  <2>3. ~Vouches([act[a] EXCEPT !.pc = "apply_goal", !.row = RunForSaga(run, act[a].key)])
    BY <2>1, <2>2, <1>b, QuietTask
  <2> QED BY <1>21, <2>1, <2>2, <2>3, <1>a, QuietAct DEF ApplyRun, Silent, sagaTable
<1>22. ASSUME NEW a \in Driver \cup {Daemon}, ApplyGoal(a) PROVE Silent'
  <2>1. act[a].row \in Row /\ act[a].key \in Key /\ a \in Actor
    BY Actors, ActType DEF Task
  <2>2. ~Success(GoalForRun(act[a].row))
    BY <2>1, <1>b, Projection
  <2>3. ~Vouches([act[a] EXCEPT !.pc = "complete", !.row = NoRow])
    BY <2>1, <1>b, QuietTask, RowFacts
  <2> QED BY <1>22, <2>1, <2>2, <2>3, <1>a, QuietAct DEF ApplyGoal, Silent, sagaTable
<1>23. ASSUME NEW a \in Driver \cup {Daemon}, Complete(a) PROVE Silent'
  BY <1>23, <1>a, <1>b, Actors, QuietAct DEF Complete, Silent
<1>24. ASSUME NEW a \in Driver \cup {Daemon}, ApplyRaises(a) PROVE Silent'
  BY <1>24, <1>19 DEF ApplyRaises, Silent
<1>25. ASSUME NEW d \in Driver, Enqueue(d) PROVE FALSE
  BY <1>25, <1>b, Actors DEF Enqueue, At, Vouches
<1>26. CASE CancelRequested
  BY <1>26, <1>a, QuietAct DEF CancelRequested, Silent, sagaTable
<1>27. CASE CancelLoop
  BY <1>27, <1>a, QuietAct DEF CancelLoop, Silent, sagaTable
<1>28. CASE CancelRun
  BY <1>28, <1>a, QuietAct, RowFacts DEF CancelRun, Silent, sagaTable
<1>29. CASE CancelGoal
  BY <1>29, <1>a, QuietAct, RowFacts DEF CancelGoal, Silent, sagaTable
<1>30. ASSUME NEW k \in 1 .. MaxGates, Approve(k) PROVE Silent'
  BY <1>30, RowFacts DEF Approve, Silent, Quiet, sagaTable
<1>31. ASSUME NEW k \in 1 .. MaxGates, Reject(k) PROVE Silent'
  BY <1>31, <1>a, QuietAct, RowFacts DEF Reject, Silent, sagaTable
<1>32. CASE RejectLoop
  BY <1>32, <1>a, QuietAct DEF RejectLoop, Silent, sagaTable
<1>33. CASE RejectGoal
  BY <1>33, <1>a, QuietAct, RowFacts DEF RejectGoal, Silent, sagaTable
<1>34. CASE DaemonStart
  <2>1. ~Vouches([act[Daemon] EXCEPT !.pc = "recover", !.todo = unresolved])
    BY <1>a, QuietTask DEF Silent
  <2> QED BY <1>34, <2>1, <1>a, QuietAct DEF DaemonStart, Silent, sagaTable
<1>35. CASE Recover
  <2>1. \A k \in act[Daemon].todo :
          ~Vouches([act[Daemon] EXCEPT !.pc = FirstStep(k), !.key = k])
    BY <1>a, <1>b, QuietTask, FirstStepType
  <2>2. Quiet' BY <1>35, <2>1, <1>a, QuietAct DEF Recover
  <2> QED BY <1>35, <2>2 DEF Recover, Silent, sagaTable
<1>36. CASE OrphanRun
  BY <1>36, <1>a, QuietAct, RowFacts DEF OrphanRun, Silent, sagaTable
<1>37. CASE OrphanGoal
  BY <1>37, <1>a, QuietAct, RowFacts DEF OrphanGoal, Silent, sagaTable
<1>38. CASE OrphanClose
  BY <1>38, <1>a, QuietAct, RowFacts DEF OrphanClose, Silent, sagaTable
<1>39. CASE ReconcileStart
  BY <1>39, <1>a, QuietAct DEF ReconcileStart, Silent, sagaTable
<1>40. CASE Reconcile
  <2>1. Verdict(GateStatus) # "result" BY DEF Verdict
  <2>2. ~Vouches([act[Daemon] EXCEPT !.pc = "read_wait", !.key = WaitKey(Verdict(GateStatus))])
    BY <2>1, <1>a, QuietTask, QuietKeys
  <2>3. Quiet' BY <1>40, <2>2, <1>a, QuietAct DEF Reconcile
  <2> QED BY <1>40, <2>3 DEF Reconcile, Silent, sagaTable
<1>41. CASE ReconcileReopen
  BY <1>41, <1>a, QuietAct DEF ReconcileReopen, Silent, sagaTable
<1>42. CASE RetentionCancel
  <2>1. ~Vouches([act[Daemon] EXCEPT !.pc = "read_wait", !.key = WaitKey("cancel")])
    BY <1>a, QuietTask, QuietKeys
  <2> QED BY <1>42, <2>1, <1>a, QuietAct DEF RetentionCancel, Silent, sagaTable
<1>43. CASE ReadWait
  BY <1>43, <1>a, QuietAct DEF ReadWait, Silent, sagaTable
<1>44. ASSUME NEW a \in Actor, Crash(a) PROVE Silent'
  BY <1>44, <1>a, QuietAct DEF Crash, Silent, sagaTable
<1>45. CASE UNCHANGED vars
  BY <1>45 DEF vars, Silent, Quiet
<1> QED
  BY <1>1, <1>2, <1>3, <1>4, <1>5, <1>6, <1>7, <1>8, <1>9, <1>10, <1>11, <1>12, <1>13,
     <1>14, <1>15, <1>16, <1>17, <1>18, <1>20, <1>21, <1>22, <1>23, <1>24, <1>25,
     <1>26, <1>27, <1>28, <1>29, <1>30, <1>31, <1>32, <1>33, <1>34, <1>35, <1>36,
     <1>37, <1>38, <1>39, <1>40, <1>41, <1>42, <1>43, <1>44, <1>45
     DEF Next, Open, Drive, Saga, Command, Serve

\* A success is on its way, or shown, only once the loop converged.
LEMMA SuccessInvariant == Spec => [](TypeOK /\ SuccessInv)
<1>1. Init => SuccessInv
  <2> SUFFICES ASSUME Init PROVE SuccessInv
    OBVIOUS
  <2>1. Quiet BY QuietKeys DEF Init, Quiet
  <2> QED BY <2>1, InitOpenInv, RowFacts DEF Init, SuccessInv, Silent
<1>2. TypeOK /\ SuccessInv /\ [Next]_vars => SuccessInv'
  BY NextOpenInv, NextSilent, NextLoop DEF SuccessInv, LoopMoves
<1> QED BY <1>1, <1>2, InitTypeOK, NextTypeOK, PTL DEF Spec

\* No Run or Goal reads successful, and no result is queued for delivery,
\* unless the loop converged: however many drivers, crashes and replayed sagas
\* of LoopControlService come in between.
THEOREM SuccessCorrect == Spec => []SuccessIsConverged
<1>1. SuccessInv => SuccessIsConverged
  BY DEF SuccessInv, Silent, SuccessIsConverged
<1> QED BY <1>1, SuccessInvariant, PTL

(****************************************************************************)
(* Cancellation.  Until something cancels the objective no row reads        *)
(* canceled, no saga projects a cancelled result, and nobody is past the    *)
(* step that cancels the loop.                                              *)
(****************************************************************************)

Marked(k) == k.op = "result" /\ k.end \in {"cancelled", "superseded"}

CancelPC == {"cancel_run", "cancel_goal", "reject_loop", "reject_goal"}

Blames(t) ==
  \/ t.row.res = "canceled" \/ t.pc \in CancelPC
  \/ t.pc = "apply_run" /\ t.key.op = "cancel"
  \/ Marked(t.key) \/ \E k \in t.todo : Marked(k)

Calm == \A a \in Actor : ~Blames(act[a])

Uncanceled ==
  /\ run.res # "canceled" /\ goal.res # "canceled"
  /\ \A k \in unresolved : ~Marked(k)
  /\ Calm

CancelInv == OpenInv /\ (Uncanceled \/ Caused)

\* A task that carries no cancellation still does not after an update that
\* adds none.
LEMMA CalmTask ==
  ASSUME NEW x \in Task, ~Blames(x), NEW pc, pc \notin CancelPC
  PROVE  /\ (pc = "apply_run" => x.key.op # "cancel") => ~Blames([x EXCEPT !.pc = pc])
         /\ pc # "apply_run" =>
              /\ \A r : r.res # "canceled" => ~Blames([x EXCEPT !.pc = pc, !.row = r])
              /\ \A s : (\A k \in s : ~Marked(k)) => ~Blames([x EXCEPT !.pc = pc, !.todo = s])
              /\ \A b, k : ~Marked(k) =>
                             ~Blames([x EXCEPT !.pc = pc, !.deliver = b, !.key = k])
         /\ \A k : ~Marked(k) /\ (pc = "apply_run" => k.op # "cancel") =>
                     ~Blames([x EXCEPT !.pc = pc, !.key = k])
         /\ \A g : ~Blames([x EXCEPT !.gate = g])
<1> USE DEF Blames, Task
<1>1. (pc = "apply_run" => x.key.op # "cancel") => ~Blames([x EXCEPT !.pc = pc]) OBVIOUS
<1>2. pc # "apply_run" =>
        \A r : r.res # "canceled" => ~Blames([x EXCEPT !.pc = pc, !.row = r])
  OBVIOUS
<1>3. pc # "apply_run" =>
        \A s : (\A k \in s : ~Marked(k)) => ~Blames([x EXCEPT !.pc = pc, !.todo = s])
  OBVIOUS
<1>4. pc # "apply_run" =>
        \A b, k : ~Marked(k) => ~Blames([x EXCEPT !.pc = pc, !.deliver = b, !.key = k])
  OBVIOUS
<1>5. \A k : ~Marked(k) /\ (pc = "apply_run" => k.op # "cancel") =>
               ~Blames([x EXCEPT !.pc = pc, !.key = k])
  OBVIOUS
<1>6. \A g : ~Blames([x EXCEPT !.gate = g]) OBVIOUS
<1> QED BY <1>1, <1>2, <1>3, <1>4, <1>5, <1>6

\* Which keys stand for a cancellation, and where a saga that cancels starts.
LEMMA CalmKeys ==
  /\ ~Blames(Idle)
  /\ \A op : op # "result" => ~Marked(WaitKey(op))
  /\ \A v : ~Marked(ExceptionKey(v))
  /\ \A v, t : t \notin {"cancelled", "superseded"} => ~Marked(ResultKey(v, t))
  /\ \A k : FirstStep(k) \notin CancelPC
  /\ \A k : FirstStep(k) = "apply_run" => k.op # "cancel"
BY RowFacts DEF Blames, Idle, Marked, WaitKey, ExceptionKey, ResultKey, CancelPC,
                FirstStep, IsWait

\* When no task carries a cancellation, none does after a step that adds none.
LEMMA CalmAct ==
  ASSUME TypeOK, Calm, NEW a \in Actor
  PROVE  /\ \A t : ~Blames(t) /\ Become(a, t) => Calm'
         /\ \A pc : /\ pc \notin CancelPC
                    /\ pc = "apply_run" => act[a].key.op # "cancel"
                    /\ Goto(a, pc)
                    => Calm'
         /\ Rest(a) => Calm'
         /\ AfterSaga(a) => Calm'
<1>1. act[a] \in Task /\ ~Blames(act[a]) BY ActType DEF Calm
<1>2. \A t : ~Blames(t) /\ Become(a, t) => Calm'
  BY ActStep DEF Calm
<1>3. ASSUME NEW pc, pc \notin CancelPC, pc = "apply_run" => act[a].key.op # "cancel",
             Goto(a, pc)
      PROVE  Calm'
  BY <1>1, <1>2, <1>3, CalmTask DEF Goto
<1>4. Rest(a) => Calm'
  BY <1>2, CalmKeys DEF Rest
<1>5. AfterSaga(a) => Calm'
  <2>1. \A k \in act[a].todo \ {act[a].key} : ~Marked(k)
    BY <1>1 DEF Blames
  <2>2. ~Blames([Idle EXCEPT !.pc = "recover", !.todo = act[a].todo \ {act[a].key}])
    BY <2>1, IdleType, CalmKeys, CalmTask DEF CancelPC
  <2> QED BY <1>2, <1>4, <2>2 DEF AfterSaga
<1> QED BY <1>2, <1>3, <1>4, <1>5

\* Nothing takes the cause of a cancellation back.
LEMMA CauseStays == TypeOK /\ OpenInv /\ Caused /\ [Next]_vars => Caused'
<1> SUFFICES ASSUME TypeOK, OpenInv, Caused, [Next]_vars PROVE Caused'
  OBVIOUS
<1>1. loop \in {"cancelled", "superseded"} => loop' = loop
  BY NextLoop DEF LoopMoves
<1>2. kind' = kind
  BY DEF Next, Open, OpenRun, OpenGoal, OpenLoop, RegisterRun, RegisterGoal,
         CompensateRun, CompensateGoal, OpenGoalRaises, OpenRaises, Resume,
         RequestApproval, Drive, MarkRun, MarkGoal, Claim, Stop, Raise, FailLoop, Enqueue,
         LeaseExpires, Saga, Prepare, ApplyLoop, ApplyRun, ApplyGoal, Complete,
         ApplyRaises, CancelRequested, Command, CancelLoop, CancelRun, CancelGoal,
         RejectLoop, RejectGoal, Approve, Reject, DaemonStart, ReconcileStart,
         RetentionCancel, Serve, Recover, OrphanRun, OrphanGoal, OrphanClose, Reconcile,
         ReconcileReopen, ReadWait, Crash, vars
<1>3. ASSUME NEW k \in 1 .. MaxGates, gates[k] = "rejected" PROVE gates'[k] = "rejected"
  <2>0. gates \in [1 .. MaxGates -> Gate \cup {"none"}] BY DEF TypeOK
  <2>1. ASSUME NEW d \in Driver, RequestApproval(d) PROVE gates'[k] = "rejected"
    BY <2>0, <2>1, <1>3 DEF RequestApproval
  <2>2. ASSUME NEW j \in 1 .. MaxGates, Approve(j) \/ Reject(j)
        PROVE  gates'[k] = "rejected"
    BY <2>0, <2>2, <1>3 DEF Approve, Reject
  <2>3. CASE ReconcileStart
    <3>1. PICK late \in SUBSET {j \in 1 .. MaxGates : gates[j] = "pending"} :
            gates' = [j \in 1 .. MaxGates |-> IF j \in late THEN "expired" ELSE gates[j]]
      BY <2>3 DEF ReconcileStart
    <3>2. k \notin late BY <1>3, <3>1
    <3> QED BY <3>1, <3>2, <1>3
  <2>4. \/ UNCHANGED gates \/ ReconcileStart
        \/ \E d \in Driver : RequestApproval(d)
        \/ \E j \in 1 .. MaxGates : Approve(j) \/ Reject(j)
    BY DEF Next, Open, OpenRun, OpenGoal, OpenLoop, RegisterRun, RegisterGoal,
           CompensateRun, CompensateGoal, OpenGoalRaises, OpenRaises, Resume,
           Drive, MarkRun, MarkGoal, Claim, Stop, Raise, FailLoop, Enqueue,
           LeaseExpires, Saga, Prepare, ApplyLoop, ApplyRun, ApplyGoal, Complete,
           ApplyRaises, CancelRequested, Command, CancelLoop, CancelRun, CancelGoal,
           RejectLoop, RejectGoal, DaemonStart, RetentionCancel, Serve, Recover, OrphanRun,
           OrphanGoal, OrphanClose, Reconcile, ReconcileReopen, ReadWait, Crash, vars
  <2> QED BY <2>1, <2>2, <2>3, <2>4, <1>3
<1> QED BY <1>1, <1>2, <1>3 DEF Caused

\* As long as nothing caused a cancellation, no step adds one anywhere.
LEMMA NextUncanceled ==
  TypeOK /\ Uncanceled /\ ~Caused /\ [Next]_vars => Uncanceled' \/ Caused'
<1> SUFFICES ASSUME TypeOK, Uncanceled, ~Caused, [Next]_vars, ~Caused'
             PROVE  Uncanceled'
  OBVIOUS
<1>a. /\ Control \in Actor /\ Daemon \in Actor /\ act[Control] \in Task
      /\ act[Daemon] \in Task /\ ~Blames(act[Control]) /\ ~Blames(act[Daemon])
      /\ Calm
  BY Actors, ActType DEF Uncanceled, Calm
<1>b. \A a \in Actor : /\ act[a] \in Task /\ ~Blames(act[a])
                       /\ act[a].row.res # "canceled" /\ act[a].pc \notin CancelPC
                       /\ act[a].pc = "apply_run" => act[a].key.op # "cancel"
                       /\ ~Marked(act[a].key) /\ \A k \in act[a].todo : ~Marked(k)
  BY ActType DEF Uncanceled, Calm, Blames
<1>c. /\ loop \notin {"cancelled", "superseded"} /\ loop' \notin {"cancelled", "superseded"}
      /\ kind # "scheduled"
  BY DEF Caused
<1>1. CASE OpenRun
  BY <1>1, <1>a, CalmAct, RowFacts DEF OpenRun, Uncanceled, sagaTable, CancelPC
<1>2. CASE OpenGoal
  <2>1. ~Blames([act[Control] EXCEPT !.pc = "open_loop", !.row = Running])
    BY <1>a, CalmTask, RowFacts DEF CancelPC
  <2> QED BY <1>2, <2>1, <1>a, CalmAct, RowFacts DEF OpenGoal, Uncanceled, sagaTable
<1>3. CASE OpenGoalRaises
  BY <1>3, <1>a, CalmAct, RowFacts DEF OpenGoalRaises, Uncanceled, sagaTable, CancelPC
<1>4. CASE OpenLoop
  BY <1>4, <1>a, CalmAct DEF OpenLoop, Uncanceled, sagaTable, CancelPC
<1>5. CASE RegisterRun \/ RegisterGoal
  BY <1>5, <1>a, CalmAct, RowFacts DEF RegisterRun, RegisterGoal, Uncanceled, sagaTable, CancelPC
<1>6. CASE OpenRaises
  BY <1>6, <1>a, CalmAct DEF OpenRaises, Uncanceled, sagaTable, CancelPC
<1>7. CASE CompensateRun
  BY <1>7, <1>a, CalmAct, RowFacts DEF CompensateRun, Uncanceled, sagaTable, CancelPC
<1>8. CASE CompensateGoal
  <2>1. Failed \in Row /\ WaitKey("cancel") \in Key BY RowTypes, KeyTypes
  <2>2. GoalForRun(Failed).res # "canceled" BY <2>1, Projection, RowFacts
  <2> QED BY <1>8, <2>2, <1>a, CalmAct DEF CompensateGoal, Uncanceled, sagaTable
<1>9. ASSUME NEW d \in Driver, Resume(d) PROVE Uncanceled'
  BY <1>9, <1>a, Actors, CalmAct DEF Resume, Uncanceled, sagaTable, CancelPC
<1>10. ASSUME NEW d \in Driver, MarkRun(d) PROVE Uncanceled'
  BY <1>10, <1>a, Actors, CalmAct, RowFacts DEF MarkRun, Uncanceled, sagaTable, CancelPC
<1>11. ASSUME NEW d \in Driver, MarkGoal(d) PROVE Uncanceled'
  BY <1>11, <1>a, Actors, CalmAct, RowFacts DEF MarkGoal, Uncanceled, sagaTable, CancelPC
<1>12. ASSUME NEW d \in Driver, Claim(d) PROVE Uncanceled'
  <2>1. ~Blames([act[d] EXCEPT !.pc = "prepare", !.key = ResultKey(ver, loop)])
    BY <1>b, <1>c, Actors, CalmTask, CalmKeys DEF CancelPC
  <2>2. Calm' BY <1>12, <2>1, <1>a, Actors, CalmAct DEF Claim, CancelPC
  <2> QED BY <1>12, <2>2 DEF Claim, Uncanceled, sagaTable
<1>13. ASSUME NEW d \in Driver, RequestApproval(d) PROVE Uncanceled'
  <2>1. \A k : ~Blames([act[d] EXCEPT !.gate = k])
    BY <1>b, Actors, CalmTask DEF CancelPC
  <2> QED BY <1>13, <2>1, <1>a, Actors, CalmAct DEF RequestApproval, Uncanceled, sagaTable
<1>14. ASSUME NEW d \in Driver, Stop(d) PROVE Uncanceled'
  <2>1. PICK t \in Outcome, deliver \in BOOLEAN :
          /\ loop' = t
          /\ Become(d, [Idle EXCEPT !.pc = "prepare", !.deliver = deliver,
                                    !.key = ResultKey(ver', t)])
    BY <1>14 DEF Stop
  <2>2. ~Blames([Idle EXCEPT !.pc = "prepare", !.deliver = deliver,
                             !.key = ResultKey(ver', t)])
    BY <2>1, <1>c, IdleType, CalmKeys, CalmTask DEF CancelPC
  <2>3. Calm' BY <2>1, <2>2, <1>a, Actors, CalmAct
  <2> QED BY <1>14, <2>3 DEF Stop, Uncanceled, sagaTable
<1>15. ASSUME NEW d \in Driver, Raise(d) PROVE Uncanceled'
  <2>1. ~Blames([Idle EXCEPT !.pc = "raised"])
    BY IdleType, CalmKeys, CalmTask DEF CancelPC
  <2> QED BY <1>15, <2>1, <1>a, Actors, CalmAct DEF Raise, Uncanceled, sagaTable
<1>16. ASSUME NEW d \in Driver, FailLoop(d) PROVE Uncanceled'
  <2>1. \A v : ~Blames([act[d] EXCEPT !.pc = "prepare", !.key = ExceptionKey(v)])
    BY <1>b, Actors, CalmTask, CalmKeys DEF CancelPC
  <2>2. Calm' BY <1>16, <2>1, <1>a, Actors, CalmAct DEF FailLoop
  <2> QED BY <1>16, <2>2 DEF FailLoop, Uncanceled, sagaTable
<1>17. CASE LeaseExpires
  BY <1>17 DEF LeaseExpires, Uncanceled, Calm, sagaTable
<1>18. ASSUME NEW a \in Driver \cup {Daemon}, Prepare(a) PROVE Uncanceled'
  <2>1. a \in Actor BY Actors
  <2>2. \A k \in unresolved' : ~Marked(k)
    BY <1>18, <2>1, <1>b DEF Prepare, Uncanceled
  <2>3. Calm' BY <1>18, <2>1, <1>a, CalmAct, CalmKeys DEF Prepare
  <2> QED BY <1>18, <2>2, <2>3 DEF Prepare, Uncanceled
<1>19. ASSUME NEW a \in Driver \cup {Daemon}, MarkFailed(a)
       PROVE  Calm' /\ \A k \in unresolved' : ~Marked(k)
  BY <1>19, <1>a, <1>b, Actors, CalmAct DEF MarkFailed, Uncanceled
<1>20. ASSUME NEW a \in Driver \cup {Daemon}, ApplyLoop(a) PROVE Uncanceled'
  <2>1. CASE WaitAllowed(act[a].key)
    <3>1. act[a].key.op # "cancel" /\ Goto(a, "apply_run") /\ unresolved' = unresolved
      BY <1>20, <2>1, <1>c DEF ApplyLoop, WaitTarget, sagaTable
    <3>2. Calm' BY <3>1, <1>a, Actors, CalmAct DEF CancelPC
    <3> QED BY <1>20, <3>1, <3>2 DEF ApplyLoop, Uncanceled
  <2>2. CASE ~WaitAllowed(act[a].key)
    BY <1>20, <2>2, <1>19 DEF ApplyLoop, Uncanceled
  <2> QED BY <2>1, <2>2
<1>21. ASSUME NEW a \in Driver \cup {Daemon}, ApplyRun(a) PROVE Uncanceled'
  <2>1. run \in Row /\ act[a].key \in Key /\ a \in Actor
    BY Actors, ActType DEF TypeOK, Task
  <2>2. RunForSaga(run, act[a].key).res # "canceled"
    BY <1>21, <2>1, <1>b, Projection DEF Marked, ApplyRun, At
  <2>3. ~Blames([act[a] EXCEPT !.pc = "apply_goal", !.row = RunForSaga(run, act[a].key)])
    BY <2>1, <2>2, <1>b, CalmTask DEF CancelPC
  <2> QED BY <1>21, <2>1, <2>2, <2>3, <1>a, CalmAct DEF ApplyRun, Uncanceled, sagaTable
<1>22. ASSUME NEW a \in Driver \cup {Daemon}, ApplyGoal(a) PROVE Uncanceled'
  <2>1. act[a].row \in Row /\ act[a].key \in Key /\ a \in Actor
    BY Actors, ActType DEF Task
  <2>2. GoalForRun(act[a].row).res # "canceled"
    BY <2>1, <1>b, Projection
  <2>3. ~Blames([act[a] EXCEPT !.pc = "complete", !.row = NoRow])
    BY <2>1, <1>b, CalmTask, RowFacts DEF CancelPC
  <2> QED BY <1>22, <2>1, <2>2, <2>3, <1>a, CalmAct DEF ApplyGoal, Uncanceled, sagaTable
<1>23. ASSUME NEW a \in Driver \cup {Daemon}, Complete(a) PROVE Uncanceled'
  <2>1. Calm' BY <1>23, <1>a, Actors, CalmAct DEF Complete, CancelPC
  <2> QED BY <1>23, <2>1 DEF Complete, Uncanceled
<1>24. ASSUME NEW a \in Driver \cup {Daemon}, ApplyRaises(a) PROVE Uncanceled'
  BY <1>24, <1>19 DEF ApplyRaises, Uncanceled
<1>25. ASSUME NEW d \in Driver, Enqueue(d) PROVE Uncanceled'
  BY <1>25, <1>a, Actors, CalmAct DEF Enqueue, Uncanceled, sagaTable
<1>26. CASE CancelRequested
  <2>1. Goto(Control, "cancel_wait") \/ Goto(Control, "cancel_active")
    BY <1>26, <1>c DEF CancelRequested
  <2>2. Calm' BY <2>1, <1>a, CalmAct DEF CancelPC
  <2> QED BY <1>26, <2>2 DEF CancelRequested, Uncanceled, sagaTable
<1>27. CASE CancelLoop
  <2>1. Rest(Control) BY <1>27, <1>c DEF CancelLoop
  <2> QED BY <1>27, <2>1, <1>a, CalmAct DEF CancelLoop, Uncanceled, sagaTable
<1>28. CASE CancelRun \/ CancelGoal \/ RejectLoop \/ RejectGoal
  BY <1>28, <1>a, <1>b DEF CancelRun, CancelGoal, RejectLoop, RejectGoal, At, CancelPC
<1>29. ASSUME NEW k \in 1 .. MaxGates, Approve(k) PROVE Uncanceled'
  BY <1>29, RowFacts DEF Approve, Uncanceled, Calm, sagaTable
<1>30. ASSUME NEW k \in 1 .. MaxGates, Reject(k) PROVE FALSE
  <2>1. gates'[k] = "rejected" BY <1>30 DEF Reject, TypeOK
  <2> QED BY <2>1 DEF Caused
<1>31. CASE DaemonStart
  <2>1. ~Blames([act[Daemon] EXCEPT !.pc = "recover", !.todo = unresolved])
    BY <1>a, CalmTask DEF Uncanceled, CancelPC
  <2> QED BY <1>31, <2>1, <1>a, CalmAct DEF DaemonStart, Uncanceled, sagaTable
<1>32. CASE Recover
  <2>1. \A k \in act[Daemon].todo :
          ~Blames([act[Daemon] EXCEPT !.pc = FirstStep(k), !.key = k])
    BY <1>a, <1>b, CalmTask, CalmKeys
  <2>2. Calm' BY <1>32, <2>1, <1>a, CalmAct DEF Recover, CancelPC
  <2> QED BY <1>32, <2>2 DEF Recover, Uncanceled, sagaTable
<1>33. CASE OrphanRun
  BY <1>33, <1>a, CalmAct, RowFacts DEF OrphanRun, Uncanceled, sagaTable, CancelPC
<1>34. CASE OrphanGoal
  BY <1>34, <1>a, CalmAct, RowFacts DEF OrphanGoal, Uncanceled, sagaTable, CancelPC
<1>35. CASE OrphanClose
  BY <1>35, <1>a, CalmAct, RowFacts DEF OrphanClose, Uncanceled, sagaTable
<1>36. CASE ReconcileStart
  BY <1>36, <1>a, CalmAct DEF ReconcileStart, Uncanceled, sagaTable, CancelPC
<1>37. CASE Reconcile
  <2>1. Verdict(GateStatus) # "result" BY DEF Verdict
  <2>2. ~Blames([act[Daemon] EXCEPT !.pc = "read_wait", !.key = WaitKey(Verdict(GateStatus))])
    BY <2>1, <1>a, CalmTask, CalmKeys DEF CancelPC
  <2>3. Calm' BY <1>37, <2>2, <1>a, CalmAct DEF Reconcile, CancelPC
  <2> QED BY <1>37, <2>3 DEF Reconcile, Uncanceled, sagaTable
<1>38. CASE ReconcileReopen
  BY <1>38, <1>a, CalmAct DEF ReconcileReopen, Uncanceled, sagaTable
<1>39. CASE RetentionCancel
  <2>1. ~Blames([act[Daemon] EXCEPT !.pc = "read_wait", !.key = WaitKey("cancel")])
    BY <1>a, CalmTask, CalmKeys DEF CancelPC
  <2> QED BY <1>39, <2>1, <1>a, CalmAct DEF RetentionCancel, Uncanceled, sagaTable
<1>40. CASE ReadWait
  BY <1>40, <1>a, CalmAct DEF ReadWait, Uncanceled, sagaTable, CancelPC
<1>41. ASSUME NEW a \in Actor, Crash(a) PROVE Uncanceled'
  BY <1>41, <1>a, CalmAct DEF Crash, Uncanceled, sagaTable
<1>42. CASE UNCHANGED vars
  BY <1>42 DEF vars, Uncanceled, Calm
<1> QED
  BY <1>1, <1>2, <1>3, <1>4, <1>5, <1>6, <1>7, <1>8, <1>9, <1>10, <1>11, <1>12, <1>13,
     <1>14, <1>15, <1>16, <1>17, <1>18, <1>20, <1>21, <1>22, <1>23, <1>24, <1>25,
     <1>26, <1>27, <1>28, <1>29, <1>30, <1>31, <1>32, <1>33, <1>34, <1>35, <1>36,
     <1>37, <1>38, <1>39, <1>40, <1>41, <1>42
     DEF Next, Open, Drive, Saga, Command, Serve

\* CancelInv is an invariant.
LEMMA CancelInvariant == Spec => [](TypeOK /\ CancelInv)
<1>1. Init => CancelInv
  <2> SUFFICES ASSUME Init PROVE CancelInv
    OBVIOUS
  <2>1. Calm BY CalmKeys DEF Init, Calm
  <2> QED BY <2>1, InitOpenInv, RowFacts DEF Init, CancelInv, Uncanceled
<1>2. TypeOK /\ CancelInv /\ [Next]_vars => CancelInv'
  BY NextOpenInv, NextUncanceled, CauseStays DEF CancelInv
<1> QED BY <1>1, <1>2, InitTypeOK, NextTypeOK, PTL DEF Spec

\* A Run or Goal reads canceled only if its loop was cancelled or superseded,
\* an approval was rejected, or it is a cancelled schedule: the wait sagas of
\* LifecycleSagaStore settle the loop before they project the cancellation.
THEOREM CancelCorrect == Spec => []CancelIsCaused
<1>1. CancelInv => CancelIsCaused
  BY DEF CancelInv, Uncanceled, CancelIsCaused
<1> QED BY <1>1, CancelInvariant, PTL

(****************************************************************************)
(* Opening and startup recovery.  Until the loop exists nobody works on the *)
(* objective but the open itself and the orphan recovery, and the latter    *)
(* only once the open is over.                                              *)
(****************************************************************************)

OrphanPC == {"idle", "recover", "orphan_run", "orphan_goal", "orphan_close"}

\* Where the recovery has a listed Goal in hand.
EndsGoal == {"orphan_goal", "orphan_close"}

Undriven ==
  /\ \A d \in Driver : act[d].pc = "idle"
  /\ act[Daemon].pc \in OrphanPC /\ act[Daemon].todo = {} /\ unresolved = {}

ClosedInv ==
  /\ OpenInv
  /\ act[Control].pc # "idle" \/ goal # NoRow => run # NoRow
  /\ loop = "none" => Undriven
  /\ act[Control].pc = "open_loop" => goal.phase = "running"
  /\ act[Daemon].pc \in EndsGoal => run # NoRow /\ ~Opening

\* The steps that are possible before there is a loop.
LEMMA UndrivenSteps ==
  ASSUME TypeOK, Undriven, loop = "none", [Next]_vars
  PROVE  \/ UNCHANGED vars \/ Open \/ OpenGoalRaises \/ OpenRaises \/ LeaseExpires \/ Command
         \/ \E k \in 1 .. MaxGates : Approve(k) \/ Reject(k)
         \/ DaemonStart \/ Recover \/ OrphanRun \/ OrphanGoal \/ OrphanClose
         \/ Crash(Control) \/ Crash(Daemon)
<1>s. "none" \notin Suspended /\ "none" # Active
  BY DEF Suspended, Active
<1>1. ASSUME NEW d \in Driver, Resume(d) \/ RequestApproval(d) \/ Drive(d) PROVE FALSE
  <2>1. act[d].pc = "idle" BY DEF Undriven
  <2> QED BY <1>1, <2>1, <1>s DEF Resume, Reopen, RequestApproval, Drive, MarkRun, MarkGoal,
                   Claim, Stop, Raise, FailLoop, Enqueue, At
<1>2. ASSUME NEW a \in Driver \cup {Daemon}, Saga(a) \/ ApplyRaises(a) PROVE FALSE
  <2>1. act[a].pc \in OrphanPC BY DEF Undriven, OrphanPC
  <2> QED BY <1>2, <2>1 DEF Saga, Prepare, ApplyLoop, ApplyRun, ApplyGoal, Complete,
                            ApplyRaises, At, OrphanPC
<1>3. ~CancelRequested /\ ~ReconcileStart /\ ~RetentionCancel
  BY <1>s DEF CancelRequested, ReconcileStart, RetentionCancel
<1>4. ~Reconcile /\ ~ReconcileReopen /\ ~ReadWait
  BY DEF Undriven, OrphanPC, Reconcile, ReconcileReopen, ReadWait, At
<1>5. ASSUME NEW a \in Actor, Crash(a) PROVE a \in {Control, Daemon}
  BY <1>5 DEF Crash, At, Undriven, Actor
<1> QED BY <1>1, <1>2, <1>3, <1>4, <1>5 DEF Next, Serve

\* Without a loop nobody drives, and no saga is unresolved.
LEMMA NextUndriven ==
  TypeOK /\ ClosedInv /\ [Next]_vars => (loop' = "none" => Undriven')
<1> SUFFICES ASSUME TypeOK, ClosedInv, [Next]_vars, loop' = "none" PROVE Undriven'
  OBVIOUS
<1>1. loop = "none" BY NextLoop DEF ClosedInv, LoopMoves
<1>2. Undriven BY <1>1 DEF ClosedInv
<1>a. /\ Control \in Actor /\ Daemon \in Actor /\ Control # Daemon
      /\ \A d \in Driver : d \in Actor /\ d # Control /\ d # Daemon
      /\ Idle.pc = "idle" /\ Idle.todo = {}
  BY Actors, LifecycleAssumption DEF Idle
<1>3. ASSUME NEW t, Become(Control, t), unresolved' = unresolved PROVE Undriven'
  BY <1>3, <1>2, <1>a, ActStep DEF Undriven
<1>4. CASE Open \/ OpenGoalRaises \/ OpenRaises \/ Command \/ Crash(Control)
  <2>1. \E t : Become(Control, t)
    BY <1>4, Zenon DEF Open, OpenRun, OpenGoal, OpenLoop, RegisterRun, RegisterGoal,
       CompensateRun, CompensateGoal, OpenGoalRaises, OpenRaises, Command, CancelLoop,
       CancelRun, CancelGoal, RejectLoop, RejectGoal, Crash, Goto, Rest
  <2>2. unresolved' = unresolved
    BY <1>4 DEF Open, OpenRun, OpenGoal, OpenLoop, RegisterRun, RegisterGoal,
       CompensateRun, CompensateGoal, OpenGoalRaises, OpenRaises, Command, CancelLoop,
       CancelRun, CancelGoal, RejectLoop, RejectGoal, Crash, sagaTable
  <2> QED BY <2>1, <2>2, <1>3
<1>5. ASSUME NEW k \in 1 .. MaxGates, Approve(k) \/ Reject(k) PROVE Undriven'
  <2>1. CASE Approve(k) BY <2>1, <1>2 DEF Approve, Undriven, sagaTable
  <2>2. CASE Reject(k)
    BY <2>2, <1>3 DEF Reject, Goto, sagaTable
  <2> QED BY <1>5, <2>1, <2>2
<1>6. ASSUME act'[Daemon].pc \in OrphanPC, act'[Daemon].todo = {},
             unresolved' = unresolved, \A b \in Actor : b # Daemon => act'[b] = act[b]
      PROVE  Undriven'
  BY <1>6, <1>2, <1>a DEF Undriven
<1>7. CASE DaemonStart
  <2>1. Become(Daemon, [act[Daemon] EXCEPT !.pc = "recover", !.todo = {}])
    BY <1>7, <1>2 DEF DaemonStart, Undriven
  <2>2. act'[Daemon] = [act[Daemon] EXCEPT !.pc = "recover", !.todo = {}]
        /\ \A b \in Actor : b # Daemon => act'[b] = act[b]
    BY <2>1, <1>a, ActStep
  <2>3. act'[Daemon].pc = "recover" /\ act'[Daemon].todo = {}
    BY <2>2, <1>a, ActType DEF Task
  <2> QED BY <1>7, <2>2, <2>3, <1>6 DEF DaemonStart, sagaTable, OrphanPC
<1>8. CASE Recover \/ OrphanRun \/ OrphanGoal \/ OrphanClose \/ Crash(Daemon)
  <2>1. Rest(Daemon) \/ \E pc \in OrphanPC : Goto(Daemon, pc)
    BY <1>8, <1>2 DEF Recover, OrphanRun, OrphanGoal, OrphanClose, Crash, Undriven, OrphanPC
  <2>2. unresolved' = unresolved
    BY <1>8 DEF Recover, OrphanRun, OrphanGoal, OrphanClose, Crash, sagaTable
  <2>3. /\ act'[Daemon].pc \in OrphanPC /\ act'[Daemon].todo = {}
        /\ \A b \in Actor : b # Daemon => act'[b] = act[b]
    BY <2>1, <1>2, <1>a, ActStep DEF Undriven, OrphanPC
  <2> QED BY <2>2, <2>3, <1>6
<1>9. CASE LeaseExpires \/ UNCHANGED vars
  BY <1>9, <1>2 DEF LeaseExpires, vars, Undriven, sagaTable
<1> QED BY <1>1, <1>2, <1>4, <1>5, <1>7, <1>8, <1>9, UndrivenSteps

\* The serving process starts to work only with an open, a cancellation of an
\* existing Goal or a rejection.
LEMMA WorkStarts ==
  ASSUME TypeOK, [Next]_vars, act[Control].pc = "idle", act'[Control].pc # "idle"
  PROVE  OpenRun \/ CancelRequested \/ \E k \in 1 .. MaxGates : Reject(k)
BY OthersKeepControl
   DEF Open, OpenGoal, OpenLoop, RegisterRun, RegisterGoal, CompensateRun,
       CompensateGoal, OpenGoalRaises, OpenRaises, Command, CancelLoop, CancelRun,
       CancelGoal, RejectLoop, RejectGoal, Crash, At

\* Who writes the Goal.
LEMMA GoalWriters ==
  ASSUME [Next]_vars
  PROVE  \/ goal' = goal \/ act[Control].pc # "idle" \/ OrphanClose
         \/ \E d \in Driver : MarkGoal(d)
         \/ \E a \in Driver \cup {Daemon} : ApplyGoal(a)
BY DEF Next, Open, OpenRun, OpenGoal, OpenLoop, RegisterRun, RegisterGoal,
       CompensateRun, CompensateGoal, OpenGoalRaises, OpenRaises, Resume,
       RequestApproval, Drive, MarkRun, Claim, Stop, Raise, FailLoop, Enqueue,
       LeaseExpires, Saga, Prepare, ApplyLoop, ApplyRun, Complete,
       ApplyRaises, CancelRequested, Command, CancelLoop, CancelRun, CancelGoal,
       RejectLoop, RejectGoal, Approve, Reject, DaemonStart, ReconcileStart,
       RetentionCancel, Serve, Recover, OrphanRun, OrphanGoal, Reconcile,
       ReconcileReopen, ReadWait, Crash, vars, At

\* Recovery takes a Goal in hand only when it lists it without a loop, and past
\* its grace period.
LEMMA OrphanCloses ==
  ASSUME TypeOK, ClosedInv, [Next]_vars, act'[Daemon].pc \in EndsGoal
  PROVE  act[Daemon].pc \in EndsGoal \/ (Recover /\ OrphanedGoal)
<1> USE DEF EndsGoal
<1>a. /\ Daemon \in Actor /\ Daemon # Control /\ Daemon \notin Driver
      /\ Control \in Actor /\ \A d \in Driver : d \in Actor
      /\ act[Daemon] \in Task /\ Idle \in Task /\ Idle.pc = "idle"
  BY Actors, ActType, IdleType, LifecycleAssumption DEF Idle
<1>1. ASSUME NEW a \in Actor, a # Daemon, NEW t, Become(a, t)
      PROVE  act'[Daemon] = act[Daemon]
  BY <1>1, <1>a, ActStep
<1>2. ASSUME Open \/ OpenGoalRaises \/ OpenRaises \/ CancelRequested \/ Command
      PROVE  \E t : Become(Control, t)
  BY <1>2, Zenon DEF Open, OpenRun, OpenGoal, OpenLoop, RegisterRun, RegisterGoal,
     CompensateRun, CompensateGoal, OpenGoalRaises, OpenRaises, CancelRequested, Command,
     CancelLoop, CancelRun, CancelGoal, RejectLoop, RejectGoal, Goto, Rest
<1>3. ASSUME NEW d \in Driver, Resume(d) \/ RequestApproval(d) \/ Drive(d)
      PROVE  \E t : Become(d, t)
  BY <1>3, Zenon DEF Resume, RequestApproval, Drive, MarkRun, MarkGoal, Claim, Stop,
              Raise, FailLoop, Enqueue, Goto, Rest
<1>4. ASSUME NEW a \in Driver, Saga(a) \/ ApplyRaises(a) PROVE \E t : Become(a, t)
  BY <1>4, Zenon DEF Saga, Prepare, ApplyLoop, ApplyRun, ApplyGoal, Complete,
              ApplyRaises, MarkFailed, AfterSaga, Goto, Rest
<1>5. ASSUME NEW k \in 1 .. MaxGates, Approve(k) \/ Reject(k)
      PROVE  act' = act \/ \E t : Become(Control, t)
  BY <1>5, Zenon DEF Approve, Reject, Goto
<1>6. CASE LeaseExpires \/ UNCHANGED vars
  BY <1>6 DEF LeaseExpires, vars
<1>8. ASSUME NEW pc, Goto(Daemon, pc), pc \notin EndsGoal PROVE FALSE
  BY <1>8, <1>a, ActStep
<1>9. ~Rest(Daemon)
  BY <1>a, ActStep
<1>10. ASSUME NEW t, Become(Daemon, t) PROVE t.pc \in EndsGoal
  BY <1>10, <1>a, ActStep
<1>11. CASE DaemonStart
  <2>1. [act[Daemon] EXCEPT !.pc = "recover", !.todo = unresolved].pc = "recover"
    BY <1>a DEF Task
  <2> QED BY <1>11, <2>1, <1>10 DEF DaemonStart
<1>12. CASE ReconcileStart \/ OrphanRun \/ OrphanGoal \/ OrphanClose \/ ReconcileReopen
              \/ ReadWait
  BY <1>12, <1>8, <1>9 DEF ReconcileStart, OrphanRun, OrphanGoal, OrphanClose,
                           ReconcileReopen, ReadWait, At
<1>13. CASE RetentionCancel
  <2>1. [act[Daemon] EXCEPT !.pc = "read_wait", !.key = WaitKey("cancel")].pc = "read_wait"
    BY <1>a DEF Task
  <2> QED BY <1>13, <2>1, <1>10 DEF RetentionCancel
<1>14. CASE Recover
  <2>1. \A k : [act[Daemon] EXCEPT !.pc = FirstStep(k), !.key = k].pc \notin EndsGoal
    <3> TAKE k
    <3> DEFINE pc == FirstStep(k)
    <3>1. pc \notin EndsGoal BY FirstStepType DEF EndsGoal
    <3> HIDE DEF pc
    <3>2. [act[Daemon] EXCEPT !.pc = pc, !.key = k].pc = pc BY <1>a DEF Task
    <3> QED BY <3>1, <3>2 DEF pc
  <2>2. \A k : ~Become(Daemon, [act[Daemon] EXCEPT !.pc = FirstStep(k), !.key = k])
    BY <2>1, <1>10
  <2> QED BY <1>14, <2>2, <1>8, <1>9 DEF Recover
<1>15. CASE Reconcile
  <2> DEFINE k == WaitKey(Verdict(GateStatus))
  <2>1. [act[Daemon] EXCEPT !.pc = "read_wait", !.key = k].pc = "read_wait"
    BY <1>a DEF Task
  <2>2. ~Become(Daemon, [act[Daemon] EXCEPT !.pc = "read_wait", !.key = k])
    BY <2>1, <1>10
  <2> QED BY <1>15, <2>2, <1>8, <1>9 DEF Reconcile
<1>16. ~AfterSaga(Daemon)
  <2> DEFINE s == act[Daemon].todo \ {act[Daemon].key}
  <2>1. [Idle EXCEPT !.pc = "recover", !.todo = s].pc = "recover" BY <1>a DEF Task
  <2> QED BY <2>1, <1>9, <1>10 DEF AfterSaga
<1>17. CASE Saga(Daemon) \/ ApplyRaises(Daemon)
  <2>1. CASE ApplyRun(Daemon)
    <3> DEFINE r == RunForSaga(run, act[Daemon].key)
    <3>1. [act[Daemon] EXCEPT !.pc = "apply_goal", !.row = r].pc = "apply_goal"
      BY <1>a DEF Task
    <3> QED BY <2>1, <3>1, <1>10 DEF ApplyRun
  <2>2. CASE ApplyGoal(Daemon)
    <3>1. [act[Daemon] EXCEPT !.pc = "complete", !.row = NoRow].pc = "complete"
      BY <1>a DEF Task
    <3> QED BY <2>2, <3>1, <1>10 DEF ApplyGoal
  <2>3. CASE Prepare(Daemon) \/ ApplyLoop(Daemon) \/ Complete(Daemon) \/ ApplyRaises(Daemon)
    BY <2>3, <1>8, <1>16, FirstStepType
       DEF Prepare, ApplyLoop, Complete, ApplyRaises, MarkFailed
  <2> QED BY <1>17, <2>1, <2>2, <2>3 DEF Saga
<1>18. ASSUME NEW a \in Actor, Crash(a) PROVE a # Daemon /\ \E t : Become(a, t)
  BY <1>18, <1>9 DEF Crash, Rest
<1> QED
  BY <1>1, <1>2, <1>3, <1>4, <1>5, <1>6, <1>11, <1>12, <1>13, <1>14, <1>15, <1>17,
     <1>18, <1>a
     DEF Next, Serve

\* ClosedInv is inductive.
LEMMA NextClosedInv == TypeOK /\ ClosedInv /\ [Next]_vars => ClosedInv'
<1> USE DEF EndsGoal
<1> SUFFICES ASSUME TypeOK, ClosedInv, [Next]_vars PROVE ClosedInv'
  OBVIOUS
<1>1. /\ OpenInv /\ OpenInv' /\ LoopMoves /\ ControlMoves
      /\ (run # NoRow => run' # NoRow) /\ (loop' = "none" => Undriven')
  BY NextOpenInv, NextLoop, NextControl, RunStays, NextUndriven DEF ClosedInv
<1>s. \A d \in Driver : MarkGoal(d) => loop # "none"
  BY DEF ClosedInv, Undriven, MarkGoal, At
<1>t. \A a \in Driver \cup {Daemon} : ApplyGoal(a) => loop # "none"
  <2>1. ASSUME NEW a \in Driver \cup {Daemon}, loop = "none"
        PROVE  act[a].pc \in OrphanPC
    BY <2>1 DEF ClosedInv, Undriven, OrphanPC
  <2> QED BY <2>1 DEF ApplyGoal, At, OrphanPC
<1>2. act'[Control].pc # "idle" => run' # NoRow
  <2>1. CASE act[Control].pc # "idle"
    BY <2>1, <1>1 DEF ClosedInv
  <2>2. CASE act[Control].pc = "idle"
    <3>1. OpenRun => run' # NoRow BY RowFacts DEF OpenRun
    <3>2. CancelRequested => run' # NoRow
      BY <1>1 DEF CancelRequested, Exists, ClosedInv
    <3>3. \A k \in 1 .. MaxGates : Reject(k) => run' # NoRow BY RowFacts DEF Reject
    <3> QED BY <2>2, <3>1, <3>2, <3>3, WorkStarts
  <2> QED BY <2>1, <2>2
<1>3. goal' # NoRow => run' # NoRow
  <2>1. CASE act[Control].pc # "idle" \/ goal # NoRow
    BY <2>1, <1>1 DEF ClosedInv
  <2>2. CASE loop # "none"
    BY <2>2, <1>1 DEF OpenInv
  <2>3. CASE OrphanClose
    BY <2>3, <1>1 DEF OrphanClose, At, ClosedInv
  <2> QED BY <2>1, <2>2, <2>3, <1>s, <1>t, GoalWriters
<1>4. act'[Control].pc = "open_loop" => goal'.phase = "running"
  <2> SUFFICES ASSUME act'[Control].pc = "open_loop" PROVE goal'.phase = "running"
    OBVIOUS
  <2>1. CASE OpenGoal
    BY <2>1 DEF OpenGoal, Running, R
  <2>2. CASE ~OpenGoal
    <3>1. act[Control].pc = "open_loop" /\ loop = "none"
      BY <1>1, <2>2 DEF ControlMoves, OpenPC, OpenInv
    <3>2. ~OrphanClose
      BY <3>1 DEF OrphanClose, At, ClosedInv, Opening, OpenPC
    <3>3. goal' = goal
      <4>1. Undriven BY <3>1 DEF ClosedInv
      <4>2. ~OpenGoalRaises /\ ~RegisterGoal /\ ~CompensateGoal /\ ~CancelGoal /\ ~RejectGoal
        BY <3>1 DEF OpenGoalRaises, RegisterGoal, CompensateGoal, CancelGoal, RejectGoal, At
      <4> QED
        BY <2>2, <3>1, <3>2, <4>1, <4>2, UndrivenSteps
           DEF Open, OpenRun, OpenLoop, RegisterRun, CompensateRun, OpenRaises,
               LeaseExpires, Command, CancelLoop, CancelRun, RejectLoop, Approve,
               Reject, DaemonStart, Recover, OrphanRun, OrphanGoal, Crash, vars
    <3> QED BY <3>1, <3>3 DEF ClosedInv
  <2> QED BY <2>1, <2>2
<1>5. act'[Daemon].pc \in EndsGoal => run' # NoRow /\ ~Opening'
  <2> SUFFICES ASSUME act'[Daemon].pc \in EndsGoal PROVE run' # NoRow /\ ~Opening'
    OBVIOUS
  <2>1. run # NoRow /\ ~Opening
    BY OrphanCloses DEF ClosedInv, OrphanedGoal, GracePassed, Exists
  <2>2. ~OpenRun BY <2>1 DEF OpenRun, Exists
  <2> QED
    BY <1>1, <2>1, <2>2 DEF ControlMoves, Opening, OpenPC, OpenGoal, OpenLoop,
                            RegisterRun, At
<1> QED BY <1>1, <1>2, <1>3, <1>4, <1>5 DEF ClosedInv

\* ClosedInv is an invariant.
LEMMA ClosedInvariant == Spec => [](TypeOK /\ ClosedInv)
<1>1. Init => ClosedInv
  <2> SUFFICES ASSUME Init PROVE ClosedInv
    OBVIOUS
  <2>1. \A a \in Actor : act[a].pc = "idle" /\ act[a].todo = {} BY DEF Init, Idle
  <2> QED BY <2>1, Actors, InitOpenInv DEF Init, ClosedInv, Undriven, OrphanPC, EndsGoal
<1> QED BY <1>1, NextClosedInv, InitTypeOK, NextTypeOK, PTL DEF Spec

\* recover_open_orphans never ends an objective that still gets its loop: a
\* Goal it closed stays without one, given that an open takes less than the
\* grace period.
THEOREM RecoverySafe == Spec => EndedOpenStaysClosed
<1>1. TypeOK /\ ClosedInv /\ [Next]_vars =>
        [loop = "none" /\ goal.phase = "ended" => loop' = "none"]_vars
  <2> SUFFICES ASSUME TypeOK, ClosedInv, [Next]_vars, loop = "none", goal.phase = "ended"
               PROVE  loop' = "none"
    OBVIOUS
  <2>1. ~OpenLoop BY DEF OpenLoop, At, ClosedInv
  <2> QED BY <2>1, NextLoop DEF ClosedInv, LoopMoves
<1> QED BY <1>1, ClosedInvariant, PTL DEF Spec, EndedOpenStaysClosed

================================================================================
