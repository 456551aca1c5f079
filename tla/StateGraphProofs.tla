--------------------------- MODULE StateGraphProofs ----------------------------
(* Proofs about StateGraph, for every retry and attempt limit, every set of   *)
(* execution modes and every bound.                                           *)
EXTENDS StateGraph, TLAPS

--------------------------------------------------------------------------------
\* The invariants.

\* What is persisted once the decided transitions are written: the durable
\* evidence, and the node or the stop state.  A transition that is written
\* changes neither, so an invariant over them is disturbed only by decisions,
\* drivers that begin or end, and whoever reopens or ends a parked loop.
Ahead == IF chain = <<>> THEN row.evidence ELSE chain[Len(chain)].evidence

Place == IF chain # <<>> THEN chain[Len(chain)].to
         ELSE IF row.terminal = Active THEN row.node ELSE row.terminal

Stops == Suspended \cup Final

\* Only the last of the decided transitions may stop the loop.
Onward == \A i \in 1..(Len(chain) - 1) : chain[i].to \in LoopNode

\* Nothing is decided and nothing is known where no driver runs, and nothing
\* is decided about a loop that has stopped.
TypeInv ==
  /\ TypeOK
  /\ chain \in Seq(Step) /\ Onward
  /\ chain # <<>> => row.terminal = Active
  /\ ~driving => chain = <<>> /\ mem = NoMemory

\* A result that a driver takes to EVALUATE is the one it persists there.
ResultInv ==
  driving /\ Place = "evaluate" /\ mem.result # NoResult
    => mem.result = Ahead.executor

\* In a loop that was never suspended, the attempt of the last call is over
\* before another plan is made: it goes on with the plan of that call.
SameAttempt ==
  /\ row.node # "plan"
  /\ \A i \in 1..Len(chain) : chain[i].to # "execute"
  /\ driving /\ row.node = "execute" => mem.plan = last.plan

CallInv ==
  /\ ckpt = last.plan
  /\ why = "none" =>
       /\ row.terminal \notin Suspended
       /\ \A i \in 1..Len(chain) : chain[i].to \notin Suspended
       /\ last.attempt <= row.attempt
       /\ last.attempt = row.attempt => SameAttempt

GraphInv == TypeInv /\ ResultInv /\ CallInv

--------------------------------------------------------------------------------
\* Chains of one and two transitions.

LEMMA OneStep ==
  ASSUME NEW t \in Step, chain' = <<t>>
  PROVE  /\ chain' \in Seq(Step) /\ chain' # <<>>
         /\ \A i \in 1..Len(chain') : chain'[i] = t
         /\ Place' = t.to /\ Ahead' = t.evidence /\ Onward'
  BY DEF Place, Ahead, Onward

LEMMA TwoSteps ==
  ASSUME NEW s \in Step, NEW t \in Step, chain' = <<s, t>>, s.to \in LoopNode
  PROVE  /\ chain' \in Seq(Step) /\ chain' # <<>>
         /\ \A i \in 1..Len(chain') : chain'[i] \in {s, t}
         /\ Place' = t.to /\ Ahead' = t.evidence /\ Onward'
  <1>1. chain' \in Seq(Step) /\ chain' # <<>> /\ Len(chain') = 2
    OBVIOUS
  <1>2. chain'[1] = s /\ chain'[2] = t
    OBVIOUS
  <1> QED BY <1>1, <1>2 DEF Place, Ahead, Onward

LEMMA EmptyOnward == chain = <<>> => Onward
  BY DEF Onward

\* The transitions a phase writes are well typed.
LEMMA StepType ==
  ASSUME NEW to \in LoopNode \cup Suspended \cup Final,
         NEW condition \in Condition, NEW e \in Evidence
  PROVE  /\ T(to, condition, e) \in Step
         /\ T(to, condition, e).to = to /\ T(to, condition, e).evidence = e
  BY DEF T, Step

\* PauseWith goes to PAUSED by way of PAUSE.
LEMMA Pausing ==
  ASSUME NEW e \in Evidence, chain' = PauseWith(e)
  PROVE  /\ chain' \in Seq(Step) /\ chain' # <<>> /\ Onward'
         /\ Place' = "paused" /\ Ahead' = e
         /\ \A i \in 1..Len(chain') : chain'[i].to \in {"pause", "paused"}
  <1> DEFINE s == T("pause", "resource_pause", e)
             t == T("paused", "resource_or_user_pause", e)
  <1>1. s \in Step /\ s.to = "pause"
    BY StepType DEF LoopNode, Condition
  <1>2. t \in Step /\ t.to = "paused" /\ t.evidence = e
    BY StepType DEF Suspended, Condition
  <1>3. chain' = <<s, t>>
    BY DEF PauseWith
  <1> HIDE DEF s, t
  <1> QED BY <1>1, <1>2, <1>3, TwoSteps DEF LoopNode

\* Waiting for an approval is reached by way of ESCALATE.
LEMMA Escalating ==
  ASSUME NEW e \in Evidence, NEW c \in Condition, NEW d \in Condition,
         chain' = << T("escalate", c, e), T("waiting_approval", d, e) >>
  PROVE  /\ chain' \in Seq(Step) /\ chain' # <<>> /\ Onward'
         /\ Place' = "waiting_approval" /\ Ahead' = e
         /\ \A i \in 1..Len(chain') :
               chain'[i].to \in {"escalate", "waiting_approval"}
  <1> DEFINE s == T("escalate", c, e)
             t == T("waiting_approval", d, e)
  <1>1. /\ s \in Step /\ s.to = "escalate"
        /\ t \in Step /\ t.to = "waiting_approval" /\ t.evidence = e
    BY StepType DEF LoopNode, Suspended
  <1>2. chain' = <<s, t>>
    OBVIOUS
  <1> HIDE DEF s, t
  <1> QED BY <1>1, <1>2, TwoSteps DEF LoopNode

\* REFLECT leads to another plan or to a stop state.
LEMMA Reflecting ==
  ASSUME NEW to \in {"plan"} \cup Final, NEW c \in Condition, NEW d \in Condition,
         NEW e \in Evidence, chain' = << T("reflect", c, e), T(to, d, e) >>
  PROVE  /\ chain' \in Seq(Step) /\ chain' # <<>> /\ Onward'
         /\ Place' = to /\ Ahead' = e
         /\ \A i \in 1..Len(chain') : chain'[i].to \in {"reflect", to}
  <1> DEFINE s == T("reflect", c, e)
             t == T(to, d, e)
  <1>1. s \in Step /\ s.to = "reflect"
    BY StepType DEF LoopNode
  <1>2. t \in Step /\ t.to = to /\ t.evidence = e
    BY StepType DEF LoopNode
  <1>3. chain' = <<s, t>>
    OBVIOUS
  <1> HIDE DEF s, t
  <1> QED BY <1>1, <1>2, <1>3, TwoSteps DEF LoopNode

\* One transition.
LEMMA Moving ==
  ASSUME NEW to \in LoopNode \cup Suspended \cup Final,
         NEW c \in Condition, NEW e \in Evidence, chain' = << T(to, c, e) >>
  PROVE  /\ chain' \in Seq(Step) /\ chain' # <<>> /\ Onward'
         /\ Place' = to /\ Ahead' = e
         /\ \A i \in 1..Len(chain') : chain'[i].to = to
  <1>1. /\ T(to, c, e) \in Step
        /\ T(to, c, e).to = to /\ T(to, c, e).evidence = e
    BY StepType
  <1> QED BY <1>1, OneStep

--------------------------------------------------------------------------------
\* Records that are written field by field.

LEMMA RowParts ==
  ASSUME TypeInv
  PROVE  /\ row.evidence \in Evidence /\ row.node \in LoopNode
         /\ row.terminal \in TerminalState /\ row.attempt \in Nat
         /\ row.evidence.planned \in Nat /\ row.evidence.executor \in Result
         /\ row.evidence.gate \in Gate
         /\ row.evidence.grant \in PhaseNode \cup {"none"}
         /\ mem.plan \in Nat /\ mem.result \in Result /\ mem.candidate \in Nat
         /\ mem.responded \in Nat /\ mem.gate \in Gate /\ mem.runs \in Nat
         /\ last.attempt \in Nat /\ last.plan \in Nat
  BY DEF TypeInv, TypeOK, Row, Evidence, Memory

LEMMA EvidenceWrites ==
  ASSUME NEW e \in Evidence, NEW n \in Nat, NEW r \in Result, NEW g \in Gate,
         NEW h \in PhaseNode \cup {"none"}
  PROVE  /\ [e EXCEPT !.planned = n] \in Evidence
         /\ [e EXCEPT !.planned = n].executor = e.executor
         /\ [e EXCEPT !.planned = n].gate = e.gate
         /\ [e EXCEPT !.planned = n].grant = e.grant
         /\ [e EXCEPT !.executor = r] \in Evidence
         /\ [e EXCEPT !.executor = r].executor = r
         /\ [e EXCEPT !.executor = r].gate = e.gate
         /\ [e EXCEPT !.executor = r].grant = e.grant
         /\ [e EXCEPT !.gate = g] \in Evidence
         /\ [e EXCEPT !.gate = g].executor = e.executor
         /\ [e EXCEPT !.gate = g].gate = g
         /\ [e EXCEPT !.gate = g].grant = e.grant
         /\ [e EXCEPT !.grant = h] \in Evidence
         /\ [e EXCEPT !.grant = h].executor = e.executor
         /\ [e EXCEPT !.grant = h].gate = e.gate
  BY DEF Evidence

LEMMA Blank == NoGate \in Gate /\ NoResult \in Result /\ NoMemory \in Memory
  BY DEF NoGate, Gate, NoResult, Result, NoMemory, Memory

\* The retry gate while a role's budget lasts, and after the role recovered.
LEMMA GateWrites ==
  ASSUME TypeInv, NEW role \in {"planner", "checker"}, NEW e \in Evidence
  PROVE  /\ NextRetryGate(role) \in Gate
         /\ NextRetryGate(role) # NoGate => NextRetryGate(role).role = role
         /\ Recovered(role) \in Gate
         /\ Clearance(role, e) \in Evidence
         /\ Clearance(role, e).executor = e.executor
         /\ Clearance(role, e).grant = e.grant
         /\ e.gate = mem.gate => Clearance(role, e).gate = Recovered(role)
  <1>1. mem.gate \in Gate /\ NoGate \in Gate
    BY RowParts, Blank
  <1>2. /\ NextRetryGate(role) \in Gate
        /\ NextRetryGate(role) # NoGate => NextRetryGate(role).role = role
    <2> DEFINE prior == IF mem.gate.role = role THEN mem.gate.count ELSE 0
    <2>1. prior \in Nat
      BY <1>1 DEF Gate, NoGate
    <2>2. NextRetryGate(role) = IF prior >= MaxRetries THEN NoGate
                                ELSE [role |-> role, count |-> prior + 1]
      BY DEF NextRetryGate
    <2> HIDE DEF prior
    <2>3. prior + 1 \in Nat \ {0}
      BY <2>1
    <2>4. [role |-> role, count |-> prior + 1] \in Gate
      BY <2>3 DEF Gate
    <2>5. [role |-> role, count |-> prior + 1].role = role
      OBVIOUS
    <2> QED BY <1>1, <2>2, <2>4, <2>5
  <1>3. Recovered(role) \in Gate
    BY <1>1 DEF Recovered
  <1>4. /\ [e EXCEPT !.gate = NoGate] \in Evidence
        /\ [e EXCEPT !.gate = NoGate].executor = e.executor
        /\ [e EXCEPT !.gate = NoGate].gate = NoGate
        /\ [e EXCEPT !.gate = NoGate].grant = e.grant
    BY <1>1 DEF Evidence
  <1>5. CASE mem.gate.role = role
    BY <1>2, <1>3, <1>4, <1>5 DEF Clearance, Recovered
  <1>6. CASE mem.gate.role # role
    BY <1>2, <1>3, <1>6 DEF Clearance, Recovered
  <1> QED BY <1>5, <1>6

--------------------------------------------------------------------------------
\* Decisions of the phases.

\* A phase at `node` decides on transitions that lead to `place` with the
\* evidence `e`; it does not lead to EXECUTE, and it parks the loop only with
\* a reason.
Decides(node, place, e) ==
  /\ At(node) /\ driving' = driving /\ row' = row
  /\ mode' = mode /\ ladder' = ladder
  /\ chain' \in Seq(Step) /\ chain' # <<>> /\ Onward'
  /\ Place' = place /\ Ahead' = e
  /\ mem' \in Memory /\ mem'.plan = mem.plan
  /\ why' \in Why /\ (why' = why \/ why' # "none")
  /\ \A i \in 1..Len(chain') : chain'[i].to # "execute"
  /\ why' # "none" \/ \A i \in 1..Len(chain') : chain'[i].to \notin Suspended

LEMMA DeniedDecides ==
  ASSUME TypeInv, NEW node \in PhaseNode, Denied(node)
  PROVE  /\ \E place \in {"paused", "waiting_approval", "blocked"},
              e \in Evidence : Decides(node, place, e)
         /\ mem' = mem /\ plans' = plans /\ ckpt' = ckpt /\ last' = last
         /\ spent' = [spent EXCEPT !.denials = @ + 1]
  <1> DEFINE paused  == [row.evidence EXCEPT !.grant = node]
             refused == [row.evidence EXCEPT !.grant = "none"]
  <1>1. paused \in Evidence /\ refused \in Evidence
    BY RowParts DEF Evidence
  <1>2. /\ At(node) /\ driving' = driving /\ row' = row /\ mode' = mode
        /\ ladder' = ladder /\ mem' = mem /\ plans' = plans /\ ckpt' = ckpt
        /\ last' = last /\ spent' = [spent EXCEPT !.denials = @ + 1]
    BY DEF Denied
  <1>3. mem \in Memory /\ why \in Why
    BY DEF TypeInv, TypeOK
  <1>4. \/ chain' = PauseWith(paused) /\ why' = "resource"
        \/ /\ chain' = << T("escalate", "resource_escalate", refused),
                          T("waiting_approval", "resource_escalate", refused) >>
           /\ why' = "approval"
        \/ chain' = << T("blocked", "resource_blocked", refused) >> /\ why' = why
    BY DEF Denied
  <1> HIDE DEF paused, refused
  <1>5. CASE chain' = PauseWith(paused) /\ why' = "resource"
    <2>1. Decides(node, "paused", paused)
      BY <1>1, <1>2, <1>3, <1>5, Pausing DEF Decides, Why
    <2> QED BY <2>1, <1>1, <1>2
  <1>6. CASE /\ chain' = << T("escalate", "resource_escalate", refused),
                            T("waiting_approval", "resource_escalate", refused) >>
             /\ why' = "approval"
    <2>1. "resource_escalate" \in Condition
      BY DEF Condition
    <2>2. Decides(node, "waiting_approval", refused)
      BY <1>1, <1>2, <1>3, <1>6, <2>1, Escalating DEF Decides, Why
    <2> QED BY <2>2, <1>1, <1>2
  <1>7. CASE chain' = << T("blocked", "resource_blocked", refused) >> /\ why' = why
    <2>1. "resource_blocked" \in Condition /\ "blocked" \in Final
      BY DEF Condition, Final
    <2>2. Decides(node, "blocked", refused)
      BY <1>1, <1>2, <1>3, <1>7, <2>1, Moving DEF Decides, Suspended
    <2> QED BY <2>2, <1>1, <1>2
  <1> QED BY <1>4, <1>5, <1>6, <1>7

\* What the driver knows after a call, after an acceptance and after the
\* retry gate of a role changed.
LEMMA MemoryWrites ==
  ASSUME TypeInv, NEW g \in Gate
  PROVE  /\ \A a \in {"ask", "chat", "other"} :
              /\ Collected(a) \in Memory /\ Collected(a).plan = mem.plan
              /\ Collected(a).gate = mem.gate
              /\ Collected(a).result = [plan |-> mem.plan, chat |-> a = "chat"]
              /\ Collected(a).candidate \in {0, mem.plan}
              /\ Collected(a).responded = IF a = "ask" THEN mem.plan ELSE 0
         /\ Released \in Memory /\ Released.plan = mem.plan
         /\ Released.result = mem.result
         /\ Released.gate = Recovered("checker")
         /\ Released.responded = IF mem.candidate # 0 THEN mem.candidate
                                                      ELSE mem.responded
         /\ [mem EXCEPT !.gate = g] \in Memory
         /\ [mem EXCEPT !.gate = g].plan = mem.plan
         /\ [mem EXCEPT !.gate = g].result = mem.result
         /\ [mem EXCEPT !.gate = g].candidate = mem.candidate
         /\ [mem EXCEPT !.gate = g].responded = mem.responded
         /\ [mem EXCEPT !.gate = g].gate = g
  <1>1. mem \in Memory /\ mem.plan \in Nat /\ mem.runs \in Nat
    BY RowParts DEF TypeInv, TypeOK
  <1>2. ASSUME NEW a \in {"ask", "chat", "other"}
        PROVE  /\ Collected(a) \in Memory /\ Collected(a).plan = mem.plan
               /\ Collected(a).gate = mem.gate
               /\ Collected(a).result = [plan |-> mem.plan, chat |-> a = "chat"]
               /\ Collected(a).candidate \in {0, mem.plan}
               /\ Collected(a).responded = IF a = "ask" THEN mem.plan ELSE 0
    <2> DEFINE r == [plan |-> mem.plan, chat |-> a = "chat"]
               c == IF a = "chat" THEN mem.plan ELSE 0
               d == IF a = "ask" THEN mem.plan ELSE 0
    <2>1. r \in Result /\ c \in Nat /\ c \in {0, mem.plan} /\ d \in Nat
      BY <1>1 DEF Result
    <2>2. Collected(a) = [mem EXCEPT !.result = r, !.candidate = c,
                                     !.responded = d, !.runs = @ + 1]
      BY DEF Collected
    <2> HIDE DEF r, c, d
    <2>6. Collected(a) = [plan |-> mem.plan, result |-> r, candidate |-> c,
                          responded |-> d, gate |-> mem.gate,
                          runs |-> mem.runs + 1]
      BY <1>1, <2>2 DEF Memory
    <2>3. /\ Collected(a) \in Memory /\ Collected(a).plan = mem.plan
          /\ Collected(a).gate = mem.gate /\ Collected(a).result = r
          /\ Collected(a).candidate = c /\ Collected(a).responded = d
      BY <1>1, <2>1, <2>6, RowParts DEF Memory
    <2>4. Collected(a).result = [plan |-> mem.plan, chat |-> a = "chat"]
      BY <2>3, Zenon DEF r
    <2>5. Collected(a).responded = IF a = "ask" THEN mem.plan ELSE 0
      BY <2>3, Zenon DEF d
    <2> QED BY <2>1, <2>3, <2>4, <2>5, Zenon
  <1>3. Recovered("checker") \in Gate
    BY RowParts, Blank DEF Recovered
  <1>4. /\ Released \in Memory /\ Released.plan = mem.plan
        /\ Released.result = mem.result
        /\ Released.gate = Recovered("checker")
        /\ Released.responded = IF mem.candidate # 0 THEN mem.candidate
                                                     ELSE mem.responded
    BY <1>1, <1>3 DEF Released, Memory
  <1>5. /\ [mem EXCEPT !.gate = g] \in Memory
        /\ [mem EXCEPT !.gate = g].plan = mem.plan
        /\ [mem EXCEPT !.gate = g].result = mem.result
        /\ [mem EXCEPT !.gate = g].candidate = mem.candidate
        /\ [mem EXCEPT !.gate = g].responded = mem.responded
        /\ [mem EXCEPT !.gate = g].gate = g
    BY <1>1 DEF Memory
  <1> QED BY <1>2, <1>4, <1>5

\* A phase takes no note of what is durable but its own decision.
LEMMA PhaseFrame ==
  /\ PlannerTransportFailure \/ PlannerMalformed \/ MissingPlan \/ LockConflict
       \/ CheckerTransportFailure \/ AcceptedWithoutSurface \/ Accepted
       \/ TimedOut \/ Rejected
     => UNCHANGED <<row, ckpt, mode, ladder, driving, plans, last, spent>>
  /\ ExecuteRepeated \/ ExecuteYields \/ ExecuteFails \/ ExecuteSucceeds
     => /\ UNCHANGED <<row, mode, ladder, driving, plans, spent>>
        /\ At("execute") /\ mem.plan # 0 /\ ckpt' = mem.plan
        /\ last' = [attempt |-> row.attempt, plan |-> mem.plan]
  BY DEF PlannerTransportFailure, PlannerMalformed, MissingPlan, LockConflict,
         CheckerTransportFailure, AcceptedWithoutSurface, Accepted, TimedOut,
         Rejected, ExecuteRepeated, ExecuteYields, ExecuteFails,
         ExecuteSucceeds, Called

LEMMA TransportPauseDecides ==
  ASSUME TypeInv, NEW role \in {"planner", "checker"}, NEW e \in Evidence,
         NEW node \in PhaseNode, At(node), TransportPause(role, e),
         UNCHANGED <<row, mode, ladder, driving>>
  PROVE  \E f \in Evidence :
            /\ Decides(node, "paused", f)
            /\ f.gate = mem'.gate /\ f.gate.role = role
            /\ f.executor = e.executor /\ f.grant = e.grant
            /\ why' = "transport"
            /\ mem' = [mem EXCEPT !.gate = f.gate]
  <1> DEFINE g == NextRetryGate(role)
             f == [e EXCEPT !.gate = g]
  <1>1. g \in Gate /\ g # NoGate /\ g.role = role
    BY GateWrites DEF TransportPause
  <1>2. /\ f \in Evidence /\ f.gate = g
        /\ f.executor = e.executor /\ f.grant = e.grant
    BY <1>1 DEF Evidence
  <1>3. chain' = PauseWith(f) /\ mem' = [mem EXCEPT !.gate = g] /\ why' = "transport"
    BY DEF TransportPause
  <1> HIDE DEF g, f
  <1>4. mem' \in Memory /\ mem'.plan = mem.plan /\ mem'.gate = g
    BY <1>1, <1>3, MemoryWrites
  <1>5. Decides(node, "paused", f)
    BY <1>2, <1>3, <1>4, Pausing DEF Decides, Why
  <1> QED BY <1>1, <1>2, <1>3, <1>4, <1>5

LEMMA PlannerTransportFailureDecides ==
  ASSUME TypeInv, PlannerTransportFailure
  PROVE  \/ \E f \in Evidence :
              /\ Decides("plan", "paused", f)
              /\ f.gate = mem'.gate /\ f.gate.role = "planner"
              /\ f.executor = row.evidence.executor
              /\ f.grant = row.evidence.grant
              /\ why' = "transport"
              /\ mem' = [mem EXCEPT !.gate = f.gate]
         \/ Decides("plan", "failed", row.evidence) /\ mem' = mem
  <1>1. /\ row.evidence \in Evidence /\ mem \in Memory /\ why \in Why
        /\ "plan" \in PhaseNode
    BY RowParts DEF TypeInv, TypeOK, PhaseNode
  <1>2. At("plan") /\ UNCHANGED <<row, mode, ladder, driving>>
    BY DEF PlannerTransportFailure
  <1>3. CASE TransportPause("planner", row.evidence)
    BY <1>1, <1>2, <1>3, TransportPauseDecides
  <1>4. CASE /\ chain' = << T("failed", "planner_failed", row.evidence) >>
             /\ UNCHANGED <<mem, why>>
    <2>1. "planner_failed" \in Condition /\ "failed" \in Final
      BY DEF Condition, Final
    <2>2. Decides("plan", "failed", row.evidence)
      BY <1>1, <1>2, <1>4, <2>1, Moving DEF Decides, Suspended
    <2> QED BY <2>2, <1>4
  <1> QED BY <1>3, <1>4 DEF PlannerTransportFailure

LEMMA PlannerMalformedDecides ==
  ASSUME TypeInv, PlannerMalformed
  PROVE  /\ \E place \in {"plan", "failed"} :
              Decides("plan", place, row.evidence)
         /\ mem' = mem
  <1>1. /\ row.evidence \in Evidence /\ mem \in Memory /\ why \in Why
        /\ At("plan") /\ mem' = mem /\ why' = why
        /\ UNCHANGED <<row, mode, ladder, driving>>
    BY RowParts DEF TypeInv, TypeOK, PlannerMalformed
  <1>2. /\ "planner_failed" \in Condition /\ "new_route_available" \in Condition
        /\ "failed" \in Final
    BY DEF Condition, Final
  <1>3. CASE AttemptsLeft
    <2>1. chain' = << T("reflect", "planner_failed", row.evidence),
                      T("plan", "new_route_available", row.evidence) >>
      BY <1>3 DEF PlannerMalformed, ReflectThen
    <2>2. Decides("plan", "plan", row.evidence)
      BY <1>1, <1>2, <2>1, Reflecting DEF Decides, Suspended
    <2> QED BY <2>2, <1>1
  <1>4. CASE ~AttemptsLeft
    <2>1. chain' = << T("failed", "planner_failed", row.evidence) >>
      BY <1>4 DEF PlannerMalformed
    <2>2. Decides("plan", "failed", row.evidence)
      BY <1>1, <1>2, <2>1, Moving DEF Decides, Suspended
    <2> QED BY <2>2, <1>1
  <1> QED BY <1>3, <1>4

LEMMA MissingPlanDecides ==
  ASSUME TypeInv, MissingPlan
  PROVE  Decides("execute", "failed", row.evidence) /\ mem' = mem
  <1>1. /\ row.evidence \in Evidence /\ mem \in Memory /\ why \in Why
        /\ At("execute") /\ mem' = mem /\ why' = why
        /\ UNCHANGED <<row, mode, ladder, driving>>
    BY RowParts DEF TypeInv, TypeOK, MissingPlan
  <1> DEFINE s == T("reflect", "missing_planned_capability", row.evidence)
             t == T("failed", "checker_rejected", row.evidence)
  <1>2. s \in Step /\ s.to = "reflect"
    BY <1>1, StepType DEF LoopNode, Condition
  <1>3. t \in Step /\ t.to = "failed" /\ t.evidence = row.evidence
    BY <1>1, StepType DEF Final, Condition
  <1>4. chain' = <<s, t>>
    BY DEF MissingPlan
  <1> HIDE DEF s, t
  <1> QED BY <1>1, <1>2, <1>3, <1>4, TwoSteps DEF Decides, Suspended, LoopNode

\* Executions: where they lead, and what the driver collects.
LEMMA ExecuteRepeatedDecides ==
  ASSUME TypeInv, ExecuteRepeated
  PROVE  /\ Decides("execute", "blocked", row.evidence)
         /\ \E a \in {"ask", "chat", "other"} : mem' = Collected(a)
  <1>1. PICK a \in {"ask", "chat", "other"} : mem' = Collected(a)
    BY DEF ExecuteRepeated
  <1>2. mem' \in Memory /\ mem'.plan = mem.plan
    BY <1>1, MemoryWrites, Blank
  <1>3. /\ row.evidence \in Evidence /\ why \in Why /\ why' = why
        /\ At("execute") /\ UNCHANGED <<row, mode, ladder, driving>>
        /\ chain' = << T("blocked", "repeated_progress_signature", row.evidence) >>
    BY RowParts DEF TypeInv, TypeOK, ExecuteRepeated, Called
  <1>4. "blocked" \in Final /\ "repeated_progress_signature" \in Condition
    BY DEF Final, Condition
  <1>5. Decides("execute", "blocked", row.evidence)
    BY <1>2, <1>3, <1>4, Moving DEF Decides, Suspended
  <1> QED BY <1>1, <1>5

LEMMA ExecuteYieldsDecides ==
  ASSUME TypeInv, ExecuteYields
  PROVE  /\ \E place \in Suspended : Decides("execute", place, row.evidence)
         /\ \E a \in {"ask", "chat", "other"} : mem' = Collected(a)
         /\ why' \in {"yield", "approval"}
  <1>1. PICK a \in {"ask", "chat", "other"} : mem' = Collected(a)
    BY DEF ExecuteYields
  <1>2. mem' \in Memory /\ mem'.plan = mem.plan
    BY <1>1, MemoryWrites, Blank
  <1>3. /\ row.evidence \in Evidence
        /\ At("execute") /\ UNCHANGED <<row, mode, ladder, driving>>
    BY RowParts DEF ExecuteYields, Called
  <1>4. CASE chain' = PauseWith(row.evidence) /\ why' = "yield"
    <2>1. Decides("execute", "paused", row.evidence)
      BY <1>2, <1>3, <1>4, Pausing DEF Decides, Why
    <2> QED BY <1>1, <1>4, <2>1 DEF Suspended
  <1>5. CASE /\ chain' = << T("escalate", "approval_required", row.evidence),
                            T("waiting_approval", "approval_required", row.evidence) >>
             /\ why' = "approval"
    <2>1. "approval_required" \in Condition
      BY DEF Condition
    <2>2. Decides("execute", "waiting_approval", row.evidence)
      BY <1>2, <1>3, <1>5, <2>1, Escalating DEF Decides, Why
    <2> QED BY <1>1, <1>5, <2>2 DEF Suspended
  <1> QED BY <1>4, <1>5 DEF ExecuteYields

LEMMA ExecuteFailsDecides ==
  ASSUME TypeInv, ExecuteFails
  PROVE  /\ \E place \in {"plan", "blocked"} :
              Decides("execute", place, row.evidence)
         /\ \E a \in {"chat", "other"} : mem' = Collected(a)
  <1>0. PICK a \in {"chat", "other"} : mem' = Collected(a)
    BY DEF ExecuteFails
  <1>1. mem' = Collected(a) /\ mem' \in Memory /\ mem'.plan = mem.plan
    BY <1>0, MemoryWrites, Blank
  <1>2. /\ row.evidence \in Evidence /\ why \in Why /\ why' = why
        /\ At("execute") /\ UNCHANGED <<row, mode, ladder, driving>>
    BY RowParts DEF TypeInv, TypeOK, ExecuteFails, Called
  <1>3. /\ "capability_failed" \in Condition /\ "new_route_available" \in Condition
        /\ "no_route_available" \in Condition /\ "blocked" \in Final
    BY DEF Condition, Final
  <1>4. CASE AttemptsLeft
    <2>1. chain' = << T("reflect", "capability_failed", row.evidence),
                      T("plan", "new_route_available", row.evidence) >>
      BY <1>4 DEF ExecuteFails, ReflectThen
    <2>2. Decides("execute", "plan", row.evidence)
      BY <1>1, <1>2, <1>3, <2>1, Reflecting DEF Decides, Suspended
    <2> QED BY <1>1, <2>2
  <1>5. CASE ~AttemptsLeft
    <2>1. chain' = << T("reflect", "capability_failed", row.evidence),
                      T("blocked", "no_route_available", row.evidence) >>
      BY <1>5 DEF ExecuteFails, ReflectThen
    <2>2. Decides("execute", "blocked", row.evidence)
      BY <1>1, <1>2, <1>3, <2>1, Reflecting DEF Decides, Suspended
    <2> QED BY <1>1, <2>2
  <1> QED BY <1>4, <1>5

\* The evidence of EXECUTE -> EVALUATE is the row's with the new result.
LEMMA ExecuteSucceedsDecides ==
  ASSUME TypeInv, ExecuteSucceeds
  PROVE  \E a \in {"chat", "other"}, e \in Evidence :
            /\ Decides("execute", "evaluate", e)
            /\ mem' = Collected(a)
            /\ e.executor = Collected(a).result
            /\ e.gate = row.evidence.gate /\ e.grant = row.evidence.grant
  <1>1. PICK a \in {"chat", "other"} :
           /\ mem' = Collected(a)
           /\ chain' = << T("evaluate", "side_effect_recorded", ExecutedEvidence(a)) >>
    BY DEF ExecuteSucceeds
  <1> DEFINE r == Collected(a).result
             e == [row.evidence EXCEPT !.executor = r]
  <1>2. mem' \in Memory /\ mem'.plan = mem.plan /\ r \in Result
    BY <1>1, MemoryWrites, Blank DEF Memory
  <1>3. /\ row.evidence \in Evidence /\ why \in Why /\ why' = why
        /\ At("execute") /\ UNCHANGED <<row, mode, ladder, driving>>
    BY RowParts DEF TypeInv, TypeOK, ExecuteSucceeds, Called
  <1>4. /\ e \in Evidence /\ e.executor = r
        /\ e.gate = row.evidence.gate /\ e.grant = row.evidence.grant
    BY <1>2, <1>3 DEF Evidence
  <1>5. /\ chain' = << T("evaluate", "side_effect_recorded", e) >>
        /\ "evaluate" \in LoopNode /\ "side_effect_recorded" \in Condition
    BY <1>1 DEF ExecutedEvidence, LoopNode, Condition
  <1> HIDE DEF e
  <1>6. Decides("execute", "evaluate", e)
    BY <1>2, <1>3, <1>4, <1>5, Moving DEF Decides, Suspended
  <1> QED BY <1>1, <1>4, <1>6

--------------------------------------------------------------------------------
\* Evaluations.

LEMMA JudgedType ==
  ASSUME TypeInv
  PROVE  /\ Judged \in Evidence
         /\ Judged.executor = row.evidence.executor
         /\ Judged.grant = row.evidence.grant
         /\ row.evidence.gate = mem.gate => Judged.gate = Recovered("checker")
  BY RowParts, GateWrites DEF Judged

LEMMA LockConflictDecides ==
  ASSUME TypeInv, LockConflict
  PROVE  /\ Decides("evaluate", "paused", row.evidence)
         /\ mem' = mem /\ ladder = "command" /\ why' = "lock"
  <1>1. /\ row.evidence \in Evidence /\ mem \in Memory /\ mem' = mem
        /\ At("evaluate") /\ UNCHANGED <<row, mode, ladder, driving>>
        /\ chain' = PauseWith(row.evidence) /\ why' = "lock"
        /\ ladder = "command"
    BY RowParts DEF TypeInv, TypeOK, LockConflict
  <1> QED BY <1>1, Pausing DEF Decides, Why

LEMMA CheckerTransportFailureDecides ==
  ASSUME TypeInv, CheckerTransportFailure
  PROVE  /\ ladder = "checker" /\ mem.result # NoResult
         /\ \/ \E f \in Evidence :
                 /\ Decides("evaluate", "paused", f)
                 /\ f.gate = mem'.gate /\ f.gate.role = "checker"
                 /\ f.executor = mem.result /\ f.grant = row.evidence.grant
                 /\ why' = "transport"
                 /\ mem' = [mem EXCEPT !.gate = f.gate]
            \/ Decides("evaluate", "failed", row.evidence) /\ mem' = mem
  <1> DEFINE e == [row.evidence EXCEPT !.executor = mem.result]
  <1>1. /\ row.evidence \in Evidence /\ mem \in Memory /\ why \in Why
        /\ mem.result \in Result /\ "evaluate" \in PhaseNode
    BY RowParts DEF TypeInv, TypeOK, PhaseNode
  <1>2. /\ At("evaluate") /\ UNCHANGED <<row, mode, ladder, driving>>
        /\ ladder = "checker" /\ mem.result # NoResult
    BY DEF CheckerTransportFailure
  <1>3. e \in Evidence /\ e.executor = mem.result /\ e.grant = row.evidence.grant
    BY <1>1 DEF Evidence
  <1>4. \/ TransportPause("checker", e)
        \/ /\ chain' = << T("reflect", "checker_failed", row.evidence),
                          T("failed", "checker_rejected", row.evidence) >>
           /\ UNCHANGED <<mem, why>>
    BY DEF CheckerTransportFailure
  <1> HIDE DEF e
  <1>5. CASE TransportPause("checker", e)
    BY <1>1, <1>2, <1>3, <1>5, TransportPauseDecides
  <1>6. CASE /\ chain' = << T("reflect", "checker_failed", row.evidence),
                            T("failed", "checker_rejected", row.evidence) >>
             /\ UNCHANGED <<mem, why>>
    <2>1. /\ "checker_failed" \in Condition /\ "checker_rejected" \in Condition
          /\ "failed" \in Final
      BY DEF Condition, Final
    <2>2. Decides("evaluate", "failed", row.evidence)
      BY <1>1, <1>2, <1>6, <2>1, Reflecting DEF Decides, Suspended
    <2> QED BY <1>2, <1>6, <2>2
  <1> QED BY <1>4, <1>5, <1>6

LEMMA AcceptedWithoutSurfaceDecides ==
  ASSUME TypeInv, AcceptedWithoutSurface
  PROVE  /\ Decides("evaluate", "plan", Judged)
         /\ mem' = Released /\ Released.responded = 0
  <1>1. mem' = Released /\ mem' \in Memory /\ mem'.plan = mem.plan
    BY MemoryWrites, Blank DEF AcceptedWithoutSurface
  <1>2. /\ Judged \in Evidence /\ why \in Why /\ why' = why
        /\ At("evaluate") /\ UNCHANGED <<row, mode, ladder, driving>>
        /\ chain' = << T("plan", "continue_iteration", Judged) >>
        /\ Released.responded = 0
    BY JudgedType DEF TypeInv, TypeOK, AcceptedWithoutSurface
  <1>3. "continue_iteration" \in Condition /\ "plan" \in LoopNode
    BY DEF Condition, LoopNode
  <1>4. Decides("evaluate", "plan", Judged)
    BY <1>1, <1>2, <1>3, Moving DEF Decides, Suspended
  <1> QED BY <1>1, <1>2, <1>4

LEMMA AcceptedDecides ==
  ASSUME TypeInv, Accepted
  PROVE  /\ \E place \in {"converged", "conflicted", "paused", "waiting_approval"} :
              /\ Decides("evaluate", place, Judged)
              /\ place = "paused" => why' = "lock"
         /\ mem' = Released
  <1>1. mem' = Released /\ mem' \in Memory /\ mem'.plan = mem.plan
    BY MemoryWrites, Blank DEF Accepted
  <1>2. /\ Judged \in Evidence /\ why \in Why /\ At("evaluate")
        /\ UNCHANGED <<row, mode, ladder, driving>>
    BY JudgedType DEF TypeInv, TypeOK, Accepted
  <1>3. /\ "checker_passed" \in Condition /\ "merge_conflict" \in Condition
        /\ "side_effect_commit_required" \in Condition
        /\ "approval_required" \in Condition
        /\ "converged" \in Final /\ "conflicted" \in Final
    BY DEF Condition, Final
  <1>4. CASE chain' = << T("converged", "checker_passed", Judged) >> /\ why' = why
    <2>1. Decides("evaluate", "converged", Judged)
      BY <1>1, <1>2, <1>3, <1>4, Moving DEF Decides, Suspended
    <2> QED BY <1>1, <2>1
  <1>5. CASE chain' = << T("conflicted", "merge_conflict", Judged) >> /\ why' = why
    <2>1. Decides("evaluate", "conflicted", Judged)
      BY <1>1, <1>2, <1>3, <1>5, Moving DEF Decides, Suspended
    <2> QED BY <1>1, <2>1
  <1>6. CASE chain' = PauseWith(Judged) /\ why' = "lock"
    <2>1. Decides("evaluate", "paused", Judged)
      BY <1>1, <1>2, <1>6, Pausing DEF Decides, Why
    <2> QED BY <1>1, <1>6, <2>1
  <1>7. CASE /\ chain' = << T("escalate", "side_effect_commit_required", Judged),
                            T("waiting_approval", "approval_required", Judged) >>
             /\ why' = "approval"
    <2>1. Decides("evaluate", "waiting_approval", Judged)
      BY <1>1, <1>2, <1>3, <1>7, Escalating DEF Decides, Why
    <2> QED BY <1>1, <2>1
  <1> QED BY <1>4, <1>5, <1>6, <1>7 DEF Accepted

LEMMA TimedOutDecides ==
  ASSUME TypeInv, TimedOut
  PROVE  /\ Decides("evaluate", "timed_out", Judged)
         /\ mem' = [mem EXCEPT !.gate = Recovered("checker")]
  <1>1. Recovered("checker") \in Gate
    BY RowParts, GateWrites
  <1>2. /\ mem' = [mem EXCEPT !.gate = Recovered("checker")]
        /\ mem' \in Memory /\ mem'.plan = mem.plan
    BY <1>1, MemoryWrites DEF TimedOut
  <1>3. /\ Judged \in Evidence /\ why \in Why /\ why' = why /\ At("evaluate")
        /\ UNCHANGED <<row, mode, ladder, driving>>
        /\ chain' = << T("timed_out", "hard_timeout", Judged) >>
    BY JudgedType DEF TypeInv, TypeOK, TimedOut
  <1>4. "hard_timeout" \in Condition /\ "timed_out" \in Final
    BY DEF Condition, Final
  <1>5. Decides("evaluate", "timed_out", Judged)
    BY <1>2, <1>3, <1>4, Moving DEF Decides, Suspended
  <1> QED BY <1>2, <1>5

LEMMA RejectedDecides ==
  ASSUME TypeInv, Rejected
  PROVE  /\ \E place \in {"plan", "failed", "blocked"} :
              Decides("evaluate", place, Judged)
         /\ mem' = [mem EXCEPT !.gate = Recovered("checker")]
  <1>1. Recovered("checker") \in Gate
    BY RowParts, GateWrites
  <1>2. /\ mem' = [mem EXCEPT !.gate = Recovered("checker")]
        /\ mem' \in Memory /\ mem'.plan = mem.plan
    BY <1>1, MemoryWrites DEF Rejected
  <1>3. /\ Judged \in Evidence /\ why \in Why /\ why' = why /\ At("evaluate")
        /\ UNCHANGED <<row, mode, ladder, driving>>
    BY JudgedType DEF TypeInv, TypeOK, Rejected
  <1>4. /\ "checker_failed" \in Condition /\ "checker_rejected" \in Condition
        /\ "new_route_available" \in Condition /\ "no_route_available" \in Condition
        /\ "failed" \in Final /\ "blocked" \in Final
    BY DEF Condition, Final
  <1>5. \E to \in {"plan", "failed", "blocked"}, d \in Condition :
          chain' = << T("reflect", "checker_failed", Judged), T(to, d, Judged) >>
    <2>1. CASE AttemptsLeft
      <3>1. chain' = << T("reflect", "checker_failed", Judged),
                        T("plan", "new_route_available", Judged) >>
        BY <2>1 DEF Rejected, ReflectThen
      <3> QED BY <3>1, <1>4
    <2>2. CASE ~AttemptsLeft /\ CanAccept
      <3>1. chain' = << T("reflect", "checker_failed", Judged),
                        T("failed", "checker_rejected", Judged) >>
        BY <2>2 DEF Rejected, ReflectThen
      <3> QED BY <3>1, <1>4
    <2>3. CASE ~AttemptsLeft /\ ~CanAccept
      <3>1. chain' = << T("reflect", "checker_failed", Judged),
                        T("blocked", "no_route_available", Judged) >>
        BY <2>3 DEF Rejected, ReflectThen
      <3> QED BY <3>1, <1>4
    <2> QED BY <2>1, <2>2, <2>3
  <1>6. PICK to \in {"plan", "failed", "blocked"}, d \in Condition :
          chain' = << T("reflect", "checker_failed", Judged), T(to, d, Judged) >>
    BY <1>5
  <1>7. Decides("evaluate", to, Judged)
    BY <1>2, <1>3, <1>4, <1>6, Reflecting DEF Decides, Suspended
  <1> QED BY <1>2, <1>7

\* The one decision that leads to EXECUTE.
LEMMA PlanReadyEffect ==
  ASSUME TypeInv, PlanReady
  PROVE  /\ At("plan") /\ UNCHANGED <<row, ckpt, mode, ladder, driving, why, last, spent>>
         /\ plans' = plans + 1
         /\ chain' \in Seq(Step) /\ chain' # <<>> /\ Onward'
         /\ \A i \in 1..Len(chain') : chain'[i].to = "execute"
         /\ Place' = "execute" /\ Ahead'.grant = row.evidence.grant
         /\ Ahead'.executor = row.evidence.executor
         /\ row.evidence.gate = mem.gate => Ahead'.gate = mem'.gate
         /\ mem' \in Memory /\ mem'.plan = plans + 1
         /\ mem'.gate = Recovered("planner")
         /\ mem'.responded = mem.responded
  <1> DEFINE e == [row.evidence EXCEPT !.planned = plans + 1]
             f == Clearance("planner", e)
  <1>1. /\ row.evidence \in Evidence /\ mem \in Memory /\ plans \in Nat
        /\ plans + 1 \in Nat
    BY RowParts DEF TypeInv, TypeOK
  <1>2. /\ e \in Evidence /\ e.executor = row.evidence.executor
        /\ e.gate = row.evidence.gate /\ e.grant = row.evidence.grant
    BY <1>1 DEF Evidence
  <1>3. /\ chain' = << T("execute", "plan_ready", f) >>
        /\ mem' = [mem EXCEPT !.plan = plans + 1, !.gate = Recovered("planner")]
        /\ At("plan") /\ plans' = plans + 1
        /\ UNCHANGED <<row, ckpt, mode, ladder, driving, why, last, spent>>
    BY DEF PlanReady
  <1> HIDE DEF e
  <1>4. /\ f \in Evidence /\ f.executor = e.executor /\ f.grant = e.grant
        /\ e.gate = mem.gate => f.gate = Recovered("planner")
        /\ Recovered("planner") \in Gate
    BY <1>2, GateWrites
  <1> HIDE DEF f
  <1>5. /\ mem' \in Memory /\ mem'.plan = plans + 1
        /\ mem'.gate = Recovered("planner") /\ mem'.responded = mem.responded
    BY <1>1, <1>3, <1>4 DEF Memory
  <1>6. "execute" \in LoopNode /\ "plan_ready" \in Condition
    BY DEF LoopNode, Condition
  <1>7. /\ chain' \in Seq(Step) /\ chain' # <<>> /\ Onward'
        /\ \A i \in 1..Len(chain') : chain'[i].to = "execute"
        /\ Place' = "execute" /\ Ahead' = f
    BY <1>3, <1>4, <1>6, Moving
  <1> QED BY <1>2, <1>3, <1>4, <1>5, <1>7

--------------------------------------------------------------------------------
\* A transition that is written leaves what is ahead as it was.

LEMMA TransitionEffect ==
  ASSUME TypeInv, Transition
  PROVE  /\ Place' = Place /\ Ahead' = Ahead
         /\ row' \in Row /\ chain' \in Seq(Step) /\ Onward'
         /\ chain' # <<>> => row'.terminal = Active
         /\ \A i \in 1..Len(chain') : chain'[i] = chain[i + 1] /\ i + 1 \in 1..Len(chain)
         /\ \E t \in Step :
              /\ t = chain[1] /\ 1 \in 1..Len(chain)
              /\ TransitionAllowed(row.node, t.to, t.condition)
              /\ row'.node = IF t.to \in LoopNode THEN t.to ELSE row.node
              /\ row'.terminal = IF t.to \in LoopNode THEN Active ELSE t.to
              /\ row'.attempt = NextAttempt(t.to)
  <1> DEFINE t == chain[1]
             newNode == IF t.to \in LoopNode THEN t.to ELSE row.node
             newTerminal == IF t.to \in LoopNode THEN Active ELSE t.to
  <1>1. chain \in Seq(Step) /\ chain # <<>> /\ chain' = Tail(chain)
    BY DEF TypeInv, Transition
  <1>2. /\ t = Head(chain) /\ t \in Step /\ 1 \in 1..Len(chain)
        /\ Len(chain) \in Nat /\ Len(chain') = Len(chain) - 1
        /\ chain' \in Seq(Step)
        /\ \A i \in 1..Len(chain') : chain'[i] = chain[i + 1] /\ i + 1 \in 1..Len(chain)
    BY <1>1
  <1>3. /\ TransitionAllowed(row.node, t.to, t.condition)
        /\ row' = [node |-> newNode, terminal |-> newTerminal,
                   attempt |-> NextAttempt(t.to), evidence |-> t.evidence]
    BY <1>2 DEF Transition
  <1>4. /\ newNode \in LoopNode /\ newTerminal \in TerminalState
        /\ t.evidence \in Evidence /\ NextAttempt(t.to) \in Nat
    BY <1>2, RowParts DEF Step, TerminalState, NextAttempt
  <1> HIDE DEF t, newNode, newTerminal
  <1>5. /\ row' \in Row /\ row'.node = newNode /\ row'.terminal = newTerminal
        /\ row'.attempt = NextAttempt(t.to) /\ row'.evidence = t.evidence
    BY <1>3, <1>4 DEF Row
  <1>6. Place' = Place /\ Ahead' = Ahead
    <2>1. CASE Len(chain) = 1
      <3>1. chain' = <<>> /\ chain[Len(chain)] = t
        BY <1>1, <1>2, <2>1 DEF t
      <3>2. t.to \notin LoopNode => t.to # Active
        BY <1>2 DEF Step, Suspended, Final, Active
      <3> QED BY <1>1, <1>5, <3>1, <3>2 DEF Place, Ahead, newNode, newTerminal
    <2>2. CASE Len(chain) # 1
      <3>a. Len(chain') \in 1..Len(chain') /\ Len(chain') + 1 = Len(chain)
        BY <1>2, <2>2
      <3>1. chain' # <<>> /\ chain'[Len(chain')] = chain[Len(chain)]
        BY <1>2, <3>a
      <3> QED BY <1>1, <3>1 DEF Place, Ahead
    <2> QED BY <2>1, <2>2
  <1>7. Onward'
    BY <1>2 DEF TypeInv, Onward
  <1>8. chain' # <<>> => t.to \in LoopNode
    BY <1>2 DEF TypeInv, Onward, t
  <1> QED BY <1>2, <1>3, <1>5, <1>6, <1>7, <1>8 DEF t, newNode, newTerminal

--------------------------------------------------------------------------------
\* The invariant of every loop.

Bounds == [denials: Nat, crashes: Nat, resumes: Nat]

LEMMA InitGraphInv == Init => GraphInv
  <1> SUFFICES ASSUME Init PROVE GraphInv
    OBVIOUS
  <1>1. row \in Row
    BY Blank DEF Init, Row, LoopNode, TerminalState, Evidence
  <1>a. chain \in Seq(Step) /\ \A i \in 1..Len(chain) : FALSE
    BY DEF Init
  <1>b. /\ last = [attempt |-> 0, plan |-> 0]
        /\ spent = [denials |-> 0, crashes |-> 0, resumes |-> 0]
        /\ row.terminal = Active /\ row.attempt = 1 /\ mem = NoMemory
        /\ ckpt = 0 /\ plans = 0 /\ mode \in Modes /\ driving = FALSE
        /\ ladder \in {"command", "checker"} /\ why = "none"
    BY DEF Init
  <1>2. TypeOK
    BY <1>1, <1>a, <1>b, Blank DEF TypeOK, Why
  <1>3. TypeInv
    BY <1>2, <1>a, <1>b, EmptyOnward DEF Init, TypeInv
  <1>4. ResultInv
    BY <1>b DEF ResultInv
  <1>5. CallInv
    <2>1. last.plan = 0 /\ last.attempt = 0 /\ row.terminal \notin Suspended
      BY <1>b DEF Active, Suspended
    <2> QED BY <1>a, <1>b, <2>1 DEF CallInv
  <1> QED BY <1>3, <1>4, <1>5 DEF GraphInv

\* A decision that does not lead to EXECUTE or EVALUATE.
LEMMA DecisionKeepsGraph ==
  ASSUME GraphInv, NEW node, NEW place, NEW e, Decides(node, place, e),
         place # "evaluate", UNCHANGED <<ckpt, plans, last>>, spent' \in Bounds
  PROVE  GraphInv'
  <1>1. TypeInv'
    BY DEF GraphInv, TypeInv, TypeOK, Decides, At, Bounds
  <1>2. ResultInv'
    BY DEF Decides, ResultInv
  <1>3. CallInv'
    <2>1. CallInv /\ driving' = driving
      BY DEF GraphInv, Decides
    <2> QED BY <2>1 DEF CallInv, SameAttempt, Decides
  <1> QED BY <1>1, <1>2, <1>3 DEF GraphInv

\* A capability call, which records the attempt and the plan.
LEMMA CallKeepsGraph ==
  ASSUME GraphInv, NEW place, NEW e, Decides("execute", place, e),
         place = "evaluate" => mem'.result = e.executor,
         UNCHANGED <<plans, spent>>, ckpt' = mem.plan,
         last' = [attempt |-> row.attempt, plan |-> mem.plan]
  PROVE  GraphInv'
  <1>1. /\ mem.plan \in Nat /\ row.attempt \in Nat /\ row.node = "execute"
        /\ last'.attempt = row.attempt /\ last'.plan = mem.plan
        /\ last' \in [attempt: Nat, plan: Nat]
    BY RowParts DEF GraphInv, Decides, At
  <1>2. TypeInv'
    BY <1>1 DEF GraphInv, TypeInv, TypeOK, Decides, At
  <1>3. ResultInv'
    BY DEF Decides, ResultInv
  <1>4. CallInv'
    BY <1>1 DEF GraphInv, CallInv, SameAttempt, Decides
  <1> QED BY <1>2, <1>3, <1>4 DEF GraphInv

\* A driver that ends leaves only what is durable.
LEMMA EndKeepsGraph ==
  ASSUME GraphInv, driving' = FALSE, chain' = <<>>, mem' = NoMemory,
         row' \in Row, row'.node = row.node, row'.attempt = row.attempt,
         row'.terminal = row.terminal \/ row'.terminal \in Final,
         UNCHANGED <<mode, ladder, why, plans>>, spent' \in Bounds,
         \/ UNCHANGED <<ckpt, last>>
         \/ /\ At("execute") /\ ckpt' = mem.plan
            /\ last' = [attempt |-> row.attempt, plan |-> mem.plan]
  PROVE  GraphInv'
  <1>1. mem.plan \in Nat /\ row.attempt \in Nat
    BY RowParts DEF GraphInv
  <1>a. ckpt' \in Nat /\ last' \in [attempt: Nat, plan: Nat]
    BY <1>1 DEF GraphInv, TypeInv, TypeOK
  <1>b. chain' \in Seq(Step) /\ \A i \in 1..Len(chain') : FALSE
    OBVIOUS
  <1>c. Onward'
    BY DEF Onward
  <1>2. TypeInv'
    BY <1>a, <1>b, <1>c, Blank DEF GraphInv, TypeInv, TypeOK, Bounds
  <1>3. ResultInv'
    BY DEF ResultInv
  <1>4. CallInv'
    BY <1>1 DEF GraphInv, CallInv, SameAttempt, At, Suspended, Final
  <1> QED BY <1>2, <1>3, <1>4 DEF GraphInv

LEMMA FailedRow ==
  ASSUME TypeInv, Failed
  PROVE  /\ driving' = FALSE /\ chain' = <<>> /\ mem' = NoMemory
         /\ row' \in Row /\ row'.node = row.node /\ row'.attempt = row.attempt
         /\ row'.terminal = "failed" /\ row'.evidence = row.evidence
         /\ "failed" \in Final
  BY DEF TypeInv, TypeOK, Failed, Row, TerminalState, Final

LEMMA TransitionKeepsGraph ==
  ASSUME GraphInv, Transition PROVE GraphInv'
  <1> USE DEF GraphInv
  <1>1. /\ row' \in Row /\ chain' \in Seq(Step) /\ Onward'
        /\ chain' # <<>> => row'.terminal = Active
        /\ driving /\ driving' = driving
        /\ UNCHANGED <<ckpt, mode, ladder, mem, why, plans, last, spent>>
        /\ Place' = Place /\ Ahead' = Ahead
        /\ \A i \in 1..Len(chain') : chain'[i] = chain[i + 1] /\ i + 1 \in 1..Len(chain)
    BY TransitionEffect DEF Transition
  <1>2. TypeInv'
    BY <1>1 DEF TypeInv, TypeOK
  <1>3. ResultInv'
    BY <1>1 DEF ResultInv
  <1>4. CallInv'
    <2>1. PICK t \in Step :
            /\ t = chain[1] /\ 1 \in 1..Len(chain)
            /\ TransitionAllowed(row.node, t.to, t.condition)
            /\ row'.node = IF t.to \in LoopNode THEN t.to ELSE row.node
            /\ row'.terminal = IF t.to \in LoopNode THEN Active ELSE t.to
            /\ row'.attempt = NextAttempt(t.to)
      BY TransitionEffect
    <2>2. /\ t.to = "plan" => row.node \in {"reflect", "evaluate"}
          /\ t.to = "execute" => row.node = "plan"
      BY <2>1 DEF TransitionAllowed, DefaultStateGraph, BaseEdges, ControlEdges,
                  LoopNode
    <2>3. row.attempt \in Nat /\ last.attempt \in Nat
      BY RowParts
    <2>4. SUFFICES ASSUME why = "none"
                   PROVE  /\ row'.terminal \notin Suspended
                          /\ \A i \in 1..Len(chain') : chain'[i].to \notin Suspended
                          /\ last.attempt <= row'.attempt
                          /\ last.attempt = row'.attempt => SameAttempt'
      BY <1>1 DEF CallInv
    <2>5. /\ row.terminal \notin Suspended
          /\ \A i \in 1..Len(chain) : chain[i].to \notin Suspended
          /\ last.attempt <= row.attempt
          /\ last.attempt = row.attempt => SameAttempt
      BY <2>4 DEF CallInv
    <2>6. row'.terminal \notin Suspended
      BY <2>1, <2>5 DEF Suspended, Active
    <2>7. \A i \in 1..Len(chain') : chain'[i].to \notin Suspended
      BY <1>1, <2>5
    <2>8. last.attempt <= row'.attempt
      BY <2>1, <2>3, <2>5 DEF NextAttempt
    <2>9. ASSUME last.attempt = row'.attempt PROVE SameAttempt'
      <3>1. last.attempt = row.attempt /\ t.to # "plan" /\ SameAttempt
        BY <2>1, <2>2, <2>3, <2>5, <2>9 DEF NextAttempt
      <3>2. t.to # "execute"
        BY <2>1, <3>1 DEF SameAttempt
      <3>3. row'.node # "plan" /\ (row'.node = "execute" => row.node = "execute")
        BY <2>1, <3>1, <3>2 DEF SameAttempt
      <3> QED BY <1>1, <3>1, <3>3 DEF SameAttempt
    <2> QED BY <2>6, <2>7, <2>8, <2>9
  <1> QED BY <1>2, <1>3, <1>4

LEMMA PlanReadyKeepsGraph ==
  ASSUME GraphInv, PlanReady PROVE GraphInv'
  <1>1. TypeInv /\ CallInv /\ plans \in Nat /\ driving
    BY DEF GraphInv, TypeInv, TypeOK, PlanReady, At
  <1>2. /\ At("plan") /\ UNCHANGED <<row, ckpt, mode, ladder, driving, why, last, spent>>
        /\ plans' = plans + 1
        /\ chain' \in Seq(Step) /\ chain' # <<>> /\ Onward'
        /\ \A i \in 1..Len(chain') : chain'[i].to = "execute"
        /\ Place' = "execute" /\ mem' \in Memory
    BY <1>1, PlanReadyEffect
  <1>3. TypeInv'
    BY <1>1, <1>2 DEF TypeInv, TypeOK, At
  <1>4. ResultInv'
    BY <1>2 DEF ResultInv
  <1>5. row.node = "plan"
    BY <1>2 DEF At
  <1>6. CallInv'
    BY <1>1, <1>2, <1>5 DEF CallInv, SameAttempt, Suspended
  <1> QED BY <1>3, <1>4, <1>6 DEF GraphInv

\* What a driver starts from is well typed.
LEMMA StartType ==
  ASSUME TypeInv, NEW node
  PROVE  /\ Fresh(node) \in Memory /\ Fresh(node).result = NoResult
         /\ Fresh(node).candidate = 0 /\ Fresh(node).responded = 0
         /\ Fresh(node).gate = NoGate
         /\ Fresh(node).plan = IF node = "execute" THEN ckpt ELSE 0
         /\ Restored(node) \in Memory
         /\ Restored(node).result = row.evidence.executor
         /\ Restored(node).candidate \in {0, row.evidence.executor.plan}
         /\ Restored(node).responded = 0
         /\ Restored(node).gate = row.evidence.gate
  <1>1. /\ ckpt \in Nat /\ row.evidence.planned \in Nat
        /\ row.evidence.executor \in Result /\ row.evidence.gate \in Gate
    BY RowParts DEF TypeInv, TypeOK
  <1> DEFINE p == IF node = "execute" THEN ckpt ELSE 0
             q == IF node = "execute" /\ ckpt = 0 THEN row.evidence.planned ELSE p
             r == row.evidence.executor
             c == IF r.chat THEN r.plan ELSE 0
  <1>2. p \in Nat /\ q \in Nat /\ c \in Nat /\ c \in {0, r.plan}
    BY <1>1 DEF Result
  <1>3. Fresh(node) = [plan |-> p, result |-> NoResult, candidate |-> 0,
                       responded |-> 0, gate |-> NoGate, runs |-> 0]
    BY DEF Fresh, NoMemory
  <1>4. /\ Fresh(node) \in Memory /\ Fresh(node).result = NoResult
        /\ Fresh(node).candidate = 0 /\ Fresh(node).responded = 0
        /\ Fresh(node).gate = NoGate /\ Fresh(node).plan = p
    <2> HIDE DEF p
    <2> QED BY <1>2, <1>3, Blank DEF Memory
  <1>5. Restored(node) = [Fresh(node) EXCEPT !.plan = q, !.result = r,
                            !.candidate = c, !.gate = row.evidence.gate]
    <2>1. Restored(node) =
            [Fresh(node) EXCEPT
               !.plan = IF node = "execute" /\ ckpt = 0
                        THEN row.evidence.planned ELSE Fresh(node).plan,
               !.result = r, !.candidate = c, !.gate = row.evidence.gate]
      BY DEF Restored
    <2> HIDE DEF c, r
    <2> QED BY <1>4, <2>1
  <1>6. r \in Result
    BY <1>1
  <1> HIDE DEF p, q, r, c
  <1>7. Restored(node) = [plan |-> q, result |-> r, candidate |-> c,
                          responded |-> Fresh(node).responded,
                          gate |-> row.evidence.gate, runs |-> Fresh(node).runs]
    BY <1>4, <1>5 DEF Memory
  <1>8. /\ Restored(node) \in Memory /\ Restored(node).result = r
        /\ Restored(node).candidate = c
        /\ Restored(node).responded = Fresh(node).responded
        /\ Restored(node).gate = row.evidence.gate
    BY <1>1, <1>2, <1>4, <1>6, <1>7 DEF Memory
  <1> QED BY <1>2, <1>4, <1>8 DEF p, r

\* Drivers that begin, and a parked loop that is reopened at a node.
LEMMA ReopenedRow ==
  ASSUME TypeInv, NEW node \in PhaseNode,
         row' = [row EXCEPT !.node = node, !.terminal = Active]
  PROVE  /\ row' \in Row /\ row'.node = node /\ row'.terminal = Active
         /\ row'.evidence = row.evidence /\ row'.attempt = row.attempt
  BY DEF TypeInv, TypeOK, Row, PhaseNode, LoopNode, TerminalState

\* A pause that is due for a retry has a node to go on at.
LEMMA RetryNodeType ==
  ASSUME TypeInv, Retryable PROVE RetryNode \in PhaseNode
  <1>1. /\ row.evidence.gate \in Gate
        /\ row.evidence.grant \in PhaseNode \cup {"none"}
    BY RowParts
  <1>2. row.evidence.gate # NoGate \/ row.evidence.grant # "none"
    BY DEF Retryable
  <1>3. row.evidence.gate = NoGate \/ row.evidence.gate.role \in {"planner", "checker"}
    BY <1>1 DEF Gate
  <1>4. row.evidence.gate = NoGate => row.evidence.gate.role = "none"
    BY DEF NoGate
  <1>5. CASE row.evidence.gate.role = "planner"
    BY <1>5 DEF RetryNode, PhaseNode
  <1>6. CASE row.evidence.gate.role = "checker"
    BY <1>6 DEF RetryNode, PhaseNode
  <1>7. CASE row.evidence.gate.role = "none"
    <2>1. RetryNode = row.evidence.grant /\ row.evidence.gate = NoGate
      BY <1>3, <1>7 DEF RetryNode
    <2> QED BY <1>1, <1>2, <2>1
  <1> QED BY <1>3, <1>4, <1>5, <1>6, <1>7

LEMMA StartKeepsGraph ==
  ASSUME GraphInv, ~driving, driving' = TRUE, chain' = chain, mem' \in Memory,
         UNCHANGED <<ckpt, mode, ladder, why, plans, last>>, spent' \in Bounds,
         row' \in Row, row'.evidence = row.evidence,
         \/ mem'.result = NoResult \/ mem'.result = row.evidence.executor,
         \/ row.terminal \in Suspended
         \/ row' = row /\ (row.node = "execute" => mem'.plan = ckpt)
  PROVE  GraphInv'
  <1>1. chain' = <<>> /\ chain' \in Seq(Step) /\ \A i \in 1..Len(chain') : FALSE
    BY DEF GraphInv, TypeInv
  <1>a. Onward'
    BY <1>1 DEF Onward
  <1>2. TypeInv'
    BY <1>1, <1>a DEF GraphInv, TypeInv, TypeOK, Bounds
  <1>3. ResultInv'
    BY <1>1 DEF ResultInv, Ahead
  <1>4. CallInv'
    BY <1>1 DEF GraphInv, CallInv, SameAttempt
  <1> QED BY <1>2, <1>3, <1>4 DEF GraphInv

LEMMA ApprovalEndsKeepsGraph ==
  ASSUME GraphInv, ApprovalEnds PROVE GraphInv'
  <1>1. PICK stop \in {"paused", "cancelled"} : row' = [row EXCEPT !.terminal = stop]
    BY DEF ApprovalEnds
  <1>2. row' \in Row /\ row'.evidence = row.evidence
    BY <1>1 DEF GraphInv, TypeInv, TypeOK, Row, TerminalState, Suspended, Final
  <1>3. /\ UNCHANGED <<ckpt, mode, ladder, driving, mem, chain, why, plans, last, spent>>
        /\ ~driving /\ row.terminal \in Suspended
    BY DEF ApprovalEnds, Suspended
  <1>4. TypeInv'
    BY <1>2, <1>3 DEF GraphInv, TypeInv, TypeOK, Onward
  <1>5. ResultInv'
    BY <1>3 DEF ResultInv
  <1>6. CallInv'
    BY <1>3 DEF GraphInv, CallInv
  <1> QED BY <1>4, <1>5, <1>6 DEF GraphInv

LEMMA TypedBounds ==
  ASSUME TypeInv
  PROVE  /\ spent \in Bounds
         /\ [spent EXCEPT !.denials = @ + 1] \in Bounds
         /\ [spent EXCEPT !.crashes = @ + 1] \in Bounds
         /\ [spent EXCEPT !.resumes = @ + 1] \in Bounds
  BY DEF TypeInv, TypeOK, Bounds

\* The phases a driver runs through.
LEMMA PhaseKeepsGraph ==
  ASSUME GraphInv, Planning \/ Executing \/ Evaluating PROVE GraphInv'
  <1> USE DEF GraphInv
  <1>0. /\ spent \in Bounds /\ [spent EXCEPT !.denials = @ + 1] \in Bounds
        /\ "plan" \in PhaseNode /\ "execute" \in PhaseNode /\ "evaluate" \in PhaseNode
    BY TypedBounds DEF PhaseNode
  <1>1. ASSUME NEW node \in PhaseNode, Denied(node) PROVE GraphInv'
    BY <1>0, <1>1, DeniedDecides, DecisionKeepsGraph
  <1>2. CASE PlanReady
    BY <1>2, PlanReadyKeepsGraph
  <1>3. CASE PlannerTransportFailure
    BY <1>0, <1>3, PhaseFrame, PlannerTransportFailureDecides, DecisionKeepsGraph
  <1>4. CASE PlannerMalformed
    BY <1>0, <1>4, PhaseFrame, PlannerMalformedDecides, DecisionKeepsGraph
  <1>5. CASE MissingPlan
    BY <1>0, <1>5, PhaseFrame, MissingPlanDecides, DecisionKeepsGraph
  <1>6. CASE ExecuteRaises
    <2>1. /\ At("execute") /\ ckpt' = mem.plan /\ Failed
          /\ last' = [attempt |-> row.attempt, plan |-> mem.plan]
          /\ UNCHANGED <<mode, ladder, why, plans, spent>>
      BY <1>6 DEF ExecuteRaises, Called
    <2> QED BY <1>0, <2>1, FailedRow, EndKeepsGraph
  <1>7. CASE ExecuteRepeated
    BY <1>7, PhaseFrame, ExecuteRepeatedDecides, CallKeepsGraph
  <1>8. CASE ExecuteYields
    <2>1. "evaluate" \notin Suspended
      BY DEF Suspended
    <2> QED BY <2>1, <1>8, PhaseFrame, ExecuteYieldsDecides, CallKeepsGraph
  <1>9. CASE ExecuteFails
    BY <1>9, PhaseFrame, ExecuteFailsDecides, CallKeepsGraph
  <1>10. CASE ExecuteSucceeds
    BY <1>10, PhaseFrame, ExecuteSucceedsDecides, CallKeepsGraph
  <1>11. CASE LockConflict
    BY <1>0, <1>11, PhaseFrame, LockConflictDecides, DecisionKeepsGraph
  <1>12. CASE CheckerTransportFailure
    BY <1>0, <1>12, PhaseFrame, CheckerTransportFailureDecides, DecisionKeepsGraph
  <1>13. CASE AcceptedWithoutSurface
    BY <1>0, <1>13, PhaseFrame, AcceptedWithoutSurfaceDecides, DecisionKeepsGraph
  <1>14. CASE Accepted
    BY <1>0, <1>14, PhaseFrame, AcceptedDecides, DecisionKeepsGraph
  <1>15. CASE TimedOut
    BY <1>0, <1>15, PhaseFrame, TimedOutDecides, DecisionKeepsGraph
  <1>16. CASE Rejected
    BY <1>0, <1>16, PhaseFrame, RejectedDecides, DecisionKeepsGraph
  <1> QED
    BY <1>0, <1>1, <1>2, <1>3, <1>4, <1>5, <1>6, <1>7, <1>8, <1>9, <1>10, <1>11,
       <1>12, <1>13, <1>14, <1>15, <1>16 DEF Planning, Executing, Evaluating

\* A driver is stopped by an exception, returns or dies.
LEMMA EndsKeepGraph ==
  ASSUME GraphInv, Refused \/ Raises \/ Return \/ Crash PROVE GraphInv'
  <1> USE DEF GraphInv
  <1>0. /\ spent \in Bounds /\ [spent EXCEPT !.crashes = @ + 1] \in Bounds
        /\ row \in Row
    BY TypedBounds DEF TypeInv, TypeOK
  <1>1. CASE Refused \/ Raises
    BY <1>0, <1>1, FailedRow, EndKeepsGraph DEF Refused, Raises
  <1>2. CASE Return
    BY <1>0, <1>2, EndKeepsGraph DEF Return
  <1>3. CASE Crash
    BY <1>0, <1>3, EndKeepsGraph DEF Crash
  <1> QED BY <1>1, <1>2, <1>3

\* A driver takes a loop up.
LEMMA StartsKeepGraph ==
  ASSUME GraphInv, Drive \/ RetryPause \/ Resume PROVE GraphInv'
  <1> USE DEF GraphInv
  <1>0. /\ spent \in Bounds /\ [spent EXCEPT !.resumes = @ + 1] \in Bounds
        /\ row \in Row /\ "paused" \in Suspended /\ "execute" \in PhaseNode
    BY TypedBounds DEF TypeInv, TypeOK, Suspended, PhaseNode
  <1>1. CASE Drive
    <2>1. /\ ~driving /\ driving' = TRUE /\ mem' = Fresh(row.node)
          /\ UNCHANGED <<row, ckpt, mode, ladder, chain, why, plans, last, spent>>
      BY <1>1 DEF Drive
    <2>2. /\ mem' \in Memory /\ mem'.result = NoResult
          /\ row.node = "execute" => mem'.plan = ckpt
      BY <2>1, StartType
    <2> QED BY <1>0, <2>1, <2>2, StartKeepsGraph
  <1>2. CASE RetryPause
    <2>1. /\ ~driving /\ driving' = TRUE /\ mem' = Restored(RetryNode)
          /\ row' = [row EXCEPT !.node = RetryNode, !.terminal = Active]
          /\ Retryable /\ row.terminal \in Suspended
          /\ UNCHANGED <<ckpt, mode, ladder, chain, why, plans, last, spent>>
      BY <1>0, <1>2 DEF RetryPause, Retryable
    <2>2. row' \in Row /\ row'.evidence = row.evidence
      BY <2>1, RetryNodeType, ReopenedRow
    <2>3. mem' \in Memory /\ mem'.result = row.evidence.executor
      BY <2>1, StartType
    <2> QED BY <1>0, <2>1, <2>2, <2>3, StartKeepsGraph
  <1>3. CASE Resume
    <2>1. /\ ~driving /\ driving' = TRUE /\ mem' = Fresh("execute")
          /\ row' = [row EXCEPT !.node = "execute", !.terminal = Active]
          /\ row.terminal \in Suspended
          /\ spent' = [spent EXCEPT !.resumes = @ + 1]
          /\ UNCHANGED <<ckpt, mode, ladder, chain, why, plans, last>>
      BY <1>3 DEF Resume
    <2>2. row' \in Row /\ row'.evidence = row.evidence
      BY <1>0, <2>1, ReopenedRow
    <2>3. mem' \in Memory /\ mem'.result = NoResult
      BY <2>1, StartType
    <2> QED BY <1>0, <2>1, <2>2, <2>3, StartKeepsGraph
  <1> QED BY <1>1, <1>2, <1>3

LEMMA GraphInvKept == GraphInv /\ [Next]_vars => GraphInv'
  <1> SUFFICES ASSUME GraphInv, [Next]_vars PROVE GraphInv'
    OBVIOUS
  <1>1. CASE Transition
    BY <1>1, TransitionKeepsGraph
  <1>2. CASE Planning \/ Executing \/ Evaluating
    BY <1>2, PhaseKeepsGraph
  <1>3. CASE Refused \/ Raises \/ Return \/ Crash
    BY <1>3, EndsKeepGraph
  <1>4. CASE Drive \/ RetryPause \/ Resume
    BY <1>4, StartsKeepGraph
  <1>5. CASE ApprovalEnds
    BY <1>5, ApprovalEndsKeepsGraph
  <1>6. CASE UNCHANGED vars
    <2>1. UNCHANGED <<row, ckpt, mode, ladder, driving, mem, chain, why, plans, last, spent>>
      BY <1>6 DEF vars
    <2>2. TypeInv'
      BY <2>1 DEF GraphInv, TypeInv, TypeOK, Onward
    <2>3. ResultInv'
      BY <2>1 DEF GraphInv, ResultInv, Place, Ahead
    <2>4. CallInv'
      BY <2>1 DEF GraphInv, CallInv, SameAttempt
    <2> QED BY <2>2, <2>3, <2>4 DEF GraphInv
  <1> QED BY <1>1, <1>2, <1>3, <1>4, <1>5, <1>6 DEF Next, Running

THEOREM GraphInvHolds == Spec => []GraphInv
  <1>1. Init => GraphInv
    BY InitGraphInv
  <1>2. GraphInv /\ [Next]_vars => GraphInv'
    BY GraphInvKept
  <1> QED BY <1>1, <1>2, PTL DEF Spec

\* The row, the driver's memory and its decisions are always well typed: a due
\* retry has a phase to go on at (reopen_retryable_pause).
THEOREM GraphTypeCorrect == Spec => []TypeOK
  <1>1. GraphInv => TypeOK
    BY DEF GraphInv, TypeInv
  <1> QED BY <1>1, GraphInvHolds, PTL

\* Whatever crashes, refusals, pauses and resumes came before, the result a
\* checker assesses is the one in the row (the evaluate branch of
\* _run_async_impl, resume_goal_loop_run).
THEOREM AssessedResultIsPersisted == Spec => []CheckedResultIsPersisted
  <1>1. GraphInv => CheckedResultIsPersisted
    BY DEF GraphInv, ResultInv, CheckedResultIsPersisted, At, Place, Ahead
  <1> QED BY <1>1, GraphInvHolds, PTL

\* A loop that was never suspended calls one plan in one attempt, however
\* often its drivers die (LoopRunState.transition, _planned_step_from_checkpoint).
THEOREM RepeatsAreSameCall == Spec => RepeatIsSameCall
  <1>1. GraphInv /\ [Next]_vars
          => [why = "none" /\ last'.attempt = last.attempt
                => last'.plan = last.plan]_vars
    <2> SUFFICES ASSUME GraphInv, Next, why = "none",
                        last'.attempt = last.attempt
                 PROVE  last'.plan = last.plan
      OBVIOUS
    <2>1. \/ last' = last
          \/ /\ At("execute")
             /\ last' = [attempt |-> row.attempt, plan |-> mem.plan]
      BY DEF Next, Running, Transition, Refused, Raises, Planning, Executing,
             Evaluating, Return, Drive, RetryPause, Resume, ApprovalEnds, Crash,
             Denied, PlanReady, PlannerTransportFailure, PlannerMalformed,
             MissingPlan, ExecuteRaises, ExecuteRepeated, ExecuteYields,
             ExecuteFails, ExecuteSucceeds, Called, LockConflict,
             CheckerTransportFailure, AcceptedWithoutSurface, Accepted,
             TimedOut, Rejected
    <2>2. CASE At("execute") /\ last' = [attempt |-> row.attempt, plan |-> mem.plan]
      BY <2>2 DEF GraphInv, CallInv, SameAttempt, At
    <2> QED BY <2>1, <2>2
  <1> QED BY <1>1, GraphInvHolds, PTL DEF Spec, RepeatIsSameCall

--------------------------------------------------------------------------------
\* As long as no driver died and no resource was refused.

Undisturbed == spent.crashes = 0 /\ spent.denials = 0

\* A retry gate is known to the driver, and is only at the phase of its role,
\* on the way back to it, or in a pause for the provider.
GateInv ==
  Place \notin Final =>
    /\ Ahead.grant = "none"
    /\ driving => Ahead.gate = mem.gate /\ Place \in PhaseNode \cup Suspended
    /\ ~driving => \/ Place \in Suspended
                   \/ Place = "plan" /\ Ahead.gate = NoGate
    /\ Ahead.gate # NoGate =>
         \/ Place = "plan" /\ Ahead.gate.role = "planner"
         \/ Place = "evaluate" /\ Ahead.gate.role = "checker"
         \/ /\ Place = "paused" /\ why = "transport"
            /\ Ahead.gate.role \in {"planner", "checker"}
    /\ Ahead.gate.role = "checker" => ladder = "checker"

\* The checkpoint is the latest plan but on the way to EXECUTE, where the
\* driver has it; what is evaluated, or will be, came of the latest plan.
PlanInv ==
  /\ Place \notin Final \cup {"execute"} => ckpt = plans
  /\ Place = "execute" => driving /\ mem.plan = plans
  /\ Place = "evaluate" \/ (Place = "paused" /\ Ahead.gate.role = "checker")
       => Ahead.executor.plan = plans
  /\ Place = "evaluate" => mem.candidate \in {0, plans}
  /\ mem.responded # 0 => mem.responded = plans /\ Place \in Stops
  /\ Place = "converged" => Ahead.executor.plan = last.plan

CalmInv == GraphInv /\ (Undisturbed => GateInv /\ PlanInv)

\* Nodes, phases and stop states do not overlap.
LEMMA Places ==
  /\ PhaseNode \cap Stops = {} /\ LoopNode \cap Stops = {}
  /\ PhaseNode \subseteq LoopNode /\ Active \notin Stops
  /\ Suspended \cap Final = {}
  BY DEF PhaseNode, Stops, LoopNode, Suspended, Final, Active

\* At a phase nothing is decided: what is ahead is what is in the row.
LEMMA AtPhase ==
  ASSUME TypeInv, GateInv, PlanInv, NEW node \in PhaseNode, At(node)
  PROVE  /\ Place = node /\ Ahead = row.evidence /\ driving
         /\ row.evidence.grant = "none" /\ row.evidence.gate = mem.gate
         /\ mem.gate = NoGate \/ (node = "plan" /\ mem.gate.role = "planner")
              \/ (node = "evaluate" /\ mem.gate.role = "checker"
                                    /\ ladder = "checker")
         /\ node = "execute" => mem.plan = plans /\ mem.gate = NoGate
         /\ node # "execute" => ckpt = plans
         /\ node = "evaluate" => /\ row.evidence.executor.plan = plans
                                 /\ mem.candidate \in {0, plans}
                                 /\ Recovered("checker") = NoGate
         /\ node = "plan" => Recovered("planner") = NoGate
         /\ mem.responded = 0
  <1>1. Place = node /\ Ahead = row.evidence /\ driving
    BY DEF At, Place, Ahead
  <1>2. node \notin Final /\ node \notin Stops /\ node # "paused"
    BY Places DEF Stops, PhaseNode
  <1>3. /\ row.evidence.grant = "none" /\ row.evidence.gate = mem.gate
        /\ mem.gate = NoGate \/ (node = "plan" /\ mem.gate.role = "planner")
              \/ (node = "evaluate" /\ mem.gate.role = "checker"
                                    /\ ladder = "checker")
    BY <1>1, <1>2 DEF GateInv
  <1>4. /\ node = "execute" => mem.plan = plans
        /\ node # "execute" => ckpt = plans
        /\ node = "evaluate" => /\ row.evidence.executor.plan = plans
                                /\ mem.candidate \in {0, plans}
        /\ mem.responded = 0
    BY <1>1, <1>2, RowParts DEF PlanInv
  <1>5. /\ node = "evaluate" => Recovered("checker") = NoGate
        /\ node = "plan" => Recovered("planner") = NoGate
    BY <1>3 DEF Recovered
  <1> QED BY <1>1, <1>3, <1>4, <1>5

\* A decision to stop, or to plan again.
LEMMA DecisionKeepsCalm ==
  ASSUME TypeInv, GateInv, PlanInv, NEW node \in PhaseNode,
         NEW place \in {"plan"} \cup Stops, NEW e, Decides(node, place, e),
         UNCHANGED <<plans, last>>,
         place \notin Final => ckpt' = plans,
         e.grant = "none", e.gate = mem'.gate,
         place \notin Final =>
           \/ e.gate = NoGate
           \/ place = "plan" /\ e.gate.role = "planner"
           \/ /\ place = "paused" /\ why' = "transport"
              /\ e.gate.role \in {"planner", "checker"},
         place \notin Final /\ e.gate.role = "checker"
           => ladder = "checker" /\ e.executor.plan = plans,
         mem'.responded # 0 => mem'.responded = plans /\ place \in Stops,
         place = "converged" => e.executor.plan = last.plan
  PROVE  GateInv' /\ PlanInv'
  <1>1. /\ Place' = place /\ Ahead' = e /\ driving' /\ ladder' = ladder
    BY DEF Decides, At
  <1>2. place # "execute" /\ place # "evaluate"
    BY DEF Stops, Suspended, Final
  <1>3. NoGate.role = "none"
    BY DEF NoGate
  <1>4. GateInv'
    BY <1>1, <1>2, <1>3 DEF GateInv, Stops, PhaseNode
  <1>5. PlanInv'
    BY <1>1, <1>2 DEF PlanInv, Final
  <1> QED BY <1>4, <1>5

\* A driver that ends where it stopped, or fails.
LEMMA EndKeepsCalm ==
  ASSUME TypeInv, GateInv, PlanInv, chain' = <<>>, driving' = FALSE,
         mem' = NoMemory, UNCHANGED <<why, plans, ladder>>,
         \/ row'.terminal = "failed"
         \/ /\ row' = row /\ chain = <<>> /\ UNCHANGED <<ckpt, last>>
            /\ Place \in Stops
  PROVE  GateInv' /\ PlanInv'
  <1>1. mem'.responded = 0
    BY DEF NoMemory
  <1>2. CASE row'.terminal = "failed"
    <2>1. Place' = "failed"
      BY <1>2 DEF Place, Active
    <2> QED BY <1>1, <2>1 DEF GateInv, PlanInv, Final
  <1>3. CASE /\ row' = row /\ chain = <<>> /\ UNCHANGED <<ckpt, last>>
             /\ Place \in Stops
    <2>1. Place' = Place /\ Ahead' = Ahead
      BY <1>3 DEF Place, Ahead
    <2>2. Place # "execute" /\ Place # "evaluate" /\ Place # "plan"
      BY <1>3 DEF Stops, Suspended, Final
    <2>3. GateInv'
      BY <1>3, <2>1, <2>2 DEF GateInv, Stops
    <2>4. PlanInv'
      BY <1>1, <1>3, <2>1, <2>2 DEF PlanInv
    <2> QED BY <2>3, <2>4
  <1> QED BY <1>2, <1>3

\* PLAN: a plan is made, or the provider or the planner failed.
LEMMA PlanningKeepsCalm ==
  ASSUME TypeInv, GateInv, PlanInv,
         PlanReady \/ PlannerTransportFailure \/ PlannerMalformed
  PROVE  GateInv' /\ PlanInv'
  <1>0. /\ "plan" \in PhaseNode /\ At("plan") /\ "failed" \in Final
        /\ "failed" \in Stops /\ "paused" \in Stops
    BY DEF PhaseNode, PlanReady, PlannerTransportFailure, PlannerMalformed,
           Final, Stops, Suspended
  <1>1. /\ Place = "plan" /\ Ahead = row.evidence /\ driving
        /\ row.evidence.grant = "none" /\ row.evidence.gate = mem.gate
        /\ mem.gate = NoGate \/ mem.gate.role = "planner"
        /\ ckpt = plans /\ mem.responded = 0 /\ Recovered("planner") = NoGate
        /\ NoGate.role = "none"
    BY <1>0, AtPhase DEF NoGate
  <1>2. CASE PlanReady
    <2>1. /\ Place' = "execute" /\ driving' = driving /\ ladder' = ladder
          /\ plans' = plans + 1 /\ mem'.plan = plans + 1
          /\ Ahead'.grant = "none" /\ Ahead'.gate = mem'.gate
          /\ mem'.gate = NoGate /\ mem'.responded = 0
      BY <1>1, <1>2, PlanReadyEffect
    <2>2. GateInv'
      BY <1>1, <2>1 DEF GateInv, PhaseNode
    <2>3. PlanInv'
      BY <1>1, <2>1 DEF PlanInv
    <2> QED BY <2>2, <2>3
  <1>3. CASE PlannerTransportFailure
    <2>1. UNCHANGED <<row, ckpt, mode, ladder, driving, plans, last, spent>>
      BY <1>3, PhaseFrame
    <2>2. CASE \E f \in Evidence :
                 /\ Decides("plan", "paused", f)
                 /\ f.gate = mem'.gate /\ f.gate.role = "planner"
                 /\ f.executor = row.evidence.executor
                 /\ f.grant = row.evidence.grant
                 /\ why' = "transport"
                 /\ mem' = [mem EXCEPT !.gate = f.gate]
      <3>1. PICK f \in Evidence :
                 /\ Decides("plan", "paused", f)
                 /\ f.gate = mem'.gate /\ f.gate.role = "planner"
                 /\ f.grant = row.evidence.grant
                 /\ why' = "transport"
                 /\ mem' = [mem EXCEPT !.gate = f.gate]
        BY <2>2
      <3>2. mem'.responded = 0
        BY <1>1, <3>1, MemoryWrites DEF Evidence
      <3> QED BY <1>0, <1>1, <2>1, <3>1, <3>2, DecisionKeepsCalm
    <2>3. CASE Decides("plan", "failed", row.evidence) /\ mem' = mem
      BY <1>0, <1>1, <2>1, <2>3, DecisionKeepsCalm
    <2> QED BY <1>3, <2>2, <2>3, PlannerTransportFailureDecides
  <1>4. CASE PlannerMalformed
    <2>1. UNCHANGED <<row, ckpt, mode, ladder, driving, plans, last, spent>>
      BY <1>4, PhaseFrame
    <2>2. PICK place \in {"plan", "failed"} : Decides("plan", place, row.evidence)
      BY <1>4, PlannerMalformedDecides
    <2>3. mem' = mem
      BY <1>4, PlannerMalformedDecides
    <2> QED BY <1>0, <1>1, <2>1, <2>2, <2>3, DecisionKeepsCalm
  <1> QED BY <1>2, <1>3, <1>4

\* EXECUTE: the call is of the latest plan, and so is what is collected.
LEMMA ExecutingKeepsCalm ==
  ASSUME TypeInv, GateInv, PlanInv,
         MissingPlan \/ ExecuteRaises \/ ExecuteRepeated \/ ExecuteYields
           \/ ExecuteFails \/ ExecuteSucceeds
  PROVE  GateInv' /\ PlanInv'
  <1>0. /\ "execute" \in PhaseNode /\ At("execute")
        /\ "failed" \in Final /\ "blocked" \in Final
        /\ Final \subseteq Stops /\ Suspended \subseteq Stops
        /\ "converged" \notin Suspended
    BY DEF PhaseNode, MissingPlan, ExecuteRaises, ExecuteRepeated, ExecuteYields,
           ExecuteFails, ExecuteSucceeds, Called, Final, Stops, Suspended
  <1>1. /\ Place = "execute" /\ Ahead = row.evidence /\ driving
        /\ row.evidence.grant = "none" /\ row.evidence.gate = mem.gate
        /\ mem.gate = NoGate /\ mem.plan = plans /\ mem.responded = 0
        /\ NoGate.role = "none" /\ plans \in Nat
    BY <1>0, AtPhase DEF NoGate, TypeInv, TypeOK
  <1>2. \A a \in {"ask", "chat", "other"} :
          /\ Collected(a).gate = NoGate
          /\ Collected(a).responded = IF a = "ask" THEN plans ELSE 0
          /\ Collected(a).candidate \in {0, plans}
          /\ Collected(a).result = [plan |-> plans, chat |-> a = "chat"]
    BY <1>1, MemoryWrites, Blank
  <1>3. CASE MissingPlan
    BY <1>0, <1>1, <1>3, PhaseFrame, MissingPlanDecides, DecisionKeepsCalm
  <1>4. CASE ExecuteRaises
    BY <1>4, FailedRow, EndKeepsCalm DEF ExecuteRaises
  <1>5. CASE ExecuteRepeated
    <2>1. /\ UNCHANGED plans /\ ckpt' = plans
          /\ last' = [attempt |-> row.attempt, plan |-> plans]
      BY <1>1, <1>5, PhaseFrame
    <2>2. PICK a \in {"ask", "chat", "other"} : mem' = Collected(a)
      BY <1>5, ExecuteRepeatedDecides
    <2>3. Decides("execute", "blocked", row.evidence)
      BY <1>5, ExecuteRepeatedDecides
    <2>4. mem'.gate = NoGate /\ mem'.responded \in {0, plans}
      BY <1>2, <2>2
    <2>5. /\ Place' = "blocked" /\ Ahead' = row.evidence
      BY <2>3 DEF Decides
    <2> QED BY <1>0, <2>1, <2>4, <2>5 DEF GateInv, PlanInv
  <1>6. CASE ExecuteYields
    <2>1. /\ UNCHANGED <<plans, driving, ladder>> /\ ckpt' = plans
      BY <1>1, <1>6, PhaseFrame
    <2>2. PICK a \in {"ask", "chat", "other"} : mem' = Collected(a)
      BY <1>6, ExecuteYieldsDecides
    <2>3. PICK place \in Suspended : Decides("execute", place, row.evidence)
      BY <1>6, ExecuteYieldsDecides
    <2>4. mem'.gate = NoGate /\ mem'.responded \in {0, plans}
      BY <1>2, <2>2
    <2>5. Place' = place /\ Ahead' = row.evidence
      BY <2>3 DEF Decides
    <2>6. place # "execute" /\ place # "evaluate"
      BY DEF Suspended
    <2>7. GateInv'
      BY <1>1, <2>1, <2>4, <2>5 DEF GateInv
    <2>8. PlanInv'
      BY <1>0, <1>1, <2>1, <2>4, <2>5, <2>6 DEF PlanInv
    <2> QED BY <2>7, <2>8
  <1>7. CASE ExecuteFails
    <2>1. /\ UNCHANGED <<plans, driving, ladder>> /\ ckpt' = plans
      BY <1>1, <1>7, PhaseFrame
    <2>2. PICK place \in {"plan", "blocked"} : Decides("execute", place, row.evidence)
      BY <1>7, ExecuteFailsDecides
    <2>3. PICK a \in {"chat", "other"} : mem' = Collected(a)
      BY <1>7, ExecuteFailsDecides
    <2>4. mem'.gate = NoGate /\ mem'.responded = 0
      BY <1>2, <2>3
    <2>5. Place' = place /\ Ahead' = row.evidence
      BY <2>2 DEF Decides
    <2>6. GateInv'
      BY <1>0, <1>1, <2>1, <2>4, <2>5 DEF GateInv, PhaseNode
    <2>7. PlanInv'
      BY <1>0, <1>1, <2>1, <2>4, <2>5 DEF PlanInv
    <2> QED BY <2>6, <2>7
  <1>8. CASE ExecuteSucceeds
    <2>1. /\ UNCHANGED <<plans, driving, ladder>> /\ ckpt' = plans
      BY <1>1, <1>8, PhaseFrame
    <2>2. PICK a \in {"chat", "other"}, e \in Evidence :
            /\ Decides("execute", "evaluate", e)
            /\ mem' = Collected(a)
            /\ e.executor = Collected(a).result
            /\ e.gate = row.evidence.gate /\ e.grant = row.evidence.grant
      BY <1>8, ExecuteSucceedsDecides
    <2>3. /\ mem'.gate = NoGate /\ mem'.responded = 0
          /\ mem'.candidate \in {0, plans} /\ e.executor.plan = plans
      BY <1>2, <2>2
    <2>4. Place' = "evaluate" /\ Ahead' = e
      BY <2>2 DEF Decides
    <2>5. GateInv'
      BY <1>1, <2>1, <2>2, <2>3, <2>4 DEF GateInv, PhaseNode
    <2>6. PlanInv'
      BY <1>1, <2>1, <2>3, <2>4 DEF PlanInv
    <2> QED BY <2>5, <2>6
  <1> QED BY <1>3, <1>4, <1>5, <1>6, <1>7, <1>8

\* EVALUATE: the result and the candidate are those of the latest plan.
LEMMA EvaluatingKeepsCalm ==
  ASSUME GraphInv, GateInv, PlanInv,
         LockConflict \/ CheckerTransportFailure \/ AcceptedWithoutSurface
           \/ Accepted \/ TimedOut \/ Rejected
  PROVE  GateInv' /\ PlanInv'
  <1>0. /\ "evaluate" \in PhaseNode /\ At("evaluate") /\ TypeInv
        /\ Final \subseteq Stops /\ Suspended \subseteq Stops
        /\ {"failed", "blocked", "timed_out", "converged", "conflicted"} \subseteq Final
        /\ {"paused", "waiting_approval"} \subseteq Suspended
    BY DEF PhaseNode, LockConflict, CheckerTransportFailure, GraphInv,
           AcceptedWithoutSurface, Accepted, TimedOut, Rejected, Final, Stops,
           Suspended
  <1>1. /\ Place = "evaluate" /\ Ahead = row.evidence /\ driving
        /\ row.evidence.grant = "none" /\ row.evidence.gate = mem.gate
        /\ mem.gate = NoGate \/ (mem.gate.role = "checker" /\ ladder = "checker")
        /\ ckpt = plans /\ mem.responded = 0 /\ mem.candidate \in {0, plans}
        /\ row.evidence.executor.plan = plans /\ Recovered("checker") = NoGate
        /\ NoGate.role = "none" /\ NoGate \in Gate
    BY <1>0, AtPhase, Blank DEF NoGate
  <1>2. ckpt = last.plan /\ (mem.result # NoResult => mem.result = row.evidence.executor)
    BY <1>1 DEF GraphInv, CallInv, ResultInv
  <1>3. UNCHANGED <<row, ckpt, mode, ladder, driving, plans, last, spent>>
    BY PhaseFrame
  <1>4. /\ Judged.executor = row.evidence.executor /\ Judged.grant = "none"
        /\ Judged.gate = NoGate
    BY <1>0, <1>1, JudgedType
  <1>5. /\ Released.gate = NoGate /\ Released.responded \in {0, plans}
        /\ [mem EXCEPT !.gate = NoGate].gate = NoGate
        /\ [mem EXCEPT !.gate = NoGate].responded = 0
    BY <1>0, <1>1, MemoryWrites
  <1>6. CASE LockConflict
    <2>1. /\ Decides("evaluate", "paused", row.evidence) /\ mem' = mem
          /\ ladder = "command"
      BY <1>0, <1>6, LockConflictDecides
    <2> QED BY <1>0, <1>1, <1>3, <2>1, DecisionKeepsCalm
  <1>7. CASE CheckerTransportFailure
    <2>1. ladder = "checker" /\ mem.result # NoResult
      BY <1>0, <1>7, CheckerTransportFailureDecides
    <2>2. CASE \E f \in Evidence :
                 /\ Decides("evaluate", "paused", f)
                 /\ f.gate = mem'.gate /\ f.gate.role = "checker"
                 /\ f.executor = mem.result /\ f.grant = row.evidence.grant
                 /\ why' = "transport"
                 /\ mem' = [mem EXCEPT !.gate = f.gate]
      <3>1. PICK f \in Evidence :
                 /\ Decides("evaluate", "paused", f)
                 /\ f.gate = mem'.gate /\ f.gate.role = "checker"
                 /\ f.executor = mem.result /\ f.grant = row.evidence.grant
                 /\ why' = "transport"
                 /\ mem' = [mem EXCEPT !.gate = f.gate]
        BY <2>2
      <3>2. mem'.responded = 0
        BY <1>0, <1>1, <3>1, MemoryWrites DEF Evidence
      <3>3. f.executor.plan = plans
        BY <1>1, <1>2, <2>1, <3>1
      <3>4. "paused" \notin Final /\ "paused" # "converged"
        BY DEF Final
      <3> QED BY <1>0, <1>1, <1>3, <2>1, <3>1, <3>2, <3>3, <3>4, DecisionKeepsCalm
    <2>3. CASE Decides("evaluate", "failed", row.evidence) /\ mem' = mem
      BY <1>0, <1>1, <1>3, <2>3, DecisionKeepsCalm
    <2> QED BY <1>0, <1>7, <2>2, <2>3, CheckerTransportFailureDecides
  <1>8. CASE AcceptedWithoutSurface
    <2>1. /\ Decides("evaluate", "plan", Judged)
          /\ mem' = Released /\ Released.responded = 0
      BY <1>0, <1>8, AcceptedWithoutSurfaceDecides
    <2> QED BY <1>0, <1>1, <1>3, <1>4, <1>5, <2>1, DecisionKeepsCalm
  <1>9. CASE Accepted
    <2>1. PICK place \in {"converged", "conflicted", "paused", "waiting_approval"} :
            Decides("evaluate", place, Judged)
      BY <1>0, <1>9, AcceptedDecides
    <2>2. mem' = Released
      BY <1>0, <1>9, AcceptedDecides
    <2> QED BY <1>0, <1>1, <1>2, <1>3, <1>4, <1>5, <2>1, <2>2, DecisionKeepsCalm
  <1>10. CASE TimedOut
    <2>1. /\ Decides("evaluate", "timed_out", Judged)
          /\ mem' = [mem EXCEPT !.gate = NoGate]
      BY <1>0, <1>1, <1>10, TimedOutDecides
    <2> QED BY <1>0, <1>1, <1>3, <1>4, <1>5, <2>1, DecisionKeepsCalm
  <1>11. CASE Rejected
    <2>1. PICK place \in {"plan", "failed", "blocked"} :
            Decides("evaluate", place, Judged)
      BY <1>0, <1>11, RejectedDecides
    <2>2. mem' = [mem EXCEPT !.gate = NoGate]
      BY <1>0, <1>1, <1>11, RejectedDecides
    <2> QED BY <1>0, <1>1, <1>3, <1>4, <1>5, <2>1, <2>2, DecisionKeepsCalm
  <1> QED BY <1>6, <1>7, <1>8, <1>9, <1>10, <1>11

\* A driver that takes up an active loop, a due retry or an answered wait.
LEMMA StartsKeepCalm ==
  ASSUME TypeInv, GateInv, PlanInv, "transport" \notin Resumable,
         Drive \/ RetryPause \/ Resume
  PROVE  GateInv' /\ PlanInv'
  <1>0. /\ ~driving /\ driving' = TRUE /\ chain = <<>> /\ chain' = <<>>
        /\ UNCHANGED <<ckpt, mode, ladder, why, plans, last>>
        /\ NoGate.role = "none" /\ Ahead = row.evidence
    BY DEF Drive, RetryPause, Resume, TypeInv, NoGate, Ahead
  <1>1. CASE Drive
    <2>1. /\ row' = row /\ row.terminal = Active /\ mem' = Fresh(row.node)
          /\ Place = row.node
      BY <1>0, <1>1 DEF Drive, Place
    <2>2. Place' = Place /\ Ahead' = row.evidence
      BY <1>0, <2>1 DEF Place, Ahead
    <2>3. Place \notin Stops
      BY <2>1, RowParts, Places
    <2>4. /\ Place = "plan" /\ row.evidence.gate = NoGate
          /\ row.evidence.grant = "none" /\ ckpt = plans
      BY <1>0, <2>3 DEF GateInv, PlanInv, Stops
    <2>5. mem'.gate = NoGate /\ mem'.responded = 0
      BY <2>1, StartType
    <2>6. GateInv'
      BY <1>0, <2>2, <2>4, <2>5 DEF GateInv, PhaseNode
    <2>7. PlanInv'
      BY <1>0, <2>2, <2>4, <2>5 DEF PlanInv
    <2> QED BY <2>6, <2>7
  <1>2. CASE RetryPause
    <2>1. /\ Retryable /\ row.terminal = "paused" /\ mem' = Restored(RetryNode)
          /\ row' = [row EXCEPT !.node = RetryNode, !.terminal = Active]
      BY <1>2 DEF RetryPause, Retryable
    <2>2. Place = "paused" /\ "paused" \notin Final
      BY <1>0, <2>1 DEF Place, Active, Final
    <2>3. /\ row.evidence.grant = "none" /\ row.evidence.gate # NoGate
          /\ row.evidence.gate.role \in {"planner", "checker"}
          /\ row.evidence.gate.role = "checker" => ladder = "checker"
          /\ row.evidence.gate.role = "checker" => row.evidence.executor.plan = plans
          /\ ckpt = plans
      BY <1>0, <2>1, <2>2 DEF GateInv, PlanInv, Retryable
    <2>4. /\ row.evidence.gate.role = "planner" => RetryNode = "plan"
          /\ row.evidence.gate.role = "checker" => RetryNode = "evaluate"
      BY DEF RetryNode
    <2>5. /\ row'.node = RetryNode /\ row'.terminal = Active
          /\ row'.evidence = row.evidence
      BY <2>1, RetryNodeType, ReopenedRow
    <2>6. Place' = RetryNode /\ Ahead' = row.evidence
      BY <1>0, <2>5 DEF Place, Ahead
    <2>7. /\ mem'.gate = row.evidence.gate /\ mem'.responded = 0
          /\ mem'.candidate \in {0, row.evidence.executor.plan}
      BY <2>1, StartType
    <2>8. GateInv'
      BY <1>0, <2>3, <2>4, <2>6, <2>7 DEF GateInv, PhaseNode
    <2>9. PlanInv'
      BY <1>0, <2>3, <2>4, <2>6, <2>7 DEF PlanInv
    <2> QED BY <2>8, <2>9
  <1>3. CASE Resume
    <2>1. /\ row.terminal \in Suspended /\ why \in Resumable
          /\ mem' = Fresh("execute") /\ "execute" \in PhaseNode
          /\ row' = [row EXCEPT !.node = "execute", !.terminal = Active]
      BY <1>3 DEF Resume, PhaseNode
    <2>2. Place \in Suspended /\ Place \notin Final
      BY <1>0, <2>1, Places DEF Place, Stops
    <2>3. Place # "plan" /\ Place # "evaluate" /\ Place # "execute"
      BY <2>2 DEF Suspended
    <2>4. /\ row.evidence.grant = "none" /\ row.evidence.gate = NoGate
          /\ ckpt = plans
      BY <1>0, <2>1, <2>2, <2>3 DEF GateInv, PlanInv
    <2>5. /\ row'.node = "execute" /\ row'.terminal = Active
          /\ row'.evidence = row.evidence
      BY <2>1, ReopenedRow
    <2>6. Place' = "execute" /\ Ahead' = row.evidence
      BY <1>0, <2>5 DEF Place, Ahead
    <2>7. mem'.gate = NoGate /\ mem'.responded = 0 /\ mem'.plan = plans
      BY <2>1, <2>4, StartType
    <2>8. GateInv'
      BY <1>0, <2>4, <2>6, <2>7 DEF GateInv, PhaseNode
    <2>9. PlanInv'
      BY <1>0, <2>6, <2>7 DEF PlanInv
    <2> QED BY <2>8, <2>9
  <1> QED BY <1>1, <1>2, <1>3

\* An approval that is not granted ends the wait for it.
LEMMA ApprovalEndsKeepsCalm ==
  ASSUME TypeInv, GateInv, PlanInv, ApprovalEnds
  PROVE  GateInv' /\ PlanInv'
  <1>1. PICK stop \in {"paused", "cancelled"} : row' = [row EXCEPT !.terminal = stop]
    BY DEF ApprovalEnds
  <1>2. /\ ~driving /\ ~driving' /\ chain = <<>> /\ chain' = <<>> /\ mem' = mem
        /\ UNCHANGED <<ckpt, ladder, why, plans, last>>
        /\ row.terminal = "waiting_approval" /\ mem = NoMemory
        /\ NoGate.role = "none" /\ NoMemory.responded = 0
    BY DEF ApprovalEnds, TypeInv, NoGate, NoMemory
  <1>3. row'.terminal = stop /\ row'.evidence = row.evidence
    BY <1>1 DEF TypeInv, TypeOK, Row
  <1>4. /\ Place = "waiting_approval" /\ Ahead = row.evidence
        /\ Place' = stop /\ Ahead' = row.evidence
    BY <1>2, <1>3 DEF Place, Ahead, Active
  <1>5. /\ row.evidence.grant = "none" /\ row.evidence.gate = NoGate /\ ckpt = plans
    BY <1>4 DEF GateInv, PlanInv, Final
  <1>6. GateInv'
    BY <1>2, <1>4, <1>5 DEF GateInv, Suspended, Final
  <1>7. PlanInv'
    BY <1>2, <1>4, <1>5 DEF PlanInv
  <1> QED BY <1>6, <1>7

--------------------------------------------------------------------------------

LEMMA CalmInvKept ==
  ASSUME "transport" \notin Resumable, CalmInv, [Next]_vars
  PROVE  CalmInv'
  <1>1. GraphInv' /\ TypeInv
    BY GraphInvKept DEF CalmInv, GraphInv
  <1> SUFFICES ASSUME Undisturbed' PROVE GateInv' /\ PlanInv'
    BY <1>1 DEF CalmInv
  <1>2. /\ spent \in Bounds /\ spent.denials \in Nat /\ spent.crashes \in Nat
        /\ [spent EXCEPT !.resumes = @ + 1].denials = spent.denials
        /\ [spent EXCEPT !.resumes = @ + 1].crashes = spent.crashes
        /\ [spent EXCEPT !.denials = @ + 1].denials = spent.denials + 1
        /\ [spent EXCEPT !.crashes = @ + 1].crashes = spent.crashes + 1
    BY <1>1, TypedBounds DEF Bounds
  <1>3. ASSUME NEW node, Denied(node) PROVE FALSE
    BY <1>2, <1>3 DEF Denied, Undisturbed
  <1>4. ASSUME Crash PROVE FALSE
    BY <1>2, <1>4 DEF Crash, Undisturbed
  <1>5. CASE spent' = spent \/ Resume
    <2>0. Undisturbed
      BY <1>2, <1>5 DEF Undisturbed, Resume
    <2>a. GateInv /\ PlanInv /\ GraphInv
      BY <2>0 DEF CalmInv
    <2>1. CASE Transition
      <3>1. /\ Place' = Place /\ Ahead' = Ahead
            /\ UNCHANGED <<driving, mem, ladder, why, ckpt, plans, last>>
        BY <1>1, <2>1, TransitionEffect DEF Transition
      <3> QED BY <2>a, <3>1 DEF GateInv, PlanInv
    <2>2. CASE Refused \/ Raises
      <3>1. /\ row'.terminal = "failed" /\ UNCHANGED <<why, plans, ladder>>
            /\ driving' = FALSE /\ chain' = <<>> /\ mem' = NoMemory
        BY <1>1, <2>2, FailedRow DEF Refused, Raises
      <3> QED BY <1>1, <2>a, <3>1, EndKeepsCalm
    <2>3. CASE Planning
      BY <1>1, <1>3, <2>3, <2>a, PlanningKeepsCalm DEF Planning
    <2>4. CASE Executing
      BY <1>1, <1>3, <2>4, <2>a, ExecutingKeepsCalm DEF Executing
    <2>5. CASE Evaluating
      BY <1>1, <1>3, <2>5, <2>a, EvaluatingKeepsCalm DEF Evaluating
    <2>6. CASE Return
      <3>1. /\ driving /\ chain = <<>>
            /\ IsStopped(row.terminal) \/ row.node \notin PhaseNode
            /\ driving' = FALSE /\ mem' = NoMemory
            /\ UNCHANGED <<row, ckpt, ladder, chain, why, plans, last>>
        BY <2>6 DEF Return
      <3>2. Place \in Stops
        <4>1. CASE row.terminal = Active
          <5>1. Place = row.node /\ row.node \notin PhaseNode
            BY <3>1, <4>1, Places DEF Place, IsStopped, Stops
          <5> QED BY <2>a, <3>1, <5>1 DEF GateInv, Stops
        <4>2. CASE row.terminal # Active
          BY <1>1, <3>1, <4>2, RowParts DEF Place, TerminalState, Stops
        <4> QED BY <4>1, <4>2
      <3> QED BY <1>1, <2>a, <3>1, <3>2, EndKeepsCalm
    <2>7. CASE Drive \/ RetryPause \/ Resume
      BY <1>1, <2>7, <2>a, StartsKeepCalm
    <2>8. CASE ApprovalEnds
      BY <1>1, <2>8, <2>a, ApprovalEndsKeepsCalm
    <2>9. CASE UNCHANGED vars
      <3>1. /\ Place' = Place /\ Ahead' = Ahead
            /\ UNCHANGED <<driving, mem, ladder, why, ckpt, plans, last>>
        BY <2>9 DEF vars, Place, Ahead
      <3> QED BY <2>a, <3>1 DEF GateInv, PlanInv
    <2> QED BY <1>4, <2>1, <2>2, <2>3, <2>4, <2>5, <2>6, <2>7, <2>8, <2>9
            DEF Next, Running
  <1>6. spent' = spent \/ Resume
    BY <1>3, <1>4 DEF Next, Running, Transition, Refused, Raises, Planning,
       Executing, Evaluating, Return, Drive, RetryPause, ApprovalEnds, PlanReady,
       PlannerTransportFailure, PlannerMalformed, MissingPlan, ExecuteRaises,
       ExecuteRepeated, ExecuteYields, ExecuteFails, ExecuteSucceeds,
       LockConflict, CheckerTransportFailure, AcceptedWithoutSurface, Accepted,
       TimedOut, Rejected, vars
  <1> QED BY <1>5, <1>6

LEMMA InitCalm ==
  ASSUME Init PROVE CalmInv
  <1>1. GraphInv
    BY InitGraphInv
  <1>2. /\ row.terminal = Active /\ row.node = "plan" /\ chain = <<>>
        /\ row.evidence.gate = NoGate /\ row.evidence.grant = "none"
        /\ driving = FALSE /\ mem = NoMemory /\ ckpt = 0 /\ plans = 0
    BY DEF Init
  <1>3. Place = "plan" /\ Ahead = row.evidence
    BY <1>2 DEF Place, Ahead
  <1>4. NoGate.role = "none" /\ mem.responded = 0
    BY <1>2 DEF NoGate, NoMemory
  <1>5. GateInv
    BY <1>2, <1>3, <1>4 DEF GateInv
  <1>6. PlanInv
    BY <1>2, <1>3, <1>4 DEF PlanInv
  <1> QED BY <1>1, <1>5, <1>6 DEF CalmInv

THEOREM CalmInvHolds ==
  ASSUME "transport" \notin Resumable PROVE Spec => []CalmInv
  <1>1. Init => CalmInv
    BY InitCalm
  <1>2. CalmInv /\ [Next]_vars => CalmInv'
    BY CalmInvKept
  <1> QED BY <1>1, <1>2, PTL DEF Spec

\* Until a driver dies or a resource is refused, what a driver releases to the
\* user is the response of the latest plan, never text of a plan whose check
\* was rejected, also after waits, provider pauses and resumes
\* (_evaluate_state, resume_goal_loop_run).
THEOREM RepliesAreCurrent ==
  ASSUME "transport" \notin Resumable
  PROVE  Spec => [](Undisturbed => ReplyIsCurrent)
  <1>1. CalmInv => (Undisturbed => ReplyIsCurrent)
    BY DEF CalmInv, PlanInv, ReplyIsCurrent
  <1> QED BY <1>1, CalmInvHolds, PTL

\* Until a driver dies or a resource is refused, the daemon retries only
\* pauses for the provider: a wait for a user, a connector, an approval or a
\* lock stays parked (list_retryable_pauses).
THEOREM WaitsStayParked ==
  ASSUME "transport" \notin Resumable
  PROVE  Spec => [](Undisturbed => YieldsStayParked)
  <1>1. CalmInv => (Undisturbed => YieldsStayParked)
    <2> SUFFICES ASSUME CalmInv, Undisturbed, Retryable
                 PROVE  why \in {"resource", "transport"}
      BY DEF YieldsStayParked
    <2>1. /\ row.terminal = "paused" /\ GateInv /\ TypeInv
          /\ row.evidence.gate # NoGate \/ row.evidence.grant # "none"
      BY DEF CalmInv, GraphInv, Retryable
    <2>2. chain = <<>>
      BY <2>1 DEF TypeInv, Active
    <2>3. Place = "paused" /\ Ahead = row.evidence
      BY <2>1, <2>2 DEF Place, Ahead, Active
    <2> QED BY <2>1, <2>3 DEF GateInv, Final
  <1> QED BY <1>1, CalmInvHolds, PTL

\* Until a driver dies or a resource is refused, a loop converges on the result
\* of the last capability it called (_evaluate_state).
THEOREM ConvergesOnTheLastResult ==
  ASSUME "transport" \notin Resumable
  PROVE  Spec => [](Undisturbed => ConvergesOnLastResult)
  <1>1. CalmInv => (Undisturbed => ConvergesOnLastResult)
    <2> SUFFICES ASSUME CalmInv, Undisturbed, row.terminal = "converged"
                 PROVE  row.evidence.executor.plan = last.plan
      BY DEF ConvergesOnLastResult
    <2>1. chain = <<>> /\ PlanInv
      BY DEF CalmInv, GraphInv, TypeInv, Active
    <2>2. Place = "converged" /\ Ahead = row.evidence
      BY <2>1 DEF Place, Ahead, Active
    <2> QED BY <2>1, <2>2 DEF PlanInv
  <1> QED BY <1>1, CalmInvHolds, PTL

\* Until a driver dies or a resource is refused, what is called is of the
\* latest plan.
THEOREM CallsAreOfTheLatestPlan ==
  ASSUME "transport" \notin Resumable
  PROVE  Spec => [][Undisturbed /\ last' # last => last'.plan = plans]_vars
  <1>1. CalmInv /\ [Next]_vars
          => [Undisturbed /\ last' # last => last'.plan = plans]_vars
    <2> SUFFICES ASSUME CalmInv, Next, Undisturbed, last' # last
                 PROVE  last'.plan = plans
      OBVIOUS
    <2>1. /\ At("execute")
          /\ last' = [attempt |-> row.attempt, plan |-> mem.plan]
      BY DEF Next, Running, Transition, Refused, Raises, Planning, Executing,
             Evaluating, Return, Drive, RetryPause, Resume, ApprovalEnds, Crash,
             Denied, PlanReady, PlannerTransportFailure, PlannerMalformed,
             MissingPlan, ExecuteRaises, ExecuteRepeated, ExecuteYields,
             ExecuteFails, ExecuteSucceeds, Called, LockConflict,
             CheckerTransportFailure, AcceptedWithoutSurface, Accepted,
             TimedOut, Rejected
    <2>2. mem.plan = plans
      BY <2>1, AtPhase DEF CalmInv, GraphInv, PhaseNode
    <2> QED BY <2>1, <2>2
  <1> QED BY <1>1, CalmInvHolds, PTL DEF Spec

\* In a loop whose drivers never die and that is never refused a resource,
\* EXECUTE always calls the capability of the latest plan
\* (_planned_step_from_checkpoint).
THEOREM LatestPlanIsExecuted ==
  ASSUME "transport" \notin Resumable
  PROVE  Spec /\ []Undisturbed => ExecutesLatestPlan
  <1>1. Undisturbed /\ [Undisturbed /\ last' # last => last'.plan = plans]_vars
          => [last' # last => last'.plan = plans]_vars
    OBVIOUS
  <1> QED BY <1>1, CallsAreOfTheLatestPlan, PTL DEF ExecutesLatestPlan
================================================================================
