---------------------------- MODULE LearningProofs ----------------------------
(* Theorems about the ways the system changes what it knows: its governed  *)
(* changes of itself (Evolution) and the consolidation of its turns        *)
(* (MemoryJobs), for any proposals, processes, jobs and bounds.            *)
EXTENDS Evolution, MemoryJobs, FiniteSetTheorems, SequenceTheorems, TLAPS

-----------------------------------------------------------------------------
(* Evolution.  An apply and a rollback are each a sequence of transactions,*)
(* and the invariant says what of the ledger the process that is between   *)
(* two of them may still count on, whoever else is at work on the same     *)
(* proposal.                                                               *)

\* Where a process may be between two transactions.
Pc == {"activate", "reconcile", "claim", "reread", "record", "write", "fail", "uncertain",
       "mark", "restore", "commit", "unobserve", "regressed"}

\* It has claimed its proposal and has not written the candidate yet.
Claimed == {"reread", "record", "write"}

Applying(a, p) == procs[a].pc \in Claimed /\ procs[a].p = p

TypeInv ==
    /\ live = [t \in PlainTarget |-> live[t]]
    /\ proposals = [p \in Proposal |-> proposals[p]]
    /\ experiments = [p \in Proposal |-> experiments[p]]
    /\ events = [p \in Proposal |-> events[p]]
    /\ activations = [p \in Proposal |-> activations[p]]
    /\ procs = [a \in Actor |-> procs[a]]
    /\ writes \in [Proposal -> 0..1]
    /\ edits \in Nat

\* The shapes of the records; what a target may hold is of no concern here.
IsProposal(r) ==
    \/ r = None
    \/ /\ r = [status |-> r.status, target |-> r.target, before |-> r.before,
               after |-> r.after, evaluation |-> r.evaluation]
       /\ r.status \in ProposalStatus \ {"none"}

IsExperiment(x) ==
    /\ x = [status |-> x.status, case |-> x.case, passed |-> x.passed]
    /\ x.passed \in BOOLEAN

IsEvent(e) ==
    /\ e = [kind |-> e.kind, state |-> e.state, rolledBack |-> e.rolledBack]
    /\ e.kind \in {"none", "apply"} /\ e.rolledBack \in BOOLEAN

IsActivation(v) ==
    /\ v = [status |-> v.status, count |-> v.count, errors |-> v.errors]
    /\ v.status \in ActivationStatus

IsProcess(k) ==
    \/ k = Idle
    \/ /\ k = [pc |-> k.pc, p |-> k.p, state |-> k.state]
       /\ k.pc \in Pc /\ k.p \in Proposal

\* The ledger of one proposal agrees with itself: nothing is on record, or
\* written, of a proposal nobody has claimed; an apply event was approved by
\* a person and had passed an experiment; a rollback is on both records.
ProposalFits(p) ==
    /\ IsProposal(proposals[p]) /\ IsExperiment(experiments[p])
    /\ IsEvent(events[p]) /\ IsActivation(activations[p])
    /\ proposals[p].status \in {"none", "proposed"}
          => events[p].kind = "none" /\ writes[p] = 0
    /\ proposals[p].status \in {"applied", "rolled_back"} => events[p].kind = "apply"
    /\ events[p].rolledBack <=> proposals[p].status = "rolled_back"
    /\ proposals[p].status # "none" /\ proposals[p].evaluation = "approved" => p \in approved
    /\ experiments[p].status = "passed" => experiments[p].passed
    /\ events[p].kind = "apply" => p \in approved /\ experiments[p].passed
    /\ activations[p].status = "rolled_back" => events[p].rolledBack
    /\ activations[p].status # "none" => proposals[p].status # "none"

\* What the process in the middle of an apply or a rollback of p counts on.
StepFits(pc, p) ==
    /\ proposals[p].status # "none"
    /\ pc = "claim" => p \in approved /\ experiments[p].passed
    /\ pc \in Claimed => /\ p \in approved /\ experiments[p].passed
                         /\ proposals[p].status # "proposed"
                         /\ writes[p] = 0
    /\ pc \in {"reread", "record"} => events[p].kind = "none"
    /\ pc \in {"write", "mark"} => events[p].kind = "apply"
    /\ pc \in {"restore", "commit"} => proposals[p].status \in {"applied", "rolled_back"}
    /\ pc = "unobserve" => events[p].rolledBack

ActorFits(a) ==
    /\ IsProcess(procs[a])
    /\ procs[a] # Idle => StepFits(procs[a].pc, procs[a].p)

\* Of all the processes one has claimed p.
OneApplies ==
    \A p \in Proposal : \A a, b \in Actor : Applying(a, p) /\ Applying(b, p) => a = b

EvolutionInv ==
    /\ TypeInv
    /\ \A p \in Proposal : ProposalFits(p)
    /\ \A a \in Actor : ActorFits(a)
    /\ OneApplies

\* How a ledger moves on: what was once approved, passed, recorded, landed or
\* rolled back stays so.
Advances(p) ==
    /\ p \in approved => p \in approved'
    /\ experiments[p].passed => experiments'[p].passed
    /\ proposals[p].status # "none" => proposals'[p].status # "none"
    /\ proposals[p].status \notin {"none", "proposed"} => proposals'[p].status # "proposed"
    /\ proposals[p].status \in {"applied", "rolled_back"}
          => proposals'[p].status \in {"applied", "rolled_back"}
    /\ events[p].kind = "apply" => events'[p].kind = "apply"
    /\ events[p].rolledBack => events'[p].rolledBack

\* Nobody recorded or wrote p.
Untouched(p) == events'[p].kind = events[p].kind /\ writes'[p] = writes[p]

\* A step that has nothing to do with p.
SameLedger(p) ==
    /\ proposals'[p] = proposals[p] /\ experiments'[p] = experiments[p]
    /\ events'[p] = events[p] /\ activations'[p] = activations[p]
    /\ writes'[p] = writes[p]
    /\ p \in approved => p \in approved'

-----------------------------------------------------------------------------
(* Records.                                                                *)

LEMMA PcWritten ==
  ASSUME NEW k, k = [pc |-> k.pc, p |-> k.p, state |-> k.state], NEW v
  PROVE  [k EXCEPT !.pc = v] = [pc |-> v, p |-> k.p, state |-> k.state]
OBVIOUS

LEMMA StatusWritten ==
  ASSUME NEW r, r = [status |-> r.status, target |-> r.target, before |-> r.before,
                     after |-> r.after, evaluation |-> r.evaluation],
         NEW v
  PROVE  /\ [r EXCEPT !.status = v] =
              [status |-> v, target |-> r.target, before |-> r.before,
               after |-> r.after, evaluation |-> r.evaluation]
         /\ [r EXCEPT !.evaluation = v] =
              [status |-> r.status, target |-> r.target, before |-> r.before,
               after |-> r.after, evaluation |-> v]
OBVIOUS

LEMMA ActivationWritten ==
  ASSUME NEW r, r = [status |-> r.status, count |-> r.count, errors |-> r.errors], NEW v
  PROVE  [r EXCEPT !.status = v] = [status |-> v, count |-> r.count, errors |-> r.errors]
OBVIOUS

LEMMA RolledBackWritten ==
  ASSUME NEW e, e = [kind |-> e.kind, state |-> e.state, rolledBack |-> e.rolledBack], NEW v
  PROVE  [e EXCEPT !.rolledBack = v] = [kind |-> e.kind, state |-> e.state, rolledBack |-> v]
OBVIOUS

-----------------------------------------------------------------------------
(* What a step leaves alone.                                               *)

LEMMA SameLedgerFits ==
  ASSUME NEW p \in Proposal, ProposalFits(p), SameLedger(p)
  PROVE  ProposalFits(p)' /\ Advances(p) /\ Untouched(p)
BY DEF ProposalFits, SameLedger, Advances, Untouched, IsProposal, IsExperiment, IsEvent,
       IsActivation

LEMMA StepKept ==
  ASSUME NEW p \in Proposal, NEW pc \in Pc, StepFits(pc, p), Advances(p),
         pc \in Claimed => Untouched(p)
  PROVE  StepFits(pc, p)'
BY DEF StepFits, Advances, Untouched, Claimed

LEMMA OtherKept ==
  ASSUME EvolutionInv, \A p \in Proposal : Advances(p), NEW b \in Actor,
         procs'[b] = procs[b], \A p \in Proposal : Applying(b, p) => Untouched(p)
  PROVE  ActorFits(b)'
<1>1. ActorFits(b)
  BY DEF EvolutionInv
<1>2. CASE procs[b] = Idle
  BY <1>2 DEF ActorFits, IsProcess
<1>3. CASE procs[b] # Idle
  <2> DEFINE pc == procs[b].pc
             p == procs[b].p
  <2>1. pc \in Pc /\ p \in Proposal /\ StepFits(pc, p)
    BY <1>1, <1>3 DEF ActorFits, IsProcess
  <2>2. pc \in Claimed => Untouched(p)
    BY <2>1 DEF Applying
  <2> HIDE DEF pc, p
  <2>3. StepFits(pc, p)'
    <3> USE DEF pc, p
    <3>1. \A x \in Pc, q \in Proposal :
             StepFits(x, q) /\ (x \in Claimed => Untouched(q)) => StepFits(x, q)'
      BY StepKept
    <3>2. StepFits(procs[b].pc, procs[b].p)' <=>
            (\E x \in Pc, q \in Proposal : x = procs[b].pc /\ q = procs[b].p /\ StepFits(x, q)')
      BY <2>1 DEF StepFits
    <3> QED BY <2>1, <2>2, <3>1, <3>2
  <2> QED
    BY <1>1, <2>3 DEF ActorFits, IsProcess, pc, p
<1> QED
  BY <1>2, <1>3

\* No process moves, and nothing is recorded or written.
LEMMA LedgerStep ==
  ASSUME EvolutionInv, TypeInv', procs' = procs,
         \A p \in Proposal : ProposalFits(p)' /\ Advances(p) /\ Untouched(p)
  PROVE  EvolutionInv'
<1>1. \A b \in Actor : ActorFits(b)'
  BY OtherKept
<1>2. OneApplies'
  BY DEF EvolutionInv, OneApplies, Applying
<1> QED
  BY <1>1, <1>2 DEF EvolutionInv

\* Process a goes on with record k.
LEMMA ActorStep ==
  ASSUME EvolutionInv, TypeInv', NEW a \in Actor, NEW k,
         procs' = [procs EXCEPT ![a] = k], ActorFits(a)',
         \A p \in Proposal : ProposalFits(p)' /\ Advances(p),
         \A p \in Proposal : \A b \in Actor \ {a} :
            Applying(b, p) => Untouched(p) /\ ~(k.pc \in Claimed /\ k.p = p)
  PROVE  EvolutionInv'
<1>1. procs'[a] = k /\ \A b \in Actor \ {a} : procs'[b] = procs[b]
  BY DEF EvolutionInv, TypeInv
<1>2. ASSUME NEW b \in Actor PROVE ActorFits(b)'
  BY <1>1, OtherKept
<1>3. ASSUME NEW p \in Proposal, NEW b \in Actor, NEW c \in Actor,
             Applying(b, p)', Applying(c, p)'
      PROVE  b = c
  <2>1. CASE b # a /\ c # a
    BY <1>1, <1>3, <2>1 DEF Applying, EvolutionInv, OneApplies
  <2>2. CASE b = a /\ c # a
    BY <1>1, <1>3, <2>2 DEF Applying
  <2>3. CASE b # a /\ c = a
    BY <1>1, <1>3, <2>3 DEF Applying
  <2> QED
    BY <2>1, <2>2, <2>3
<1>4. OneApplies'
  BY <1>3 DEF OneApplies
<1> QED
  BY <1>2, <1>4 DEF EvolutionInv

\* Process a is at v, with proposal q.
IsAt(k, v, q) == k = [pc |-> v, p |-> q, state |-> k.state]

LEMMA DoesKeeps ==
  ASSUME EvolutionInv, TypeInv', NEW a \in Actor, NEW v \in Pc, NEW q \in Proposal, NEW k,
         procs' = [procs EXCEPT ![a] = k], IsAt(k, v, q), StepFits(v, q)',
         \A p \in Proposal : ProposalFits(p)' /\ Advances(p),
         \A p \in Proposal : \A b \in Actor \ {a} :
            Applying(b, p) => Untouched(p) /\ ~(v \in Claimed /\ q = p)
  PROVE  EvolutionInv'
<1>1. k.pc = v /\ k.p = q /\ IsProcess(k)
  BY DEF IsProcess, IsAt
<1>2. procs'[a] = k
  BY DEF EvolutionInv, TypeInv
<1>3. StepFits(procs[a].pc, procs[a].p)'
  BY <1>1, <1>2 DEF StepFits
<1>4. ActorFits(a)'
  BY <1>1, <1>2, <1>3 DEF ActorFits, IsProcess
<1> QED
  BY <1>1, <1>4, ActorStep

\* Process a, which is not at rest, goes to v.
LEMMA GotoKeeps ==
  ASSUME EvolutionInv, TypeInv', NEW a \in Actor, NEW v \in Pc, NEW q \in Proposal,
         procs[a] # Idle, procs[a].p = q, Goto(a, v), StepFits(v, q)',
         \A p \in Proposal : ProposalFits(p)' /\ Advances(p),
         \A p \in Proposal : \A b \in Actor \ {a} :
            Applying(b, p) => Untouched(p) /\ ~(v \in Claimed /\ q = p)
  PROVE  EvolutionInv'
<1> DEFINE k == [procs[a] EXCEPT !.pc = v]
<1>1. procs[a] = [pc |-> procs[a].pc, p |-> procs[a].p, state |-> procs[a].state]
  BY DEF EvolutionInv, ActorFits, IsProcess
<1>2. IsAt(k, v, q)
  BY <1>1, PcWritten DEF IsAt
<1>3. procs' = [procs EXCEPT ![a] = k]
  BY DEF Goto
<1> HIDE DEF k
<1>4. k.pc = v /\ k.p = q
  BY <1>2 DEF IsAt
<1>5. \A p \in Proposal : \A b \in Actor \ {a} :
         Applying(b, p) => Untouched(p) /\ ~(k.pc \in Claimed /\ k.p = p)
  BY <1>4
<1>6. procs'[a] = k
  BY <1>3 DEF EvolutionInv, TypeInv
<1>7. ActorFits(a)'
  <2>1. StepFits(procs[a].pc, procs[a].p)'
    BY <1>4, <1>6 DEF StepFits
  <2> QED
    BY <1>2, <1>4, <1>6, <2>1 DEF ActorFits, IsProcess, IsAt
<1> QED
  BY <1>3, <1>5, <1>7, ActorStep

\* Process a is through, or dead.
LEMMA RestKeeps ==
  ASSUME EvolutionInv, TypeInv', NEW a \in Actor, Rest(a),
         \A p \in Proposal : ProposalFits(p)' /\ Advances(p),
         \A p \in Proposal : \A b \in Actor \ {a} : Applying(b, p) => Untouched(p)
  PROVE  EvolutionInv'
<1>1. procs'[a] = Idle
  BY DEF Rest, EvolutionInv, TypeInv
<1>2. ActorFits(a)'
  BY <1>1 DEF ActorFits, IsProcess
<1>3. Idle.pc \notin Claimed
  BY DEF Idle, Claimed
<1>4. procs' = [procs EXCEPT ![a] = Idle]
  BY DEF Rest
<1> QED
  BY <1>2, <1>3, <1>4, ActorStep

\* A process that moves while the ledger stays as it is.
LEMMA QuietLedger ==
  ASSUME EvolutionInv, UNCHANGED <<proposals, experiments, approved, events, activations, writes>>
  PROVE  \A p \in Proposal : ProposalFits(p)' /\ Advances(p) /\ Untouched(p)
<1>1. ASSUME NEW p \in Proposal PROVE SameLedger(p)
  BY DEF SameLedger
<1> QED
  BY <1>1, SameLedgerFits DEF EvolutionInv

\* Where a process that is at a place stands.
LEMMA Standing ==
  ASSUME EvolutionInv, NEW a \in Actor, procs[a].pc \in Pc
  PROVE  /\ procs[a] # Idle /\ procs[a].p \in Proposal
         /\ procs[a] = [pc |-> procs[a].pc, p |-> procs[a].p, state |-> procs[a].state]
         /\ StepFits(procs[a].pc, procs[a].p) /\ ProposalFits(procs[a].p)
<1>1. procs[a] # Idle
  BY DEF Idle, Pc
<1> QED
  BY <1>1 DEF EvolutionInv, ActorFits, IsProcess

-----------------------------------------------------------------------------
(* Proposals, experiments and evaluations.                                 *)

LEMMA ProposeKeeps ==
  ASSUME EvolutionInv, NEW q \in Proposal, NEW t, NEW candidate, Propose(q, t, candidate)
  PROVE  EvolutionInv'
<1> DEFINE r == [status |-> "proposed", target |-> t, before |-> Read(t), after |-> candidate,
                 evaluation |-> "none"]
<1>1. proposals' = [proposals EXCEPT ![q] = r] /\ proposals[q] = None
      /\ UNCHANGED <<experiments, approved, events, activations, writes, procs, live, edits>>
  BY DEF Propose, itemVars
<1>2. r.status = "proposed" /\ r.evaluation = "none"
      /\ r = [status |-> r.status, target |-> r.target, before |-> r.before,
              after |-> r.after, evaluation |-> r.evaluation]
  OBVIOUS
<1> HIDE DEF r
<1>3. proposals'[q] = r /\ \A p \in Proposal \ {q} : proposals'[p] = proposals[p]
  BY <1>1 DEF EvolutionInv, TypeInv
<1>4. IsProposal(r)
  BY <1>2 DEF IsProposal, ProposalStatus
<1>5. ASSUME NEW p \in Proposal PROVE ProposalFits(p)' /\ Advances(p) /\ Untouched(p)
  <2>0. ProposalFits(p)
    BY DEF EvolutionInv
  <2>1. CASE p = q
    <3>1. proposals[p].status = "none"
      BY <1>1, <2>1 DEF None
    <3>2. proposals'[p] = r
      BY <1>3, <2>1
    <3>3. ProposalFits(p)'
      BY <1>1, <1>2, <1>4, <2>0, <3>1, <3>2
         DEF ProposalFits, IsProposal, IsExperiment, IsEvent, IsActivation
    <3> QED
      BY <1>1, <1>2, <3>1, <3>2, <3>3 DEF Advances, Untouched
  <2>2. CASE p # q
    BY <1>1, <1>3, <2>0, <2>2, SameLedgerFits DEF SameLedger
  <2> QED
    BY <2>1, <2>2
<1>6. TypeInv'
  BY <1>1 DEF EvolutionInv, TypeInv
<1> QED
  BY <1>1, <1>5, <1>6, LedgerStep

LEMMA ExperimentKeeps ==
  ASSUME EvolutionInv, NEW q \in Proposal, Experiment(q)
  PROVE  EvolutionInv'
<1>1. PICK ok \in BOOLEAN :
        experiments' = [experiments EXCEPT ![q] =
            [status |-> IF ok THEN "passed" ELSE "failed", case |-> CaseContent(q),
             passed |-> experiments[q].passed \/ ok]]
  BY DEF Experiment
<1>2. UNCHANGED <<proposals, approved, events, activations, writes, procs, live, edits>>
  BY DEF Experiment, itemVars
<1> DEFINE passed == experiments[q].passed \/ ok
           x == [status |-> IF ok THEN "passed" ELSE "failed", case |-> CaseContent(q),
                 passed |-> passed]
<1>3. /\ x = [status |-> x.status, case |-> x.case, passed |-> x.passed]
      /\ x.passed \in BOOLEAN
  OBVIOUS
<1>4. /\ x.status = "passed" => x.passed
      /\ experiments[q].passed => x.passed
  OBVIOUS
<1>5. experiments' = [experiments EXCEPT ![q] = x]
  BY <1>1
<1> HIDE DEF x
<1>6. experiments'[q] = x /\ \A p \in Proposal \ {q} : experiments'[p] = experiments[p]
  BY <1>5 DEF EvolutionInv, TypeInv
<1>7. ASSUME NEW p \in Proposal PROVE ProposalFits(p)' /\ Advances(p) /\ Untouched(p)
  <2>0. ProposalFits(p)
    BY DEF EvolutionInv
  <2>1. CASE p = q
    <3>1. experiments'[p] = x /\ (experiments[p].passed => x.passed)
      BY <1>4, <1>6, <2>1
    <3>2. ProposalFits(p)'
      BY <1>2, <1>3, <1>4, <2>0, <3>1
         DEF ProposalFits, IsProposal, IsExperiment, IsEvent, IsActivation
    <3> QED
      BY <1>2, <3>1, <3>2 DEF Advances, Untouched
  <2>2. CASE p # q
    BY <1>2, <1>6, <2>0, <2>2, SameLedgerFits DEF SameLedger
  <2> QED
    BY <2>1, <2>2
<1>8. TypeInv'
  BY <1>2, <1>5 DEF EvolutionInv, TypeInv
<1> QED
  BY <1>2, <1>7, <1>8, LedgerStep

LEMMA ApproveKeeps ==
  ASSUME EvolutionInv, NEW q \in Proposal, Approve(q)
  PROVE  EvolutionInv'
<1>1. approved' = approved \cup {q}
      /\ UNCHANGED <<proposals, experiments, events, activations, writes, procs, live, edits>>
  BY DEF Approve, itemVars
<1>2. ASSUME NEW p \in Proposal PROVE ProposalFits(p)' /\ Advances(p) /\ Untouched(p)
  BY <1>1, SameLedgerFits DEF SameLedger, EvolutionInv
<1>3. TypeInv'
  BY <1>1 DEF EvolutionInv, TypeInv
<1> QED
  BY <1>1, <1>2, <1>3, LedgerStep

LEMMA RecordEvaluationKeeps ==
  ASSUME EvolutionInv, NEW q \in Proposal, NEW result, RecordEvaluation(q, result)
  PROVE  EvolutionInv'
<1> DEFINE r == [proposals[q] EXCEPT !.evaluation = result]
<1>1. /\ proposals' = [proposals EXCEPT ![q] = r]
      /\ proposals[q] # None /\ (result = "approved" => q \in approved)
      /\ UNCHANGED <<experiments, approved, events, activations, writes, procs, live, edits>>
  BY DEF RecordEvaluation, itemVars
<1>2. IsProposal(proposals[q])
  BY DEF EvolutionInv, ProposalFits
<1>3. r = [status |-> proposals[q].status, target |-> proposals[q].target,
           before |-> proposals[q].before, after |-> proposals[q].after,
           evaluation |-> result]
  BY <1>1, <1>2, StatusWritten DEF IsProposal
<1>4. /\ r.status = proposals[q].status /\ r.evaluation = result
      /\ r = [status |-> r.status, target |-> r.target, before |-> r.before,
              after |-> r.after, evaluation |-> r.evaluation]
  BY <1>3
<1> HIDE DEF r
<1>5. proposals'[q] = r /\ \A p \in Proposal \ {q} : proposals'[p] = proposals[p]
  BY <1>1 DEF EvolutionInv, TypeInv
<1>6. IsProposal(r)
  BY <1>1, <1>2, <1>4 DEF IsProposal
<1>7. ASSUME NEW p \in Proposal PROVE ProposalFits(p)' /\ Advances(p) /\ Untouched(p)
  <2>0. ProposalFits(p)
    BY DEF EvolutionInv
  <2>1. CASE p = q
    <3>1. /\ proposals'[p] = r /\ r.status = proposals[p].status
          /\ r.evaluation = "approved" => p \in approved
      BY <1>1, <1>4, <1>5, <2>1
    <3>2. ProposalFits(p)'
      BY <1>1, <1>6, <2>0, <3>1
         DEF ProposalFits, IsProposal, IsExperiment, IsEvent, IsActivation
    <3> QED
      BY <1>1, <3>1, <3>2 DEF Advances, Untouched
  <2>2. CASE p # q
    BY <1>1, <1>5, <2>0, <2>2, SameLedgerFits DEF SameLedger
  <2> QED
    BY <2>1, <2>2
<1>8. TypeInv'
  BY <1>1 DEF EvolutionInv, TypeInv
<1> QED
  BY <1>1, <1>7, <1>8, LedgerStep

-----------------------------------------------------------------------------
(* The apply.                                                              *)

\* What a status that moves on leaves of the proposal.
LEMMA MovedRow ==
  ASSUME EvolutionInv, NEW q \in Proposal, proposals[q].status # "none", NEW from,
         NEW to \in ProposalStatus \ {"none"}, Moved(q, from, to)
  PROVE  /\ IsProposal(proposals'[q])
         /\ proposals'[q].status = IF proposals[q].status = from THEN to ELSE proposals[q].status
         /\ proposals'[q].evaluation = proposals[q].evaluation
         /\ \A p \in Proposal \ {q} : proposals'[p] = proposals[p]
         /\ proposals' = [p \in Proposal |-> proposals'[p]]
<1> DEFINE v == IF proposals[q].status = from THEN to ELSE proposals[q].status
           r == [proposals[q] EXCEPT !.status = v]
<1>1. IsProposal(proposals[q]) /\ proposals[q] # None
  BY DEF EvolutionInv, ProposalFits, None
<1>2. v \in ProposalStatus \ {"none"}
  BY <1>1 DEF IsProposal
<1>3. proposals' = [proposals EXCEPT ![q] = r]
  BY DEF Moved
<1> HIDE DEF v
<1>4. r = [status |-> v, target |-> proposals[q].target, before |-> proposals[q].before,
           after |-> proposals[q].after, evaluation |-> proposals[q].evaluation]
  BY <1>1, StatusWritten DEF IsProposal
<1>5. IsProposal(r) /\ r.status = v /\ r.evaluation = proposals[q].evaluation
  BY <1>2, <1>4 DEF IsProposal
<1> HIDE DEF r
<1>6. /\ proposals'[q] = r /\ \A p \in Proposal \ {q} : proposals'[p] = proposals[p]
      /\ proposals' = [p \in Proposal |-> proposals'[p]]
  BY <1>3 DEF EvolutionInv, TypeInv
<1> QED
  BY <1>5, <1>6 DEF v

\* A transaction that moves the status of q on, while q is being applied.
LEMMA MovedFits ==
  ASSUME EvolutionInv, NEW q \in Proposal, proposals[q].status # "none",
         NEW from \in {"proposed", "applying"},
         NEW to \in {"applying", "applied", "apply_failed", "apply_uncertain"},
         Moved(q, from, to), to = "applied" => events[q].kind = "apply",
         UNCHANGED <<experiments, approved, events, activations, writes, live, edits>>,
         procs' = [b \in Actor |-> procs'[b]]
  PROVE  TypeInv' /\ \A p \in Proposal : ProposalFits(p)' /\ Advances(p) /\ Untouched(p)
<1>0. to \in ProposalStatus \ {"none"}
  BY DEF ProposalStatus
<1>1. /\ IsProposal(proposals'[q])
      /\ proposals'[q].status = IF proposals[q].status = from THEN to ELSE proposals[q].status
      /\ proposals'[q].evaluation = proposals[q].evaluation
      /\ \A p \in Proposal \ {q} : proposals'[p] = proposals[p]
      /\ proposals' = [p \in Proposal |-> proposals'[p]]
  BY <1>0, MovedRow
<1>2. ASSUME NEW p \in Proposal PROVE ProposalFits(p)' /\ Advances(p) /\ Untouched(p)
  <2>0. ProposalFits(p)
    BY DEF EvolutionInv
  <2>1. CASE p = q
    <3>1. proposals'[p].status \in {proposals[p].status, to}
          /\ (proposals'[p].status # proposals[p].status => proposals[p].status = from)
      BY <1>1, <2>1
    <3>2. proposals'[p].status \notin {"none"} /\ proposals[p].status # "none"
      BY <2>1, <3>1
    <3>3. ProposalFits(p)'
      BY <1>1, <2>0, <2>1, <3>1, <3>2
         DEF ProposalFits, IsProposal, IsExperiment, IsEvent, IsActivation
    <3> QED
      BY <2>1, <3>1, <3>2, <3>3 DEF Advances, Untouched
  <2>2. CASE p # q
    BY <1>1, <2>0, <2>2, SameLedgerFits DEF SameLedger
  <2> QED
    BY <2>1, <2>2
<1>3. TypeInv'
  BY <1>1 DEF EvolutionInv, TypeInv
<1> QED
  BY <1>2, <1>3

LEMMA ProcsTyped ==
  ASSUME EvolutionInv, NEW a \in Actor, NEW k, procs' = [procs EXCEPT ![a] = k]
  PROVE  procs' = [b \in Actor |-> procs'[b]]
BY DEF EvolutionInv, TypeInv

\* The place a process starts from, and what the ledger lets it do there.
LEMMA BeginApplyKeeps ==
  ASSUME EvolutionInv, NEW a \in Actor, NEW q \in Proposal, BeginApply(a, q)
  PROVE  EvolutionInv'
<1>1. PICK pc \in {"activate", "reconcile", "claim"} :
        /\ CASE proposals[q].status = "applied"  -> pc = "activate"
             [] proposals[q].status = "applying" -> pc = "reconcile"
             [] proposals[q].status = "proposed" -> pc = "claim" /\ Applicable(q)
             [] OTHER -> FALSE
        /\ procs' = [procs EXCEPT ![a] = [pc |-> pc, p |-> q, state |-> "none"]]
  BY DEF BeginApply
<1>2. UNCHANGED <<live, proposals, experiments, approved, events, activations, writes, edits>>
  BY DEF BeginApply, ledgerVars, itemVars
<1> DEFINE k == [pc |-> pc, p |-> q, state |-> "none"]
<1>3. IsAt(k, pc, q)
  BY DEF IsAt
<1>4. procs' = [procs EXCEPT ![a] = k]
  BY <1>1
<1> HIDE DEF k
<1>5. TypeInv'
  BY <1>2, <1>4, ProcsTyped DEF EvolutionInv, TypeInv
<1>6. \A p \in Proposal : ProposalFits(p)' /\ Advances(p) /\ Untouched(p)
  BY <1>2, QuietLedger
<1>7. ProposalFits(q)
  BY DEF EvolutionInv
<1>8. /\ proposals[q].status \in {"applied", "applying", "proposed"}
      /\ pc = "claim" => proposals[q].status = "proposed" /\ Applicable(q)
  BY <1>1
<1>9. StepFits(pc, q)
  BY <1>7, <1>8 DEF StepFits, Applicable, ProposalFits, Claimed
<1>10. StepFits(pc, q)'
  BY <1>2, <1>9 DEF StepFits
<1>11. pc \in Pc /\ pc \notin Claimed
  BY DEF Pc, Claimed
<1> QED
  BY <1>3, <1>4, <1>5, <1>6, <1>10, <1>11, DoesKeeps

LEMMA ClaimKeeps ==
  ASSUME EvolutionInv, NEW a \in Actor, Claim(a)
  PROVE  EvolutionInv'
<1>0. PICK q \in Proposal : q = procs[a].p
  BY Standing DEF Claim, At, Pc
<1>1. /\ procs[a].pc = "claim" /\ Moved(q, "proposed", "applying")
      /\ UNCHANGED <<experiments, approved, events, activations, writes, live, edits>>
      /\ IF proposals[q].status = "proposed" THEN Goto(a, "reread") ELSE Rest(a)
  BY <1>0 DEF Claim, At, itemVars
<1>2. procs[a] # Idle /\ StepFits("claim", q) /\ ProposalFits(q)
  BY <1>0, <1>1, Standing DEF Pc
<1>3. proposals[q].status # "none"
  BY <1>2 DEF StepFits
<1>4. procs' = [b \in Actor |-> procs'[b]]
  BY <1>1, ProcsTyped DEF Goto, Rest
<1>5. TypeInv' /\ \A p \in Proposal : ProposalFits(p)' /\ Advances(p) /\ Untouched(p)
  BY <1>1, <1>2, <1>3, <1>4, MovedFits
<1>6. CASE proposals[q].status = "proposed"
  <2>1. proposals'[q].status = "applying"
    BY <1>1, <1>2, <1>3, <1>6, MovedRow DEF ProposalStatus
  <2>2. q \in approved /\ experiments[q].passed /\ events[q].kind = "none" /\ writes[q] = 0
    BY <1>2, <1>6 DEF StepFits, ProposalFits
  <2>3. StepFits("reread", q)'
    BY <1>1, <2>1, <2>2 DEF StepFits
  <2>4. \A b \in Actor : ~Applying(b, q)
    BY <1>6, Standing DEF Applying, StepFits, Claimed, Pc
  <2> QED
    BY <1>0, <1>1, <1>2, <1>5, <1>6, <2>3, <2>4, GotoKeeps DEF Pc
<1>7. CASE proposals[q].status # "proposed"
  BY <1>1, <1>5, <1>7, RestKeeps
<1> QED
  BY <1>6, <1>7

\* Nobody else is where a has claimed q.
LEMMA Alone ==
  ASSUME EvolutionInv, NEW a \in Actor, NEW q \in Proposal, Applying(a, q)
  PROVE  \A b \in Actor \ {a} : ~Applying(b, q)
BY DEF EvolutionInv, OneApplies

LEMMA RereadKeeps ==
  ASSUME EvolutionInv, NEW a \in Actor, Reread(a)
  PROVE  EvolutionInv'
<1>0. PICK q \in Proposal : q = procs[a].p
  BY Standing DEF Reread, At, Pc
<1>1. /\ procs[a].pc = "reread"
      /\ UNCHANGED <<proposals, experiments, approved, events, activations, writes, live, edits>>
  BY DEF Reread, At, itemVars, ledgerVars
<1>2. procs[a] # Idle /\ StepFits("reread", q)
  BY <1>0, <1>1, Standing DEF Pc
<1>3. \A p \in Proposal : ProposalFits(p)' /\ Advances(p) /\ Untouched(p)
  BY <1>1, QuietLedger
<1>4. Applying(a, q)
  BY <1>0, <1>1 DEF Applying, Claimed
<1>5. \A b \in Actor \ {a} : ~Applying(b, q)
  BY <1>4, Alone
<1>6. StepFits("record", q)' /\ StepFits("fail", q)'
  BY <1>1, <1>2 DEF StepFits, Claimed
<1>7. CASE Read(proposals[q].target) = proposals[q].before
  <2> DEFINE k == [pc |-> "record", p |-> q, state |-> Snapshot(proposals[q].target)]
  <2>1. IsAt(k, "record", q)
    BY DEF IsAt
  <2>2. procs' = [procs EXCEPT ![a] = k]
    BY <1>0, <1>7 DEF Reread
  <2> HIDE DEF k
  <2>3. TypeInv'
    BY <1>1, <2>2, ProcsTyped DEF EvolutionInv, TypeInv
  <2>4. "record" \in Pc
    BY DEF Pc
  <2>5. \A p \in Proposal : \A b \in Actor \ {a} :
           Applying(b, p) => Untouched(p) /\ ~("record" \in Claimed /\ q = p)
    BY <1>3, <1>5
  <2>6. \A p \in Proposal : ProposalFits(p)' /\ Advances(p)
    BY <1>3
  <2> QED
    BY <1>6, <2>1, <2>2, <2>3, <2>4, <2>5, <2>6, DoesKeeps
<1>8. CASE Read(proposals[q].target) # proposals[q].before
  <2>1. Goto(a, "fail")
    BY <1>0, <1>8 DEF Reread
  <2>2. TypeInv'
    BY <1>1, <2>1, ProcsTyped DEF EvolutionInv, TypeInv, Goto
  <2> QED
    BY <1>0, <1>2, <1>3, <1>5, <1>6, <2>1, <2>2, GotoKeeps DEF Pc
<1> QED
  BY <1>7, <1>8

LEMMA RecordEventKeeps ==
  ASSUME EvolutionInv, NEW a \in Actor, RecordEvent(a)
  PROVE  EvolutionInv'
<1>0. PICK q \in Proposal : q = procs[a].p
  BY Standing DEF RecordEvent, At, Pc
<1> DEFINE e == [kind |-> "apply", state |-> procs[a].state, rolledBack |-> FALSE]
<1>1. /\ procs[a].pc = "record" /\ events' = [events EXCEPT ![q] = e] /\ Goto(a, "write")
      /\ UNCHANGED <<proposals, experiments, approved, activations, writes, live, edits>>
  BY <1>0 DEF RecordEvent, At, itemVars
<1>2. procs[a] # Idle /\ StepFits("record", q) /\ ProposalFits(q)
  BY <1>0, <1>1, Standing DEF Pc
<1>3. e.kind = "apply" /\ e.rolledBack = FALSE /\ IsEvent(e)
  BY DEF IsEvent
<1> HIDE DEF e
<1>4. events'[q] = e /\ \A p \in Proposal \ {q} : events'[p] = events[p]
  BY <1>1 DEF EvolutionInv, TypeInv
<1>5. /\ q \in approved /\ experiments[q].passed /\ events[q].kind = "none" /\ writes[q] = 0
      /\ proposals[q].status \notin {"none", "proposed", "applied", "rolled_back"}
  BY <1>2 DEF StepFits, ProposalFits, Claimed
<1>6. ~events[q].rolledBack /\ activations[q].status # "rolled_back"
  BY <1>2, <1>5 DEF ProposalFits
<1>7. ProposalFits(q)'
  BY <1>1, <1>2, <1>3, <1>4, <1>5, <1>6
     DEF ProposalFits, IsProposal, IsExperiment, IsActivation, IsEvent
<1>8. Advances(q)
  BY <1>1, <1>4, <1>5, <1>6 DEF Advances
<1>9. ASSUME NEW p \in Proposal, p # q PROVE ProposalFits(p)' /\ Advances(p) /\ Untouched(p)
  BY <1>1, <1>4, <1>9, SameLedgerFits DEF SameLedger, EvolutionInv
<1>10. StepFits("write", q)'
  BY <1>1, <1>3, <1>4, <1>5 DEF StepFits
<1>11. \A b \in Actor \ {a} : ~Applying(b, q)
  BY <1>0, <1>1, Alone DEF Applying, Claimed
<1>12. TypeInv'
  BY <1>1, ProcsTyped DEF EvolutionInv, TypeInv, Goto
<1> QED
  BY <1>0, <1>1, <1>2, <1>7, <1>8, <1>9, <1>10, <1>11, <1>12, GotoKeeps DEF Pc

\* The value of a target, whichever it is.
LEMMA PutTyped ==
  ASSUME EvolutionInv, NEW t, NEW value, Put(t, value)
  PROVE  live' = [u \in PlainTarget |-> live'[u]] /\ edits' \in Nat
BY DEF Put, EvolutionInv, TypeInv

LEMMA WriteKeeps ==
  ASSUME EvolutionInv, NEW a \in Actor, Write(a)
  PROVE  EvolutionInv'
<1>0. PICK q \in Proposal : q = procs[a].p
  BY Standing DEF Write, At, Pc
<1>1. /\ procs[a].pc = "write"
      /\ UNCHANGED <<proposals, experiments, approved, events, activations>>
  BY DEF Write, At, ledgerVars
<1>2. procs[a] # Idle /\ StepFits("write", q)
  BY <1>0, <1>1, Standing DEF Pc
<1>3. \A b \in Actor \ {a} : ~Applying(b, q)
  BY <1>0, <1>1, Alone DEF Applying, Claimed
<1>4. /\ q \in approved /\ experiments[q].passed /\ writes[q] = 0 /\ events[q].kind = "apply"
      /\ proposals[q].status \notin {"none", "proposed"}
  BY <1>2 DEF StepFits, Claimed
<1>5. CASE /\ Put(proposals[q].target, proposals[q].after)
           /\ writes' = [writes EXCEPT ![q] = @ + 1]
           /\ Goto(a, "mark")
  <2>1. writes'[q] = 1 /\ (\A p \in Proposal \ {q} : writes'[p] = writes[p])
        /\ writes' \in [Proposal -> 0..1]
    BY <1>4, <1>5 DEF EvolutionInv, TypeInv
  <2>2. ASSUME NEW p \in Proposal PROVE ProposalFits(p)' /\ Advances(p)
    <3>1. CASE p = q
      <4>1. ProposalFits(p)
        BY DEF EvolutionInv
      <4> QED
        BY <1>1, <1>4, <3>1, <4>1 DEF ProposalFits, Advances, IsProposal, IsExperiment, IsEvent,
                                      IsActivation
    <3>2. CASE p # q
      BY <1>1, <2>1, <3>2, SameLedgerFits DEF SameLedger, EvolutionInv
    <3> QED
      BY <3>1, <3>2
  <2>3. \A p \in Proposal \ {q} : Untouched(p)
    BY <1>1, <2>1 DEF Untouched
  <2>4. StepFits("mark", q)'
    BY <1>1, <1>4 DEF StepFits, Claimed
  <2>5. TypeInv'
    BY <1>1, <1>5, <2>1, PutTyped, ProcsTyped DEF EvolutionInv, TypeInv, Goto
  <2> QED
    BY <1>0, <1>2, <1>3, <1>5, <2>2, <2>3, <2>4, <2>5, GotoKeeps DEF Pc
<1>6. CASE Goto(a, "fail") /\ UNCHANGED <<itemVars, live, writes>>
  <2>1. \A p \in Proposal : ProposalFits(p)' /\ Advances(p) /\ Untouched(p)
    BY <1>1, <1>6, QuietLedger
  <2>2. StepFits("fail", q)'
    BY <1>1, <1>4 DEF StepFits, Claimed
  <2>3. TypeInv'
    BY <1>1, <1>6, ProcsTyped DEF EvolutionInv, TypeInv, Goto, itemVars
  <2> QED
    BY <1>0, <1>2, <1>3, <1>6, <2>1, <2>2, <2>3, GotoKeeps DEF Pc
<1> QED
  BY <1>0, <1>5, <1>6 DEF Write

LEMMA SettleKeeps ==
  ASSUME EvolutionInv, NEW a \in Actor, Settle(a)
  PROVE  EvolutionInv'
<1>0. PICK q \in Proposal : q = procs[a].p
  BY Standing DEF Settle, Pc
<1>1. PICK to \in {"apply_failed", "apply_uncertain"} : Moved(q, "applying", to)
  BY <1>0 DEF Settle
<1>2. /\ procs[a].pc \in Pc /\ Rest(a)
      /\ UNCHANGED <<experiments, approved, events, activations, writes, live, edits>>
  BY DEF Settle, Pc, itemVars
<1>3. proposals[q].status # "none"
  BY <1>0, <1>2, Standing DEF StepFits
<1>4. procs' = [b \in Actor |-> procs'[b]]
  BY <1>2, ProcsTyped DEF Rest
<1>5. TypeInv' /\ \A p \in Proposal : ProposalFits(p)' /\ Advances(p) /\ Untouched(p)
  BY <1>1, <1>2, <1>3, <1>4, MovedFits
<1> QED
  BY <1>2, <1>5, RestKeeps

LEMMA MarkKeeps ==
  ASSUME EvolutionInv, NEW a \in Actor, Mark(a)
  PROVE  EvolutionInv'
<1>0. PICK q \in Proposal : q = procs[a].p
  BY Standing DEF Mark, At, Pc
<1>1. /\ procs[a].pc = "mark" /\ Moved(q, "applying", "applied")
      /\ UNCHANGED <<experiments, approved, events, activations, writes, live, edits>>
      /\ IF proposals[q].status = "applying" THEN Goto(a, "activate") ELSE Rest(a)
  BY <1>0 DEF Mark, At, itemVars
<1>2. procs[a] # Idle /\ StepFits("mark", q)
  BY <1>0, <1>1, Standing DEF Pc
<1>3. proposals[q].status # "none" /\ events[q].kind = "apply"
  BY <1>2 DEF StepFits
<1>4. procs' = [b \in Actor |-> procs'[b]]
  BY <1>1, ProcsTyped DEF Goto, Rest
<1>5. TypeInv' /\ \A p \in Proposal : ProposalFits(p)' /\ Advances(p) /\ Untouched(p)
  BY <1>1, <1>3, <1>4, MovedFits
<1>6. CASE proposals[q].status = "applying"
  <2>1. proposals'[q].status = "applied"
    BY <1>1, <1>3, <1>6, MovedRow DEF ProposalStatus
  <2>2. StepFits("activate", q)'
    BY <2>1 DEF StepFits, Claimed
  <2> QED
    BY <1>0, <1>1, <1>2, <1>5, <1>6, <2>2, GotoKeeps DEF Pc, Claimed
<1>7. CASE proposals[q].status # "applying"
  BY <1>1, <1>5, <1>7, RestKeeps
<1> QED
  BY <1>6, <1>7

LEMMA ReconcileKeeps ==
  ASSUME EvolutionInv, NEW a \in Actor, Reconcile(a)
  PROVE  EvolutionInv'
<1>0. PICK q \in Proposal : q = procs[a].p
  BY Standing DEF Reconcile, At, Pc
<1>1. /\ procs[a].pc = "reconcile"
      /\ UNCHANGED <<proposals, experiments, approved, events, activations, writes, live, edits>>
  BY DEF Reconcile, At, itemVars, ledgerVars
<1>2. PICK v \in {"mark", "fail", "uncertain"} :
        Goto(a, v) /\ (v = "mark" => events[q].kind = "apply")
  <2> DEFINE now == Read(proposals[q].target)
             v == CASE now = proposals[q].after /\ events[q].kind = "apply" -> "mark"
                    [] now = proposals[q].before -> "fail"
                    [] OTHER -> "uncertain"
  <2>1. Goto(a, v)
    BY <1>0 DEF Reconcile
  <2>2. CASE now = proposals[q].after /\ events[q].kind = "apply"
    <3>1. v \in {"mark", "fail"}
      BY <2>2
    <3> QED
      BY <2>1, <2>2, <3>1
  <2>3. CASE ~(now = proposals[q].after /\ events[q].kind = "apply")
    <3>1. v \in {"fail", "uncertain"}
      BY <2>3
    <3> QED
      BY <2>1, <3>1
  <2> QED
    BY <2>2, <2>3
<1>3. procs[a] # Idle /\ StepFits("reconcile", q)
  BY <1>0, <1>1, Standing DEF Pc
<1>4. StepFits(v, q)'
  BY <1>1, <1>2, <1>3 DEF StepFits, Claimed
<1>5. \A p \in Proposal : ProposalFits(p)' /\ Advances(p) /\ Untouched(p)
  BY <1>1, QuietLedger
<1>6. TypeInv'
  BY <1>1, <1>2, ProcsTyped DEF EvolutionInv, TypeInv, Goto
<1>7. v \in Pc /\ v \notin Claimed
  BY DEF Pc, Claimed
<1> QED
  BY <1>0, <1>2, <1>3, <1>4, <1>5, <1>6, <1>7, GotoKeeps

-----------------------------------------------------------------------------
(* Activations.                                                            *)

\* A transaction that writes the activation of q, and rolls back none whose
\* event is not.
LEMMA ActivationFits ==
  ASSUME EvolutionInv, NEW q \in Proposal, NEW v, IsActivation(v),
         v.status = "rolled_back" => events[q].rolledBack,
         activations' = [activations EXCEPT ![q] = v],
         proposals[q].status # "none",
         UNCHANGED <<proposals, experiments, approved, events, writes, live, edits>>,
         procs' = [b \in Actor |-> procs'[b]]
  PROVE  TypeInv' /\ \A p \in Proposal : ProposalFits(p)' /\ Advances(p) /\ Untouched(p)
<1>1. activations'[q] = v /\ \A p \in Proposal \ {q} : activations'[p] = activations[p]
  BY DEF EvolutionInv, TypeInv
<1>2. ASSUME NEW p \in Proposal PROVE ProposalFits(p)' /\ Advances(p) /\ Untouched(p)
  <2>1. CASE p = q
    <3>1. ProposalFits(p)
      BY DEF EvolutionInv
    <3>2. ProposalFits(p)'
      BY <1>1, <2>1, <3>1 DEF ProposalFits, IsProposal, IsExperiment, IsEvent, IsActivation
    <3> QED
      BY <3>2 DEF Advances, Untouched
  <2>2. CASE p # q
    BY <1>1, <2>2, SameLedgerFits DEF SameLedger, EvolutionInv
  <2> QED
    BY <2>1, <2>2
<1>3. TypeInv'
  BY DEF EvolutionInv, TypeInv
<1> QED
  BY <1>2, <1>3

\* One that writes its status only, unless v is what it was.
LEMMA StatusObserved ==
  ASSUME EvolutionInv, NEW q \in Proposal, NEW v \in ActivationStatus,
         v = "rolled_back" => events[q].rolledBack,
         activations' = [activations EXCEPT ![q].status = v],
         proposals[q].status # "none",
         UNCHANGED <<proposals, experiments, approved, events, writes, live, edits>>,
         procs' = [b \in Actor |-> procs'[b]]
  PROVE  TypeInv' /\ \A p \in Proposal : ProposalFits(p)' /\ Advances(p) /\ Untouched(p)
<1> DEFINE r == [activations[q] EXCEPT !.status = v]
<1>1. IsActivation(activations[q])
  BY DEF EvolutionInv, ProposalFits
<1>2. r = [status |-> v, count |-> activations[q].count, errors |-> activations[q].errors]
  BY <1>1, ActivationWritten DEF IsActivation
<1>3. IsActivation(r) /\ r.status = v
  BY <1>2 DEF IsActivation
<1>4. activations' = [activations EXCEPT ![q] = r]
  OBVIOUS
<1> HIDE DEF r
<1> QED
  BY <1>3, <1>4, ActivationFits

LEMMA ActivateKeeps ==
  ASSUME EvolutionInv, NEW a \in Actor, Activate(a)
  PROVE  EvolutionInv'
<1>0. PICK q \in Proposal : q = procs[a].p
  BY Standing DEF Activate, At, Pc
<1> DEFINE v == IF activations[q].status = "none" THEN "observing" ELSE activations[q].status
<1>1. /\ activations' = [activations EXCEPT ![q].status = v] /\ Rest(a)
      /\ UNCHANGED <<proposals, experiments, approved, events, writes, live, edits>>
  BY <1>0 DEF Activate, itemVars
<1>2. ProposalFits(q) /\ proposals[q].status # "none"
  BY <1>0, Standing DEF EvolutionInv, Activate, At, Pc, StepFits
<1>3. v \in ActivationStatus /\ (v = "rolled_back" => events[q].rolledBack)
  BY <1>2 DEF ProposalFits, IsActivation, ActivationStatus
<1> HIDE DEF v
<1>4. procs' = [b \in Actor |-> procs'[b]]
  BY <1>1, ProcsTyped DEF Rest
<1>5. TypeInv' /\ \A p \in Proposal : ProposalFits(p)' /\ Advances(p) /\ Untouched(p)
  BY <1>1, <1>2, <1>3, <1>4, StatusObserved
<1> QED
  BY <1>1, <1>5, RestKeeps

LEMMA UnobserveKeeps ==
  ASSUME EvolutionInv, NEW a \in Actor, Unobserve(a)
  PROVE  EvolutionInv'
<1>0. PICK q \in Proposal : q = procs[a].p
  BY Standing DEF Unobserve, At, Pc
<1> DEFINE v == IF activations[q].status = "none" THEN activations[q].status ELSE "rolled_back"
<1>1. /\ procs[a].pc = "unobserve" /\ Rest(a)
      /\ activations' = [activations EXCEPT ![q].status = v]
      /\ UNCHANGED <<proposals, experiments, approved, events, writes, live, edits>>
  BY <1>0 DEF Unobserve, At, itemVars
<1>2. events[q].rolledBack /\ proposals[q].status # "none"
  BY <1>0, <1>1, Standing DEF StepFits, Pc
<1>3. v \in ActivationStatus
  BY DEF ActivationStatus
<1> HIDE DEF v
<1>4. procs' = [b \in Actor |-> procs'[b]]
  BY <1>1, ProcsTyped DEF Rest
<1>5. TypeInv' /\ \A p \in Proposal : ProposalFits(p)' /\ Advances(p) /\ Untouched(p)
  BY <1>1, <1>2, <1>3, <1>4, StatusObserved
<1> QED
  BY <1>1, <1>5, RestKeeps

LEMMA OutcomeWritten ==
  ASSUME NEW r, r = [status |-> r.status, count |-> r.count, errors |-> r.errors],
         NEW c, NEW e
  PROVE  [r EXCEPT !.count = c, !.errors = e] = [status |-> r.status, count |-> c, errors |-> e]
<1> DEFINE s == [r EXCEPT !.count = c]
<1>1. s = [status |-> r.status, count |-> c, errors |-> r.errors]
  OBVIOUS
<1> HIDE DEF s
<1>2. [s EXCEPT !.errors = e] = [status |-> r.status, count |-> c, errors |-> e]
  BY <1>1
<1> QED
  BY <1>2 DEF s

LEMMA ObserveKeeps ==
  ASSUME EvolutionInv, NEW a \in Actor, NEW q \in Proposal, NEW error, Observe(a, q, error)
  PROVE  EvolutionInv'
<1> DEFINE seen == [activations[q] EXCEPT !.count = @ + 1, !.errors = @ + error]
           status == IF activations[q].status = "regressed" THEN "regressed" ELSE Verdict(seen)
           v == [seen EXCEPT !.status = status]
           k == [pc |-> "regressed", p |-> q, state |-> "none"]
<1>1. /\ activations[q].status \in {"observing", "regressed"}
      /\ activations' = IF activations[q].status = "regressed" THEN activations
                        ELSE [activations EXCEPT ![q] = v]
      /\ procs' = IF status = "regressed" THEN [procs EXCEPT ![a] = k] ELSE procs
      /\ UNCHANGED <<proposals, experiments, approved, events, writes, live, edits>>
  BY DEF Observe, itemVars
<1>2. IsActivation(activations[q]) /\ ProposalFits(q)
  BY DEF EvolutionInv, ProposalFits
<1>0. proposals[q].status # "none"
  BY <1>1, <1>2 DEF ProposalFits
<1>3. status \in {"observing", "healthy", "regressed"}
  BY DEF Verdict
<1>4. IsAt(k, "regressed", q)
  BY DEF IsAt
<1> HIDE DEF status, k
<1>5. seen = [status |-> seen.status, count |-> seen.count, errors |-> seen.errors]
  BY <1>2, OutcomeWritten DEF IsActivation
<1> HIDE DEF seen
<1>6. v = [status |-> status, count |-> seen.count, errors |-> seen.errors]
  BY <1>5, ActivationWritten
<1>7. IsActivation(v) /\ v.status = status
  BY <1>3, <1>6 DEF IsActivation, ActivationStatus
<1> HIDE DEF v
<1>8. procs' = [b \in Actor |-> procs'[b]]
  BY <1>1 DEF EvolutionInv, TypeInv
<1>9. TypeInv' /\ \A p \in Proposal : ProposalFits(p)' /\ Advances(p) /\ Untouched(p)
  <2>1. CASE activations[q].status = "regressed"
    BY <1>1, <1>8, <2>1, QuietLedger DEF EvolutionInv, TypeInv
  <2>2. CASE activations[q].status # "regressed"
    BY <1>0, <1>1, <1>3, <1>7, <1>8, <2>2, ActivationFits
  <2> QED
    BY <2>1, <2>2
<1>10. CASE status = "regressed"
  <2>1. procs' = [procs EXCEPT ![a] = k]
    BY <1>1, <1>10
  <2>2. "regressed" \in Pc /\ "regressed" \notin Claimed
    BY DEF Pc, Claimed
  <2>3. StepFits("regressed", q)'
    BY <1>0, <1>1 DEF StepFits, Claimed
  <2>4. \A p \in Proposal : ProposalFits(p)' /\ Advances(p)
    BY <1>9
  <2> QED
    BY <1>4, <1>9, <2>1, <2>2, <2>3, <2>4, DoesKeeps
<1>11. CASE status # "regressed"
  BY <1>1, <1>9, <1>11, LedgerStep
<1> QED
  BY <1>10, <1>11

-----------------------------------------------------------------------------
(* The rollback.                                                           *)

LEMMA RollbackKeeps ==
  ASSUME EvolutionInv, NEW a \in Actor, NEW q \in Proposal, Bound(q), Rollback(a, q)
  PROVE  EvolutionInv'
<1> DEFINE v == IF events[q].rolledBack THEN "unobserve" ELSE "restore"
           k == [pc |-> v, p |-> q, state |-> "none"]
<1>1. /\ procs' = [procs EXCEPT ![a] = k]
      /\ UNCHANGED <<proposals, experiments, approved, events, activations, writes, live, edits>>
  BY DEF Rollback, itemVars, ledgerVars
<1>2. IsAt(k, v, q)
  BY DEF IsAt
<1> HIDE DEF k
<1>3. /\ v \in {"unobserve", "restore"} /\ (v = "unobserve" => events[q].rolledBack)
      /\ proposals[q].status \in {"applied", "rolled_back"}
  BY DEF Bound
<1> HIDE DEF v
<1>4. PICK w \in Pc : w = v
  BY <1>3 DEF Pc
<1>5. StepFits(w, q)'
  BY <1>1, <1>3, <1>4 DEF StepFits, Claimed
<1>6. w \notin Claimed
  BY <1>3, <1>4 DEF Claimed
<1>7. TypeInv'
  BY <1>1, ProcsTyped DEF EvolutionInv, TypeInv
<1>8. \A p \in Proposal : ProposalFits(p)' /\ Advances(p) /\ Untouched(p)
  BY <1>1, QuietLedger
<1>9. IsAt(k, w, q) /\ \A p \in Proposal : ProposalFits(p)' /\ Advances(p)
  BY <1>2, <1>4, <1>8
<1> QED
  BY <1>1, <1>5, <1>6, <1>7, <1>8, <1>9, DoesKeeps

LEMMA RestoreKeeps ==
  ASSUME EvolutionInv, NEW a \in Actor, Restore(a)
  PROVE  EvolutionInv'
<1>0. PICK q \in Proposal : q = procs[a].p
  BY Standing DEF Restore, At, Pc
<1>1. /\ procs[a].pc = "restore" /\ Goto(a, "commit")
      /\ Put(proposals[q].target, events[q].state)
      /\ UNCHANGED <<proposals, experiments, approved, events, activations, writes>>
  BY <1>0 DEF Restore, At, ledgerVars
<1>2. procs[a] # Idle /\ StepFits("restore", q)
  BY <1>0, <1>1, Standing DEF Pc
<1>3. StepFits("commit", q)'
  BY <1>1, <1>2 DEF StepFits, Claimed
<1>4. TypeInv'
  BY <1>1, PutTyped, ProcsTyped DEF EvolutionInv, TypeInv, Goto
<1>5. \A p \in Proposal : ProposalFits(p)' /\ Advances(p) /\ Untouched(p)
  BY <1>1, QuietLedger
<1>6. "commit" \in Pc /\ "commit" \notin Claimed
  BY DEF Pc, Claimed
<1> QED
  BY <1>0, <1>1, <1>2, <1>3, <1>4, <1>5, <1>6, GotoKeeps

LEMMA CommitKeeps ==
  ASSUME EvolutionInv, NEW a \in Actor, Commit(a)
  PROVE  EvolutionInv'
<1>0. PICK q \in Proposal : q = procs[a].p
  BY Standing DEF Commit, At, Pc
<1> DEFINE e == [events[q] EXCEPT !.rolledBack = TRUE]
           r == [proposals[q] EXCEPT !.status = "rolled_back"]
<1>1. /\ procs[a].pc = "commit" /\ Goto(a, "unobserve")
      /\ events' = [events EXCEPT ![q] = e]
      /\ proposals' = [proposals EXCEPT ![q] = r]
      /\ UNCHANGED <<experiments, approved, activations, writes, live, edits>>
  BY <1>0 DEF Commit, At, itemVars
<1>2. procs[a] # Idle /\ StepFits("commit", q) /\ ProposalFits(q)
  BY <1>0, <1>1, Standing DEF Pc
<1>3. proposals[q].status \in {"applied", "rolled_back"} /\ events[q].kind = "apply"
  BY <1>2 DEF StepFits, ProposalFits
<1>4. IsProposal(proposals[q]) /\ proposals[q] # None /\ IsEvent(events[q])
  BY <1>2, <1>3 DEF ProposalFits, None
<1>5. e = [kind |-> events[q].kind, state |-> events[q].state, rolledBack |-> TRUE]
  BY <1>4, RolledBackWritten DEF IsEvent
<1>6. IsEvent(e) /\ e.kind = "apply" /\ e.rolledBack = TRUE
  BY <1>3, <1>5 DEF IsEvent
<1>7. r = [status |-> "rolled_back", target |-> proposals[q].target,
           before |-> proposals[q].before, after |-> proposals[q].after,
           evaluation |-> proposals[q].evaluation]
  BY <1>4, StatusWritten DEF IsProposal
<1>8. IsProposal(r) /\ r.status = "rolled_back"
  BY <1>7 DEF IsProposal, ProposalStatus
<1> HIDE DEF e, r
<1>9. /\ events'[q] = e /\ proposals'[q] = r
      /\ \A p \in Proposal \ {q} : events'[p] = events[p] /\ proposals'[p] = proposals[p]
  BY <1>1 DEF EvolutionInv, TypeInv
<1>10. q \in approved /\ experiments[q].passed
  BY <1>2, <1>3 DEF ProposalFits
<1>11. ProposalFits(q)'
  BY <1>1, <1>2, <1>6, <1>8, <1>9, <1>10
     DEF ProposalFits, IsProposal, IsExperiment, IsActivation, IsEvent
<1>12. Advances(q) /\ Untouched(q)
  BY <1>1, <1>3, <1>6, <1>8, <1>9 DEF Advances, Untouched
<1>13. ASSUME NEW p \in Proposal, p # q PROVE ProposalFits(p)' /\ Advances(p) /\ Untouched(p)
  BY <1>1, <1>9, <1>13, SameLedgerFits DEF SameLedger, EvolutionInv
<1>14. \A p \in Proposal : ProposalFits(p)' /\ Advances(p) /\ Untouched(p)
  BY <1>11, <1>12, <1>13
<1>15. StepFits("unobserve", q)'
  BY <1>6, <1>8, <1>9 DEF StepFits, Claimed
<1>16. TypeInv'
  BY <1>1, ProcsTyped DEF EvolutionInv, TypeInv, Goto
<1>17. "unobserve" \in Pc /\ "unobserve" \notin Claimed
  BY DEF Pc, Claimed
<1> QED
  BY <1>0, <1>1, <1>2, <1>14, <1>15, <1>16, <1>17, GotoKeeps

LEMMA RollbackObservedKeeps ==
  ASSUME EvolutionInv, NEW a \in Actor, RollbackObserved(a)
  PROVE  EvolutionInv'
<1>0. PICK q \in Proposal : q = procs[a].p
  BY Standing DEF RollbackObserved, At, Pc
<1>1. CASE Bound(q) /\ Rollback(a, q)
  BY <1>1, RollbackKeeps
<1>2. CASE Rest(a) /\ UNCHANGED <<itemVars, live, ledgerVars, trial, lock, writes, faults>>
  <2>1. UNCHANGED <<proposals, experiments, approved, events, activations, writes, live, edits>>
    BY <1>2 DEF itemVars, ledgerVars
  <2>2. TypeInv'
    BY <1>2, <2>1, ProcsTyped DEF EvolutionInv, TypeInv, Rest
  <2> QED
    BY <1>2, <2>1, <2>2, QuietLedger, RestKeeps
<1> QED
  BY <1>0, <1>1, <1>2 DEF RollbackObserved

-----------------------------------------------------------------------------
(* Self-play, other writers and crashes.                                   *)

\* Whoever changes only what the targets hold.
LEMMA TargetStep ==
  ASSUME EvolutionInv, UNCHANGED <<ledgerVars, procs, writes>>,
         live' = [t \in PlainTarget |-> live'[t]], edits' \in Nat
  PROVE  EvolutionInv'
<1>1. UNCHANGED <<proposals, experiments, approved, events, activations, procs, writes>>
  BY DEF ledgerVars
<1>2. TypeInv'
  BY <1>1 DEF EvolutionInv, TypeInv
<1> QED
  BY <1>1, <1>2, QuietLedger, LedgerStep

LEMMA OthersKeep ==
  ASSUME EvolutionInv
  PROVE  /\ MemoryStep /\ UNCHANGED evoVars => EvolutionInv'
         /\ \A t, cs : Generate(t, cs) => EvolutionInv'
         /\ ExecuteTrial => EvolutionInv'
         /\ \A t : EditTarget(t) => EvolutionInv'
<1>0. live = [t \in PlainTarget |-> live[t]] /\ edits \in Nat
  BY DEF EvolutionInv, TypeInv
<1>1. CASE MemoryStep /\ UNCHANGED evoVars
  <2>1. edits' \in {edits, edits + 1}
    BY <1>1 DEF MemoryStep, ReadRow, StoreRevoked, StoreActivated, StorePenalised, AskAudit,
                AnswerAudit
  <2>2. UNCHANGED <<ledgerVars, procs, writes, live>>
    BY <1>1 DEF evoVars
  <2> QED
    BY <1>0, <2>1, <2>2, TargetStep
<1>2. ASSUME NEW t, NEW cs, Generate(t, cs) PROVE EvolutionInv'
  BY <1>0, <1>2, TargetStep DEF Generate
<1>3. CASE ExecuteTrial
  <2>1. live' = [t \in PlainTarget |-> live'[t]]
    BY <1>0, <1>3 DEF ExecuteTrial
  <2> QED
    BY <1>0, <1>3, <2>1, TargetStep DEF ExecuteTrial, itemVars
<1>4. ASSUME NEW t, EditTarget(t) PROVE EvolutionInv'
  BY <1>0, <1>4, TargetStep DEF EditTarget
<1> QED
  BY <1>1, <1>2, <1>3, <1>4

LEMMA CrashKeeps ==
  ASSUME EvolutionInv, NEW a \in Actor, Crash(a)
  PROVE  EvolutionInv'
<1>1. /\ Rest(a)
      /\ UNCHANGED <<proposals, experiments, approved, events, activations, writes, live, edits>>
  BY DEF Crash, itemVars, ledgerVars
<1>2. TypeInv'
  BY <1>1, ProcsTyped DEF EvolutionInv, TypeInv, Rest
<1> QED
  BY <1>1, <1>2, QuietLedger, RestKeeps

-----------------------------------------------------------------------------
(* Every step.                                                             *)

LEMMA InitFits == Init => EvolutionInv
<1> SUFFICES ASSUME Init PROVE EvolutionInv
  OBVIOUS
<1>1. TypeInv
  BY DEF Init, TypeInv, PlainTarget, Plain
<1>2. ASSUME NEW p \in Proposal PROVE ProposalFits(p)
  BY DEF Init, ProposalFits, IsProposal, IsExperiment, IsEvent, IsActivation, None, NoEvent,
         NoActivation, ActivationStatus
<1>3. \A a \in Actor : procs[a] = Idle
  BY DEF Init
<1>4. \A a \in Actor : ActorFits(a)
  BY <1>3 DEF ActorFits, IsProcess
<1>5. Idle.pc \notin Claimed
  BY DEF Idle, Claimed
<1>6. OneApplies
  BY <1>3, <1>5 DEF OneApplies, Applying
<1> QED
  BY <1>1, <1>2, <1>4, <1>6 DEF EvolutionInv

LEMMA NextKeeps == EvolutionInv /\ [Next]_vars => EvolutionInv'
<1> SUFFICES ASSUME EvolutionInv, [Next]_vars PROVE EvolutionInv'
  OBVIOUS
<1>1. CASE MemoryStep /\ UNCHANGED evoVars
  BY <1>1, OthersKeep
<1>2. CASE \E p \in Proposal, t \in Target : \E c \in Candidates(t) : Propose(p, t, c)
  BY <1>2, ProposeKeeps
<1>3. CASE \E p \in Proposal : Experiment(p) \/ Approve(p)
  BY <1>3, ExperimentKeeps, ApproveKeeps
<1>4. CASE \E p \in Proposal, r \in {"approved", "rejected"} : RecordEvaluation(p, r)
  BY <1>4, RecordEvaluationKeeps
<1>5. ASSUME NEW a \in Actor, ApplyStep(a) PROVE EvolutionInv'
  BY <1>5, BeginApplyKeeps, ClaimKeeps, RereadKeeps, RecordEventKeeps, WriteKeeps, SettleKeeps,
     MarkKeeps, ActivateKeeps, ReconcileKeeps DEF ApplyStep
<1>6. ASSUME NEW a \in Actor, RollbackStep(a) PROVE EvolutionInv'
  BY <1>6, RestoreKeeps, CommitKeeps, UnobserveKeeps, RollbackObservedKeeps DEF RollbackStep
<1>7. CASE \E a \in Actor, p \in Proposal : BeginRollback(a, p)
  BY <1>7, RollbackKeeps DEF BeginRollback
<1>8. CASE \E a \in Process, p \in Proposal, error \in 0..1 : Observe(a, p, error)
  BY <1>8, ObserveKeeps DEF Actor
<1>9. CASE GenerateParameter \/ GeneratePrompt
  BY <1>9, OthersKeep DEF GenerateParameter, GeneratePrompt
<1>10. CASE ExecuteTrial
  BY <1>10, OthersKeep
<1>11. CASE \E t \in PlainTarget : EditTarget(t)
  BY <1>11, OthersKeep
<1>12. CASE UNCHANGED vars
  <2>1. UNCHANGED <<ledgerVars, procs, writes, live, edits>>
    BY <1>12 DEF vars, evoVars, itemVars
  <2> QED
    BY <2>1, TargetStep DEF EvolutionInv, TypeInv
<1> QED
  BY <1>1, <1>2, <1>3, <1>4, <1>5, <1>6, <1>7, <1>8, <1>9, <1>10, <1>11, <1>12, CrashKeeps
     DEF Next

-----------------------------------------------------------------------------
(* Theorems.                                                               *)

\* The invariant holds, whatever the processes do and wherever they die.
THEOREM EvolutionInvHolds == Spec => []EvolutionInv
BY InitFits, NextKeeps, PTL DEF Spec

\* No candidate lands twice (claim_for_apply, _reconcile_applying).
THEOREM LandsOnce == Spec => []AppliedOnce
<1>1. EvolutionInv => AppliedOnce
  BY DEF EvolutionInv, TypeInv, AppliedOnce
<1> QED
  BY <1>1, EvolutionInvHolds, PTL

\* The apply event, the proposal and its activation agree on a rollback
\* (rollback_applied_event, mark_applied, mark_rolled_back).
THEOREM RollbacksAgree == Spec => []RollbackAgrees
<1>1. EvolutionInv => RollbackAgrees
  BY DEF EvolutionInv, ProposalFits, RollbackAgrees
<1> QED
  BY <1>1, EvolutionInvHolds, PTL

\* What may change a prompt: the candidate of an apply, or its rollback.
OnRecord == \E p \in Proposal : /\ events[p].kind = "apply" /\ proposals[p].target = "layer"
                                /\ p \in approved /\ experiments[p].passed

LEMMA PutOnRecord ==
  ASSUME EvolutionInv, NEW q \in Proposal, NEW value, Put(proposals[q].target, value),
         live'.layer # live.layer, events[q].kind = "apply"
  PROVE  OnRecord
<1>1. live = [t \in PlainTarget |-> live[t]] /\ "layer" \in PlainTarget
  BY DEF EvolutionInv, TypeInv, PlainTarget, Plain
<1>2. proposals[q].target = "layer"
  BY <1>1 DEF Put
<1>3. q \in approved /\ experiments[q].passed
  BY DEF EvolutionInv, ProposalFits
<1> QED
  BY <1>2, <1>3 DEF OnRecord

\* Whatever the system does to the prompt it runs under is on record: an apply
\* event of a proposal a person approved and an experiment passed; self-play
\* promotes no prompt (execute_shadow_trial, assert_proposal_applicable).
THEOREM PromptsAreGoverned == Spec => PromptIsGoverned
<1>1. ASSUME EvolutionInv, [Next]_vars, live'.layer # live.layer
      PROVE  edits' # edits \/ OnRecord
  <2>0. live = [t \in PlainTarget |-> live[t]] /\ "layer" \in PlainTarget /\ edits \in Nat
    BY <1>1 DEF EvolutionInv, TypeInv, PlainTarget, Plain
  <2>1. ASSUME NEW a \in Actor, Write(a) PROVE OnRecord
    <3>1. procs[a].pc = "write"
      BY <2>1 DEF Write, At
    <3>2. procs[a].p \in Proposal /\ events[procs[a].p].kind = "apply"
      BY <1>1, <3>1, Standing DEF StepFits, Pc
    <3>3. Put(proposals[procs[a].p].target, proposals[procs[a].p].after)
      BY <1>1, <2>1 DEF Write
    <3> QED
      BY <1>1, <3>2, <3>3, PutOnRecord
  <2>2. ASSUME NEW a \in Actor, Restore(a) PROVE OnRecord
    <3>1. procs[a].pc = "restore"
      BY <2>2 DEF Restore, At
    <3>2. procs[a].p \in Proposal /\ events[procs[a].p].kind = "apply"
      BY <1>1, <3>1, Standing DEF StepFits, ProposalFits, Pc
    <3>3. Put(proposals[procs[a].p].target, events[procs[a].p].state)
      BY <2>2 DEF Restore
    <3> QED
      BY <1>1, <3>2, <3>3, PutOnRecord
  <2>3. ASSUME NEW t, NEW cs, Generate(t, cs) PROVE edits' # edits
    BY <2>0, <2>3 DEF Generate
  <2>4. ASSUME NEW t, EditTarget(t) PROVE edits' # edits
    BY <2>0, <2>4 DEF EditTarget
  <2>5. ASSUME ExecuteTrial PROVE FALSE
    <3>1. PICK c : \/ \E v : live' = [live EXCEPT !.param = v]
                   \/ /\ Promotes(trial.target) /\ trial.target # "param"
                      /\ live' = [live EXCEPT ![trial.target] = c]
      BY <1>1, <2>5 DEF ExecuteTrial
    <3>2. ~ \E v : live' = [live EXCEPT !.param = v]
      BY <1>1, <2>0
    <3>3. trial.target = "layer"
      BY <1>1, <2>0, <3>1, <3>2
    <3> QED
      BY <3>1, <3>2, <3>3 DEF Promotes, EvalCases, Stubs
  <2>6. CASE MemoryStep /\ UNCHANGED evoVars
    BY <1>1, <2>6 DEF evoVars
  <2>7. CASE \/ \E p \in Proposal, t \in Target : \E c \in Candidates(t) : Propose(p, t, c)
             \/ \E p \in Proposal : Experiment(p) \/ Approve(p)
             \/ \E p \in Proposal, r \in {"approved", "rejected"} : RecordEvaluation(p, r)
             \/ \E a \in Actor, p \in Proposal : BeginRollback(a, p)
             \/ \E a \in Process, p \in Proposal, error \in 0..1 : Observe(a, p, error)
    BY <1>1, <2>7 DEF Propose, Experiment, Approve, RecordEvaluation, BeginRollback, Rollback,
                      Observe
  <2>8. ASSUME NEW a \in Actor, ApplyStep(a) \/ RollbackStep(a) \/ Crash(a) PROVE OnRecord
    BY <1>1, <2>1, <2>2, <2>8
       DEF ApplyStep, RollbackStep, Crash, BeginApply, Claim, Reread, RecordEvent, Settle, Mark,
           Activate, Reconcile, Commit, Unobserve, RollbackObserved, Rollback
  <2>9. CASE UNCHANGED vars
    BY <1>1, <2>9 DEF vars, evoVars
  <2> QED
    BY <1>1, <2>3, <2>4, <2>5, <2>6, <2>7, <2>8, <2>9 DEF Next, GenerateParameter, GeneratePrompt
<1> DEFINE Governed ==
      live'.layer # live.layer
        => \/ edits' # edits
           \/ \E p \in Proposal : /\ events[p].kind = "apply"
                                  /\ proposals[p].target = "layer"
                                  /\ p \in approved /\ experiments[p].passed
<1>2. EvolutionInv /\ [Next]_vars => Governed
  BY <1>1 DEF OnRecord
<1>3. PromptIsGoverned <=> [][Governed]_vars
  BY DEF PromptIsGoverned
<1> HIDE DEF Governed
<1> QED
  BY <1>2, <1>3, EvolutionInvHolds, PTL DEF Spec

-----------------------------------------------------------------------------
(* Consolidation.  A job passes between workers, leases and retention; the *)
(* invariant says that whatever may lead to the deletion of a transcript   *)
(* vouches for what was learned from it.                                   *)

\* A row of the queue: what is over has no owner, so that no claimer that
\* comes late with a result can touch it.
JobFits(j) ==
    /\ jobs[j] = [status |-> jobs[j].status, owner |-> jobs[j].owner, lapsed |-> jobs[j].lapsed]
    /\ jobs[j].status \in JobStatus
    /\ jobs[j].owner \in Worker \cup {NoWorker}
    /\ jobs[j].status \in {"completed", "purged"} => jobs[j].owner = NoWorker

\* A worker is busy with the first job of its batch.
IsWork(k) ==
    /\ k = [at |-> k.at, batch |-> k.batch, visible |-> k.visible]
    /\ k.at \in {"idle", "next", "asking", "applied", "failed"}
    /\ k.batch \in Seq(Job) /\ k.visible \subseteq Item
    /\ k.at # "idle" => k.batch # <<>>

WorkFits(w) == IsWork(work[w])

QueueInv ==
    /\ jobs = [j \in Job |-> jobs[j]] /\ work = [w \in Worker |-> work[w]]
    /\ \A j \in Job : JobFits(j)
    /\ \A w \in Worker : WorkFits(w)

\* Whatever may lead to a deletion says that the episode was learned: a row
\* that is over, retention's decision, the deletion, and the worker that is
\* about to settle the row.
Vouched(e) ==
    transcript[e] = "deleted" \/ e \in retention \/ jobs[e].status \in {"completed", "purged"}

LearnedInv ==
    /\ transcript \in [Episode -> {"none", "recording", "kept", "deleted"}]
    /\ \A e \in Episode : Vouched(e) => e \in learned
    /\ \A w \in Worker :
          work[w].at = "applied" /\ Current(w) \in Episode => Current(w) \in learned

JobsInv == QueueInv /\ LearnedInv

-----------------------------------------------------------------------------
(* Lemmas.                                                                 *)

LEMMA RowWithStatus ==
  ASSUME NEW r, r = [status |-> r.status, owner |-> r.owner, lapsed |-> r.lapsed], NEW v
  PROVE  [r EXCEPT !.status = v] = [status |-> v, owner |-> r.owner, lapsed |-> r.lapsed]
OBVIOUS

LEMMA RowWithLapse ==
  ASSUME NEW r, r = [status |-> r.status, owner |-> r.owner, lapsed |-> r.lapsed], NEW v
  PROVE  [r EXCEPT !.lapsed = v] = [status |-> r.status, owner |-> r.owner, lapsed |-> v]
OBVIOUS

LEMMA NewRows ==
  /\ Pending = [status |-> "pending", owner |-> NoWorker, lapsed |-> FALSE]
  /\ \A v : [NoRow EXCEPT !.status = v]
                = [status |-> v, owner |-> NoWorker, lapsed |-> FALSE]
<1>1. NoRow.status = "none" /\ NoRow.owner = NoWorker /\ NoRow.lapsed = FALSE
  BY DEF NoRow
<1>2. NoRow = [status |-> NoRow.status, owner |-> NoRow.owner, lapsed |-> NoRow.lapsed]
  BY <1>1 DEF NoRow
<1>3. ASSUME NEW r, r = NoRow, NEW v
      PROVE  [r EXCEPT !.status = v] = [status |-> v, owner |-> NoWorker, lapsed |-> FALSE]
  <2>1. r = [status |-> r.status, owner |-> r.owner, lapsed |-> r.lapsed]
    BY <1>2, <1>3
  <2>2. [r EXCEPT !.status = v] = [status |-> v, owner |-> r.owner, lapsed |-> r.lapsed]
    BY <2>1, RowWithStatus
  <2> QED
    BY <1>1, <1>3, <2>2
<1>4. \A v : [NoRow EXCEPT !.status = v]
                = [status |-> v, owner |-> NoWorker, lapsed |-> FALSE]
  BY <1>3
<1> QED
  BY <1>4 DEF Pending

\* One row is written, or none: the others fit as before.
LEMMA RowWritten ==
  ASSUME QueueInv, NEW j, NEW row, jobs' = [jobs EXCEPT ![j] = row],
         j \in Job => JobFits(j)', \A w \in Worker : WorkFits(w)',
         work' = [w \in Worker |-> work'[w]]
  PROVE  QueueInv'
<1>1. jobs' = [k \in Job |-> jobs'[k]]
  BY DEF QueueInv
<1>2. ASSUME NEW k \in Job PROVE JobFits(k)'
  <2>1. CASE k = j
    BY <2>1
  <2>2. CASE k # j
    <3>1. jobs'[k] = jobs[k]
      BY <2>2 DEF QueueInv
    <3> QED
      BY <3>1 DEF QueueInv, JobFits
  <2> QED
    BY <2>1, <2>2
<1> QED
  BY <1>1, <1>2 DEF QueueInv

\* The queue as it was.
LEMMA QueueKept == ASSUME QueueInv, UNCHANGED <<jobs, work>> PROVE QueueInv'
BY DEF QueueInv, JobFits, WorkFits

LEMMA WorkKept == ASSUME QueueInv, UNCHANGED work
                  PROVE  /\ \A w \in Worker : WorkFits(w)'
                         /\ work' = [w \in Worker |-> work'[w]]
BY DEF QueueInv, WorkFits

\* One worker moves: the others fit as before.
LEMMA WorkWritten ==
  ASSUME QueueInv, NEW w \in Worker, NEW k, work' = [work EXCEPT ![w] = k], IsWork(k)
  PROVE  /\ \A u \in Worker : WorkFits(u)' /\ work'[u] = IF u = w THEN k ELSE work[u]
         /\ work' = [u \in Worker |-> work'[u]]
<1>1. work' = [u \in Worker |-> IF u = w THEN k ELSE work[u]]
  BY DEF QueueInv
<1>2. ASSUME NEW u \in Worker PROVE WorkFits(u)'
  BY <1>1 DEF QueueInv, WorkFits
<1> QED
  BY <1>1, <1>2

LEMMA WorkMade ==
  ASSUME NEW at \in {"idle", "next", "asking", "applied", "failed"}, NEW batch \in Seq(Job),
         NEW visible \in SUBSET Item, at # "idle" => batch # <<>>
  PROVE  IsWork([at |-> at, batch |-> batch, visible |-> visible])
BY DEF IsWork

\* A job is asked for where there is none.
LEMMA EnqueuedFits ==
  ASSUME QueueInv, NEW j \in Job, jobs' = Enqueued(j), UNCHANGED work
  PROVE  /\ QueueInv'
         /\ \A k \in Job : jobs'[k].status \in {"completed", "purged"}
                              <=> jobs[k].status \in {"completed", "purged"}
<1>1. CASE jobs[j].status = "none"
  <2>1. jobs' = [jobs EXCEPT ![j] = Pending]
    BY <1>1 DEF Enqueued
  <2>2. jobs'[j] = Pending /\ \A k \in Job : k # j => jobs'[k] = jobs[k]
    BY <2>1 DEF QueueInv
  <2>3. Pending = [status |-> "pending", owner |-> NoWorker, lapsed |-> FALSE]
    BY NewRows
  <2>4. JobFits(j)'
    BY <2>2, <2>3 DEF JobFits, JobStatus
  <2>5. QueueInv'
    BY <2>1, <2>4, RowWritten, WorkKept
  <2> QED
    BY <1>1, <2>2, <2>3, <2>5
<1>2. CASE jobs[j].status # "none"
  BY <1>2, QueueKept DEF Enqueued
<1> QED
  BY <1>1, <1>2

\* The present owner, and nobody else, settles a row.
LEMMA FinishedFits ==
  ASSUME QueueInv, NEW w \in Worker, NEW status \in {"completed", "dead_letter"},
         jobs' = Finished(w, status),
         \A u \in Worker : WorkFits(u)', work' = [u \in Worker |-> work'[u]]
  PROVE  /\ QueueInv'
         /\ \A k \in Job : jobs'[k] # jobs[k] =>
               k = Current(w) /\ jobs[k].owner = w /\ jobs'[k].status = status
<1>0. PICK c : c = Current(w)
  OBVIOUS
<1>1. CASE jobs[c].owner = w
  <2>1. jobs' = [jobs EXCEPT ![c] = [NoRow EXCEPT !.status = status]]
    BY <1>0, <1>1 DEF Finished
  <2>2. PICK r : r = [status |-> status, owner |-> NoWorker, lapsed |-> FALSE]
    OBVIOUS
  <2>3. jobs' = [jobs EXCEPT ![c] = r]
    BY <2>1, <2>2, NewRows
  <2>4. \A k \in Job : jobs'[k] = IF k = c THEN r ELSE jobs[k]
    BY <2>3 DEF QueueInv
  <2>5. c \in Job => JobFits(c)'
    BY <2>2, <2>4 DEF JobFits, JobStatus
  <2>6. QueueInv'
    BY <2>3, <2>5, RowWritten
  <2> QED
    BY <1>0, <1>1, <2>2, <2>4, <2>6
<1>2. CASE jobs[c].owner # w
  <2>1. jobs' = jobs
    BY <1>0, <1>2 DEF Finished
  <2>2. \A k \in Job : JobFits(k)'
    BY <2>1 DEF QueueInv, JobFits
  <2> QED
    BY <2>1, <2>2 DEF QueueInv
<1> QED
  BY <1>1, <1>2

\* A worker goes on with the rest of its batch.
LEMMA OnwardsFits ==
  ASSUME QueueInv, NEW w \in Worker, work[w].at # "idle", work' = Onwards(w)
  PROVE  /\ \A u \in Worker : WorkFits(u)' /\ (work'[u].at = "applied" => work'[u] = work[u])
         /\ work' = [u \in Worker |-> work'[u]]
         /\ work'[w].at \in {"idle", "next"} /\ work'[w].batch # work[w].batch
<1>1. PICK b : b = work[w].batch
  OBVIOUS
<1>2. b \in Seq(Job) /\ b # <<>> /\ Len(b) \in Nat /\ Len(b) # 0
  BY <1>1, EmptySeq DEF QueueInv, WorkFits, IsWork
<1>3. CASE Len(b) = 1
  <2>1. PICK k : k = [at |-> "idle", batch |-> <<>>, visible |-> {}]
    OBVIOUS
  <2>2. work' = [work EXCEPT ![w] = k]
    BY <1>1, <1>3, <2>1 DEF Onwards, Resting
  <2>3. <<>> \in Seq(Job)
    OBVIOUS
  <2>4. IsWork(k)
    BY <2>1, <2>3 DEF IsWork
  <2>5. /\ \A u \in Worker : WorkFits(u)' /\ work'[u] = IF u = w THEN k ELSE work[u]
        /\ work' = [u \in Worker |-> work'[u]]
    BY <2>2, <2>4, WorkWritten
  <2> QED
    BY <1>1, <1>2, <2>1, <2>5
<1>4. CASE Len(b) # 1
  <2>1. PICK t : t = Tail(b)
    OBVIOUS
  <2>2. t \in Seq(Job) /\ Len(t) = Len(b) - 1
    BY <1>2, <2>1, HeadTailProperties
  <2>3. \A n \in Nat : n # 0 /\ n # 1 => n - 1 # 0 /\ n - 1 # n
    OBVIOUS
  <2>4. t # <<>> /\ t # b
    BY <1>2, <1>4, <2>2, <2>3, EmptySeq
  <2>5. PICK k : k = [at |-> "next", batch |-> t, visible |-> {}]
    OBVIOUS
  <2>6. work' = [work EXCEPT ![w] = k]
    BY <1>1, <1>4, <2>1, <2>5 DEF Onwards
  <2>7. IsWork(k)
    BY <2>2, <2>4, <2>5 DEF IsWork
  <2>8. /\ \A u \in Worker : WorkFits(u)' /\ work'[u] = IF u = w THEN k ELSE work[u]
        /\ work' = [u \in Worker |-> work'[u]]
    BY <2>6, <2>7, WorkWritten
  <2> QED
    BY <1>1, <2>4, <2>5, <2>8
<1> QED
  BY <1>3, <1>4

\* One worker goes from one place to another, with the job in hand.
LEMMA MovesFits ==
  ASSUME QueueInv, NEW w \in Worker, work[w].at # "idle",
         NEW at \in {"next", "asking", "applied", "failed"}, NEW visible \in SUBSET Item,
         work' = [work EXCEPT ![w] = [at |-> at, batch |-> work[w].batch, visible |-> visible]]
  PROVE  /\ \A u \in Worker : WorkFits(u)' /\ (u # w => work'[u] = work[u])
         /\ work' = [u \in Worker |-> work'[u]]
         /\ work'[w].at = at /\ work'[w].batch = work[w].batch
<1>1. PICK k : k = [at |-> at, batch |-> work[w].batch, visible |-> visible]
  OBVIOUS
<1>2. IsWork(k)
  BY <1>1 DEF QueueInv, WorkFits, IsWork
<1>3. /\ \A u \in Worker : WorkFits(u)' /\ work'[u] = IF u = w THEN k ELSE work[u]
      /\ work' = [u \in Worker |-> work'[u]]
  BY <1>1, <1>2, WorkWritten
<1> QED
  BY <1>1, <1>3

LEMMA LearnedKept ==
  ASSUME LearnedInv, learned \subseteq learned',
         transcript' \in [Episode -> {"none", "recording", "kept", "deleted"}],
         \A e \in Episode : Vouched(e)' => Vouched(e) \/ e \in learned',
         \A w \in Worker : work'[w].at = "applied" =>
            work'[w] = work[w] \/ (Current(w)' \in Episode => Current(w)' \in learned')
  PROVE  LearnedInv'
<1>1. ASSUME NEW e \in Episode, Vouched(e)' PROVE e \in learned'
  BY <1>1 DEF LearnedInv
<1>2. ASSUME NEW w \in Worker, work'[w].at = "applied", Current(w)' \in Episode
      PROVE  Current(w)' \in learned'
  BY <1>2 DEF LearnedInv, Current
<1> QED
  BY <1>1, <1>2 DEF LearnedInv

\* A set of claimable jobs is made a batch.
LEMMA BatchOfJobs ==
  ASSUME NEW S \in SUBSET Job, S # {}
  PROVE  SetToSeq(S) \in Seq(Job) /\ SetToSeq(S) # <<>>
<1>1. IsFiniteSet(S)
  BY JobsAssumption, FS_Subset
<1>2. Cardinality(S) \in Nat /\ ExistsBijection(1..Cardinality(S), S) /\ Cardinality(S) # 0
  BY <1>1, FS_CardinalityType, FS_EmptySet
<1>3. \E f \in [1..Cardinality(S) -> S] : IsInjective(f)
  BY <1>2 DEF ExistsBijection, Bijection, Injection
<1>4. SetToSeq(S) \in [1..Cardinality(S) -> S]
  BY <1>3 DEF SetToSeq
<1>5. PICK n \in Nat : n # 0 /\ SetToSeq(S) \in [1..n -> S]
  BY <1>2, <1>4
<1>6. SetToSeq(S) \in Seq(Job) /\ Len(SetToSeq(S)) = n
  BY <1>5
<1> QED
  BY <1>5, <1>6

-----------------------------------------------------------------------------
(* One lemma for each kind of step.                                        *)

\* Nothing of the queue changes: the items' writers, the recording of a turn.
LEMMA AsideKeeps ==
  ASSUME JobsInv, UNCHANGED <<jobs, work, retention, learned>>,
         transcript' \in [Episode -> {"none", "recording", "kept", "deleted"}],
         \A e \in Episode : transcript'[e] = "deleted" => transcript[e] = "deleted"
  PROVE  JobsInv'
<1>1. QueueInv'
  BY QueueKept DEF JobsInv
<1>2. LearnedInv'
  BY LearnedKept DEF JobsInv, Vouched
<1> QED
  BY <1>1, <1>2 DEF JobsInv

\* A job is asked for.
LEMMA AskedForKeeps ==
  ASSUME JobsInv, NEW j \in Job, jobs' = Enqueued(j), UNCHANGED <<work, retention, learned>>,
         transcript' \in [Episode -> {"none", "recording", "kept", "deleted"}],
         \A e \in Episode : transcript'[e] = "deleted" => transcript[e] = "deleted"
  PROVE  JobsInv'
<1>1. /\ QueueInv'
      /\ \A k \in Job : jobs'[k].status \in {"completed", "purged"}
                           <=> jobs[k].status \in {"completed", "purged"}
  BY EnqueuedFits DEF JobsInv
<1>2. \A e \in Episode : Vouched(e)' => Vouched(e)
  BY <1>1 DEF Vouched, Job
<1>3. LearnedInv'
  BY <1>2, LearnedKept DEF JobsInv
<1> QED
  BY <1>1, <1>3 DEF JobsInv

LEMMA RecordingKeeps ==
  ASSUME JobsInv, NEW e \in Episode, NEW mark \in {"recording", "kept"},
         transcript' = [transcript EXCEPT ![e] = mark]
  PROVE  /\ transcript' \in [Episode -> {"none", "recording", "kept", "deleted"}]
         /\ \A f \in Episode : transcript'[f] = "deleted" => transcript[f] = "deleted"
BY DEF JobsInv, LearnedInv

LEMMA TurnKeeps ==
  ASSUME JobsInv, NEW e \in Episode,
         RecordTurn(e) \/ EnqueueTurn(e) \/ TurnDies(e)
  PROVE  JobsInv'
<1>1. CASE RecordTurn(e) \/ TurnDies(e)
  BY <1>1, RecordingKeeps, AsideKeeps DEF RecordTurn, TurnDies
<1>2. CASE EnqueueTurn(e)
  BY <1>2, RecordingKeeps, AskedForKeeps DEF EnqueueTurn, Job
<1> QED
  BY <1>1, <1>2

LEMMA SweepAsks ==
  ASSUME NEW s \in Session, Sweep(s)
  PROVE  \E e \in Episode : jobs' = Enqueued(e)
BY DEF Sweep, Spoken, Turns

LEMMA SweepKeeps ==
  ASSUME JobsInv, NEW s \in Session, Sweep(s)
  PROVE  JobsInv'
<1>1. PICK e \in Episode : jobs' = Enqueued(e)
  BY SweepAsks
<1>2. UNCHANGED <<transcript, work, retention, learned>>
  BY DEF Sweep
<1> QED
  BY <1>1, <1>2, AskedForKeeps DEF Job, JobsInv, LearnedInv

\* Jobs leave the queue into a batch; what is over is not among them.
LEMMA ClaimJobsKeeps ==
  ASSUME JobsInv, NEW w \in Worker, ClaimJobs(w)
  PROVE  JobsInv'
<1>1. PICK S \in SUBSET Claimable :
        /\ jobs' = [j \in Job |-> IF j \in S
                       THEN [status |-> "active", owner |-> w, lapsed |-> FALSE]
                       ELSE Normalised[j]]
        /\ work' = IF S = {} THEN work
                   ELSE [work EXCEPT ![w] =
                            [at |-> "next", batch |-> SetToSeq(S), visible |-> {}]]
  BY DEF ClaimJobs
<1>2. S \subseteq Job
  BY DEF Claimable
<1>3. /\ \A u \in Worker : WorkFits(u)' /\ (work'[u].at = "applied" => work'[u] = work[u])
      /\ work' = [u \in Worker |-> work'[u]]
  <2>1. CASE S = {}
    BY <1>1, <2>1, WorkKept DEF JobsInv
  <2>2. CASE S # {}
    <3>1. PICK b : b = SetToSeq(S)
      OBVIOUS
    <3>2. b \in Seq(Job) /\ b # <<>>
      BY <1>2, <2>2, <3>1, BatchOfJobs
    <3>3. PICK k : k = [at |-> "next", batch |-> b, visible |-> {}]
      OBVIOUS
    <3>4. work' = [work EXCEPT ![w] = k]
      BY <1>1, <2>2, <3>1, <3>3
    <3>5. IsWork(k)
      BY <3>2, <3>3 DEF IsWork
    <3>6. /\ \A u \in Worker : WorkFits(u)' /\ work'[u] = IF u = w THEN k ELSE work[u]
          /\ work' = [u \in Worker |-> work'[u]]
      BY <3>4, <3>5, WorkWritten DEF JobsInv
    <3> QED
      BY <3>3, <3>6
  <2> QED
    BY <2>1, <2>2
<1>4. ASSUME NEW j \in Job
      PROVE  /\ JobFits(j)'
             /\ jobs'[j].status \in {"completed", "purged"}
                   => jobs[j].status \in {"completed", "purged"}
  <2>1. CASE j \in S
    <3>1. jobs'[j] = [status |-> "active", owner |-> w, lapsed |-> FALSE]
      BY <1>1, <2>1
    <3> QED
      BY <3>1 DEF JobFits, JobStatus
  <2>2. CASE j \notin S
    <3>1. jobs'[j] = Normalised[j]
      BY <1>1, <2>2
    <3>2. CASE jobs[j].status = "failed"
      <4>1. PICK r : r = jobs[j]
        OBVIOUS
      <4>2. /\ r = [status |-> r.status, owner |-> r.owner, lapsed |-> r.lapsed]
            /\ r.owner \in Worker \cup {NoWorker}
        BY <4>1 DEF JobsInv, QueueInv, JobFits
      <4>3. [r EXCEPT !.status = "dead_letter"]
               = [status |-> "dead_letter", owner |-> r.owner, lapsed |-> r.lapsed]
        BY <4>2, RowWithStatus
      <4>4. jobs'[j] = [r EXCEPT !.status = "dead_letter"]
        BY <3>1, <3>2, <4>1 DEF Normalised
      <4>5. jobs'[j] = [status |-> "dead_letter", owner |-> r.owner, lapsed |-> r.lapsed]
        BY <4>3, <4>4
      <4> QED
        BY <4>2, <4>5 DEF JobFits, JobStatus
    <3>3. CASE jobs[j].status # "failed"
      <4>1. jobs'[j] = jobs[j]
        BY <3>1, <3>3 DEF Normalised
      <4> QED
        BY <4>1 DEF JobsInv, QueueInv, JobFits
    <3> QED
      BY <3>2, <3>3
  <2> QED
    BY <2>1, <2>2
<1>5. QueueInv'
  <2>1. jobs' = [j \in Job |-> jobs'[j]]
    BY <1>1
  <2> QED
    BY <1>3, <1>4, <2>1 DEF QueueInv
<1>6. UNCHANGED <<transcript, retention, learned>>
  BY DEF ClaimJobs
<1>7. \A e \in Episode : Vouched(e)' => Vouched(e)
  BY <1>4, <1>6 DEF Vouched, Job
<1>8. LearnedInv'
  BY <1>3, <1>6, <1>7, LearnedKept DEF JobsInv, LearnedInv
<1> QED
  BY <1>5, <1>8 DEF JobsInv

\* A job settled as completed had its learnings applied, or has no transcript.
LEMMA SettlesKeeps ==
  ASSUME JobsInv, NEW w \in Worker, NEW status \in {"completed", "dead_letter"},
         work[w].at # "idle", jobs' = Finished(w, status), work' = Onwards(w),
         status = "completed" /\ Current(w) \in Episode => Current(w) \in learned,
         UNCHANGED <<transcript, retention, learned>>
  PROVE  JobsInv'
<1>1. /\ \A u \in Worker : WorkFits(u)' /\ (work'[u].at = "applied" => work'[u] = work[u])
      /\ work' = [u \in Worker |-> work'[u]]
  BY OnwardsFits DEF JobsInv
<1>2. /\ QueueInv'
      /\ \A k \in Job : jobs'[k] # jobs[k] =>
            k = Current(w) /\ jobs[k].owner = w /\ jobs'[k].status = status
  BY <1>1, FinishedFits DEF JobsInv
<1>3. ASSUME NEW e \in Episode, Vouched(e)' PROVE Vouched(e) \/ e \in learned'
  <2>1. CASE jobs'[e] = jobs[e]
    BY <1>3, <2>1 DEF Vouched
  <2>2. CASE jobs'[e] # jobs[e]
    BY <1>2, <1>3, <2>2 DEF Vouched, Job
  <2> QED
    BY <2>1, <2>2
<1>4. LearnedInv'
  BY <1>1, <1>3, LearnedKept DEF JobsInv, LearnedInv
<1> QED
  BY <1>2, <1>4 DEF JobsInv

LEMMA NothingToLearnKeeps ==
  ASSUME JobsInv, NEW w \in Worker, NothingToLearn(w)
  PROVE  JobsInv'
<1>1. Current(w) \in Episode => Current(w) \in learned
  BY DEF NothingToLearn, JobsInv, LearnedInv, Vouched
<1> QED
  BY <1>1, SettlesKeeps DEF NothingToLearn

LEMMA FinishKeeps ==
  ASSUME JobsInv, NEW w \in Worker, Finish(w)
  PROVE  JobsInv'
<1>1. work[w].at # "idle" /\ work' = Onwards(w) /\ UNCHANGED <<transcript, retention, learned>>
  BY DEF Finish
<1>2. CASE work[w].at = "applied"
  <2>1. Current(w) \in Episode => Current(w) \in learned
    BY <1>2 DEF JobsInv, LearnedInv
  <2>2. jobs' = Finished(w, "completed")
    BY <1>2 DEF Finish
  <2> QED
    BY <1>1, <2>1, <2>2, SettlesKeeps
<1>3. CASE work[w].at # "applied" /\ Current(w) \in Episode
  <2>1. jobs' = Finished(w, "dead_letter")
    BY <1>3 DEF Finish
  <2> QED
    BY <1>1, <2>1, SettlesKeeps
<1>4. CASE work[w].at # "applied" /\ Current(w) \notin Episode
  <2>1. jobs' = jobs
    BY <1>4 DEF Finish
  <2>2. /\ \A u \in Worker : WorkFits(u)' /\ (work'[u].at = "applied" => work'[u] = work[u])
        /\ work' = [u \in Worker |-> work'[u]]
    BY <1>1, OnwardsFits DEF JobsInv
  <2>3. \A j \in Job : JobFits(j)'
    BY <2>1 DEF JobsInv, QueueInv, JobFits
  <2>4. QueueInv'
    BY <2>1, <2>2, <2>3 DEF JobsInv, QueueInv
  <2>5. LearnedInv'
    BY <1>1, <2>1, <2>2, LearnedKept DEF JobsInv, LearnedInv, Vouched
  <2> QED
    BY <2>4, <2>5 DEF JobsInv
<1> QED
  BY <1>2, <1>3, <1>4

\* A worker asks, applies or fails, and keeps the job in hand.
LEMMA WorkerMoves ==
  ASSUME JobsInv, NEW w \in Worker, work[w].at # "idle",
         NEW at \in {"next", "asking", "applied", "failed"}, NEW visible \in SUBSET Item,
         work' = [work EXCEPT ![w] = [at |-> at, batch |-> work[w].batch, visible |-> visible]],
         learned \subseteq learned',
         at = "applied" /\ Current(w) \in Episode => Current(w) \in learned',
         UNCHANGED <<jobs, transcript, retention>>
  PROVE  JobsInv'
<1>1. /\ \A u \in Worker : WorkFits(u)' /\ (u # w => work'[u] = work[u])
      /\ work' = [u \in Worker |-> work'[u]]
      /\ work'[w].at = at /\ work'[w].batch = work[w].batch
  BY MovesFits DEF JobsInv
<1>2. \A j \in Job : JobFits(j)'
  BY DEF JobsInv, QueueInv, JobFits
<1>3. QueueInv'
  BY <1>1, <1>2 DEF JobsInv, QueueInv
<1>4. Current(w)' = Current(w)
  BY <1>1 DEF Current
<1>5. \A e \in Episode : Vouched(e)' => Vouched(e)
  BY DEF Vouched
<1>6. LearnedInv'
  BY <1>1, <1>4, <1>5, LearnedKept DEF JobsInv, LearnedInv
<1> QED
  BY <1>3, <1>6 DEF JobsInv

LEMMA WorkWithAt ==
  ASSUME NEW k, k = [at |-> k.at, batch |-> k.batch, visible |-> k.visible], NEW at
  PROVE  [k EXCEPT !.at = at] = [at |-> at, batch |-> k.batch, visible |-> k.visible]
OBVIOUS

LEMMA WorkWithView ==
  ASSUME NEW k, k = [at |-> k.at, batch |-> k.batch, visible |-> k.visible], NEW vis
  PROVE  [k EXCEPT !.visible = vis] = [at |-> k.at, batch |-> k.batch, visible |-> vis]
OBVIOUS

LEMMA ModelKeeps ==
  ASSUME JobsInv, NEW w \in Worker,
         Ask(w) \/ ApplyLearnings(w) \/ ApplyCase(w) \/ ModelFails(w)
  PROVE  JobsInv'
<1>1. PICK k : k = work[w]
  OBVIOUS
<1>2. k = [at |-> k.at, batch |-> k.batch, visible |-> k.visible] /\ k.visible \in SUBSET Item
  BY <1>1 DEF JobsInv, QueueInv, WorkFits, IsWork
<1>3. \A at : [k EXCEPT !.at = at] = [at |-> at, batch |-> k.batch, visible |-> k.visible]
  BY <1>2, WorkWithAt
<1>4. ASSUME NEW at \in {"asking", "applied", "failed"}, NEW vis \in SUBSET Item,
             work' = [work EXCEPT ![w].at = at, ![w].visible = vis]
      PROVE  work' = [work EXCEPT ![w] = [at |-> at, batch |-> work[w].batch, visible |-> vis]]
  <2>2. PICK n : n = [at |-> at, batch |-> k.batch, visible |-> k.visible]
    OBVIOUS
  <2>3. n = [k EXCEPT !.at = at]
    BY <1>3, <2>2
  <2>4. n = [at |-> n.at, batch |-> n.batch, visible |-> n.visible]
        /\ n.at = at /\ n.batch = k.batch
    BY <2>2
  <2>5. [n EXCEPT !.visible = vis] = [at |-> at, batch |-> k.batch, visible |-> vis]
    BY <2>4, WorkWithView
  <2>6. work' = [work EXCEPT ![w] = [[k EXCEPT !.at = at] EXCEPT !.visible = vis]]
    BY <1>1, <1>4 DEF JobsInv, QueueInv
  <2> QED
    BY <1>1, <2>3, <2>5, <2>6
<1>5. CASE Ask(w)
  <2>1. PICK vis \in SUBSET Item : work' = [work EXCEPT ![w].at = "asking", ![w].visible = vis]
    BY <1>5 DEF Ask
  <2>2. work' = [work EXCEPT ![w] = [at |-> "asking", batch |-> work[w].batch, visible |-> vis]]
    BY <1>4, <2>1
  <2> QED
    BY <1>5, <2>2, WorkerMoves DEF Ask
<1>6. PICK none \in SUBSET Item : none = {}
  OBVIOUS
<1>7. CASE ApplyLearnings(w)
  <2>1. work' = [work EXCEPT ![w] = [at |-> "applied", batch |-> work[w].batch, visible |-> none]]
    BY <1>4, <1>6, <1>7 DEF ApplyLearnings
  <2>2. learned \subseteq learned' /\ Current(w) \in learned'
    BY <1>7 DEF ApplyLearnings
  <2> QED
    BY <1>7, <2>1, <2>2, WorkerMoves DEF ApplyLearnings
<1>8. CASE ApplyCase(w)
  <2>1. work' = [work EXCEPT ![w] = [at |-> "applied", batch |-> work[w].batch, visible |-> none]]
    BY <1>4, <1>6, <1>8 DEF ApplyCase
  <2>2. Current(w) \notin Episode
    BY <1>8, JobsAssumption DEF ApplyCase
  <2> QED
    BY <1>8, <2>1, <2>2, WorkerMoves DEF ApplyCase
<1>9. CASE ModelFails(w)
  <2>1. work' = [work EXCEPT ![w] = [at |-> "failed", batch |-> work[w].batch, visible |-> none]]
    BY <1>4, <1>6, <1>9 DEF ModelFails
  <2> QED
    BY <1>9, <2>1, WorkerMoves DEF ModelFails
<1> QED
  BY <1>5, <1>7, <1>8, <1>9

LEMMA WorkerDiesKeeps ==
  ASSUME JobsInv, NEW w \in Worker, WorkerDies(w)
  PROVE  JobsInv'
<1>1. PICK k : k = [at |-> "idle", batch |-> <<>>, visible |-> {}]
  OBVIOUS
<1>2. work' = [work EXCEPT ![w] = k]
  BY <1>1 DEF WorkerDies, Resting
<1>3. <<>> \in Seq(Job)
  OBVIOUS
<1>4. IsWork(k)
  BY <1>1, <1>3 DEF IsWork
<1>5. /\ \A u \in Worker : WorkFits(u)' /\ work'[u] = IF u = w THEN k ELSE work[u]
      /\ work' = [u \in Worker |-> work'[u]]
  BY <1>2, <1>4, WorkWritten DEF JobsInv
<1>6. UNCHANGED <<jobs, transcript, retention, learned>>
  BY DEF WorkerDies
<1>7. \A j \in Job : JobFits(j)'
  BY <1>6 DEF JobsInv, QueueInv, JobFits
<1>8. QueueInv'
  BY <1>5, <1>6, <1>7 DEF JobsInv, QueueInv
<1>9. LearnedInv'
  BY <1>1, <1>5, <1>6, LearnedKept DEF JobsInv, LearnedInv, Vouched
<1> QED
  BY <1>8, <1>9 DEF JobsInv

\* The row of one job changes and no worker moves.
LEMMA OneRowKeeps ==
  ASSUME JobsInv, NEW j \in Job, NEW r, jobs' = [jobs EXCEPT ![j] = r],
         r = [status |-> r.status, owner |-> r.owner, lapsed |-> r.lapsed],
         r.status \in JobStatus, r.owner \in Worker \cup {NoWorker},
         r.status \in {"completed", "purged"} => r.owner = NoWorker,
         j \in Episode /\ r.status \in {"completed", "purged"} => j \in learned,
         transcript' \in [Episode -> {"none", "recording", "kept", "deleted"}],
         \A e \in Episode : transcript'[e] = "deleted" => e \in learned,
         retention' \subseteq retention, UNCHANGED <<work, learned>>
  PROVE  JobsInv'
<1>1. \A k \in Job : jobs'[k] = IF k = j THEN r ELSE jobs[k]
  BY DEF JobsInv, QueueInv
<1>2. JobFits(j)'
  BY <1>1 DEF JobFits
<1>3. (\A w \in Worker : WorkFits(w)') /\ work' = [w \in Worker |-> work'[w]]
  BY WorkKept DEF JobsInv
<1>4. QueueInv'
  BY <1>2, <1>3, RowWritten DEF JobsInv
<1>5. \A e \in Episode : Vouched(e)' => Vouched(e) \/ e \in learned'
  BY <1>1 DEF Vouched, Job
<1>6. LearnedInv'
  BY <1>5, LearnedKept DEF JobsInv
<1> QED
  BY <1>4, <1>6 DEF JobsInv

LEMMA LeaseKeeps ==
  ASSUME JobsInv, NEW j \in Job, LeaseLapses(j)
  PROVE  JobsInv'
<1>1. PICK r : r = jobs[j]
  OBVIOUS
<1>2. r = [status |-> r.status, owner |-> r.owner, lapsed |-> r.lapsed]
  BY <1>1 DEF JobsInv, QueueInv, JobFits
<1>3. PICK s : s = [status |-> r.status, owner |-> r.owner, lapsed |-> TRUE]
  OBVIOUS
<1>4. [r EXCEPT !.lapsed = TRUE] = s
  BY <1>2, <1>3, RowWithLapse
<1>5. jobs' = [jobs EXCEPT ![j] = [r EXCEPT !.lapsed = TRUE]]
  BY <1>1 DEF LeaseLapses, JobsInv, QueueInv
<1>6. jobs' = [jobs EXCEPT ![j] = s]
  BY <1>4, <1>5
<1>7. r.status = "active" /\ r.owner \in Worker \cup {NoWorker}
  BY <1>1 DEF LeaseLapses, JobsInv, QueueInv, JobFits
<1>8. s.status = "active" /\ s.owner = r.owner /\ s.lapsed = TRUE
  BY <1>3, <1>7
<1>9. s = [status |-> s.status, owner |-> s.owner, lapsed |-> s.lapsed]
  BY <1>3, <1>7, <1>8
<1>10. UNCHANGED <<transcript, retention, work, learned>>
  BY DEF LeaseLapses
<1>11. transcript \in [Episode -> {"none", "recording", "kept", "deleted"}]
       /\ \A e \in Episode : transcript[e] = "deleted" => e \in learned
  BY DEF JobsInv, LearnedInv, Vouched
<1> QED
  BY <1>6, <1>7, <1>8, <1>9, <1>10, <1>11, OneRowKeeps DEF JobStatus

\* An operator's retry, and pruning.
LEMMA OperatorKeeps ==
  ASSUME JobsInv, NEW j \in Job, Retry(j) \/ Prune(j)
  PROVE  JobsInv'
<1>1. PICK r : r \in {Pending, NoRow} /\ jobs' = [jobs EXCEPT ![j] = r]
  BY DEF Retry, Prune
<1>2. UNCHANGED <<transcript, retention, work, learned>>
  BY DEF Retry, Prune
<1>3. NoRow = [status |-> "none", owner |-> NoWorker, lapsed |-> FALSE]
  BY DEF NoRow
<1>4. /\ r = [status |-> r.status, owner |-> r.owner, lapsed |-> r.lapsed]
      /\ r.status \in {"pending", "none"} /\ r.owner = NoWorker
  BY <1>1, <1>3, NewRows
<1>5. transcript \in [Episode -> {"none", "recording", "kept", "deleted"}]
      /\ \A e \in Episode : transcript[e] = "deleted" => e \in learned
  BY DEF JobsInv, LearnedInv, Vouched
<1> QED
  BY <1>1, <1>2, <1>4, <1>5, OneRowKeeps DEF JobStatus

LEMMA RetentionKeeps ==
  ASSUME JobsInv, NEW e \in Episode, Ready(e) \/ Compact(e)
  PROVE  JobsInv'
<1>0. /\ transcript \in [Episode -> {"none", "recording", "kept", "deleted"}]
      /\ \A f \in Episode : Vouched(f) => f \in learned
  BY DEF JobsInv, LearnedInv
<1>1. CASE Ready(e) /\ jobs[e].status = "none"
  BY <1>0, <1>1, AskedForKeeps DEF Ready, Job
<1>2. CASE Ready(e) /\ jobs[e].status # "none"
  <2>1. /\ UNCHANGED <<jobs, work, transcript, learned>> /\ retention' = retention \cup {e}
        /\ Vouched(e)
    BY <1>2 DEF Ready, Vouched
  <2>2. QueueInv'
    BY <2>1, QueueKept DEF JobsInv
  <2>3. \A f \in Episode : Vouched(f)' => Vouched(f)
    BY <2>1 DEF Vouched
  <2>4. LearnedInv'
    BY <1>0, <2>1, <2>3, LearnedKept DEF JobsInv
  <2> QED
    BY <2>2, <2>4 DEF JobsInv
<1>3. CASE Compact(e)
  <2>1. e \in learned
    BY <1>0, <1>3 DEF Compact, Vouched
  <2>2. /\ transcript' \in [Episode -> {"none", "recording", "kept", "deleted"}]
        /\ \A f \in Episode : transcript'[f] = "deleted" => f \in learned
    BY <1>0, <1>3, <2>1 DEF Compact, Vouched
  <2>3. retention' \subseteq retention /\ UNCHANGED <<work, learned>>
    BY <1>3 DEF Compact
  <2>4. CASE jobs[e].status = "none"
    <3>1. jobs' = jobs
      BY <1>3, <2>4 DEF Compact
    <3>2. QueueInv'
      BY <2>3, <3>1, QueueKept DEF JobsInv
    <3>3. \A f \in Episode : Vouched(f)' => Vouched(f) \/ f \in learned'
      BY <2>2, <2>3, <3>1 DEF Vouched
    <3>4. LearnedInv'
      BY <2>2, <2>3, <3>3, LearnedKept DEF JobsInv
    <3> QED
      BY <3>2, <3>4 DEF JobsInv
  <2>5. CASE jobs[e].status # "none"
    <3>1. PICK r : r = [status |-> "purged", owner |-> NoWorker, lapsed |-> FALSE]
      OBVIOUS
    <3>2. jobs' = [jobs EXCEPT ![e] = r]
      BY <1>3, <2>5, <3>1, NewRows DEF Compact
    <3>3. /\ r = [status |-> r.status, owner |-> r.owner, lapsed |-> r.lapsed]
          /\ r.status = "purged" /\ r.owner = NoWorker
      BY <3>1
    <3> QED
      BY <2>1, <2>2, <2>3, <3>2, <3>3, OneRowKeeps DEF JobStatus, Job
  <2> QED
    BY <2>4, <2>5
<1> QED
  BY <1>1, <1>2, <1>3

LEMMA PenaliseKeeps == ASSUME JobsInv, Penalise, edit.item \in Item PROVE JobsInv'
<1>1. /\ UNCHANGED <<transcript, retention, work, learned>>
      /\ jobs' = jobs \/ jobs' = Enqueued(edit.item)
  BY DEF Penalise
<1>2. /\ transcript \in [Episode -> {"none", "recording", "kept", "deleted"}]
      /\ \A f \in Episode : Vouched(f) => f \in learned
  BY DEF JobsInv, LearnedInv
<1>3. CASE jobs' = jobs
  BY <1>1, <1>2, <1>3, AsideKeeps
<1>4. CASE jobs' = Enqueued(edit.item)
  <2>1. PICK j \in Job : j = edit.item
    BY DEF Job
  <2>2. jobs' = Enqueued(j)
    BY <1>4, <2>1
  <2> QED
    BY <1>1, <1>2, <2>2, AskedForKeeps
<1> QED
  BY <1>1, <1>3, <1>4

-----------------------------------------------------------------------------
(* The rows of memory, and those an editor or an audit holds.              *)

EditFits ==
    \/ edit = NoEdit
    \/ /\ edit.op \in {"revoke", "activate", "penalise"}
       /\ edit.item \in Item /\ edit.row \in Row

AuditFits ==
    audit = NoAudit \/ \E i, j \in Item, r, s \in Row :
                          audit = [pair |-> <<i, j>>, rows |-> <<r, s>>]

ItemsInv == items \in [Item -> Row \cup {NoItem}] /\ EditFits /\ AuditFits

LEMMA RowChanged ==
  ASSUME NEW r \in Row
  PROVE  /\ \A v \in Status : [r EXCEPT !.status = v] \in Row
         /\ [r EXCEPT !.confidence = 0] \in Row /\ [r EXCEPT !.confidence = 1] \in Row
         /\ [r EXCEPT !.lapsed = TRUE] \in Row /\ [r EXCEPT !.superseded = TRUE] \in Row
         /\ \A i \in Item : [r EXCEPT !.contradicts = r.contradicts \cup {i}] \in Row
<1>1. 0 \in Confidence /\ 1 \in Confidence
  BY DEF Confidence
<1>2. r.contradicts \in SUBSET Item
  BY DEF Row
<1>3. \A i \in Item : r.contradicts \cup {i} \in SUBSET Item
  BY <1>2
<1>4. ASSUME NEW C \in SUBSET Item PROVE [r EXCEPT !.contradicts = C] \in Row
  BY DEF Row
<1>5. \A v \in Status : [r EXCEPT !.status = v] \in Row
  BY DEF Row
<1>6. \A v \in Confidence : [r EXCEPT !.confidence = v] \in Row
  BY DEF Row
<1>7. [r EXCEPT !.lapsed = TRUE] \in Row /\ [r EXCEPT !.superseded = TRUE] \in Row
  BY DEF Row
<1> QED
  BY <1>1, <1>3, <1>4, <1>5, <1>6, <1>7

LEMMA NewRowTyped ==
  ASSUME NEW c \in Content, NEW s \in Status, NEW d \in BOOLEAN, NEW C \in SUBSET Item
  PROVE  NewRow(c, s, d, C) \in Row
BY DEF NewRow, Row, Confidence

LEMMA ItemWritten ==
  ASSUME items \in [Item -> Row \cup {NoItem}], NEW i, NEW r \in Row,
         items' = [items EXCEPT ![i] = r]
  PROVE  items' \in [Item -> Row \cup {NoItem}]
OBVIOUS

LEMMA StoresFit ==
  ASSUME ItemsInv, StoreRevoked \/ StoreActivated \/ StorePenalised
  PROVE  ItemsInv'
<1> USE DEF ItemsInv
<1>1. edit.item \in Item /\ edit.row \in Row
  BY DEF EditFits, NoEdit, StoreRevoked, StoreActivated, StorePenalised
<1>2. PICK i \in Item, r \in Row : i = edit.item /\ r = edit.row
  BY <1>1
<1>3. edit' = NoEdit /\ audit' = audit
  BY DEF StoreRevoked, StoreActivated, StorePenalised
<1>4. "active" \in Status /\ "stale" \in Status /\ "revoked" \in Status
  BY DEF Status
<1>5. items' \in [Item -> Row \cup {NoItem}]
  <2>1. CASE StoreRevoked
    <3>1. CASE items' = items
      BY <3>1
    <3>2. CASE items' # items
      <4>1. Exists(i) /\ items' = [items EXCEPT ![i].status = "revoked"]
        BY <1>2, <2>1, <3>2 DEF StoreRevoked
      <4>2. PICK q \in Row : q = items[i]
        BY <4>1 DEF Exists
      <4>3. PICK p \in Row : p = [q EXCEPT !.status = "revoked"]
        BY <1>4, RowChanged
      <4>4. items' = [items EXCEPT ![i] = p]
        BY <4>1, <4>2, <4>3
      <4> QED
        BY <4>4, ItemWritten
    <3> QED
      BY <3>1, <3>2
  <2>2. CASE StoreActivated
    <3>1. PICK q \in Row : q = [r EXCEPT !.status = "active"]
      BY <1>4, RowChanged
    <3>2. [q EXCEPT !.confidence = 1] \in Row
      BY RowChanged
    <3>3. [r EXCEPT !.status = "active", !.confidence = 1] = [q EXCEPT !.confidence = 1]
      BY <3>1
    <3>4. PICK p \in Row : p = Activated(r)
      BY <3>2, <3>3 DEF Activated
    <3>5. items' = [items EXCEPT ![i] = p]
      BY <1>2, <2>2, <3>4 DEF StoreActivated
    <3> QED
      BY <3>5, ItemWritten
  <2>3. CASE StorePenalised
    <3>1. PICK q \in Row : q = [r EXCEPT !.confidence = 0]
      BY RowChanged
    <3>2. PICK v \in Status :
             v = IF r.status \in {"active", "proposed"} THEN "stale" ELSE r.status
      BY <1>4 DEF Row
    <3>3. PICK p \in Row : p = [q EXCEPT !.status = v]
      BY RowChanged
    <3>4. q.status = r.status
      BY <3>1 DEF Row
    <3>5. Penalised(r) = p
      BY <3>1, <3>2, <3>3, <3>4 DEF Penalised
    <3>6. items' = [items EXCEPT ![i] = p]
      BY <1>2, <2>3, <3>5 DEF StorePenalised
    <3> QED
      BY <3>6, ItemWritten
  <2> QED
    BY <2>1, <2>2, <2>3
<1> QED
  BY <1>3, <1>5 DEF EditFits, AuditFits

\* Whatever the model answers, the rows are stored as the audit read them.
LEMMA AuditFitsNext ==
  ASSUME ItemsInv, AnswerAudit
  PROVE  ItemsInv'
<1> USE DEF ItemsInv
<1>1. PICK i \in Item, j \in Item, r \in Row, s \in Row :
         audit = [pair |-> <<i, j>>, rows |-> <<r, s>>]
  BY DEF AnswerAudit, AuditFits
<1>2. audit.pair[1] = i /\ audit.pair[2] = j /\ audit.rows[1] = r /\ audit.rows[2] = s
  BY <1>1
<1>3. PICK p \in Row, q \in Row : p = [r EXCEPT !.contradicts = r.contradicts \cup {j}]
                                  /\ q = [s EXCEPT !.contradicts = s.contradicts \cup {i}]
  BY RowChanged
<1>4. PICK u \in Row, v \in Row : u = [r EXCEPT !.superseded = TRUE]
                                  /\ v = [s EXCEPT !.superseded = TRUE]
  BY RowChanged
<1>5. PICK linked : linked = [[items EXCEPT ![i] = p] EXCEPT ![j] = q]
  OBVIOUS
<1>6. linked \in [Item -> Row \cup {NoItem}]
  BY <1>5
<1>7. linked = [items EXCEPT
                  ![i] = [audit.rows[1] EXCEPT !.contradicts = audit.rows[1].contradicts \cup {j}],
                  ![j] = [audit.rows[2] EXCEPT !.contradicts = audit.rows[2].contradicts \cup {i}]]
  BY <1>2, <1>3, <1>5
<1>8. items' \in {items, linked, [linked EXCEPT ![i] = u], [linked EXCEPT ![j] = v]}
  BY <1>2, <1>4, <1>7 DEF AnswerAudit
<1>9. items' \in [Item -> Row \cup {NoItem}]
  BY <1>6, <1>8
<1> QED
  BY <1>9 DEF AnswerAudit, EditFits, AuditFits

LEMMA ItemNextFits == ASSUME ItemsInv, ItemNext PROVE ItemsInv'
<1> USE DEF ItemsInv
<1>1. ASSUME NEW i \in Item, NEW c \in Content, NEW s \in {"proposed", "active"},
             NEW d \in BOOLEAN, AddItem(i, c, s, d)
      PROVE  ItemsInv'
  <2>1. PICK r \in Row : r = NewRow(c, s, d, {})
    BY NewRowTyped DEF Status
  <2>2. items' = [items EXCEPT ![i] = r]
    BY <1>1, <2>1 DEF AddItem
  <2>3. items' \in [Item -> Row \cup {NoItem}]
    BY <2>2, ItemWritten
  <2> QED
    BY <1>1, <2>3 DEF AddItem, EditFits, AuditFits
<1>2. ASSUME NEW i \in Item, Lapse(i) \/ Expire(i) \/ Decay(i)
      PROVE  ItemsInv'
  <2>1. PICK r \in Row : r = items[i]
    BY <1>2 DEF Lapse, Expire, Decay, Exists
  <2>2. CASE Lapse(i)
    <3>1. PICK p \in Row : p = [r EXCEPT !.lapsed = TRUE]
      BY RowChanged
    <3>2. items' = [items EXCEPT ![i] = p]
      BY <2>1, <2>2, <3>1 DEF Lapse
    <3>3. items' \in [Item -> Row \cup {NoItem}]
      BY <3>2, ItemWritten
    <3> QED
      BY <2>2, <3>3 DEF Lapse, EditFits, AuditFits
  <2>3. CASE Expire(i)
    <3>1. PICK v \in Status : v = IF r.status = "active" THEN "stale" ELSE "archived"
      BY DEF Status
    <3>2. PICK p \in Row : p = [r EXCEPT !.status = v]
      BY RowChanged
    <3>3. items' = [items EXCEPT ![i] = p]
      BY <2>1, <2>3, <3>1, <3>2 DEF Expire
    <3>4. items' \in [Item -> Row \cup {NoItem}]
      BY <3>3, ItemWritten
    <3> QED
      BY <2>3, <3>4 DEF Expire, EditFits, AuditFits
  <2>4. CASE Decay(i)
    <3>1. PICK q \in Row : q = [r EXCEPT !.confidence = 0]
      BY RowChanged
    <3>2. PICK p \in Row : p = [q EXCEPT !.status = "stale"]
      BY RowChanged DEF Status
    <3>3. items' = [items EXCEPT ![i] = [[items[i] EXCEPT !.confidence = 0]
                                            EXCEPT !.status = "stale"]]
      BY <2>4 DEF Decay
    <3>4. items' = [items EXCEPT ![i] = p]
      BY <2>1, <3>1, <3>2, <3>3
    <3>5. items' \in [Item -> Row \cup {NoItem}]
      BY <3>4, ItemWritten
    <3> QED
      BY <2>4, <3>5 DEF Decay, EditFits, AuditFits
  <2> QED
    BY <1>2, <2>2, <2>3, <2>4
<1>3. ASSUME NEW i \in Item, NEW op \in {"revoke", "activate", "penalise"}, ReadRow(i, op)
      PROVE  ItemsInv'
  <2>1. items[i] \in Row
    BY <1>3 DEF ReadRow, Exists
  <2>2. EditFits'
    BY <1>3, <2>1 DEF ReadRow, EditFits
  <2> QED
    BY <1>3, <2>2 DEF ReadRow, AuditFits
<1>4. ASSUME NEW i \in Item, NEW j \in Item, AskAudit(i, j)
      PROVE  ItemsInv'
  <2>1. items[i] \in Row /\ items[j] \in Row
    BY <1>4 DEF AskAudit, Recallable, Exists
  <2>2. AuditFits'
    BY <1>4, <2>1 DEF AskAudit, AuditFits
  <2> QED
    BY <1>4, <2>2 DEF AskAudit, EditFits
<1> QED
  BY <1>1, <1>2, <1>3, <1>4, StoresFit, AuditFitsNext DEF ItemNext

\* What a consolidation learns is an item, or the end of one.
LEMMA ModelItemsFit ==
  ASSUME ItemsInv, JobsInv, NEW w \in Worker,
         ApplyLearnings(w) \/ ApplyCase(w) \/ ModelFails(w)
  PROVE  ItemsInv'
<1> USE DEF ItemsInv
<1>1. UNCHANGED <<edit, audit>> /\ (Learnings(w) \/ CaseStored(w))
  BY DEF ApplyLearnings, ApplyCase, ModelFails
<1>2. work[w].visible \subseteq Item
  BY DEF JobsInv, QueueInv, WorkFits, IsWork
<1>3. \/ items' = items
      \/ \E i \in Item, c \in Content, C \in SUBSET Item :
            items' = [items EXCEPT ![i] = NewRow(c, "proposed", FALSE, C)]
      \/ \E i \in Item : Exists(i) /\ items' = [items EXCEPT ![i].status = "revoked"]
  <2>1. CASE Learnings(w)
    <3>1. PICK V \in SUBSET Item : V = work[w].visible
      BY <1>2
    <3>2. \A C \in SUBSET V : C \in SUBSET Item
      OBVIOUS
    <3>3. \/ items' = items
          \/ \E i \in Item, c \in Content, C \in SUBSET V :
                items' = [items EXCEPT ![i] = NewRow(c, "proposed", FALSE, C)]
          \/ \E i \in V : Recallable(i) /\ items' = [items EXCEPT ![i].status = "revoked"]
      BY <2>1, <3>1 DEF Learnings
    <3> QED
      BY <3>2, <3>3 DEF Recallable
  <2>2. CASE CaseStored(w)
    <3>1. {} \in SUBSET Item
      OBVIOUS
    <3> QED
      BY <2>2, <3>1 DEF CaseStored
  <2> QED
    BY <1>1, <2>1, <2>2
<1>4. items' \in [Item -> Row \cup {NoItem}]
  <2>1. ASSUME NEW i \in Item, NEW c \in Content, NEW C \in SUBSET Item,
               items' = [items EXCEPT ![i] = NewRow(c, "proposed", FALSE, C)]
        PROVE  items' \in [Item -> Row \cup {NoItem}]
    <3>1. NewRow(c, "proposed", FALSE, C) \in Row
      BY NewRowTyped DEF Status
    <3> QED
      BY <2>1, <3>1, ItemWritten
  <2>2. ASSUME NEW i \in Item, Exists(i), items' = [items EXCEPT ![i].status = "revoked"]
        PROVE  items' \in [Item -> Row \cup {NoItem}]
    <3>1. PICK r \in Row : r = items[i]
      BY <2>2 DEF Exists
    <3>2. PICK p \in Row : p = [r EXCEPT !.status = "revoked"]
      BY RowChanged DEF Status
    <3>3. items' = [items EXCEPT ![i] = p]
      BY <2>2, <3>1, <3>2
    <3> QED
      BY <3>3, ItemWritten
  <2> QED
    BY <1>3, <2>1, <2>2
<1> QED
  BY <1>1, <1>4 DEF EditFits, AuditFits

ConsolidationInv == ItemsInv /\ JobsInv

LEMMA ItemsKept == ASSUME ItemsInv, UNCHANGED <<items, edit, audit>> PROVE ItemsInv'
BY DEF ItemsInv, EditFits, AuditFits

LEMMA JobsInitFits == JobsInit => ConsolidationInv
<1> SUFFICES ASSUME JobsInit PROVE ConsolidationInv
  OBVIOUS
<1>1. ItemsInv
  BY DEF JobsInit, ItemsInit, ItemsInv, EditFits, AuditFits
<1>2. PICK old \in SUBSET Episode :
        /\ jobs = [j \in Job |-> IF j \in old THEN [NoRow EXCEPT !.status = "failed"] ELSE NoRow]
        /\ transcript = [e \in Episode |-> IF e \in old THEN "kept" ELSE "none"]
  BY DEF JobsInit
<1>3. PICK r, q : r = [status |-> "failed", owner |-> NoWorker, lapsed |-> FALSE]
                  /\ q = [status |-> "none", owner |-> NoWorker, lapsed |-> FALSE]
  OBVIOUS
<1>4. \A j \in Job : jobs[j] \in {r, q}
  BY <1>2, <1>3, NewRows DEF NoRow
<1>5. \A j \in Job : JobFits(j) /\ jobs[j].status \notin {"completed", "purged"}
  BY <1>3, <1>4 DEF JobFits, JobStatus
<1>6. <<>> \in Seq(Job)
  OBVIOUS
<1>7. \A w \in Worker : WorkFits(w) /\ work[w].at = "idle"
  BY <1>6 DEF JobsInit, WorkFits, IsWork, Resting
<1>8. QueueInv
  BY <1>2, <1>5, <1>7 DEF QueueInv, JobsInit
<1>9. LearnedInv
  BY <1>2, <1>5, <1>7 DEF LearnedInv, Vouched, JobsInit, Job
<1> QED
  BY <1>1, <1>8, <1>9 DEF ConsolidationInv, JobsInv

LEMMA JobsNextKeeps == ConsolidationInv /\ [JobsNext]_consolidationVars => ConsolidationInv'
<1> SUFFICES ASSUME ConsolidationInv, [JobsNext]_consolidationVars PROVE ConsolidationInv'
  OBVIOUS
<1> USE DEF ConsolidationInv
<1>0. /\ transcript \in [Episode -> {"none", "recording", "kept", "deleted"}]
      /\ \A e \in Episode : transcript[e] = "deleted" => e \in learned
  BY DEF JobsInv, LearnedInv, Vouched
<1>1. CASE ItemNext /\ UNCHANGED jobVars /\ Events' <= MaxEvents
  BY <1>0, <1>1, ItemNextFits, AsideKeeps DEF jobVars
<1>2. CASE Penalise
  <2>1. ItemsInv'
    BY <1>2, StoresFit DEF Penalise
  <2>2. edit.item \in Item
    BY <1>2 DEF Penalise, StorePenalised, ItemsInv, EditFits, NoEdit
  <2> QED
    BY <1>2, <2>1, <2>2, PenaliseKeeps
<1>3. ASSUME NEW e \in Episode, RecordTurn(e) \/ EnqueueTurn(e) \/ TurnDies(e)
      PROVE  ConsolidationInv'
  BY <1>3, TurnKeeps, ItemsKept DEF RecordTurn, EnqueueTurn, TurnDies, itemVars
<1>4. ASSUME NEW e \in Episode, Ready(e) \/ Compact(e) PROVE ConsolidationInv'
  BY <1>4, RetentionKeeps, ItemsKept DEF Ready, Compact, itemVars
<1>5. ASSUME NEW g \in Goal, EnqueueCase(g) PROVE ConsolidationInv'
  BY <1>0, <1>5, AskedForKeeps, ItemsKept DEF EnqueueCase, itemVars, Job
<1>6. ASSUME NEW w \in Worker, ClaimJobs(w) \/ NothingToLearn(w) \/ Finish(w) \/ WorkerDies(w)
      PROVE  ConsolidationInv'
  BY <1>6, ClaimJobsKeeps, NothingToLearnKeeps, FinishKeeps, WorkerDiesKeeps, ItemsKept
     DEF ClaimJobs, NothingToLearn, Finish, WorkerDies, itemVars
<1>7. ASSUME NEW w \in Worker, Ask(w) PROVE ConsolidationInv'
  BY <1>7, ModelKeeps, ItemsKept DEF Ask, itemVars
<1>8. ASSUME NEW w \in Worker, ApplyLearnings(w) \/ ApplyCase(w) \/ ModelFails(w)
      PROVE  ConsolidationInv'
  BY <1>8, ModelKeeps, ModelItemsFit
<1>9. ASSUME NEW j \in Job, LeaseLapses(j) \/ Retry(j) \/ Prune(j) PROVE ConsolidationInv'
  BY <1>9, LeaseKeeps, OperatorKeeps, ItemsKept DEF LeaseLapses, Retry, Prune, itemVars
<1>10. CASE UNCHANGED consolidationVars
  BY <1>0, <1>10, AsideKeeps, ItemsKept DEF consolidationVars, itemVars, jobVars
<1>11. ASSUME NEW s \in Session, Sweep(s) PROVE ConsolidationInv'
  BY <1>11, SweepKeeps, ItemsKept DEF Sweep, itemVars
<1> QED
  BY <1>1, <1>2, <1>3, <1>4, <1>5, <1>6, <1>7, <1>8, <1>9, <1>10, <1>11 DEF JobsNext

\* The invariant of consolidation: no claim, lapse, retry or prune breaks it.
THEOREM ConsolidationInvHolds == JobsSpec => []ConsolidationInv
BY JobsInitFits, JobsNextKeeps, PTL DEF JobsSpec

\* The queue and the items are what their tables may hold.
THEOREM ConsolidationTypeCorrect == JobsSpec => []JobsTypeOK
<1>1. ConsolidationInv => JobsTypeOK
  BY DEF ConsolidationInv, ItemsInv, JobsInv, QueueInv, LearnedInv, JobFits, WorkFits, IsWork,
         JobsTypeOK
<1> QED
  BY <1>1, ConsolidationInvHolds, PTL

\* Retention deletes no transcript that was not learned, between whatever
\* lapses, retries and prunes its check and its deletion fall (_memory_ready).
THEOREM DeletedOnceLearned == JobsSpec => []TranscriptsAreLearned
<1>1. ConsolidationInv => TranscriptsAreLearned
  BY DEF ConsolidationInv, JobsInv, LearnedInv, Vouched, TranscriptsAreLearned
<1> QED
  BY <1>1, ConsolidationInvHolds, PTL

\* A job that is over is not run again (claim_consolidation_jobs, the retry
\* and every enqueue).
THEOREM SettledJobsStay == JobsSpec => SettledJobsRest
<1>1. ASSUME ConsolidationInv, [JobsNext]_consolidationVars,
             NEW j \in Job, jobs[j].status \in {"completed", "purged"}
      PROVE  jobs'[j].status \in {"completed", "purged", "none"}
  <2>1. JobFits(j) /\ jobs[j].owner = NoWorker /\ jobs = [k \in Job |-> jobs[k]]
    BY <1>1 DEF ConsolidationInv, JobsInv, QueueInv, JobFits
  <2>2. ASSUME NEW k, jobs' = Enqueued(k) PROVE jobs'[j] = jobs[j]
    BY <1>1, <2>1, <2>2 DEF Enqueued
  <2>3. ASSUME NEW w \in Worker, NEW status, jobs' = Finished(w, status)
        PROVE  jobs'[j] = jobs[j]
    <3>1. PICK c : c = Current(w)
      OBVIOUS
    <3>2. CASE jobs[c].owner = w
      <4>1. c # j
        BY <2>1, <3>2, JobsAssumption
      <4>2. PICK r : jobs' = [jobs EXCEPT ![c] = r]
        BY <2>3, <3>1, <3>2 DEF Finished
      <4> QED
        BY <2>1, <4>1, <4>2
    <3>3. CASE jobs[c].owner # w
      BY <2>3, <3>1, <3>3 DEF Finished
    <3> QED
      BY <3>2, <3>3
  <2>4. CASE (ItemNext /\ UNCHANGED jobVars) \/ UNCHANGED consolidationVars
    BY <1>1, <2>4 DEF jobVars, consolidationVars
  <2>5. CASE Penalise
    BY <1>1, <2>2, <2>5 DEF Penalise
  <2>6. ASSUME NEW e \in Episode,
               RecordTurn(e) \/ EnqueueTurn(e) \/ TurnDies(e) \/ Ready(e)
        PROVE  jobs'[j] = jobs[j]
    BY <1>1, <2>2, <2>6 DEF RecordTurn, EnqueueTurn, TurnDies, Ready
  <2>14. ASSUME NEW s \in Session, Sweep(s) PROVE jobs'[j] = jobs[j]
    BY <2>2, <2>14, SweepAsks
  <2>7. ASSUME NEW e \in Episode, Compact(e)
        PROVE  jobs'[j].status \in {"completed", "purged", "none"}
    <3>1. PICK r : r = [status |-> "purged", owner |-> NoWorker, lapsed |-> FALSE]
      OBVIOUS
    <3>2. jobs' = jobs \/ jobs' = [jobs EXCEPT ![e] = r]
      BY <2>7, <3>1, NewRows DEF Compact
    <3> QED
      BY <1>1, <2>1, <3>1, <3>2
  <2>8. ASSUME NEW g \in Goal, EnqueueCase(g) PROVE jobs'[j] = jobs[j]
    BY <1>1, <2>2, <2>8 DEF EnqueueCase
  <2>9. ASSUME NEW w \in Worker, ClaimJobs(w) PROVE jobs'[j] = jobs[j]
    <3>1. PICK S \in SUBSET Claimable :
             jobs' = [k \in Job |-> IF k \in S
                         THEN [status |-> "active", owner |-> w, lapsed |-> FALSE]
                         ELSE Normalised[k]]
      BY <2>9 DEF ClaimJobs
    <3>2. j \notin Claimable /\ Normalised[j] = jobs[j]
      BY <1>1 DEF Claimable, Normalised
    <3> QED
      BY <3>1, <3>2
  <2>10. ASSUME NEW w \in Worker, NothingToLearn(w) \/ Finish(w) PROVE jobs'[j] = jobs[j]
    BY <2>3, <2>10 DEF NothingToLearn, Finish
  <2>11. ASSUME NEW w \in Worker, Ask(w) \/ ApplyLearnings(w) \/ ApplyCase(w) \/ ModelFails(w)
                                  \/ WorkerDies(w)
         PROVE  jobs'[j] = jobs[j]
    BY <2>11 DEF Ask, ApplyLearnings, ApplyCase, ModelFails, WorkerDies
  <2>12. ASSUME NEW k \in Job, LeaseLapses(k) \/ Retry(k) PROVE jobs'[j] = jobs[j]
    BY <1>1, <2>1, <2>12 DEF LeaseLapses, Retry
  <2>13. ASSUME NEW k \in Job, Prune(k)
         PROVE  jobs'[j].status \in {"completed", "purged", "none"}
    BY <1>1, <2>1, <2>13 DEF Prune, NoRow
  <2> QED
    BY <1>1, <2>4, <2>5, <2>6, <2>7, <2>8, <2>9, <2>10, <2>11, <2>12, <2>13, <2>14 DEF JobsNext
<1>2. ConsolidationInv /\ [JobsNext]_consolidationVars
         => [\A j \in Job : jobs[j].status \in {"completed", "purged"}
                => jobs'[j].status \in {"completed", "purged", "none"}]_consolidationVars
  BY <1>1
<1> QED
  BY <1>2, ConsolidationInvHolds, PTL DEF JobsSpec, SettledJobsRest

\* A row that somebody holds is settled by its present owner, which goes on
\* with its batch in that step (_finish_consolidation_job).
THEOREM OwnersOnlySettle == JobsSpec => OwnersSettle
<1>1. ASSUME ConsolidationInv, [JobsNext]_consolidationVars, NEW j \in Job,
             jobs[j].status = "active", jobs'[j].status \in {"completed", "dead_letter"}
      PROVE  work'[jobs[j].owner] # work[jobs[j].owner]
  <2>1. jobs = [k \in Job |-> jobs[k]]
    BY <1>1 DEF ConsolidationInv, JobsInv, QueueInv
  <2>2. jobs' # jobs /\ jobs'[j] # jobs[j]
    BY <1>1
  <2>3. \A k : jobs' # Enqueued(k)
    BY <1>1, <2>1 DEF Enqueued
  <2>4. ASSUME NEW w \in Worker, NEW status \in {"completed", "dead_letter"},
               work[w].at # "idle", jobs' = Finished(w, status), work' = Onwards(w)
        PROVE  work'[jobs[j].owner] # work[jobs[j].owner]
    <3>1. /\ \A u \in Worker : WorkFits(u)'
          /\ work' = [u \in Worker |-> work'[u]]
          /\ work'[w].batch # work[w].batch
      BY <1>1, <2>4, OnwardsFits DEF ConsolidationInv, JobsInv
    <3>2. jobs[j].owner = w
      BY <1>1, <2>2, <2>4, <3>1, FinishedFits DEF ConsolidationInv, JobsInv
    <3> QED
      BY <3>1, <3>2
  <2>5. ASSUME NEW w \in Worker, NothingToLearn(w)
        PROVE  work'[jobs[j].owner] # work[jobs[j].owner]
    BY <2>4, <2>5 DEF NothingToLearn
  <2>6. ASSUME NEW w \in Worker, Finish(w)
        PROVE  work'[jobs[j].owner] # work[jobs[j].owner]
    BY <2>2, <2>4, <2>6 DEF Finish
  <2>7. ASSUME NEW w \in Worker, ClaimJobs(w) PROVE FALSE
    <3>1. PICK S \in SUBSET Claimable :
             jobs' = [k \in Job |-> IF k \in S
                         THEN [status |-> "active", owner |-> w, lapsed |-> FALSE]
                         ELSE Normalised[k]]
      BY <2>7 DEF ClaimJobs
    <3>2. Normalised[j] = jobs[j]
      BY <1>1 DEF Normalised
    <3> QED
      BY <1>1, <3>1, <3>2
  <2>8. ASSUME NEW k \in Job, LeaseLapses(k) PROVE FALSE
    <3>1. PICK r : r = jobs[j]
      OBVIOUS
    <3>2. /\ r = [status |-> r.status, owner |-> r.owner, lapsed |-> r.lapsed]
          /\ r.status = "active"
      BY <1>1, <3>1 DEF ConsolidationInv, JobsInv, QueueInv, JobFits
    <3>3. [r EXCEPT !.lapsed = TRUE].status = "active"
      BY <3>2
    <3>4. jobs' = [jobs EXCEPT ![k] = [jobs[k] EXCEPT !.lapsed = TRUE]]
      BY <2>8 DEF LeaseLapses
    <3>5. jobs'[j] = jobs[j] \/ jobs'[j] = [r EXCEPT !.lapsed = TRUE]
      BY <2>1, <3>1, <3>4
    <3> QED
      BY <1>1, <3>3, <3>5
  <2>9. ASSUME NEW k \in Job, Retry(k) \/ Prune(k) PROVE FALSE
    BY <1>1, <2>1, <2>2, <2>9 DEF Retry, Prune
  <2>10. ASSUME NEW e \in Episode, Compact(e) PROVE FALSE
    <3>1. PICK r : r = [status |-> "purged", owner |-> NoWorker, lapsed |-> FALSE]
      OBVIOUS
    <3>2. jobs' = jobs \/ jobs' = [jobs EXCEPT ![e] = r]
      BY <2>10, <3>1, NewRows DEF Compact
    <3> QED
      BY <1>1, <2>1, <2>2, <3>1, <3>2
  <2>11. ~Penalise
    BY <2>2, <2>3 DEF Penalise
  <2>12. /\ \A e \in Episode : ~(RecordTurn(e) \/ EnqueueTurn(e) \/ TurnDies(e) \/ Ready(e))
         /\ \A s \in Session : ~Sweep(s)
    BY <2>2, <2>3, SweepAsks DEF RecordTurn, EnqueueTurn, TurnDies, Ready
  <2>13. \A g \in Goal : ~EnqueueCase(g)
    BY <2>3 DEF EnqueueCase
  <2>14. \A w \in Worker : ~(Ask(w) \/ ApplyLearnings(w) \/ ApplyCase(w) \/ ModelFails(w)
                             \/ WorkerDies(w))
    BY <2>2 DEF Ask, ApplyLearnings, ApplyCase, ModelFails, WorkerDies
  <2>15. ~(ItemNext /\ UNCHANGED jobVars) /\ ~UNCHANGED consolidationVars
    BY <2>2 DEF jobVars, consolidationVars
  <2> QED
    BY <1>1, <2>5, <2>6, <2>7, <2>8, <2>9, <2>10, <2>11, <2>12, <2>13, <2>14, <2>15 DEF JobsNext
<1>2. ConsolidationInv /\ [JobsNext]_consolidationVars
         => [\A j \in Job :
               (jobs[j].status = "active" /\ jobs'[j].status \in {"completed", "dead_letter"})
                  => work'[jobs[j].owner] # work[jobs[j].owner]]_consolidationVars
  BY <1>1
<1> QED
  BY <1>2, ConsolidationInvHolds, PTL DEF JobsSpec, OwnersSettle

-----------------------------------------------------------------------------
(* What the targets hold.  A rollback puts back what an apply event keeps, *)
(* which another process may have read from the target long before; that a *)
(* target only ever holds a value of its own kind needs that a proposal    *)
(* keeps its target and its candidate from beginning to end.               *)

\* A value of the kind target t has.
Holds(t, v) == t \in Target /\ IF t \in Item THEN v \in Row \cup {NoItem} ELSE v \in Plain[t]

\* What proposal p puts in place, what its event keeps, what process a read.
CandidateFits(p) == proposals[p] # None => Holds(proposals[p].target, proposals[p].after)
EventFits(p) == events[p].kind = "apply" => Holds(proposals[p].target, events[p].state)
ReadFits(a) ==
    procs[a].pc = "record" => Holds(proposals[procs[a].p].target, procs[a].state)

TrialFits ==
    \/ trial = NoTrial
    \/ trial = [target |-> "param", candidate |-> trial.candidate] /\ trial.candidate \in 0..1
    \/ trial = [target |-> "layer", candidate |-> trial.candidate] /\ trial.candidate \in Text

PlainFits == live = [t \in PlainTarget |-> live[t]] /\ \A t \in PlainTarget : live[t] \in Plain[t]

ValuesInv ==
    /\ ItemsInv /\ PlainFits /\ TrialFits
    /\ \A p \in Proposal : CandidateFits(p) /\ EventFits(p)
    /\ \A a \in Actor : ReadFits(a)
    /\ approved \subseteq Proposal /\ lock \in Actor \cup {NoProcess}

\* What is proposed stays as it was proposed.
Fixed(p) ==
    proposals[p] # None => /\ proposals'[p] # None
                           /\ proposals'[p].target = proposals[p].target
                           /\ proposals'[p].after = proposals[p].after

\* Nothing begins but by proposing it.
Begun(p) ==
    proposals[p] = None =>
        proposals'[p] = None \/ \E t \in Target : \E c \in Candidates(t) : Propose(p, t, c)

LEMMA MovedFixes ==
  ASSUME EvolutionInv, NEW q \in Proposal, proposals[q].status # "none", NEW from,
         NEW to, Moved(q, from, to)
  PROVE  \A p \in Proposal : Fixed(p) /\ Begun(p)
<1> DEFINE v == IF proposals[q].status = from THEN to ELSE proposals[q].status
           r == [proposals[q] EXCEPT !.status = v]
<1>1. IsProposal(proposals[q]) /\ proposals[q] # None
  BY DEF EvolutionInv, ProposalFits, None
<1>2. proposals' = [proposals EXCEPT ![q] = r]
  BY DEF Moved
<1> HIDE DEF v
<1>3. r = [status |-> v, target |-> proposals[q].target, before |-> proposals[q].before,
           after |-> proposals[q].after, evaluation |-> proposals[q].evaluation]
  BY <1>1, StatusWritten DEF IsProposal
<1>4. r # None /\ r.target = proposals[q].target /\ r.after = proposals[q].after
  BY <1>3 DEF None
<1> HIDE DEF r
<1>5. proposals'[q] = r /\ \A p \in Proposal \ {q} : proposals'[p] = proposals[p]
  BY <1>2 DEF EvolutionInv, TypeInv
<1> QED
  BY <1>1, <1>4, <1>5 DEF Fixed, Begun

LEMMA ProposalsAreFixed ==
  ASSUME EvolutionInv, [Next]_vars
  PROVE  \A p \in Proposal : Fixed(p) /\ Begun(p)
<1>1. ASSUME UNCHANGED proposals PROVE \A p \in Proposal : Fixed(p) /\ Begun(p)
  BY <1>1 DEF Fixed, Begun
<1>2. ASSUME NEW p \in Proposal, NEW t \in Target, NEW c \in Candidates(t), Propose(p, t, c)
      PROVE  \A q \in Proposal : Fixed(q) /\ Begun(q)
  <2>1. \A q \in Proposal \ {p} : proposals'[q] = proposals[q]
    BY <1>2 DEF Propose, EvolutionInv, TypeInv
  <2>2. proposals[p] = None
    BY <1>2 DEF Propose
  <2> QED
    BY <1>2, <2>1, <2>2 DEF Fixed, Begun
<1>3. ASSUME NEW p \in Proposal, NEW r, RecordEvaluation(p, r)
      PROVE  \A q \in Proposal : Fixed(q) /\ Begun(q)
  <2>1. IsProposal(proposals[p]) /\ proposals[p] # None
    BY <1>3 DEF EvolutionInv, ProposalFits, RecordEvaluation
  <2> DEFINE k == [proposals[p] EXCEPT !.evaluation = r]
  <2>2. k = [status |-> proposals[p].status, target |-> proposals[p].target,
             before |-> proposals[p].before, after |-> proposals[p].after, evaluation |-> r]
    BY <2>1, StatusWritten DEF IsProposal
  <2>3. k # None /\ k.target = proposals[p].target /\ k.after = proposals[p].after
    BY <2>2 DEF None
  <2>4. proposals' = [proposals EXCEPT ![p] = k]
    BY <1>3 DEF RecordEvaluation
  <2> HIDE DEF k
  <2> QED
    BY <2>1, <2>3, <2>4 DEF Fixed, Begun, EvolutionInv, TypeInv
<1>4. ASSUME NEW a \in Actor, Claim(a) \/ Settle(a) \/ Mark(a)
      PROVE  \A q \in Proposal : Fixed(q) /\ Begun(q)
  <2>1. procs[a].pc \in Pc
    BY <1>4 DEF Claim, Settle, Mark, At, Pc
  <2>2. procs[a].p \in Proposal /\ proposals[procs[a].p].status # "none"
    BY <2>1, Standing DEF StepFits
  <2> QED
    BY <1>4, <2>2, MovedFixes DEF Claim, Settle, Mark
<1>5. ASSUME NEW a \in Actor, Commit(a) PROVE \A q \in Proposal : Fixed(q) /\ Begun(q)
  <2>1. procs[a].p \in Proposal /\ proposals[procs[a].p].status # "none"
    BY <1>5, Standing DEF StepFits, Commit, At, Pc
  <2>2. Moved(procs[a].p, proposals[procs[a].p].status, "rolled_back")
    BY <1>5 DEF Commit, Moved
  <2> QED
    BY <2>1, <2>2, MovedFixes
<1>6. ASSUME NEW a \in Actor, ApplyStep(a) \/ RollbackStep(a) \/ Crash(a)
      PROVE  \A q \in Proposal : Fixed(q) /\ Begun(q)
  BY <1>1, <1>4, <1>5, <1>6
     DEF ApplyStep, RollbackStep, BeginApply, Reread, RecordEvent, Write, Activate, Reconcile,
         Restore, Unobserve, RollbackObserved, Rollback, Crash, ledgerVars
<1>7. CASE \/ MemoryStep /\ UNCHANGED evoVars
           \/ \E p \in Proposal : Experiment(p) \/ Approve(p)
           \/ \E a \in Actor, p \in Proposal : BeginRollback(a, p)
           \/ \E a \in Process, p \in Proposal, error \in 0..1 : Observe(a, p, error)
           \/ GenerateParameter \/ GeneratePrompt \/ ExecuteTrial
           \/ \E t \in PlainTarget : EditTarget(t)
           \/ UNCHANGED vars
  BY <1>1, <1>7 DEF evoVars, ledgerVars, vars, Experiment, Approve, BeginRollback, Rollback,
     Observe, GenerateParameter, GeneratePrompt, Generate, ExecuteTrial, EditTarget
<1> QED
  BY <1>2, <1>3, <1>6, <1>7 DEF Next

-----------------------------------------------------------------------------
LEMMA KindOfTarget ==
  ASSUME NEW t \in Target
  PROVE  /\ t \in Item \/ t \in PlainTarget
         /\ PlainTarget = {"layer", "param", "case"} /\ (t \in Item => t \notin PlainTarget)
BY EvolutionAssumption DEF Target, PlainTarget, Plain

LEMMA ReadHolds ==
  ASSUME ItemsInv, PlainFits, NEW t \in Target
  PROVE  Holds(t, Read(t)) /\ Holds(t, Snapshot(t))
<1>1. CASE t \in Item
  <2>1. items[t] \in Row \cup {NoItem} /\ t # "layer"
    BY <1>1, KindOfTarget DEF ItemsInv
  <2> QED
    BY <1>1, <2>1 DEF Holds, Read, Snapshot
<1>2. CASE t \notin Item
  <2>1. t \in {"layer", "param", "case"} /\ live[t] \in Plain[t]
    BY <1>2, KindOfTarget DEF PlainFits
  <2>2. "default" \in Plain["layer"]
    BY DEF Plain, Text
  <2>3. CASE t = "layer"
    BY <1>2, <2>1, <2>2, <2>3 DEF Holds, Read, Snapshot
  <2>4. CASE t # "layer"
    BY <1>2, <2>1, <2>4 DEF Holds, Read, Snapshot
  <2> QED
    BY <2>3, <2>4
<1> QED
  BY <1>1, <1>2

LEMMA CandidateHolds ==
  ASSUME ItemsInv, PlainFits, NEW t \in Target, t \in Item => Exists(t),
         NEW c \in Candidates(t)
  PROVE  Holds(t, c)
<1>1. CASE t \in Item
  <2>1. items[t] \in Row
    BY <1>1 DEF ItemsInv, Exists
  <2>2. ASSUME NEW d \in Content PROVE [items[t] EXCEPT !.content = d] \in Row
    BY <2>1 DEF Row
  <2>3. c \in Rewordings(t)
    BY <1>1, KindOfTarget DEF Candidates
  <2>4. c \in Row
    BY <2>2, <2>3 DEF Rewordings
  <2> QED
    BY <1>1, <2>4 DEF Holds
<1>2. CASE t \notin Item
  <2>1. Text \subseteq Plain["layer"]
    BY DEF Plain, Text
  <2> QED
    BY <1>2, <2>1 DEF Candidates, Holds
<1> QED
  BY <1>1, <1>2

LEMMA PutFits ==
  ASSUME ItemsInv, PlainFits, NEW t, NEW v, Holds(t, v), Put(t, v)
  PROVE  ItemsInv' /\ PlainFits'
<1>1. EditFits' /\ AuditFits'
  BY DEF Put, ItemsInv, EditFits, AuditFits
<1>2. CASE t \in Item
  BY <1>1, <1>2 DEF Put, Holds, ItemsInv, PlainFits
<1>3. CASE t \notin Item
  <2>1. t \in PlainTarget /\ v \in Plain[t]
    BY <1>3, KindOfTarget DEF Holds
  <2> QED
    BY <1>1, <1>3, <2>1 DEF Put, ItemsInv, PlainFits
<1> QED
  BY <1>2, <1>3

\* Who changes what a target holds.
LEMMA TargetsFit ==
  ASSUME EvolutionInv, ValuesInv, [Next]_vars
  PROVE  ItemsInv' /\ PlainFits'
<1>0. ItemsInv /\ PlainFits /\ TrialFits
  BY DEF ValuesInv
<1>1. ASSUME UNCHANGED <<items, edit, audit, live>> PROVE ItemsInv' /\ PlainFits'
  BY <1>0, <1>1 DEF ItemsInv, EditFits, AuditFits, PlainFits
<1>2. CASE MemoryStep /\ UNCHANGED evoVars
  <2>1. CASE StoreRevoked \/ StoreActivated \/ StorePenalised
    BY <1>0, <1>2, <2>1, StoresFit DEF evoVars, PlainFits
  <2>2. CASE ~(StoreRevoked \/ StoreActivated \/ StorePenalised)
    <3>1. ItemNext
      BY <1>2, <2>2 DEF MemoryStep, ItemNext
    <3> QED
      BY <1>0, <1>2, <3>1, ItemNextFits DEF evoVars, PlainFits
  <2> QED
    BY <2>1, <2>2
<1>3. ASSUME NEW a \in Actor, Write(a) PROVE ItemsInv' /\ PlainFits'
  <2>1. procs[a].p \in Proposal /\ proposals[procs[a].p].status # "none"
    BY <1>3, Standing DEF StepFits, Write, At, Pc
  <2>2. Holds(proposals[procs[a].p].target, proposals[procs[a].p].after)
    BY <2>1 DEF ValuesInv, CandidateFits, None
  <2>3. \/ UNCHANGED <<items, edit, audit, live>>
        \/ Put(proposals[procs[a].p].target, proposals[procs[a].p].after)
    BY <1>3 DEF Write, itemVars
  <2> QED
    BY <1>0, <1>1, <2>2, <2>3, PutFits
<1>4. ASSUME NEW a \in Actor, Restore(a) PROVE ItemsInv' /\ PlainFits'
  <2>1. procs[a].p \in Proposal /\ events[procs[a].p].kind = "apply"
    BY <1>4, Standing DEF StepFits, ProposalFits, Restore, At, Pc
  <2>2. Holds(proposals[procs[a].p].target, events[procs[a].p].state)
    BY <2>1 DEF ValuesInv, EventFits
  <2> QED
    BY <1>0, <1>4, <2>2, PutFits DEF Restore
<1>5. ASSUME NEW a \in Actor, ApplyStep(a) \/ RollbackStep(a) \/ Crash(a)
      PROVE  ItemsInv' /\ PlainFits'
  BY <1>1, <1>3, <1>4, <1>5
     DEF ApplyStep, RollbackStep, BeginApply, Claim, Reread, RecordEvent, Settle, Mark, Activate,
         Reconcile, Commit, Unobserve, RollbackObserved, Rollback, Crash, itemVars
<1>6. CASE ExecuteTrial
  <2>1. PICK t \in PlainTarget : \E v \in Plain[t] :
           live' = [live EXCEPT ![t] = v] \/ live' = live
    <3>1. Text \subseteq Plain["layer"] /\ Plain["param"] = 0..1
          /\ {"layer", "param"} \subseteq PlainTarget
      BY DEF Plain, PlainTarget
    <3>2. CASE trial.target = "param"
      <4>1. 0 \in Plain["param"]
        BY <3>1
      <4> QED
        BY <1>6, <3>1, <3>2, <4>1 DEF ExecuteTrial, Between
    <3>3. CASE trial.target # "param"
      <4>1. trial.target = "layer" /\ trial.candidate \in Plain["layer"]
        BY <1>0, <1>6, <3>1, <3>3 DEF TrialFits, ExecuteTrial
      <4> QED
        BY <1>6, <3>1, <3>3, <4>1 DEF ExecuteTrial
    <3> QED
      BY <3>2, <3>3
  <2>2. PlainFits'
    BY <1>0, <2>1 DEF PlainFits
  <2> QED
    BY <1>0, <1>6, <2>2 DEF ExecuteTrial, itemVars, ItemsInv, EditFits, AuditFits
<1>7. ASSUME NEW t \in PlainTarget, EditTarget(t) PROVE ItemsInv' /\ PlainFits'
  BY <1>0, <1>7 DEF EditTarget, PlainFits, ItemsInv, EditFits, AuditFits
<1>8. CASE \/ \E p \in Proposal, t \in Target : \E c \in Candidates(t) : Propose(p, t, c)
           \/ \E p \in Proposal : Experiment(p) \/ Approve(p)
           \/ \E p \in Proposal, r \in {"approved", "rejected"} : RecordEvaluation(p, r)
           \/ \E a \in Actor, p \in Proposal : BeginRollback(a, p)
           \/ \E a \in Process, p \in Proposal, error \in 0..1 : Observe(a, p, error)
           \/ GenerateParameter \/ GeneratePrompt \/ UNCHANGED vars
  BY <1>1, <1>8 DEF Propose, Experiment, Approve, RecordEvaluation, BeginRollback, Rollback,
     Observe, GenerateParameter, GeneratePrompt, Generate, vars, itemVars, evoVars
<1> QED
  BY <1>2, <1>5, <1>6, <1>7, <1>8 DEF Next

\* A candidate is one its target could hold when it was proposed, and stays.
LEMMA CandidatesFit ==
  ASSUME EvolutionInv, ValuesInv, [Next]_vars, NEW p \in Proposal
  PROVE  CandidateFits(p)'
<1>1. CASE proposals[p] # None
  <2>1. Fixed(p) /\ CandidateFits(p)
    BY ProposalsAreFixed DEF ValuesInv
  <2> QED
    BY <1>1, <2>1 DEF Fixed, CandidateFits, Holds
<1>2. ASSUME NEW t \in Target, NEW c \in Candidates(t), Propose(p, t, c)
      PROVE  CandidateFits(p)'
  <2>1. Holds(t, c)
    BY <1>2, CandidateHolds DEF Propose, ValuesInv
  <2>2. proposals'[p].target = t /\ proposals'[p].after = c
    BY <1>2 DEF Propose, EvolutionInv, TypeInv
  <2> QED
    BY <2>1, <2>2 DEF CandidateFits, Holds
<1>3. CASE proposals[p] = None
  <2>1. Begun(p)
    BY ProposalsAreFixed
  <2> QED
    BY <1>2, <1>3, <2>1 DEF Begun, CandidateFits
<1> QED
  BY <1>1, <1>3

-----------------------------------------------------------------------------
\* What process a does next is not to record an event; the others stay.
Leaves(a) == procs'[a].pc # "record" /\ \A b \in Actor \ {a} : procs'[b] = procs[b]

LEMMA GotoLeaves ==
  ASSUME EvolutionInv, NEW a \in Actor, procs[a].pc \in Pc, NEW v, v # "record", Goto(a, v)
  PROVE  Leaves(a)
<1>1. [procs[a] EXCEPT !.pc = v].pc = v
  BY Standing, PcWritten
<1> QED
  BY <1>1 DEF Goto, Leaves, EvolutionInv, TypeInv

LEMMA RestLeaves ==
  ASSUME EvolutionInv, NEW a \in Actor, Rest(a)
  PROVE  Leaves(a)
BY DEF Rest, Idle, Leaves, EvolutionInv, TypeInv

LEMMA StartLeaves ==
  ASSUME EvolutionInv, NEW a \in Actor, NEW v, v # "record", NEW q, NEW s,
         procs' = [procs EXCEPT ![a] = [pc |-> v, p |-> q, state |-> s]]
  PROVE  Leaves(a)
BY DEF Leaves, EvolutionInv, TypeInv

\* A process about to record has read its target, and the proposal stays.
LEMMA ReadKept ==
  ASSUME EvolutionInv, NEW b \in Actor, ReadFits(b), \A p \in Proposal : Fixed(p),
         procs'[b] = procs[b]
  PROVE  ReadFits(b)'
<1>1. CASE procs[b].pc = "record"
  <2>1. procs[b].p \in Proposal /\ proposals[procs[b].p] # None
    <3>1. procs[b].pc \in Pc
      BY <1>1 DEF Pc
    <3>2. procs[b].p \in Proposal /\ proposals[procs[b].p].status # "none"
      BY <3>1, Standing DEF StepFits
    <3>3. None.status = "none"
      BY DEF None
    <3> QED
      BY <3>2, <3>3
  <2> DEFINE q == procs[b].p
             t == proposals[q].target
  <2>2. Holds(t, procs[b].state)
    BY <1>1 DEF ReadFits
  <2>3. proposals'[q].target = t
    BY <2>1 DEF Fixed
  <2>4. procs'[b].p = q /\ procs'[b].state = procs[b].state
    OBVIOUS
  <2> HIDE DEF q, t
  <2>5. proposals'[procs'[b].p].target = t
    BY <2>3, <2>4
  <2> QED
    BY <2>2, <2>4, <2>5 DEF ReadFits, Holds
<1>2. CASE procs[b].pc # "record"
  BY <1>2 DEF ReadFits
<1> QED
  BY <1>1, <1>2

LEMMA ReadsKept ==
  ASSUME EvolutionInv, ValuesInv, \A p \in Proposal : Fixed(p),
         UNCHANGED procs \/ \E a \in Actor : Leaves(a)
  PROVE  \A b \in Actor : ReadFits(b)'
<1>1. \A b \in Actor : ReadFits(b)
  BY DEF ValuesInv
<1>2. CASE UNCHANGED procs
  BY <1>1, <1>2, ReadKept
<1>3. ASSUME NEW a \in Actor, Leaves(a) PROVE \A b \in Actor : ReadFits(b)'
  <2>1. ReadFits(a)'
    BY <1>3 DEF Leaves, ReadFits
  <2>2. \A b \in Actor \ {a} : ReadFits(b)'
    BY <1>1, <1>3, ReadKept DEF Leaves
  <2> QED
    BY <2>1, <2>2
<1> QED
  BY <1>2, <1>3

\* Which process reads, and who does not record.
LEMMA ReadsFit ==
  ASSUME EvolutionInv, ValuesInv, [Next]_vars
  PROVE  \A b \in Actor : ReadFits(b)'
<1> USE ProposalsAreFixed
<1>0. ASSUME UNCHANGED procs \/ \E a \in Actor : Leaves(a)
      PROVE  \A b \in Actor : ReadFits(b)'
  BY <1>0, ReadsKept
<1>1. ASSUME NEW a \in Actor, Reread(a) PROVE \A b \in Actor : ReadFits(b)'
  <2> DEFINE q == procs[a].p
             t == proposals[q].target
  <2>1. procs[a].pc \in Pc
    BY <1>1 DEF Reread, At, Pc
  <2>2. q \in Proposal /\ proposals[q].status # "none" /\ ProposalFits(q)
    BY <2>1, Standing DEF StepFits
  <2>3. Holds(t, proposals[q].after)
    BY <2>2 DEF ValuesInv, CandidateFits, None
  <2>4. Holds(t, Snapshot(t))
    BY <2>3, ReadHolds DEF ValuesInv, Holds
  <2>5. CASE Read(t) = proposals[q].before
    <3> DEFINE k == [pc |-> "record", p |-> q, state |-> Snapshot(t)]
    <3>1. procs' = [procs EXCEPT ![a] = k] /\ UNCHANGED proposals
      BY <1>1, <2>5 DEF Reread, ledgerVars
    <3>2. procs'[a] = k /\ \A b \in Actor \ {a} : procs'[b] = procs[b]
      BY <3>1 DEF EvolutionInv, TypeInv
    <3>3. k.p = q /\ k.state = Snapshot(t)
      OBVIOUS
    <3> HIDE DEF k
    <3>4. ReadFits(a)'
      BY <2>4, <3>1, <3>2, <3>3 DEF ReadFits, Holds
    <3>5. \A b \in Actor \ {a} : ReadFits(b)'
      BY <3>2, ReadKept DEF ValuesInv
    <3> QED
      BY <3>4, <3>5
  <2>6. CASE Read(t) # proposals[q].before
    <3>1. Goto(a, "fail")
      BY <1>1, <2>6 DEF Reread
    <3> QED
      BY <1>0, <2>1, <3>1, GotoLeaves
  <2> QED
    BY <2>5, <2>6
<1>2. ASSUME NEW a \in Actor, \E p \in Proposal : BeginApply(a, p)
      PROVE  \A b \in Actor : ReadFits(b)'
  BY <1>0, <1>2, StartLeaves DEF BeginApply
<1>3. ASSUME NEW a \in Actor,
             Claim(a) \/ RecordEvent(a) \/ Write(a) \/ Settle(a) \/ Mark(a) \/ Activate(a)
                \/ Reconcile(a) \/ Restore(a) \/ Commit(a) \/ Unobserve(a)
      PROVE  \A b \in Actor : ReadFits(b)'
  <2>1. procs[a].pc \in Pc
    BY <1>3 DEF Claim, RecordEvent, Write, Settle, Mark, Activate, Reconcile, Restore, Commit,
                Unobserve, At, Pc
  <2>2. Rest(a) \/ Goto(a, "reread") \/ Goto(a, "write") \/ Goto(a, "mark") \/ Goto(a, "fail")
        \/ Goto(a, "uncertain") \/ Goto(a, "activate") \/ Goto(a, "commit")
        \/ Goto(a, "unobserve")
    BY <1>3 DEF Claim, RecordEvent, Write, Settle, Mark, Activate, Reconcile, Restore, Commit,
                Unobserve
  <2> QED
    BY <1>0, <2>1, <2>2, GotoLeaves, RestLeaves
<1>4. ASSUME NEW a \in Actor, NEW p, Rollback(a, p) PROVE \A b \in Actor : ReadFits(b)'
  <2>1. (IF events[p].rolledBack THEN "unobserve" ELSE "restore") # "record"
    OBVIOUS
  <2> QED
    BY <1>0, <1>4, <2>1, StartLeaves DEF Rollback
<1>5. ASSUME NEW a \in Actor,
             RollbackObserved(a) \/ Crash(a) \/ \E p \in Proposal : BeginRollback(a, p)
      PROVE  \A b \in Actor : ReadFits(b)'
  BY <1>0, <1>4, <1>5, RestLeaves DEF RollbackObserved, Crash, BeginRollback
<1>6. ASSUME NEW a \in Process, NEW p, NEW error, Observe(a, p, error)
      PROVE  \A b \in Actor : ReadFits(b)'
  <2>1. a \in Actor
    BY DEF Actor
  <2> QED
    BY <1>0, <1>6, <2>1, StartLeaves DEF Observe
<1>7. CASE UNCHANGED procs
  BY <1>0, <1>7
<1>8. CASE \/ MemoryStep /\ UNCHANGED evoVars
           \/ \E p \in Proposal, t \in Target : \E c \in Candidates(t) : Propose(p, t, c)
           \/ \E p \in Proposal : Experiment(p) \/ Approve(p)
           \/ \E p \in Proposal, r \in {"approved", "rejected"} : RecordEvaluation(p, r)
           \/ GenerateParameter \/ GeneratePrompt \/ ExecuteTrial
           \/ \E t \in PlainTarget : EditTarget(t)
           \/ UNCHANGED vars
  BY <1>7, <1>8 DEF evoVars, vars, Propose, Experiment, Approve, RecordEvaluation,
     GenerateParameter, GeneratePrompt, Generate, ExecuteTrial, EditTarget
<1> QED
  BY <1>1, <1>2, <1>3, <1>5, <1>6, <1>8 DEF Next, ApplyStep, RollbackStep

-----------------------------------------------------------------------------
\* What is kept for a rollback is what its process read.
LEMMA EventsFit ==
  ASSUME EvolutionInv, ValuesInv, [Next]_vars, NEW p \in Proposal
  PROVE  EventFits(p)'
<1>1. ASSUME events'[p].kind = events[p].kind, events'[p].state = events[p].state
      PROVE  EventFits(p)'
  <2>1. CASE events[p].kind = "apply"
    <3>1. ProposalFits(p) /\ Fixed(p) /\ EventFits(p)
      BY ProposalsAreFixed DEF EvolutionInv, ValuesInv
    <3>2. proposals[p].status # "none" /\ None.status = "none"
      BY <2>1, <3>1 DEF ProposalFits, None
    <3>3. proposals'[p].target = proposals[p].target
      BY <3>1, <3>2 DEF Fixed
    <3> QED
      BY <1>1, <2>1, <3>1, <3>3 DEF EventFits, Holds
  <2>2. CASE events[p].kind # "apply"
    BY <1>1, <2>2 DEF EventFits
  <2> QED
    BY <2>1, <2>2
<1>2. ASSUME NEW a \in Actor, RecordEvent(a) PROVE EventFits(p)'
  <2>1. CASE procs[a].p = p
    <3>1. Holds(proposals[p].target, procs[a].state)
      BY <1>2, <2>1 DEF ValuesInv, ReadFits, RecordEvent, At
    <3>2. events'[p] = [kind |-> "apply", state |-> procs[a].state, rolledBack |-> FALSE]
      BY <1>2, <2>1 DEF RecordEvent, EvolutionInv, TypeInv
    <3>3. UNCHANGED proposals
      BY <1>2 DEF RecordEvent
    <3> QED
      BY <3>1, <3>2, <3>3 DEF EventFits, Holds
  <2>2. CASE procs[a].p # p
    BY <1>1, <1>2, <2>2 DEF RecordEvent, EvolutionInv, TypeInv
  <2> QED
    BY <2>1, <2>2
<1>3. ASSUME NEW a \in Actor, Commit(a) PROVE EventFits(p)'
  <2>1. CASE procs[a].p = p
    <3> DEFINE e == [events[p] EXCEPT !.rolledBack = TRUE]
    <3>1. IsEvent(events[p])
      BY DEF EvolutionInv, ProposalFits
    <3>2. e.kind = events[p].kind /\ e.state = events[p].state
      BY <3>1, RolledBackWritten DEF IsEvent
    <3>3. events'[p] = e
      BY <1>3, <2>1 DEF Commit, EvolutionInv, TypeInv
    <3> HIDE DEF e
    <3> QED
      BY <1>1, <3>2, <3>3
  <2>2. CASE procs[a].p # p
    BY <1>1, <1>3, <2>2 DEF Commit, EvolutionInv, TypeInv
  <2> QED
    BY <2>1, <2>2
<1>4. CASE UNCHANGED events
  BY <1>1, <1>4
<1>5. ASSUME NEW a \in Actor, ApplyStep(a) \/ RollbackStep(a) \/ Crash(a)
      PROVE  EventFits(p)'
  BY <1>2, <1>3, <1>4, <1>5
     DEF ApplyStep, RollbackStep, BeginApply, Claim, Reread, Write, Settle, Mark, Activate,
         Reconcile, Restore, Unobserve, RollbackObserved, Rollback, Crash, ledgerVars
<1>6. CASE \/ MemoryStep /\ UNCHANGED evoVars
           \/ \E q \in Proposal, t \in Target : \E c \in Candidates(t) : Propose(q, t, c)
           \/ \E q \in Proposal : Experiment(q) \/ Approve(q)
           \/ \E q \in Proposal, r \in {"approved", "rejected"} : RecordEvaluation(q, r)
           \/ \E a \in Actor, q \in Proposal : BeginRollback(a, q)
           \/ \E a \in Process, q \in Proposal, error \in 0..1 : Observe(a, q, error)
           \/ GenerateParameter \/ GeneratePrompt \/ ExecuteTrial
           \/ \E t \in PlainTarget : EditTarget(t)
           \/ UNCHANGED vars
  BY <1>4, <1>6 DEF evoVars, ledgerVars, vars, Propose, Experiment, Approve, RecordEvaluation,
     BeginRollback, Rollback, Observe, GenerateParameter, GeneratePrompt, Generate,
     ExecuteTrial, EditTarget
<1> QED
  BY <1>5, <1>6 DEF Next

-----------------------------------------------------------------------------
\* A trial tries a value its target could hold.
LEMMA TrialFitsNext ==
  ASSUME EvolutionInv, ValuesInv, [Next]_vars
  PROVE  TrialFits'
<1>1. CASE UNCHANGED trial \/ trial' = NoTrial
  BY <1>1 DEF ValuesInv, TrialFits
<1>2. CASE GenerateParameter
  <2>1. Candidates("param") = 0..1
    BY EvolutionAssumption DEF Candidates, PlainTarget, Plain
  <2>2. PICK c \in 0..1 : trial' = [target |-> "param", candidate |-> c]
    BY <1>2, <2>1 DEF GenerateParameter, Generate
  <2> QED
    BY <2>2 DEF TrialFits
<1>3. CASE GeneratePrompt
  <2>1. Candidates("layer") = Text
    BY EvolutionAssumption DEF Candidates, PlainTarget, Plain
  <2>2. PICK c \in Text : trial' = [target |-> "layer", candidate |-> c]
    BY <1>3, <2>1 DEF GeneratePrompt, Generate
  <2> QED
    BY <2>2 DEF TrialFits
<1>4. ASSUME NEW a \in Actor, ApplyStep(a) \/ RollbackStep(a) \/ Crash(a)
      PROVE  UNCHANGED trial
  BY <1>4 DEF ApplyStep, RollbackStep, BeginApply, Claim, Reread, RecordEvent, Write, Settle, Mark,
     Activate, Reconcile, Restore, Commit, Unobserve, RollbackObserved, Rollback, Crash
<1>5. CASE \/ MemoryStep /\ UNCHANGED evoVars
           \/ \E q \in Proposal, t \in Target : \E c \in Candidates(t) : Propose(q, t, c)
           \/ \E q \in Proposal : Experiment(q) \/ Approve(q)
           \/ \E q \in Proposal, r \in {"approved", "rejected"} : RecordEvaluation(q, r)
           \/ \E a \in Actor, q \in Proposal : BeginRollback(a, q)
           \/ \E a \in Process, q \in Proposal, error \in 0..1 : Observe(a, q, error)
           \/ ExecuteTrial
           \/ \E t \in PlainTarget : EditTarget(t)
           \/ UNCHANGED vars
  BY <1>1, <1>5 DEF evoVars, vars, Propose, Experiment, Approve, RecordEvaluation,
     BeginRollback, Rollback, Observe, ExecuteTrial, EditTarget
<1> QED
  BY <1>1, <1>2, <1>3, <1>4, <1>5 DEF Next

LEMMA HoldersFit ==
  ASSUME EvolutionInv, ValuesInv, [Next]_vars
  PROVE  approved' \subseteq Proposal /\ lock' \in Actor \cup {NoProcess}
<1>0. approved \subseteq Proposal /\ lock \in Actor \cup {NoProcess}
  BY DEF ValuesInv
<1>1. CASE UNCHANGED <<approved, lock>>
  BY <1>0, <1>1
<1>2. ASSUME NEW p \in Proposal, Approve(p)
      PROVE  approved' \subseteq Proposal /\ lock' \in Actor \cup {NoProcess}
  BY <1>0, <1>2 DEF Approve
<1>3. ASSUME NEW a \in Actor, NEW p, Rollback(a, p)
      PROVE  approved' \subseteq Proposal /\ lock' \in Actor \cup {NoProcess}
  BY <1>0, <1>3 DEF Rollback, ledgerVars
<1>4. ASSUME NEW a \in Actor, Commit(a) \/ Crash(a)
      PROVE  approved' \subseteq Proposal /\ lock' \in Actor \cup {NoProcess}
  BY <1>0, <1>4 DEF Commit, Crash, ledgerVars
<1>5. ASSUME NEW a \in Actor,
             \/ ApplyStep(a) \/ RollbackStep(a) \/ Crash(a)
             \/ \E p \in Proposal : BeginRollback(a, p)
      PROVE  approved' \subseteq Proposal /\ lock' \in Actor \cup {NoProcess}
  BY <1>1, <1>3, <1>4, <1>5
     DEF ApplyStep, RollbackStep, BeginApply, Claim, Reread, RecordEvent, Write, Settle, Mark,
         Activate, Reconcile, Restore, Unobserve, RollbackObserved, BeginRollback, ledgerVars
<1>6. CASE \/ MemoryStep /\ UNCHANGED evoVars
           \/ \E q \in Proposal, t \in Target : \E c \in Candidates(t) : Propose(q, t, c)
           \/ \E q \in Proposal : Experiment(q)
           \/ \E q \in Proposal, r \in {"approved", "rejected"} : RecordEvaluation(q, r)
           \/ \E a \in Process, q \in Proposal, error \in 0..1 : Observe(a, q, error)
           \/ GenerateParameter \/ GeneratePrompt \/ ExecuteTrial
           \/ \E t \in PlainTarget : EditTarget(t)
           \/ UNCHANGED vars
  BY <1>1, <1>6 DEF evoVars, ledgerVars, vars, Propose, Experiment, RecordEvaluation,
     Observe, GenerateParameter, GeneratePrompt, Generate, ExecuteTrial, EditTarget
<1> QED
  BY <1>2, <1>5, <1>6 DEF Next

LEMMA ValuesInit == Init => ValuesInv
<1> SUFFICES ASSUME Init PROVE ValuesInv
  OBVIOUS
<1> DEFINE c == CHOOSE d \in Content : TRUE
           r == NewRow(c, "active", TRUE, {})
<1>1. c \in Content
  BY EvolutionAssumption
<1>2. items = [i \in Item |-> r]
  BY DEF Init
<1> HIDE DEF c
<1>3. r \in Row
  BY <1>1, NewRowTyped DEF Status
<1> HIDE DEF r
<1>4. ItemsInv
  BY <1>2, <1>3 DEF Init, ItemsInv, EditFits, AuditFits
<1>5. PlainFits
  BY DEF Init, PlainFits, PlainTarget, Plain, Text
<1>6. ASSUME NEW p \in Proposal PROVE CandidateFits(p) /\ EventFits(p)
  BY DEF Init, CandidateFits, EventFits, NoEvent
<1>7. ASSUME NEW a \in Actor PROVE ReadFits(a)
  BY DEF Init, ReadFits, Idle
<1> QED
  BY <1>4, <1>5, <1>6, <1>7 DEF Init, ValuesInv, TrialFits

\* Every store of an evolution keeps to its types: a target, a layer of the
\* prompt, a parameter, a case or a memory item, only ever holds a value of
\* its own kind, whatever applies, rollbacks, trials and edits cross, because
\* a rollback's state was read from the target its proposal still names
\* (record_apply_event, rollback_applied_event, the target adapters).
THEOREM EvolutionTypeCorrect == Spec => []TypeOK
<1>1. EvolutionInv /\ ValuesInv => TypeOK
  <2> SUFFICES ASSUME EvolutionInv, ValuesInv PROVE TypeOK
    OBVIOUS
  <2>1. writes \in [Proposal -> Nat]
    BY DEF EvolutionInv, TypeInv
  <2>2. ASSUME NEW p \in Proposal
        PROVE  /\ proposals[p].status \in ProposalStatus /\ events[p].rolledBack \in BOOLEAN
               /\ activations[p].status \in ActivationStatus
    <3>1. IsProposal(proposals[p]) /\ IsEvent(events[p]) /\ IsActivation(activations[p])
      BY DEF EvolutionInv, ProposalFits
    <3>2. None.status = "none" /\ "none" \in ProposalStatus
      BY DEF None, ProposalStatus
    <3>3. proposals[p].status \in ProposalStatus
      BY <3>1, <3>2 DEF IsProposal
    <3> QED
      BY <3>1, <3>3 DEF IsEvent, IsActivation
  <2> QED
    BY <2>1, <2>2 DEF TypeOK, ValuesInv, ItemsInv, PlainFits
<1>2. EvolutionInv /\ ValuesInv /\ [Next]_vars => ValuesInv'
  <2> SUFFICES ASSUME EvolutionInv, ValuesInv, [Next]_vars PROVE ValuesInv'
    OBVIOUS
  <2> QED
    BY TargetsFit, CandidatesFit, EventsFit, ReadsFit, TrialFitsNext, HoldersFit DEF ValuesInv
<1> QED
  BY <1>1, <1>2, ValuesInit, EvolutionInvHolds, PTL DEF Spec
=============================================================================
