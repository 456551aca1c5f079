----------------------------- MODULE Evolution ------------------------------
(***************************************************************************)
(* Governed self-modification: proposals, their experiments and approvals, *)
(* the apply that lands a candidate in a target another store owns, the    *)
(* rollback, the canary that observes an activation, and the self-play     *)
(* trials that promote without a proposal.  The targets are a prompt       *)
(* layer, a memory parameter, an eval case and the items of MemoryItems,   *)
(* whose own writers run beside all this.                                  *)
(*                                                                         *)
(* Everything in evolution.db is written under SQLite's write lock, which  *)
(* the rollback holds across its write to the target (a file or another    *)
(* database).  An apply is a sequence of transactions, each of which its   *)
(* process may not live to see.                                            *)
(***************************************************************************)
EXTENDS MemoryItems

CONSTANTS Proposal, Process, Daemon, NoProcess,
          MinObservations,   \* outcomes before the canary decides (3)
          Evolvable,         \* the items proposals are made for
          MaxFaults          \* bound on crashes; MaxEdits also bounds trials and outside edits

VARIABLES live,        \* the targets that are not memory items
          proposals,   \* evolution_proposals, with the id of the apply event as a flag
          experiments, \* the latest of each proposal, and whether one has passed
          approved,    \* proposals whose evolution.apply a person approved
          events,      \* the apply event of each proposal
          activations, \* evolution_activations, one for each event
          trial,       \* the self-play trial under way
          procs,       \* what each process is doing
          lock,        \* the holder of the write lock of evolution.db
          writes,      \* how often the candidate of each proposal was written
          faults

ledgerVars == <<proposals, experiments, approved, events, activations>>
evoVars == <<live, ledgerVars, trial, procs, lock, writes, faults>>
vars == <<itemVars, evoVars>>

Text        == {"default", "x"}
NoOverride  == "no override"
Plain       == [layer |-> Text \cup {NoOverride}, param |-> 0..1, case |-> {"c1", "c2"}]
PlainTarget == DOMAIN Plain
Target      == PlainTarget \cup Evolvable
Actor       == Process \cup {Daemon}

ASSUME EvolutionAssumption ==
    /\ Daemon \notin Process /\ NoProcess \notin Process /\ Evolvable \subseteq Item
    /\ MinObservations \in Nat \ {0}
    /\ Content # {} /\ Item \cap PlainTarget = {}

None     == [status |-> "none"]
NoTrial  == [target |-> "none"]
Idle     == [pc |-> "idle"]
NoEvent  == [kind |-> "none", state |-> "none", rolledBack |-> FALSE]
NoActivation == [status |-> "none", count |-> 0, errors |-> 0]

ProposalStatus == {"none", "proposed", "applying", "applied", "apply_failed",
                   "apply_uncertain", "rolled_back"}
ActivationStatus == {"none", "observing", "healthy", "regressed", "rolled_back"}

TypeOK ==
    /\ items \in [Item -> Row \cup {NoItem}]
    /\ \A t \in PlainTarget : live[t] \in Plain[t]
    /\ \A p \in Proposal : /\ proposals[p].status \in ProposalStatus
                           /\ events[p].rolledBack \in BOOLEAN
                           /\ activations[p].status \in ActivationStatus
    /\ approved \subseteq Proposal
    /\ lock \in Actor \cup {NoProcess}
    /\ writes \in [Proposal -> Nat]

\* Durable items, which garbage collection leaves alone; no overrides.
Init ==
    /\ items = [i \in Item |-> NewRow(CHOOSE c \in Content : TRUE, "active", TRUE, {})]
    /\ edit = NoEdit /\ audit = NoAudit /\ edits = 0
    /\ live = [layer |-> NoOverride, param |-> 0, case |-> "c1"]
    /\ proposals = [p \in Proposal |-> None]
    /\ experiments = [p \in Proposal |-> [status |-> "none", case |-> "none", passed |-> FALSE]]
    /\ approved = {}
    /\ events = [p \in Proposal |-> NoEvent]
    /\ activations = [p \in Proposal |-> NoActivation]
    /\ trial = NoTrial
    /\ procs = [a \in Actor |-> Idle]
    /\ lock = NoProcess
    /\ writes = [p \in Proposal |-> 0]
    /\ faults = 0

-----------------------------------------------------------------------------
(* Target adapters.                                                        *)

Read(t) == CASE t \in Item -> items[t]
             [] t = "layer" -> IF live.layer = NoOverride THEN "default" ELSE live.layer
             [] OTHER -> live[t]

\* What rollback_state keeps: a layer's snapshot tells whether there is an override.
Snapshot(t) == IF t = "layer" THEN live.layer ELSE Read(t)

\* A memory item must exist and keep its authority and lifecycle fields.
Validates(t, candidate) ==
    t \in Item => Exists(t) /\ candidate # NoItem /\ candidate.status = items[t].status

\* apply and rollback of an adapter: the whole item, the file or the parameter.
Put(t, value) ==
    /\ IF t \in Item THEN items' = [items EXCEPT ![t] = value] /\ UNCHANGED live
                     ELSE live' = [live EXCEPT ![t] = value] /\ UNCHANGED items
    /\ UNCHANGED <<edit, audit, edits>>

Unlocked == lock = NoProcess

Goto(a, pc) == procs' = [procs EXCEPT ![a] = [@ EXCEPT !.pc = pc]]
Rest(a)     == procs' = [procs EXCEPT ![a] = Idle]
At(a, pc)   == procs[a].pc = pc

\* The candidates someone may think of for what t is now: for an item, its row
\* with other words.
Rewordings(i) == {[items[i] EXCEPT !.content = c] : c \in Content}

Candidates(t) ==
    CASE t \in Item -> Rewordings(t)
      [] t = "layer" -> Text
      [] OTHER -> Plain[t]

-----------------------------------------------------------------------------
(* Proposal, experiment, evaluation.                                       *)

Propose(p, t, candidate) ==
    /\ proposals[p] = None /\ Unlocked
    /\ t \in Item => Exists(t)
    /\ candidate \in Candidates(t) \ {Read(t)} /\ Validates(t, candidate)
    /\ proposals' = [proposals EXCEPT ![p] =
           [status |-> "proposed", target |-> t, before |-> Read(t), after |-> candidate,
            evaluation |-> "none"]]
    /\ UNCHANGED <<itemVars, live, experiments, approved, events, activations, trial, procs,
                   lock, writes, faults>>

\* The eval case a proposal declares: the managed one, or for that one itself a
\* built-in case, which never changes.
CaseContent(p) == IF proposals[p].target = "case" THEN "builtin" ELSE live.case

\* EvolutionExperimentStore.run; the assertions of the case hold or do not.
Experiment(p) ==
    /\ proposals[p].status = "proposed" /\ Unlocked
    /\ \E holds \in BOOLEAN :
          LET ok == /\ Read(proposals[p].target) = proposals[p].before
                    /\ Validates(proposals[p].target, proposals[p].after)
                    /\ holds
          IN experiments' = [experiments EXCEPT ![p] =
                [status |-> IF ok THEN "passed" ELSE "failed", case |-> CaseContent(p),
                 passed |-> @.passed \/ ok]]
    /\ UNCHANGED <<itemVars, live, proposals, approved, events, activations, trial, procs,
                   lock, writes, faults>>

\* A person approves the request to apply p.
Approve(p) ==
    /\ proposals[p] # None /\ p \notin approved
    /\ approved' = approved \cup {p}
    /\ UNCHANGED <<itemVars, live, proposals, experiments, events, activations, trial, procs,
                   lock, writes, faults>>

\* Mutant: the model may call its own proposal approved.
RecordAnyEvaluation(p, result) ==
    /\ proposals[p] # None /\ Unlocked
    /\ proposals' = [proposals EXCEPT ![p].evaluation = result]
    /\ UNCHANGED <<itemVars, live, experiments, approved, events, activations, trial, procs,
                   lock, writes, faults>>

\* record_proposal_evaluation, whatever the proposal's status.
RecordEvaluation(p, result) ==
    /\ proposals[p] # None /\ Unlocked
    /\ result = "approved" => p \in approved
    /\ proposals' = [proposals EXCEPT ![p].evaluation = result]
    /\ UNCHANGED <<itemVars, live, experiments, approved, events, activations, trial, procs,
                   lock, writes, faults>>

-----------------------------------------------------------------------------
(* EvolutionEngine.apply_proposal by process a.                            *)

\* assert_proposal_applicable, assert_passed, the baseline and the adapter.
Applicable(p) ==
    /\ proposals[p].evaluation = "approved"
    /\ experiments[p].status = "passed" /\ experiments[p].case = CaseContent(p)
    /\ Read(proposals[p].target) = proposals[p].before
    /\ Validates(proposals[p].target, proposals[p].after)

BeginApply(a, p) ==
    /\ At(a, "idle") /\ a # Daemon
    /\ \E pc \in {"activate", "reconcile", "claim"} :
          /\ CASE proposals[p].status = "applied"  -> pc = "activate"
               [] proposals[p].status = "applying" -> pc = "reconcile"
               [] proposals[p].status = "proposed" -> pc = "claim" /\ Applicable(p)
               [] OTHER -> FALSE
          /\ procs' = [procs EXCEPT ![a] = [pc |-> pc, p |-> p, state |-> "none"]]
    /\ UNCHANGED <<itemVars, live, ledgerVars, trial, lock, writes, faults>>

\* The transition of the proposal's row that a transaction makes, or refuses.
Moved(p, from, to) ==
    proposals' = [proposals EXCEPT ![p].status = IF @ = from THEN to ELSE @]

\* Mutant: the claim does not look at the status it replaces.
ClaimAny(a) ==
    /\ At(a, "claim") /\ Unlocked
    /\ proposals' = [proposals EXCEPT ![procs[a].p].status = "applying"]
    /\ Goto(a, "reread")
    /\ UNCHANGED <<itemVars, live, experiments, approved, events, activations, trial,
                   lock, writes, faults>>

Claim(a) ==
    /\ At(a, "claim") /\ Unlocked
    /\ Moved(procs[a].p, "proposed", "applying")
    /\ IF proposals[procs[a].p].status = "proposed" THEN Goto(a, "reread") ELSE Rest(a)
    /\ UNCHANGED <<itemVars, live, experiments, approved, events, activations, trial,
                   lock, writes, faults>>

\* The baseline once more, and what a rollback would need.
Reread(a) ==
    /\ At(a, "reread")
    /\ LET pr == proposals[procs[a].p] IN
       IF Read(pr.target) = pr.before
       THEN procs' = [procs EXCEPT ![a] =
                [pc |-> "record", p |-> procs[a].p, state |-> Snapshot(pr.target)]]
       ELSE Goto(a, "fail")
    /\ UNCHANGED <<itemVars, live, ledgerVars, trial, lock, writes, faults>>

\* record_apply_event: before the side effect.
RecordEvent(a) ==
    /\ At(a, "record") /\ Unlocked
    /\ events' = [events EXCEPT ![procs[a].p] =
                    [kind |-> "apply", state |-> procs[a].state, rolledBack |-> FALSE]]
    /\ Goto(a, "write")
    /\ UNCHANGED <<itemVars, live, proposals, experiments, approved, activations, trial,
                   lock, writes, faults>>

\* adapter.apply: it validates again, and may raise without it.
Write(a) ==
    /\ At(a, "write")
    /\ LET p == procs[a].p
           pr == proposals[p] IN
       \/ /\ Validates(pr.target, pr.after)
          /\ Put(pr.target, pr.after)
          /\ writes' = [writes EXCEPT ![p] = @ + 1]
          /\ Goto(a, "mark")
       \/ /\ Goto(a, "fail")
          /\ UNCHANGED <<itemVars, live, writes>>
    /\ UNCHANGED <<ledgerVars, trial, lock, faults>>

\* mark_apply_failed, mark_apply_uncertain
Settle(a) ==
    /\ procs[a].pc \in {"fail", "uncertain"} /\ Unlocked
    /\ Moved(procs[a].p, "applying", IF At(a, "fail") THEN "apply_failed" ELSE "apply_uncertain")
    /\ Rest(a)
    /\ UNCHANGED <<itemVars, live, experiments, approved, events, activations, trial,
                   lock, writes, faults>>

\* Mutant: whoever finds the candidate in place says it is applied.
MarkAlways(a) ==
    /\ At(a, "mark") /\ Unlocked
    /\ proposals' = [proposals EXCEPT ![procs[a].p].status = "applied"]
    /\ Goto(a, "activate")
    /\ UNCHANGED <<itemVars, live, experiments, approved, events, activations, trial,
                   lock, writes, faults>>

\* mark_applied raises when the proposal is no longer being applied.
Mark(a) ==
    /\ At(a, "mark") /\ Unlocked
    /\ Moved(procs[a].p, "applying", "applied")
    /\ IF proposals[procs[a].p].status = "applying" THEN Goto(a, "activate") ELSE Rest(a)
    /\ UNCHANGED <<itemVars, live, experiments, approved, events, activations, trial,
                   lock, writes, faults>>

\* start_activation: ON CONFLICT DO NOTHING.
Activate(a) ==
    /\ At(a, "activate") /\ Unlocked
    /\ activations' = [activations EXCEPT ![procs[a].p].status =
                         IF @ = "none" THEN "observing" ELSE @]
    /\ Rest(a)
    /\ UNCHANGED <<itemVars, live, proposals, experiments, approved, events, trial,
                   lock, writes, faults>>

\* _reconcile_applying: someone else's apply is under way, or died.
Reconcile(a) ==
    /\ At(a, "reconcile")
    /\ LET p == procs[a].p
           now == Read(proposals[p].target) IN
       Goto(a, CASE now = proposals[p].after /\ events[p].kind = "apply" -> "mark"
                 [] now = proposals[p].before -> "fail"
                 [] OTHER -> "uncertain")
    /\ UNCHANGED <<itemVars, live, ledgerVars, trial, lock, writes, faults>>

-----------------------------------------------------------------------------
(* Rollback and canary.                                                    *)

\* Mutant: a proposal that is already rolled back is not bound to its event.
BoundOnlyOnce(p) == events[p].kind = "apply" /\ proposals[p].status = "applied"

\* An apply event whose proposal names it: only a successful apply does.
Bound(p) == events[p].kind = "apply" /\ proposals[p].status \in {"applied", "rolled_back"}

\* rollback_applied_event takes the lock; what is rolled back stays so.
Rollback(a, p) ==
    /\ LET over == events[p].rolledBack
       IN /\ procs' = [procs EXCEPT ![a] =
                [pc |-> IF over THEN "unobserve" ELSE "restore", p |-> p, state |-> "none"]]
          /\ lock' = IF over THEN lock ELSE a
    /\ UNCHANGED <<itemVars, live, ledgerVars, trial, writes, faults>>

\* evolution.rollback, or the daemon's reconcile_regressed_activations.
BeginRollback(a, p) ==
    /\ At(a, "idle") /\ Unlocked /\ Bound(p)
    /\ a = Daemon => activations[p].status = "regressed"
    /\ Rollback(a, p)

Restore(a) ==
    /\ At(a, "restore")
    /\ Put(proposals[procs[a].p].target, events[procs[a].p].state)
    /\ Goto(a, "commit")
    /\ UNCHANGED <<ledgerVars, trial, lock, writes, faults>>

Commit(a) ==
    /\ At(a, "commit")
    /\ events' = [events EXCEPT ![procs[a].p].rolledBack = TRUE]
    /\ proposals' = [proposals EXCEPT ![procs[a].p].status = "rolled_back"]
    /\ lock' = NoProcess
    /\ Goto(a, "unobserve")
    /\ UNCHANGED <<itemVars, live, experiments, approved, activations, trial, writes,
                   faults>>

\* mark_rolled_back
Unobserve(a) ==
    /\ At(a, "unobserve") /\ Unlocked
    /\ activations' = [activations EXCEPT ![procs[a].p].status =
                         IF @ = "none" THEN @ ELSE "rolled_back"]
    /\ Rest(a)
    /\ UNCHANGED <<itemVars, live, proposals, experiments, approved, events, trial, lock,
                   writes, faults>>

\* More than one error in five is a regression.
Verdict(seen) ==
    IF seen.count < MinObservations THEN "observing"
    ELSE IF 5 * seen.errors > seen.count THEN "regressed" ELSE "healthy"

\* observe, of one outcome; a regression is rolled back by the observer.
Observe(a, p, error) ==
    /\ At(a, "idle") /\ a # Daemon /\ Unlocked
    /\ activations[p].status \in {"observing", "regressed"}
    /\ LET seen == [activations[p] EXCEPT !.count = @ + 1, !.errors = @ + error]
           status == IF activations[p].status = "regressed" THEN "regressed" ELSE Verdict(seen)
       IN /\ activations' = IF activations[p].status = "regressed" THEN activations
                            ELSE [activations EXCEPT ![p] = [seen EXCEPT !.status = status]]
          /\ IF status = "regressed"
             THEN procs' = [procs EXCEPT ![a] = [pc |-> "regressed", p |-> p, state |-> "none"]]
             ELSE UNCHANGED procs
    /\ UNCHANGED <<itemVars, live, proposals, experiments, approved, events, trial, lock,
                   writes, faults>>

RollbackObserved(a) ==
    /\ At(a, "regressed") /\ Unlocked
    /\ \/ Bound(procs[a].p) /\ Rollback(a, procs[a].p)
       \/ /\ ~Bound(procs[a].p) /\ Rest(a)
          /\ UNCHANGED <<itemVars, live, ledgerVars, trial, lock, writes, faults>>

-----------------------------------------------------------------------------
(* Self-play, other writers and crashes.                                   *)

EvalCases(t) == IF t = "param" THEN {"memory.regression.gate", "runtime.parameter.valid"}
                               ELSE {"runtime.text.nonempty"}
Stubs == {"runtime.parameter.valid", "runtime.text.nonempty"}

Generate(t, candidates) ==
    /\ trial = NoTrial /\ edits < MaxEdits /\ edits' = edits + 1
    /\ \E c \in candidates \ {Read(t)} : trial' = [target |-> t, candidate |-> c]
    /\ UNCHANGED <<items, edit, audit, live, ledgerVars, procs, lock, writes, faults>>

\* generate_parameter_perturbations: a step up or down from the value of the moment.
GenerateParameter == Generate("param", Candidates("param"))

\* generate_prompt_perturbations: a model, or a table, refines a blamed layer; a
\* refinement the layer already has is skipped.
GeneratePrompt == Generate("layer", Candidates("layer"))

\* Structural stubs alone promote nothing; the regression gate may block.
Promotes(t) == EvalCases(t) \ Stubs # {}

\* An average of the value of this moment and the candidate.
Between(v, w) == {u \in 0..1 : (v <= u /\ u <= w) \/ (w <= u /\ u <= v)}

\* execute_shadow_trial: failed, blocked or promoted.
ExecuteTrial ==
    /\ trial # NoTrial
    /\ \/ UNCHANGED live
       \/ /\ Promotes(trial.target) /\ trial.candidate # Read(trial.target)
          /\ IF trial.target = "param"
             THEN \E v \in Between(live.param, trial.candidate) : live' = [live EXCEPT !.param = v]
             ELSE live' = [live EXCEPT ![trial.target] = trial.candidate]
    /\ trial' = NoTrial
    /\ UNCHANGED <<itemVars, ledgerVars, procs, lock, writes, faults>>

\* A person edits the file, or sets the parameter.
EditTarget(t) ==
    /\ edits < MaxEdits /\ edits' = edits + 1
    /\ \E v \in Plain[t] \ {live[t]} : live' = [live EXCEPT ![t] = v]
    /\ UNCHANGED <<items, edit, audit, ledgerVars, trial, procs, lock, writes, faults>>

\* An uncommitted transaction is undone; what it did to the target is not.
Crash(a) ==
    /\ ~At(a, "idle") /\ faults < MaxFaults /\ faults' = faults + 1
    /\ Rest(a)
    /\ lock' = IF lock = a THEN NoProcess ELSE lock
    /\ UNCHANGED <<itemVars, live, ledgerVars, trial, writes>>

ApplyStep(a) ==
    \/ \E p \in Proposal : BeginApply(a, p)
    \/ Claim(a) \/ Reread(a) \/ RecordEvent(a) \/ Write(a) \/ Settle(a) \/ Mark(a)
    \/ Activate(a) \/ Reconcile(a)

RollbackStep(a) == Restore(a) \/ Commit(a) \/ Unobserve(a) \/ RollbackObserved(a)

MemoryStep ==
    \/ \E i \in Item, op \in {"revoke", "activate", "penalise"} : ReadRow(i, op)
    \/ StoreRevoked \/ StoreActivated \/ StorePenalised
    \/ \E i, j \in Item : AskAudit(i, j)
    \/ AnswerAudit

Next ==
    \/ MemoryStep /\ UNCHANGED evoVars
    \/ \E p \in Proposal, t \in Target : \E c \in Candidates(t) : Propose(p, t, c)
    \/ \E p \in Proposal : Experiment(p) \/ Approve(p)
    \/ \E p \in Proposal, r \in {"approved", "rejected"} : RecordEvaluation(p, r)
    \/ \E a \in Actor : ApplyStep(a) \/ RollbackStep(a) \/ Crash(a)
    \/ \E a \in Actor, p \in Proposal : BeginRollback(a, p)
    \/ \E a \in Process, p \in Proposal, error \in 0..1 : Observe(a, p, error)
    \/ GenerateParameter
    \/ GeneratePrompt
    \/ ExecuteTrial
    \/ \E t \in PlainTarget : EditTarget(t)

Spec == Init /\ [][Next]_vars

\* The daemon comes round; a transaction that began ends.
FairSpec ==
    /\ Spec
    /\ \A p \in Proposal : WF_vars(BeginRollback(Daemon, p))
    /\ \A a \in Actor : WF_vars(RollbackStep(a))

-----------------------------------------------------------------------------
\* The candidate of a proposal lands at most once (claim_for_apply, the
\* refusal to claim again, _reconcile_applying): not twice through two
\* processes, nor again after a crash.
AppliedOnce == \A p \in Proposal : writes[p] <= 1

\* An apply event is rolled back exactly when its proposal is, and its
\* activation never claims a rollback that was not committed
\* (rollback_applied_event, mark_applied, mark_rolled_back): no late applier
\* brings a rolled back proposal back to applied.
RollbackAgrees ==
    \A p \in Proposal :
        /\ events[p].rolledBack <=> proposals[p].status = "rolled_back"
        /\ activations[p].status = "rolled_back" => events[p].rolledBack

\* What the system itself does to the prompt it runs under is on record: an
\* apply event of a proposal that passed an experiment and that a person
\* approved.  Self-play, whose checks of a prompt are structural, never
\* changes one (execute_shadow_trial, assert_proposal_applicable).
PromptIsGoverned ==
    [][live'.layer # live.layer
         => \/ edits' # edits
            \/ \E p \in Proposal : /\ events[p].kind = "apply"
                                   /\ proposals[p].target = "layer"
                                   /\ p \in approved /\ experiments[p].passed]_vars

\* A regression is rolled back, although the observer that noticed it may die
\* before, during or after the rollback's transaction.
RegressionsEnd ==
    \A p \in Proposal :
        (activations[p].status = "regressed") ~> (activations[p].status = "rolled_back")

\* "Called before the side effect lands so the attempted change is always
\* auditable and rollbackable" (record_apply_event): once the process that
\* wrote a candidate is through with it, evolution.rollback accepts its event.
LandedIsRollbackable ==
    \A p \in Proposal :
        (writes[p] > 0 /\ \A a \in Actor : At(a, "idle")) =>
            Bound(p) \/ proposals[p].status = "applying"
=============================================================================
