---------------------------- MODULE ApprovalGate ----------------------------
(***************************************************************************)
(* CapabilityRegistry.invoke, the approvals it asks for, the people who    *)
(* decide them, session elevation and the daemon's settlement of approved  *)
(* runs from their receipts.  Direct callers (Turn) share one actor scope  *)
(* and get a run of their own for each approval; governed callers (Loop)   *)
(* share one run.  All of them contend for one capability, `subject`.      *)
(*                                                                         *)
(* A call is several commits: the lookup of an approved approval, the      *)
(* creation of a pending one, the marker that makes its run findable, the  *)
(* effect, its receipt and the settlement of the run.  Others interleave   *)
(* and a caller may die between any two of them.  A call that asks for     *)
(* more input, or that resumed a loop which waits again, settles nothing.  *)
(***************************************************************************)
EXTENDS CapabilityPolicy, Sequences, FiniteSets

CONSTANTS Turn,          \* direct callers, of one actor
          Loop,          \* governed callers, of one run
          Decider,       \* surfaces from which the owner answers
          Subject,       \* [name, arguments, requested, context] to contend for
          BaseCeiling,   \* the permission ceiling of the surface and of the goal
          Elevation,     \* the permissions a session may ask for
          Ttl,           \* how long an approval may stay pending
          MaxApprovals, MaxCalls, MaxCrashes, MaxTime   \* bounds

Caller == Turn \cup Loop
NoSlot == 0

ASSUME GateAssumption ==
    /\ Turn \cap Loop = {}
    /\ BaseCeiling \in Permission
    /\ Elevation \subseteq Permission
    /\ {Ttl, MaxApprovals, MaxCalls, MaxCrashes, MaxTime} \subseteq Nat

\* What is offered is a capability of the catalogue, a permission, and
\* arguments of the classes its policies tell apart.
ASSUME SubjectAssumption ==
    \A s \in Subject : /\ s.name \in DOMAIN Catalogue
                        /\ s.requested \in Permission
                        /\ s.arguments \subseteq Arguments(Catalogue[s.name])

VARIABLES subject,    \* the capability called, its offered arguments, permission and context
          now,
          approvals,  \* the approvals table, with the row of the run each one owns
          loopRun,    \* the phase of the run the governed callers share
          call,       \* what each caller is doing
          held,       \* what each caller holds besides: the outcome its handler
                      \* reported, whether its receipt counts, the phase it read
          decision,   \* what each decider has read and is about to write
          effects,    \* what was executed, and on what authority
          spent       \* calls begun and crashes, for the bounds

vars == <<subject, now, approvals, loopRun, call, held, decision, effects, spent>>

Spec_ == Catalogue[subject.name]
Slot  == DOMAIN approvals

IdleCall == [at |-> "idle", arg |-> "none", ceiling |-> BaseCeiling, since |-> 0,
             slot |-> NoSlot]
NothingHeld == [outcome |-> "done", receipt |-> FALSE, phase |-> "paused"]
NoDecision == [slot |-> NoSlot, approve |-> FALSE, at |-> "read"]

TypeOK ==
    /\ subject \in Subject
    /\ now \in 0..MaxTime
    /\ \A i \in Slot :
          /\ approvals[i].kind \in {"capability", "elevation"}
          /\ approvals[i].owner \in {"own", "loop"}
          /\ approvals[i].status \in {"pending", "approved", "rejected", "expired"}
          /\ approvals[i].phase \in {"paused", "pending", "ended"}
          /\ approvals[i].receipt \in {"none", "waits", "completed"}
    /\ loopRun \in {"running", "paused", "pending", "ended"}
    /\ \A c \in Caller : call[c].at \in {"idle", "checking", "suspending", "marking",
                                         "writing", "ready", "performed", "settling"}
    /\ held \in [Caller -> [outcome : {"done", "waits", "yields"}, receipt : BOOLEAN,
                             phase : {"paused", "pending", "ended"}]]

Init ==
    /\ subject \in Subject
    /\ now = 0
    /\ approvals = <<>>
    /\ loopRun = "running"
    /\ call = [c \in Caller |-> IdleCall]
    /\ held = [c \in Caller |-> NothingHeld]
    /\ decision = [d \in Decider |-> NoDecision]
    /\ effects = {}
    /\ spent = [calls |-> 0, crashes |-> 0]

-----------------------------------------------------------------------------
(* The approval store.                                                     *)

\* expire_pending_approvals runs at the head of every read of pending rows.
Expired ==
    [i \in Slot |-> IF approvals[i].status = "pending" /\ approvals[i].expires < now
                    THEN [approvals[i] EXCEPT !.status = "expired"]
                    ELSE approvals[i]]

NewApproval(kind, owner, arg, permission, marked) ==
    [kind |-> kind, owner |-> owner, arg |-> arg, permission |-> permission,
     status |-> "pending", expires |-> now + Ttl, phase |-> "paused",
     marked |-> marked, receipt |-> "none"]

Newest(S) == CHOOSE i \in S : \A j \in S : j <= i

\* active_session_elevation
LiveElevations ==
    {i \in Slot : /\ approvals[i].kind = "elevation"
                  /\ approvals[i].status = "approved"
                  /\ approvals[i].expires >= now}

\* AgentControlPlane._get_effective_permission_ceiling
EffectiveCeiling ==
    IF LiveElevations = {} THEN BaseCeiling
    ELSE MaxPermission(BaseCeiling, approvals[Newest(LiveElevations)].permission)

-----------------------------------------------------------------------------
(* The gate.                                                               *)

Begin(c, arg) ==
    /\ call[c].at = "idle"
    /\ spent.calls < MaxCalls
    /\ c \in Loop => loopRun = "running"
    /\ call' = [call EXCEPT ![c] =
          [at |-> "checking", arg |-> arg, since |-> now, slot |-> NoSlot,
           ceiling |-> IF c \in Turn THEN EffectiveCeiling ELSE BaseCeiling]]
    /\ spent' = [spent EXCEPT !.calls = @ + 1]
    /\ UNCHANGED <<subject, now, approvals, loopRun, held, decision, effects>>

\* The execution context of the registry: the executor of a loop takes the default.
Surface(c) == IF c \in Loop THEN "turn" ELSE subject.context

\* The refusals that need no approval state.
Refused(c) ==
    \/ Surface(c) \notin Spec_.contexts
    \/ ~PermissionAllows(Spec_.permission, subject.requested)
    \/ ~InsideWorkspace(Spec_, call[c].arg)
    \/ ~TargetResolves(Spec_, call[c].arg)

Needed(c) == RequiredPermission(Spec_, call[c].arg)

ApprovalPermission(c) == MaxPermission(Needed(c), subject.requested)

CeilingExceeded(c) == ~PermissionAllows(ApprovalPermission(c), call[c].ceiling)

\* _approval_state_for_call: the capabilities that implement approval are
\* not gated, explicit controls are not gated on their own surface.
Gated(c) ==
    /\ Spec_.approval # "control_plane"
    /\ ~(Spec_.approval = "explicit_control" /\ Surface(c) = "api")
    /\ CeilingExceeded(c) \/ NeedsConfirmation(Spec_, call[c].arg)

\* Mutant: the arguments are not compared.
BindsAnyArgument(a, c) ==
    /\ a.kind = "capability"
    /\ a.owner = (IF c \in Loop THEN "loop" ELSE "own")
    /\ a.permission = ApprovalPermission(c)

\* The same capability, permission and arguments.
Binds(a, c) ==
    /\ a.kind = "capability"
    /\ a.owner = (IF c \in Loop THEN "loop" ELSE "own")
    /\ a.permission = ApprovalPermission(c)
    /\ a.arg = call[c].arg

\* approved_approval_for_run for a governed run;
\* _approved_turn_capability_approval for a direct call.
Granted(c) ==
    {i \in Slot : /\ Binds(approvals[i], c)
                  /\ approvals[i].status = "approved"
                  /\ c \in Turn => approvals[i].marked /\ approvals[i].phase = "pending"}

\* A governed run takes its newest approval; a direct call goes through its
\* runs by the time of their last write, which may be any order here.
Candidates(c) == IF c \in Loop THEN {Newest(Granted(c))} ELSE Granted(c)

Check(c) ==
    /\ call[c].at = "checking"
    /\ IF ~Refused(c) /\ Gated(c) /\ Granted(c) # {}
       THEN \E i \in Candidates(c) :
                call' = [call EXCEPT ![c].at = "ready", ![c].slot = i]
       ELSE call' = [call EXCEPT ![c] =
              IF Refused(c) THEN IdleCall
              ELSE IF Gated(c) THEN [@ EXCEPT !.at = "suspending"]
              ELSE IF CeilingExceeded(c) \/ ~PermissionAllows(Needed(c), subject.requested)
                THEN IdleCall
              ELSE [@ EXCEPT !.at = "ready"]]
    /\ UNCHANGED <<subject, now, approvals, loopRun, held, decision, effects, spent>>

\* _suspend_turn_for_sensitive_approval: an existing pending approval of the
\* same marker is reused; a new run gets its marker in a later commit.
SuspendTurn(c) ==
    /\ call[c].at = "suspending"
    /\ c \in Turn
    /\ LET open == {i \in Slot : /\ Binds(Expired[i], c)
                                 /\ Expired[i].status = "pending"
                                 /\ Expired[i].marked}
       IN IF open # {}
            THEN /\ approvals' = Expired
                 /\ call' = [call EXCEPT ![c] = IdleCall]
            ELSE /\ Len(approvals) < MaxApprovals
                 /\ approvals' = Append(Expired,
                        NewApproval("capability", "own", call[c].arg,
                                    ApprovalPermission(c), FALSE))
                 /\ call' = [call EXCEPT ![c].at = "marking",
                                         ![c].slot = Len(approvals) + 1]
    /\ UNCHANGED <<subject, now, loopRun, held, decision, effects, spent>>

\* The update_run that writes plan_summary reads the row of the run ...
ReadRun(c) ==
    /\ call[c].at = "marking"
    /\ held' = [held EXCEPT ![c].phase = approvals[call[c].slot].phase]
    /\ call' = [call EXCEPT ![c].at = "writing"]
    /\ UNCHANGED <<subject, now, approvals, loopRun, decision, effects, spent>>

\* ... and writes all of it back, over a decision taken in between.
Mark(c) ==
    /\ call[c].at = "writing"
    /\ approvals' = [approvals EXCEPT ![call[c].slot] =
                        [@ EXCEPT !.marked = TRUE, !.phase = held[c].phase]]
    /\ call' = [call EXCEPT ![c] = IdleCall]
    /\ held' = [held EXCEPT ![c] = NothingHeld]
    /\ UNCHANGED <<subject, now, loopRun, decision, effects, spent>>

\* _suspend_for_sensitive_approval
SuspendLoop(c) ==
    /\ call[c].at = "suspending"
    /\ c \in Loop
    /\ LET open == {i \in Slot : Binds(Expired[i], c) /\ Expired[i].status = "pending"}
       IN IF open # {}
            THEN approvals' = Expired
            ELSE /\ Len(approvals) < MaxApprovals
                 /\ approvals' = Append(Expired,
                        NewApproval("capability", "loop", call[c].arg,
                                    ApprovalPermission(c), TRUE))
    /\ loopRun' = "paused"
    /\ call' = [call EXCEPT ![c] = IdleCall]
    /\ UNCHANGED <<subject, now, held, decision, effects, spent>>

\* What a handler may report besides being done: goal.open, goal.update and
\* goal.resume report the loop they drove, which may wait again; a question
\* or a file for the user ends the caller's own turn.
Outcome(name) ==
    {"done"} \cup (IF name \in {"goal.open", "goal.update", "goal.resume"} THEN {"waits"} ELSE {})
             \cup (IF name \in {"ask.user", "channel.send_file", "session.request_elevation"}
                   THEN {"yields"} ELSE {})

\* handler.invoke.  The receipt that a mutating call has reserved by now is
\* linked to the run of the approval it used, and counts for that run when
\* it was begun before the approval lapsed.
Perform(c) ==
    /\ call[c].at = "ready"
    /\ effects' = effects \cup
          {[arg |-> call[c].arg, slot |-> call[c].slot, ceiling |-> call[c].ceiling,
            since |-> call[c].since, needed |-> Needed(c), gated |-> Gated(c),
            governed |-> c \in Loop]}
    /\ \E outcome \in Outcome(subject.name) :
          held' = [held EXCEPT ![c] =
             [@ EXCEPT !.outcome = outcome,
                       !.receipt = /\ c \in Turn /\ call[c].slot # NoSlot
                                   /\ CallMutates(Spec_, call[c].arg)
                                   /\ now <= approvals[call[c].slot].expires]]
    /\ call' = [call EXCEPT ![c].at = "performed"]
    /\ UNCHANGED <<subject, now, approvals, loopRun, decision, spent>>

\* complete_tool_call_log.  The receipts of a run are read together: one
\* that reports a waiting loop does not hide one that is complete.
CompleteReceipt(c) ==
    /\ call[c].at = "performed"
    /\ approvals' =
          IF ~held[c].receipt THEN approvals
          ELSE [approvals EXCEPT ![call[c].slot].receipt =
                  IF held[c].outcome # "waits" THEN "completed"
                  ELSE IF @ = "none" THEN "waits" ELSE @]
    /\ call' = [call EXCEPT ![c].at = "settling"]
    /\ UNCHANGED <<subject, now, loopRun, held, decision, effects, spent>>

\* _settle_turn_capability_approval: not for a call that yields control, nor
\* for one whose loop waits.
Settle(c) ==
    /\ call[c].at = "settling"
    /\ approvals' = IF c \in Turn /\ call[c].slot # NoSlot
                      /\ held[c].outcome = "done"
                      /\ approvals[call[c].slot].phase = "pending"
                    THEN [approvals EXCEPT ![call[c].slot].phase = "ended"]
                    ELSE approvals
    /\ call' = [call EXCEPT ![c] = IdleCall]
    /\ held' = [held EXCEPT ![c] = NothingHeld]
    /\ UNCHANGED <<subject, now, loopRun, decision, effects, spent>>

CallerDies(c) ==
    /\ call[c].at # "idle"
    /\ spent.crashes < MaxCrashes
    /\ spent' = [spent EXCEPT !.crashes = @ + 1]
    /\ call' = [call EXCEPT ![c] = IdleCall]
    /\ held' = [held EXCEPT ![c] = NothingHeld]
    /\ UNCHANGED <<subject, now, approvals, loopRun, decision, effects>>

-----------------------------------------------------------------------------
(* Elevation, decisions and the daemon.                                    *)

\* session.request_elevation
RequestElevation(p) ==
    /\ p \in Elevation
    /\ approvals' =
          IF \E i \in Slot : /\ Expired[i].kind = "elevation"
                             /\ Expired[i].permission = p
                             /\ Expired[i].status = "pending"
          THEN Expired
          ELSE Append(Expired, NewApproval("elevation", "own", "none", p, TRUE))
    /\ Len(approvals') <= MaxApprovals
    /\ UNCHANGED <<subject, now, loopRun, call, held, decision, effects, spent>>

\* ApprovalService.resolve reads the pending approval ...
ReadPending(d, i, approve) ==
    /\ decision[d] = NoDecision
    /\ i \in Slot /\ Expired[i].status = "pending"
    /\ approvals' = Expired
    /\ decision' = [decision EXCEPT ![d] =
                      [slot |-> i, approve |-> approve, at |-> "read"]]
    /\ UNCHANGED <<subject, now, loopRun, call, held, effects, spent>>

\* ... and writes the decision and, in the same transaction, the run.  The
\* approval is guarded by its status, the run is not.
WriteDecision(d) ==
    /\ decision[d].slot # NoSlot /\ decision[d].at = "read"
    /\ LET i     == decision[d].slot
           a     == approvals[i]
           phase == IF decision[d].approve /\ a.kind = "capability" THEN "pending" ELSE "ended"
       IN /\ approvals' = [approvals EXCEPT ![i] =
                [a EXCEPT !.status = IF a.status # "pending" THEN a.status
                                     ELSE IF decision[d].approve THEN "approved" ELSE "rejected",
                          !.phase  = IF a.owner = "own" THEN phase ELSE a.phase]]
          /\ loopRun' = IF a.owner = "loop" THEN phase ELSE loopRun
          /\ decision' = [decision EXCEPT ![d] =
                IF a.owner = "loop" /\ decision[d].approve THEN [@ EXCEPT !.at = "continue"]
                                                          ELSE NoDecision]
    /\ UNCHANGED <<subject, now, call, held, effects, spent>>

LoopGate == {i \in Slot : approvals[i].owner = "loop"}

\* resolve_and_continue goes on to resume the loop, unless the loop is over
\* or waits at a later gate by now; the surface may also have no runtime, or
\* die before it resumes.
Continue(d) ==
    /\ decision[d].slot # NoSlot /\ decision[d].at = "continue"
    /\ loopRun' \in IF loopRun = "ended" \/ decision[d].slot # Newest(LoopGate)
                    THEN {loopRun} ELSE {loopRun, "running"}
    /\ decision' = [decision EXCEPT ![d] = NoDecision]
    /\ UNCHANGED <<subject, now, approvals, call, held, effects, spent>>

\* LoopControlService.reconcile_approval_waits, of the loop's current gate:
\* an approved one resumes the loop, any other decided one ends it.
ReconcileWait ==
    /\ loopRun \in {"paused", "pending"}
    /\ LET status == Expired[Newest(LoopGate)].status
       IN /\ status # "pending"
          /\ loopRun' = IF status = "approved" THEN "running" ELSE "ended"
    /\ approvals' = Expired
    /\ UNCHANGED <<subject, now, call, held, decision, effects, spent>>

\* Mutant: only approvals that have not lapsed since are looked at.
ReconcileFreshReceipts ==
    /\ \E i \in Slot : approvals[i].receipt = "completed" /\ approvals[i].phase = "pending"
                       /\ approvals[i].status = "approved" /\ approvals[i].expires >= now
    /\ approvals' = [i \in Slot |->
          IF approvals[i].receipt = "completed" /\ approvals[i].expires >= now
          THEN [approvals[i] EXCEPT !.phase = "ended"] ELSE approvals[i]]
    /\ UNCHANGED <<subject, now, loopRun, call, held, decision, effects, spent>>

\* RunStore.reconcile_completed_capability_approvals
ReconcileReceipts ==
    /\ \E i \in Slot : approvals[i].receipt = "completed" /\ approvals[i].phase = "pending"
                       /\ approvals[i].status = "approved"
    /\ approvals' = [i \in Slot |->
          IF /\ approvals[i].receipt = "completed" /\ approvals[i].phase = "pending"
             /\ approvals[i].status = "approved"
          THEN [approvals[i] EXCEPT !.phase = "ended"] ELSE approvals[i]]
    /\ UNCHANGED <<subject, now, loopRun, call, held, decision, effects, spent>>

Tick ==
    /\ now < MaxTime
    /\ now' = now + 1
    /\ UNCHANGED <<subject, approvals, loopRun, call, held, decision, effects, spent>>

Next ==
    \/ \E c \in Caller : \/ \E arg \in subject.arguments : Begin(c, arg)
                         \/ Check(c) \/ SuspendTurn(c) \/ ReadRun(c) \/ Mark(c) \/ SuspendLoop(c)
                         \/ Perform(c) \/ CompleteReceipt(c) \/ Settle(c) \/ CallerDies(c)
    \/ \E p \in Elevation : RequestElevation(p)
    \/ \E d \in Decider : \/ \E i \in Slot, approve \in BOOLEAN : ReadPending(d, i, approve)
                          \/ WriteDecision(d) \/ Continue(d)
    \/ ReconcileReceipts \/ ReconcileWait
    \/ Tick

Spec == Init /\ [][Next]_vars

\* The daemon's maintenance keeps running; nobody else is obliged to.
FairSpec == Spec /\ WF_vars(ReconcileReceipts)

-----------------------------------------------------------------------------
\* An effect above the caller's ceiling, or one its policy wants confirmed,
\* happens only under an approval that its owner granted for exactly this
\* capability, permission and argument (CapabilityRegistry.invoke and its
\* two lookups), whatever decisions, expiries and other callers came between.
EffectsAreAuthorised ==
    \A e \in effects :
        \/ PermissionAllows(e.needed, e.ceiling) /\ ~e.gated
        \/ /\ e.slot # NoSlot
           /\ approvals[e.slot].status = "approved"
           /\ approvals[e.slot].kind = "capability"
           /\ approvals[e.slot].arg = e.arg
           /\ PermissionAllows(e.needed, approvals[e.slot].permission)

\* A ceiling above the surface's own was granted by an approved elevation
\* that had not lapsed when the turn began (active_session_elevation): a
\* pending, rejected or lapsed request widens nothing.
ElevationIsGranted ==
    \A e \in effects :
        e.ceiling = BaseCeiling \/
        \E i \in Slot : /\ approvals[i].kind = "elevation"
                        /\ approvals[i].status = "approved"
                        /\ approvals[i].permission = e.ceiling
                        /\ approvals[i].expires >= e.since

\* Two answers from two surfaces, or an answer that crosses the expiry of
\* its approval: the first one stands (resolve_approval_in_transaction).
DecisionsAreFinal ==
    [][\A i \in Slot : approvals[i].status # "pending"
                          => approvals'[i].status = approvals[i].status]_vars

\* A direct call whose receipt is complete, and reports no loop that waits,
\* does not leave its run open for ever, even if the caller died before
\* settling it: reconcile_completed_capability_approvals finds it, though the
\* approval has lapsed since or the call yielded control and settled nothing.
ReceiptsSettleRuns ==
    \A i \in 1..MaxApprovals :
        (i \in Slot /\ approvals[i].receipt = "completed")
            ~> (i \in Slot /\ approvals[i].phase = "ended")
=============================================================================
