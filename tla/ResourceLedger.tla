---------------------------- MODULE ResourceLedger -----------------------------
(****************************************************************************)
(* The durable resource ledger (resource_gateway.py) of one execution       *)
(* scope, that is one LoopRun, and those who use it: the drivers of the     *)
(* loop, which reserve a grant before a model, capability or verifier call  *)
(* and release it afterwards, and the daemon's reconciliation, which frees  *)
(* the slots of calls whose driver is gone.                                 *)
(*                                                                          *)
(* A driver has at most one call in flight.  Of the lease the module keeps  *)
(* the owner and whether it is still valid (LoopRunStore has the rest); a   *)
(* driver that lost its lease goes on until its next transition fails, so   *)
(* several drivers may use the scope at once.  Every request has one unit   *)
(* and no idempotency key, as all callers have it.                          *)
(****************************************************************************)
EXTENDS Integers, FiniteSets, FiniteSetsExt

CONSTANTS
  Driver,         \* execution owners
  NoDriver,       \* the empty lease_owner column
  Grant,          \* grant ids
  NoGrant,        \* no call in flight
  MaxConcurrent,  \* ResourceLimits.max_concurrent
  CallBudget,     \* ResourceLimits.call_budget, 0: none
  TokenBudget,    \* ResourceLimits.token_budget, 0: none
  CostBudget,     \* ResourceLimits.cost_budget, 0: none
  QpsLimit,       \* ResourceLimits.qps_limit, 0: none
  ModelRequest,   \* what a model call may ask for
  Usage           \* what a provider may report of a call

Amount == [tokens: Nat, cost: Nat]

ASSUME NameAssumption == NoDriver \notin Driver /\ NoGrant \notin Grant
ASSUME GrantAssumption == IsFiniteSet(Grant)
ASSUME LimitAssumption ==
  /\ MaxConcurrent \in Nat \ {0}
  /\ CallBudget \in Nat /\ TokenBudget \in Nat
  /\ CostBudget \in Nat /\ QpsLimit \in Nat
ASSUME AmountAssumption == ModelRequest \subseteq Amount /\ Usage \subseteq Amount

VARIABLES
  scope,    \* the resource_scopes row: what has been used
  grants,   \* grants[g]: the resource_grants row, with what it is charged
  recent,   \* grants created less than a second ago
  at,       \* at[d]: where driver d stands
  using,    \* using[d]: the grant of its call in flight
  refusal,  \* refusal[d]: why its latest request was refused
  lease,    \* the LoopRun's execution lease
  rec       \* the reconciliation: idle, or the scope is on its list

ledgerVars == <<scope, grants, recent, at, using, refusal, lease, rec>>

Scope == [calls: Nat, tokens: Nat, cost: Nat, active: Nat]

GrantRow == [status: {"none", "active", "released"}, tokens: Nat, cost: Nat]

Reason == {"none", "concurrency_limit", "call_budget_exhausted",
           "token_budget_exhausted", "cost_estimate_required",
           "cost_budget_exhausted", "rate_limited"}

NoAmount == [tokens |-> 0, cost |-> 0]

Active == {g \in Grant : grants[g].status = "active"}

LedgerInit ==
  /\ scope = [calls |-> 0, tokens |-> 0, cost |-> 0, active |-> 0]
  /\ grants = [g \in Grant |-> [status |-> "none", tokens |-> 0, cost |-> 0]]
  /\ recent = {}
  /\ at = [d \in Driver |-> "idle"]
  /\ using = [d \in Driver |-> NoGrant]
  /\ refusal = [d \in Driver |-> "none"]
  /\ lease = [owner |-> NoDriver, valid |-> FALSE]
  /\ rec = "idle"

--------------------------------------------------------------------------------
\* SQLiteResourceLedger

\* Mutant: the concurrency check compares the slots already taken.
DecisionOffByOne(r) ==
  CASE scope.active > MaxConcurrent -> "concurrency_limit"
    [] CallBudget > 0 /\ scope.calls + 1 > CallBudget -> "call_budget_exhausted"
    [] TokenBudget > 0 /\ scope.tokens + r.tokens > TokenBudget
         -> "token_budget_exhausted"
    [] CostBudget > 0 /\ r.cost = 0 -> "cost_estimate_required"
    [] CostBudget > 0 /\ scope.cost + r.cost > CostBudget
         -> "cost_budget_exhausted"
    [] QpsLimit > 0 /\ Cardinality(recent) >= QpsLimit -> "rate_limited"
    [] OTHER -> "none"

\* _decision: the first limit the request would exceed.
Decision(r) ==
  CASE scope.active + 1 > MaxConcurrent -> "concurrency_limit"
    [] CallBudget > 0 /\ scope.calls + 1 > CallBudget -> "call_budget_exhausted"
    [] TokenBudget > 0 /\ scope.tokens + r.tokens > TokenBudget
         -> "token_budget_exhausted"
    [] CostBudget > 0 /\ r.cost = 0 -> "cost_estimate_required"
    [] CostBudget > 0 /\ scope.cost + r.cost > CostBudget
         -> "cost_budget_exhausted"
    [] QpsLimit > 0 /\ Cardinality(recent) >= QpsLimit -> "rate_limited"
    [] OTHER -> "none"

\* reserve of an admitted request: the grant row and the scope's counters.
ReserveGrant(d, g, r, kind) ==
  /\ at[d] = "ready"
  /\ grants[g].status = "none"
  /\ Decision(r) = "none"
  /\ grants' = [grants EXCEPT ![g] = [status |-> "active", tokens |-> r.tokens,
                                      cost |-> r.cost]]
  /\ scope' = [calls |-> scope.calls + 1, tokens |-> scope.tokens + r.tokens,
               cost |-> scope.cost + r.cost, active |-> scope.active + 1]
  /\ recent' = recent \cup {g}
  /\ at' = [at EXCEPT ![d] = kind]
  /\ using' = [using EXCEPT ![d] = g]
  /\ refusal' = [refusal EXCEPT ![d] = "none"]
  /\ UNCHANGED <<lease, rec>>

NotNegative(n) == IF n < 0 THEN 0 ELSE n

\* The scope after n slots are given back and the charge of a grant moves
\* from its estimate to u.
Credited(n, g, u) ==
  [scope EXCEPT !.tokens = NotNegative(@ + u.tokens - grants[g].tokens),
                !.cost   = NotNegative(@ + u.cost - grants[g].cost),
                !.active = NotNegative(@ - n)]

\* Mutant: release() that does not look at the grant's status.
ReleaseAgain(g, u) ==
  /\ scope' = Credited(1, g, u)
  /\ grants' = [grants EXCEPT ![g] = [status |-> "released", tokens |-> u.tokens,
                                      cost |-> u.cost]]

\* release: charges the reported usage, once; a grant that reconciliation
\* already released stays as it is.
Release(g, u) ==
  IF grants[g].status = "active"
  THEN /\ scope' = Credited(1, g, u)
       /\ grants' = [grants EXCEPT ![g] = [status |-> "released",
                                           tokens |-> u.tokens, cost |-> u.cost]]
  ELSE UNCHANGED <<scope, grants>>

\* release_active_grants_for_scopes: the slots are freed, the charges stay.
FreeSlots ==
  /\ scope' = [scope EXCEPT !.active = NotNegative(@ - Cardinality(Active))]
  /\ grants' = [g \in Grant |->
        IF g \in Active THEN [grants[g] EXCEPT !.status = "released"] ELSE grants[g]]

--------------------------------------------------------------------------------
\* The callers.

\* The loop reached a stop state or its driver failed: its lease is cleared.
LeaseGivenUp(d) ==
  lease' = IF lease.owner = d THEN [owner |-> NoDriver, valid |-> FALSE] ELSE lease

\* A call of d is in flight.
InCall(d) == at[d] \in {"model", "capability"}

Claim(d) ==
  /\ at[d] = "idle"
  /\ lease.owner = NoDriver \/ ~lease.valid
  /\ lease' = [owner |-> d, valid |-> TRUE]
  /\ at' = [at EXCEPT ![d] = "ready"]
  /\ UNCHANGED <<scope, grants, recent, using, refusal, rec>>

\* A refused model call or verifier stops the loop (paused, waiting for an
\* approval, or blocked).
ModelRefused(d, r) ==
  /\ at[d] = "ready"
  /\ Decision(r) # "none"
  /\ refusal' = [refusal EXCEPT ![d] = Decision(r)]
  /\ at' = [at EXCEPT ![d] = "stopped"]
  /\ LeaseGivenUp(d)
  /\ UNCHANGED <<scope, grants, recent, using, rec>>

\* A refused capability is a failed result the loop reflects on.
CapabilityRefused(d) ==
  /\ at[d] = "ready"
  /\ Decision(NoAmount) # "none"
  /\ refusal' = [refusal EXCEPT ![d] = Decision(NoAmount)]
  /\ UNCHANGED <<scope, grants, recent, at, using, lease, rec>>

\* What release() charges when no usage is reported: the reservation.
Reserved(g) == [tokens |-> grants[g].tokens, cost |-> grants[g].cost]

\* The call returns, a model call with or without the usage of its provider.
Finish(d) ==
  /\ InCall(d)
  /\ \E u \in Usage \cup {Reserved(using[d])} :
        /\ at[d] = "capability" => u = Reserved(using[d])
        /\ Release(using[d], u)
  /\ at' = [at EXCEPT ![d] = "ready"]
  /\ using' = [using EXCEPT ![d] = NoGrant]
  /\ UNCHANGED <<recent, refusal, lease, rec>>

\* The task is cancelled inside complete_for, whose handlers release on
\* Exception only: nothing is released, and the lease is left to expire.
Cancelled(d) ==
  /\ at[d] = "model"
  /\ at' = [at EXCEPT ![d] = "stopped"]
  /\ using' = [using EXCEPT ![d] = NoGrant]
  /\ UNCHANGED <<scope, grants, recent, refusal, lease, rec>>

Stop(d) ==
  /\ at[d] = "ready"
  /\ at' = [at EXCEPT ![d] = "stopped"]
  /\ LeaseGivenUp(d)
  /\ UNCHANGED <<scope, grants, recent, using, refusal, rec>>

\* The process dies.
DriverCrashes(d) ==
  /\ at[d] = "ready" \/ InCall(d)
  /\ at' = [at EXCEPT ![d] = "crashed"]
  /\ using' = [using EXCEPT ![d] = NoGrant]
  /\ UNCHANGED <<scope, grants, recent, refusal, lease, rec>>

--------------------------------------------------------------------------------
\* The clock and the daemon.

\* The heartbeat misses the lease's expiry.
Expire ==
  /\ lease.valid
  /\ lease' = [lease EXCEPT !.valid = FALSE]
  /\ UNCHANGED <<scope, grants, recent, at, using, refusal, rec>>

\* A second passes.
LedgerTick ==
  /\ recent # {}
  /\ recent' = {}
  /\ UNCHANGED <<scope, grants, at, using, refusal, lease, rec>>

\* Reconciliation, first half: leases of dead owners and expired leases go.
ReleaseLease ==
  /\ lease.owner # NoDriver
  /\ ~lease.valid \/ at[lease.owner] = "crashed"
  /\ lease' = [owner |-> NoDriver, valid |-> FALSE]
  /\ UNCHANGED <<scope, grants, recent, at, using, refusal, rec>>

\* Mutant: the query asks for expired leases only.
ListScopeExpired ==
  /\ rec = "idle"
  /\ lease.owner # NoDriver /\ ~lease.valid
  /\ rec' = "listed"
  /\ UNCHANGED <<scope, grants, recent, at, using, refusal, lease>>

\* list_releasable_resource_scope_ids: a query of another database.
ListScope ==
  /\ rec = "idle"
  /\ lease.owner = NoDriver \/ ~lease.valid
  /\ rec' = "listed"
  /\ UNCHANGED <<scope, grants, recent, at, using, refusal, lease>>

ReleaseGrants ==
  /\ rec = "listed"
  /\ FreeSlots
  /\ rec' = "idle"
  /\ UNCHANGED <<recent, at, using, refusal, lease>>

--------------------------------------------------------------------------------
DriverStep(d) ==
  \/ Claim(d)
  \/ \E g \in Grant, r \in ModelRequest : ReserveGrant(d, g, r, "model")
  \/ \E g \in Grant : ReserveGrant(d, g, NoAmount, "capability")
  \/ \E r \in ModelRequest : ModelRefused(d, r)
  \/ CapabilityRefused(d) \/ Finish(d) \/ Cancelled(d) \/ Stop(d) \/ DriverCrashes(d)

LedgerNext ==
  \/ \E d \in Driver : DriverStep(d)
  \/ Expire \/ LedgerTick \/ ReleaseLease \/ ListScope \/ ReleaseGrants

LedgerSpec == LedgerInit /\ [][LedgerNext]_ledgerVars

\* Calls end, drivers stop, the lease of a driver that stopped renewing it
\* runs out, and every queue pass of the daemon reconciles.
LedgerFairSpec ==
  /\ LedgerSpec
  /\ \A d \in Driver : WF_ledgerVars(Finish(d) \/ Cancelled(d)) /\ SF_ledgerVars(Stop(d))
  /\ WF_ledgerVars(lease.owner # NoDriver /\ at[lease.owner] = "stopped" /\ Expire)
  /\ WF_ledgerVars(ReleaseLease) /\ WF_ledgerVars(ListScope) /\ WF_ledgerVars(ReleaseGrants)

--------------------------------------------------------------------------------
\* Properties.

\* Type correctness of the ledger's rows, the drivers and the lease.
LedgerTypeOK ==
  /\ scope \in Scope
  /\ grants \in [Grant -> GrantRow]
  /\ recent \subseteq Grant
  /\ at \in [Driver -> {"idle", "ready", "model", "capability", "stopped",
                     "crashed"}]
  /\ using \in [Driver -> Grant \cup {NoGrant}]
  /\ refusal \in [Driver -> Reason]
  /\ lease \in [owner: Driver \cup {NoDriver}, valid: BOOLEAN]
  /\ rec \in {"idle", "listed"}

\* The scope's counter of slots is the number of its active grants, whatever
\* releases come late, twice or not at all: no slot is freed twice and none
\* is lost.
SlotsAreGrants == scope.active = Cardinality(Active)

\* Concurrent and repeated drivers together never take more slots or make
\* more calls than the LoopSpec's budget allows.
WithinLimits ==
  /\ scope.active <= MaxConcurrent
  /\ CallBudget > 0 => scope.calls <= CallBudget

\* What the grants of a table are charged together.
TokensOf(rows) == MapThenSumSet(LAMBDA g : rows[g].tokens, Grant)
CostOf(rows) == MapThenSumSet(LAMBDA g : rows[g].cost, Grant)

\* "accounted in a process-safe ledger": the scope's totals are the sums of
\* what its grants are charged, estimates of running and abandoned calls
\* included, so that no correction ever meets the zero floor.
ChargesAddUp ==
  /\ scope.tokens = TokensOf(grants)
  /\ scope.cost = CostOf(grants)

\* A grant is settled once: neither the late release of a call whose slot
\* reconciliation freed, nor a second reconciliation, charges it again.
SettledOnce ==
  [][\A g \in Grant : grants[g].status = "released" => grants'[g] = grants[g]]_ledgerVars

\* "a crashed worker cannot permanently self-block a durable loop": a slot
\* whose call is gone is freed in the end.
Orphaned(g) == g \in Active /\ \A d \in Driver : using[d] # g

SlotsAreFreed == \A g \in Grant : Orphaned(g) ~> ~Orphaned(g)

--------------------------------------------------------------------------------
\* The inductive invariant of CapabilityCallProofs.

\* A call in flight has a grant, reserved for it at some time.
CallHasGrant == \A d \in Driver : InCall(d) => using[d] \in Grant

LedgerInv == LedgerTypeOK /\ CallHasGrant /\ SlotsAreGrants /\ WithinLimits

\* A grant that was never reserved is charged nothing.
UnreservedIsFree ==
  \A g \in Grant : grants[g].status = "none" => grants[g].tokens = 0 /\ grants[g].cost = 0

ChargeInv == LedgerInv /\ UnreservedIsFree /\ ChargesAddUp
================================================================================
