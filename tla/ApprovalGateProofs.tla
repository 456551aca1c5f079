-------------------------- MODULE ApprovalGateProofs --------------------------
(* Theorems about ApprovalGate, for any callers, deciders, subjects and    *)
(* bounds.  What a caller holds between two commits, an approval it found, *)
(* a ceiling it computed, is stale by the time it is used; the invariant   *)
(* says what of it cannot have changed.                                    *)
EXTENDS ApprovalGate, WellFoundedInduction, SequenceTheorems, TLAPS

-----------------------------------------------------------------------------
(* The invariant.                                                          *)

Argument == subject.arguments \cup {"none"}

Approval ==
    [kind : {"capability", "elevation"}, owner : {"own", "loop"}, arg : Argument,
     permission : Permission,
     status : {"pending", "approved", "rejected", "expired"}, expires : Nat,
     phase : {"paused", "pending", "ended"}, marked : BOOLEAN,
     receipt : {"none", "waits", "completed"}]

CallState == {"idle", "checking", "suspending", "marking", "writing", "ready", "performed",
              "settling"}

CallRecord == [at : CallState, arg : Argument, ceiling : Permission, since : Nat, slot : Nat]

DecisionRecord == [slot : Nat, approve : BOOLEAN, at : {"read", "continue"}]

HeldRecord == [outcome : {"done", "waits", "yields"}, receipt : BOOLEAN,
               phase : {"paused", "pending", "ended"}]

HeldInv == held \in [Caller -> HeldRecord]

TypeInv ==
    /\ subject \in Subject
    /\ now \in 0..MaxTime
    /\ approvals \in Seq(Approval)
    /\ loopRun \in {"running", "paused", "pending", "ended"}
    /\ call \in [Caller -> CallRecord]
    /\ decision \in [Decider -> DecisionRecord]

\* Row i of table t was granted for this argument, and for at least `needed`.
Covers(t, i, arg, needed) ==
    /\ i # NoSlot
    /\ t[i].status = "approved"
    /\ t[i].kind = "capability"
    /\ t[i].arg = arg
    /\ PermissionAllows(needed, t[i].permission)

\* A ceiling is the surface's own, or table t has an elevation to it that was
\* approved and had not lapsed at `since`.
Grants(t, ceiling, since) ==
    ceiling = BaseCeiling \/
    \E i \in 1..Len(t) : /\ t[i].kind = "elevation"
                         /\ t[i].status = "approved"
                         /\ t[i].permission = ceiling
                         /\ t[i].expires >= since

\* What a caller may rely on, however long ago it looked.
CallFits(c) ==
    /\ call[c].at # "idle" => call[c].arg \in subject.arguments
    /\ call[c].slot <= Len(approvals)
    /\ call[c].at \in {"marking", "writing"} => call[c].slot # NoSlot
    /\ call[c].at = "ready" =>
          \/ PermissionAllows(Needed(c), call[c].ceiling) /\ ~Gated(c)
          \/ Covers(approvals, call[c].slot, call[c].arg, Needed(c))
    /\ Grants(approvals, call[c].ceiling, call[c].since)

EffectFits(e) ==
    /\ e.slot \in 0..Len(approvals)
    /\ \/ PermissionAllows(e.needed, e.ceiling) /\ ~e.gated
       \/ Covers(approvals, e.slot, e.arg, e.needed)
    /\ Grants(approvals, e.ceiling, e.since)

GateInv ==
    /\ TypeInv
    /\ \A c \in Caller : CallFits(c)
    /\ \A d \in Decider : decision[d].slot <= Len(approvals)
    /\ \A e \in effects : EffectFits(e)

\* What nobody rewrites in an approval: its terms, and a decision once taken.
SameTerms(a, b) ==
    /\ b.kind = a.kind /\ b.owner = a.owner /\ b.arg = a.arg
    /\ b.permission = a.permission /\ b.expires = a.expires
    /\ a.status # "pending" => b.status = a.status

\* The table only grows.
Grown(s, t) ==
    /\ Len(s) <= Len(t)
    /\ \A i \in 1..Len(s) : SameTerms(s[i], t[i])

GoodTable(t) == t \in Seq(Approval) /\ Grown(approvals, t)

-----------------------------------------------------------------------------
(* The operators the gate is built from.                                   *)

\* The four permissions are in a line.
LEMMA PermissionRank ==
  ASSUME NEW p \in Permission PROVE PermissionOrder[p] \in 0..3
BY DEF Permission, PermissionOrder

\* A permission allows what a permission it allows allows.
LEMMA AllowsIsTransitive ==
  ASSUME NEW p \in Permission, NEW q \in Permission, NEW r \in Permission,
         PermissionAllows(p, q), PermissionAllows(q, r)
  PROVE  PermissionAllows(p, r)
BY PermissionRank DEF PermissionAllows

\* The larger of two permissions is one of them, and allows the first.
LEMMA MaxCoversFirst ==
  ASSUME NEW p \in Permission, NEW q \in Permission
  PROVE  /\ MaxPermission(p, q) \in {p, q}
         /\ PermissionAllows(p, MaxPermission(p, q))
BY PermissionRank DEF PermissionAllows, MaxPermission

\* Every class of arguments of every capability requires some permission.
LEMMA RequiredIsPermission ==
  ASSUME NEW spec, WellFormed(spec), NEW arg \in Arguments(spec)
  PROVE  RequiredPermission(spec, arg) \in Permission
<1>1. spec.permission \in Permission
  BY DEF WellFormed
<1>2. CASE spec.permissionPolicy = "static"
  BY <1>1, <1>2 DEF RequiredPermission
<1>3. CASE spec.permissionPolicy = "shell_argv"
  <2>1. arg \in ShellArgv
    BY <1>3 DEF Arguments
  <2>2. RequiredPermission(spec, arg) = ShellPermission(arg)
    BY <1>3 DEF RequiredPermission
  <2> QED
    BY <2>1, <2>2 DEF ShellArgv, ShellPermission, Permission
<1>4. CASE spec.permissionPolicy = "agent_operation"
  BY <1>4 DEF RequiredPermission, Permission
<1>5. CASE spec.permissionPolicy = "argument_map"
  <2> DEFINE mapped == CASE arg = "mapped_read"    -> "read"
                  [] arg = "mapped_network" -> "network"
                  [] arg = "mapped_prepare" -> "prepare"
                  [] arg \in {"mapped_write", "unmapped"} -> "write"
  <2>1. arg \in MappedTool
    BY <1>5 DEF Arguments
  <2>2. mapped \in Permission
    BY <2>1 DEF MappedTool, Permission
  <2>3. RequiredPermission(spec, arg) = MaxPermission(spec.permission, mapped)
    BY <1>5 DEF RequiredPermission
  <2> HIDE DEF mapped
  <2> QED
    BY <1>1, <2>2, <2>3, MaxCoversFirst
<1> QED
  BY <1>2, <1>3, <1>4, <1>5 DEF WellFormed

\* A set of naturals that is not empty has a least element.
LEMMA NatMin ==
  ASSUME NEW T, T \subseteq Nat, T # {}
  PROVE  \E x \in T : \A y \in T : x <= y
<1> DEFINE R == {ss \in Nat \X Nat : ss[1] < ss[2]}
<1>1. IsWellFoundedOn(R, Nat)
  BY NatLessThanWellFounded DEF OpToRel
<1>2. \E x \in T : \A y \in T : <<y, x>> \notin R
  <2> HIDE DEF R
  <2> QED BY <1>1, WFMin
<1>3. ASSUME NEW x \in Nat, NEW y \in Nat, <<y, x>> \notin R PROVE x <= y
  BY <1>3
<1> HIDE DEF R
<1> QED
  BY <1>2, <1>3

\* The newest of some rows is one of them.
LEMMA NewestIsOne ==
  ASSUME NEW n \in Nat, NEW S, S \subseteq 1..n, S # {}
  PROVE  Newest(S) \in S
<1> DEFINE T == {n - j : j \in S}
<1>1. T \subseteq Nat
  OBVIOUS
<1>2. T # {}
  <2>1. PICK j \in S : TRUE
    OBVIOUS
  <2>2. n - j \in T
    BY <2>1
  <2> QED
    BY <2>2
<1>3. PICK x \in T : \A y \in T : x <= y
  <2> HIDE DEF T
  <2> QED BY <1>1, <1>2, NatMin
<1>4. PICK i \in S : x = n - i
  OBVIOUS
<1>5. \A j \in S : n - i <= n - j
  BY <1>3, <1>4
<1>6. \A j \in S : j <= i
  BY <1>5
<1> QED
  BY <1>6 DEF Newest

-----------------------------------------------------------------------------
(* Writes to the approvals table.                                          *)

\* A write to a column that is not among the terms.
LEMMA ColumnWrites ==
  ASSUME NEW a \in Approval
  PROVE  /\ [a EXCEPT !.marked = TRUE] \in Approval
         /\ SameTerms(a, [a EXCEPT !.marked = TRUE])
         /\ \A r \in {"waits", "completed"} :
               /\ [a EXCEPT !.receipt = r] \in Approval
               /\ SameTerms(a, [a EXCEPT !.receipt = r])
         /\ \A p \in {"pending", "ended"} :
               /\ [a EXCEPT !.phase = p] \in Approval
               /\ SameTerms(a, [a EXCEPT !.phase = p])
BY DEF Approval, SameTerms

\* A write of the status of a row that is pending, or of the same status,
\* together with the phase of its run.
LEMMA StatusWrite ==
  ASSUME NEW a \in Approval,
         NEW s \in {"pending", "approved", "rejected", "expired"},
         a.status # "pending" => s = a.status,
         NEW p \in {"paused", "pending", "ended"}
  PROVE  /\ [a EXCEPT !.status = s, !.phase = p] \in Approval
         /\ SameTerms(a, [a EXCEPT !.status = s, !.phase = p])
         /\ [a EXCEPT !.status = s] \in Approval
         /\ SameTerms(a, [a EXCEPT !.status = s])
BY DEF Approval, SameTerms

\* A table whose every row keeps its terms.
LEMMA MappedRows ==
  ASSUME TypeInv, NEW t, t = [i \in Slot |-> t[i]],
         \A i \in Slot : t[i] \in Approval /\ SameTerms(approvals[i], t[i])
  PROVE  /\ t \in Seq(Approval)
         /\ Len(t) = Len(approvals)
         /\ Grown(approvals, t)
<1>1. Len(approvals) \in Nat /\ Slot = 1..Len(approvals)
  BY DEF TypeInv, Slot
<1>2. t \in [1..Len(approvals) -> Approval]
  BY <1>1
<1>3. t \in Seq(Approval)
  BY <1>1, <1>2, SeqDef
<1>4. Len(t) = Len(approvals)
  BY <1>1, <1>2, <1>3, LenProperties
<1> QED
  BY <1>1, <1>3, <1>4 DEF Grown

\* The table as it is.
LEMMA SameTable ==
  ASSUME TypeInv PROVE Grown(approvals, approvals)
BY DEF TypeInv, Grown, SameTerms

\* A write to one row.
LEMMA OneRow ==
  ASSUME TypeInv, NEW i \in Slot, NEW r \in Approval, SameTerms(approvals[i], r)
  PROVE  /\ [approvals EXCEPT ![i] = r] \in Seq(Approval)
         /\ Len([approvals EXCEPT ![i] = r]) = Len(approvals)
         /\ Grown(approvals, [approvals EXCEPT ![i] = r])
<1> DEFINE t == [approvals EXCEPT ![i] = r]
<1>1. t = [j \in Slot |-> t[j]]
  BY DEF Slot
<1>2. \A j \in Slot : approvals[j] \in Approval
  BY DEF TypeInv, Slot
<1>3. \A j \in Slot : t[j] = IF j = i THEN r ELSE approvals[j]
  BY DEF Slot
<1>4. \A j \in Slot : SameTerms(approvals[j], approvals[j])
  BY DEF SameTerms
<1>5. \A j \in Slot : t[j] \in Approval /\ SameTerms(approvals[j], t[j])
  BY <1>2, <1>3, <1>4
<1> HIDE DEF t
<1>6. t \in Seq(Approval) /\ Len(t) = Len(approvals) /\ Grown(approvals, t)
  BY <1>1, <1>5, MappedRows
<1> QED
  BY <1>6 DEF t

\* expire_pending_approvals only ends rows that are pending.
LEMMA ExpiredRows ==
  ASSUME TypeInv
  PROVE  /\ Expired \in Seq(Approval)
         /\ Len(Expired) = Len(approvals)
         /\ Grown(approvals, Expired)
<1>1. Expired = [i \in Slot |-> Expired[i]]
  BY DEF Expired
<1>2. ASSUME NEW i \in Slot
      PROVE  Expired[i] \in Approval /\ SameTerms(approvals[i], Expired[i])
  <2>1. approvals[i] \in Approval
    BY DEF TypeInv, Slot
  <2>2. SameTerms(approvals[i], approvals[i])
    BY DEF SameTerms
  <2>3. CASE approvals[i].status = "pending" /\ approvals[i].expires < now
    <3>1. Expired[i] = [approvals[i] EXCEPT !.status = "expired"]
      BY <2>3 DEF Expired
    <3> QED
      BY <2>1, <2>3, <3>1, StatusWrite
  <2>4. CASE ~(approvals[i].status = "pending" /\ approvals[i].expires < now)
    BY <2>1, <2>2, <2>4 DEF Expired
  <2> QED
    BY <2>3, <2>4
<1> QED
  BY <1>1, <1>2, MappedRows

\* A new approval is a row.
LEMMA NewApprovalType ==
  ASSUME TypeInv, NEW kind \in {"capability", "elevation"}, NEW owner \in {"own", "loop"},
         NEW arg \in Argument, NEW permission \in Permission, NEW marked \in BOOLEAN
  PROVE  NewApproval(kind, owner, arg, permission, marked) \in Approval
BY GateAssumption DEF TypeInv, NewApproval, Approval

\* A row appended to the expired table.
LEMMA AppendedRow ==
  ASSUME TypeInv, NEW r \in Approval
  PROVE  /\ Append(Expired, r) \in Seq(Approval)
         /\ Len(Append(Expired, r)) = Len(approvals) + 1
         /\ Grown(approvals, Append(Expired, r))
<1> DEFINE t == Expired
<1>1. t \in Seq(Approval) /\ Len(t) = Len(approvals) /\ Grown(approvals, t)
  BY ExpiredRows
<1>2. Len(approvals) \in Nat
  BY DEF TypeInv
<1> HIDE DEF t
<1>3. /\ Append(t, r) \in Seq(Approval)
      /\ Len(Append(t, r)) = Len(t) + 1
      /\ \A i \in 1..Len(t) : Append(t, r)[i] = t[i]
  BY <1>1
<1>4. Grown(approvals, Append(t, r))
  BY <1>1, <1>2, <1>3 DEF Grown
<1> QED
  BY <1>1, <1>3, <1>4 DEF t

-----------------------------------------------------------------------------
(* What survives a step that leaves a caller, or an effect, alone.         *)

LEMMA CoversKept ==
  ASSUME NEW s, NEW t, Len(s) \in Nat, Grown(s, t),
         NEW i \in 0..Len(s), NEW arg, NEW needed, Covers(s, i, arg, needed)
  PROVE  Covers(t, i, arg, needed)
<1>1. i \in 1..Len(s)
  BY DEF Covers, NoSlot
<1>2. SameTerms(s[i], t[i])
  BY <1>1 DEF Grown
<1> QED
  BY <1>2 DEF SameTerms, Covers

LEMMA GrantsKept ==
  ASSUME NEW s, NEW t, Len(s) \in Nat, Len(t) \in Nat, Grown(s, t),
         NEW ceiling, NEW since, Grants(s, ceiling, since)
  PROVE  Grants(t, ceiling, since)
<1>1. CASE ceiling = BaseCeiling
  BY <1>1 DEF Grants
<1>2. CASE \E i \in 1..Len(s) : /\ s[i].kind = "elevation"
                                /\ s[i].status = "approved"
                                /\ s[i].permission = ceiling
                                /\ s[i].expires >= since
  <2>1. PICK i \in 1..Len(s) : /\ s[i].kind = "elevation"
                               /\ s[i].status = "approved"
                               /\ s[i].permission = ceiling
                               /\ s[i].expires >= since
    BY <1>2
  <2>2. SameTerms(s[i], t[i]) /\ i \in 1..Len(t)
    BY DEF Grown
  <2> QED
    BY <2>1, <2>2 DEF SameTerms, Grants
<1> QED
  BY <1>1, <1>2 DEF Grants

\* The requirement and the gate of a call depend on the call alone.
LEMMA SameRequirement ==
  ASSUME subject' = subject, NEW c, call'[c].arg = call[c].arg,
         call'[c].ceiling = call[c].ceiling
  PROVE  /\ Needed(c)' = Needed(c)
         /\ Gated(c)' <=> Gated(c)
BY DEF Needed, Spec_, Gated, Surface, CeilingExceeded, ApprovalPermission

LEMMA CallKept ==
  ASSUME GateInv, GoodTable(approvals'), subject' = subject,
         NEW c \in Caller, call'[c] = call[c]
  PROVE  CallFits(c)'
<1>1. Len(approvals) \in Nat /\ Len(approvals') \in Nat /\ Len(approvals) <= Len(approvals')
  BY DEF GateInv, TypeInv, GoodTable, Grown
<1>2. call[c] \in CallRecord /\ CallFits(c)
  BY DEF GateInv, TypeInv
<1>3. Needed(c)' = Needed(c) /\ (Gated(c)' <=> Gated(c))
  BY SameRequirement
<1>4. Grants(approvals', call[c].ceiling, call[c].since)
  BY <1>1, <1>2, GrantsKept DEF CallFits, GoodTable
<1>5. call[c].slot \in 0..Len(approvals)
  BY <1>1, <1>2 DEF CallFits, CallRecord
<1>6. Covers(approvals, call[c].slot, call[c].arg, Needed(c))
        => Covers(approvals', call[c].slot, call[c].arg, Needed(c))
  BY <1>1, <1>5, CoversKept DEF GoodTable
<1> QED
  BY <1>1, <1>2, <1>3, <1>4, <1>5, <1>6 DEF CallFits

LEMMA EffectKept ==
  ASSUME GateInv, GoodTable(approvals'), NEW e \in effects
  PROVE  EffectFits(e)'
<1>1. Len(approvals) \in Nat /\ Len(approvals') \in Nat /\ Len(approvals) <= Len(approvals')
  BY DEF GateInv, TypeInv, GoodTable, Grown
<1>2. EffectFits(e)
  BY DEF GateInv
<1>3. Grants(approvals', e.ceiling, e.since)
  BY <1>1, <1>2, GrantsKept DEF EffectFits, GoodTable
<1>4. Covers(approvals, e.slot, e.arg, e.needed) => Covers(approvals', e.slot, e.arg, e.needed)
  BY <1>1, <1>2, CoversKept DEF GoodTable, EffectFits
<1> QED
  BY <1>1, <1>2, <1>3, <1>4 DEF EffectFits

\* A step of one caller, which goes on with record k.
LEMMA CallStep ==
  ASSUME GateInv, GoodTable(approvals'), subject' = subject, now' = now,
         loopRun' \in {"running", "paused", "pending", "ended"},
         decision' = decision, NEW c \in Caller, NEW k \in CallRecord,
         call' = [call EXCEPT ![c] = k], CallFits(c)',
         \A e \in effects' \ effects : EffectFits(e)'
  PROVE  GateInv' /\ GoodTable(approvals')
<1>1. call' \in [Caller -> CallRecord]
  BY DEF GateInv, TypeInv
<1>2. ASSUME NEW b \in Caller PROVE CallFits(b)'
  <2>1. CASE b = c
    BY <2>1
  <2>2. CASE b # c
    <3>1. call'[b] = call[b]
      BY <2>2 DEF GateInv, TypeInv
    <3> QED
      BY <3>1, CallKept
  <2> QED
    BY <2>1, <2>2
<1>3. ASSUME NEW e \in effects' PROVE EffectFits(e)'
  BY EffectKept
<1>4. ASSUME NEW d \in Decider PROVE decision'[d].slot <= Len(approvals')
  <2>1. decision[d] \in DecisionRecord /\ decision[d].slot <= Len(approvals)
    BY DEF GateInv, TypeInv
  <2>2. Len(approvals) \in Nat /\ Len(approvals') \in Nat /\ Len(approvals) <= Len(approvals')
    BY DEF GateInv, TypeInv, GoodTable, Grown
  <2> QED
    BY <2>1, <2>2 DEF DecisionRecord
<1>5. TypeInv'
  BY <1>1 DEF GateInv, TypeInv, GoodTable, Approval, Argument, CallRecord
<1> QED
  BY <1>2, <1>3, <1>4, <1>5 DEF GateInv

\* A step of nobody who calls.
LEMMA TableStep ==
  ASSUME GateInv, GoodTable(approvals'), subject' = subject, now' \in 0..MaxTime,
         loopRun' \in {"running", "paused", "pending", "ended"},
         call' = call, effects' = effects, decision' \in [Decider -> DecisionRecord],
         \A d \in Decider : decision'[d] = decision[d] \/ decision'[d].slot <= Len(approvals)
  PROVE  GateInv' /\ GoodTable(approvals')
<1>1. \A b \in Caller : CallFits(b)'
  BY CallKept
<1>2. \A e \in effects' : EffectFits(e)'
  BY EffectKept
<1>3. ASSUME NEW d \in Decider PROVE decision'[d].slot <= Len(approvals')
  <2>1. decision'[d] \in DecisionRecord /\ decision'[d].slot <= Len(approvals)
    BY DEF GateInv, TypeInv
  <2>2. Len(approvals) \in Nat /\ Len(approvals') \in Nat /\ Len(approvals) <= Len(approvals')
    BY DEF GateInv, TypeInv, GoodTable, Grown
  <2> QED
    BY <2>1, <2>2 DEF DecisionRecord
<1>4. TypeInv'
  BY DEF GateInv, TypeInv, GoodTable, Approval, Argument, CallRecord
<1> QED
  BY <1>1, <1>2, <1>3, <1>4 DEF GateInv

-----------------------------------------------------------------------------
(* One caller.                                                             *)

\* The facts every action needs of the subject and of a caller.
LEMMA Basics ==
  ASSUME GateInv, NEW c \in Caller
  PROVE  /\ Len(approvals) \in Nat /\ Slot = 1..Len(approvals)
         /\ call[c] \in CallRecord /\ CallFits(c)
         /\ subject.requested \in Permission
         /\ call[c].at # "idle" => Needed(c) \in Permission
         /\ now \in Nat
<1>1. /\ Len(approvals) \in Nat /\ Slot = 1..Len(approvals)
      /\ call[c] \in CallRecord /\ CallFits(c)
  BY DEF GateInv, TypeInv, Slot
<1>2. /\ subject.name \in DOMAIN Catalogue /\ subject.requested \in Permission
      /\ subject.arguments \subseteq Arguments(Catalogue[subject.name])
  BY SubjectAssumption DEF GateInv, TypeInv
<1>3. WellFormed(Catalogue[subject.name])
  BY <1>2, CatalogueIsWellFormed
<1>4. ASSUME call[c].at # "idle" PROVE Needed(c) \in Permission
  <2>1. call[c].arg \in Arguments(Catalogue[subject.name])
    BY <1>1, <1>2, <1>4 DEF CallFits
  <2> QED
    BY <1>3, <2>1, RequiredIsPermission DEF Needed, Spec_
<1>5. now \in Nat
  BY GateAssumption DEF GateInv, TypeInv
<1> QED
  BY <1>1, <1>2, <1>4, <1>5

\* A record that is not about to act needs no authority.
LEMMA FitsAs ==
  ASSUME subject' = subject, NEW c \in Caller, NEW k \in CallRecord, call'[c] = k,
         k.at # "ready", k.at # "idle" => k.arg \in subject.arguments,
         k.slot <= Len(approvals'), k.at \in {"marking", "writing"} => k.slot # NoSlot,
         Grants(approvals', k.ceiling, k.since)
  PROVE  CallFits(c)'
BY DEF CallFits

LEMMA IdleRecord ==
  ASSUME GateInv PROVE IdleCall \in CallRecord
BY GateAssumption DEF IdleCall, CallRecord, CallState, Argument, NoSlot

\* A caller that is done, refused or dead.
LEMMA ToIdle ==
  ASSUME GateInv, GoodTable(approvals'), subject' = subject, now' = now,
         loopRun' \in {"running", "paused", "pending", "ended"},
         decision' = decision, effects' = effects,
         NEW c \in Caller, call' = [call EXCEPT ![c] = IdleCall]
  PROVE  GateInv' /\ GoodTable(approvals')
<1>1. IdleCall \in CallRecord
  BY IdleRecord
<1>2. call'[c] = IdleCall
  BY DEF GateInv, TypeInv
<1>3. /\ IdleCall.at = "idle" /\ IdleCall.slot = 0 /\ IdleCall.ceiling = BaseCeiling
  BY DEF IdleCall, NoSlot
<1>4. Grants(approvals', IdleCall.ceiling, IdleCall.since)
  BY <1>3 DEF Grants
<1>5. Len(approvals') \in Nat
  BY DEF GoodTable
<1>6. CallFits(c)'
  BY <1>1, <1>2, <1>3, <1>4, <1>5, FitsAs
<1> QED
  BY <1>1, <1>6, CallStep

\* A caller that goes on with the same call.
LEMMA GoesOn ==
  ASSUME GateInv, GoodTable(approvals'), subject' = subject, now' = now,
         loopRun' = loopRun, decision' = decision,
         \A e \in effects' \ effects : EffectFits(e)',
         NEW c \in Caller, call[c].at # "idle",
         NEW a \in {"suspending", "writing", "performed", "settling"},
         a = "writing" => call[c].slot # NoSlot,
         call' = [call EXCEPT ![c].at = a]
  PROVE  GateInv' /\ GoodTable(approvals')
<1> DEFINE k == [call[c] EXCEPT !.at = a]
<1>1. Len(approvals) \in Nat /\ Len(approvals') \in Nat /\ Len(approvals) <= Len(approvals')
  BY DEF GateInv, TypeInv, GoodTable, Grown
<1>2. call[c] \in CallRecord /\ CallFits(c)
  BY Basics
<1>3. k = [at |-> a, arg |-> call[c].arg, ceiling |-> call[c].ceiling,
           since |-> call[c].since, slot |-> call[c].slot]
  BY <1>2 DEF CallRecord
<1>4. k \in CallRecord
  BY <1>2, <1>3 DEF CallRecord, CallState
<1>5. call' = [call EXCEPT ![c] = k] /\ call'[c] = k
  BY DEF GateInv, TypeInv
<1>6. Grants(approvals', call[c].ceiling, call[c].since)
  BY <1>1, <1>2, GrantsKept DEF CallFits, GoodTable
<1>7. call[c].slot <= Len(approvals')
  BY <1>1, <1>2 DEF CallFits, CallRecord
<1>8. call[c].arg \in subject.arguments
  BY <1>2 DEF CallFits
<1>9. CallFits(c)'
  <2>1. /\ k.at = a /\ k.arg = call[c].arg /\ k.slot = call[c].slot
        /\ k.ceiling = call[c].ceiling /\ k.since = call[c].since
    BY <1>3
  <2> HIDE DEF k
  <2> QED BY <1>4, <1>5, <1>6, <1>7, <1>8, <2>1, FitsAs
<1>10. loopRun' \in {"running", "paused", "pending", "ended"}
  BY DEF GateInv, TypeInv
<1> HIDE DEF k
<1> QED
  BY <1>4, <1>5, <1>9, <1>10, CallStep

\* The ceiling of a turn is the surface's own or was granted.
LEMMA CeilingIsGranted ==
  ASSUME GateInv
  PROVE  EffectiveCeiling \in Permission /\ Grants(approvals, EffectiveCeiling, now)
<1>1. BaseCeiling \in Permission
  BY GateAssumption
<1>2. Grants(approvals, BaseCeiling, now)
  BY DEF Grants
<1>3. CASE LiveElevations = {}
  BY <1>1, <1>2, <1>3 DEF EffectiveCeiling
<1>4. CASE LiveElevations # {}
  <2> DEFINE i == Newest(LiveElevations)
  <2>1. Len(approvals) \in Nat /\ LiveElevations \subseteq 1..Len(approvals)
    BY DEF GateInv, TypeInv, LiveElevations, Slot
  <2>2. i \in LiveElevations
    BY <1>4, <2>1, NewestIsOne
  <2> HIDE DEF i
  <2>3. /\ i \in 1..Len(approvals)
        /\ approvals[i].kind = "elevation" /\ approvals[i].status = "approved"
        /\ approvals[i].expires >= now
    BY <2>1, <2>2 DEF LiveElevations
  <2>4. approvals[i] \in Approval
    BY <2>3 DEF GateInv, TypeInv
  <2>5. approvals[i].permission \in Permission
    BY <2>4 DEF Approval
  <2>6. Grants(approvals, approvals[i].permission, now)
    BY <2>3 DEF Grants
  <2>7. EffectiveCeiling = MaxPermission(BaseCeiling, approvals[i].permission)
    BY <1>4 DEF EffectiveCeiling, i
  <2>8. EffectiveCeiling \in {BaseCeiling, approvals[i].permission}
    BY <1>1, <2>5, <2>7, MaxCoversFirst
  <2> QED
    BY <1>1, <1>2, <2>5, <2>6, <2>8
<1> QED
  BY <1>3, <1>4

LEMMA BeginKeeps ==
  ASSUME GateInv, NEW c \in Caller, NEW arg \in subject.arguments, Begin(c, arg)
  PROVE  GateInv' /\ GoodTable(approvals')
<1> DEFINE top == IF c \in Turn THEN EffectiveCeiling ELSE BaseCeiling
           k == [at |-> "checking", arg |-> arg, since |-> now, slot |-> NoSlot,
                 ceiling |-> top]
<1>1. call' = [call EXCEPT ![c] = k] /\ approvals' = approvals
  BY DEF Begin
<1>2. top \in Permission /\ Grants(approvals, top, now)
  BY CeilingIsGranted, GateAssumption DEF Grants
<1>3. now \in Nat /\ Len(approvals) \in Nat
  BY Basics
<1> HIDE DEF top
<1>4. k \in CallRecord
  BY <1>2, <1>3 DEF CallRecord, CallState, Argument, NoSlot
<1>5. /\ k.at = "checking" /\ k.arg = arg /\ k.slot = 0 /\ k.ceiling = top /\ k.since = now
  BY DEF NoSlot
<1>6. call'[c] = k
  BY <1>1 DEF GateInv, TypeInv
<1> HIDE DEF k
<1>7. CallFits(c)'
  BY <1>1, <1>2, <1>3, <1>4, <1>5, <1>6, FitsAs DEF Begin
<1>8. GoodTable(approvals') /\ loopRun' \in {"running", "paused", "pending", "ended"}
  BY <1>1, SameTable DEF GoodTable, GateInv, TypeInv, Begin
<1> QED
  BY <1>1, <1>4, <1>7, <1>8, CallStep DEF Begin

\* The permission an approval asks for covers what the call needs.
LEMMA ApprovalCoversNeed ==
  ASSUME GateInv, NEW c \in Caller, call[c].at # "idle"
  PROVE  /\ ApprovalPermission(c) \in Permission
         /\ PermissionAllows(Needed(c), ApprovalPermission(c))
BY Basics, MaxCoversFirst DEF ApprovalPermission

\* Two columns of a caller's record, written at once.
LEMMA TwoFields ==
  ASSUME NEW r \in CallRecord, NEW a, NEW i
  PROVE  [r EXCEPT !.at = a, !.slot = i] =
           [at |-> a, arg |-> r.arg, ceiling |-> r.ceiling, since |-> r.since, slot |-> i]
<1> DEFINE s == [r EXCEPT !.at = a]
<1>1. [r EXCEPT !.at = a, !.slot = i] = [s EXCEPT !.slot = i]
  OBVIOUS
<1>2. s = [at |-> a, arg |-> r.arg, ceiling |-> r.ceiling, since |-> r.since,
           slot |-> r.slot]
  BY DEF CallRecord
<1> HIDE DEF s
<1>3. [s EXCEPT !.slot = i] =
        [at |-> a, arg |-> r.arg, ceiling |-> r.ceiling, since |-> r.since, slot |-> i]
  BY <1>2
<1> QED
  BY <1>1, <1>3

\* A caller that may act: with a ceiling that is enough, or with a grant.
LEMMA Readied ==
  ASSUME GateInv, UNCHANGED <<subject, now, approvals, loopRun, decision, effects>>,
         NEW c \in Caller, call[c].at # "idle", NEW i \in 0..Len(approvals),
         call' = [call EXCEPT ![c].at = "ready", ![c].slot = i],
         \/ PermissionAllows(Needed(c), call[c].ceiling) /\ ~Gated(c)
         \/ Covers(approvals, i, call[c].arg, Needed(c))
  PROVE  GateInv' /\ GoodTable(approvals')
<1> DEFINE k == [call[c] EXCEPT !.at = "ready", !.slot = i]
<1>1. Len(approvals) \in Nat /\ call[c] \in CallRecord /\ CallFits(c)
  BY Basics
<1>2. k = [at |-> "ready", arg |-> call[c].arg, ceiling |-> call[c].ceiling,
           since |-> call[c].since, slot |-> i]
  BY <1>1, TwoFields
<1>3. k \in CallRecord
  BY <1>1, <1>2 DEF CallRecord, CallState
<1>4. call' = [call EXCEPT ![c] = k] /\ call'[c] = k
  BY DEF GateInv, TypeInv
<1>5. /\ k.at = "ready" /\ k.arg = call[c].arg /\ k.slot = i
      /\ k.ceiling = call[c].ceiling /\ k.since = call[c].since
  BY <1>2
<1> HIDE DEF k
<1>6. Needed(c)' = Needed(c) /\ (Gated(c)' <=> Gated(c))
  BY <1>4, <1>5, SameRequirement
<1>7. CallFits(c)'
  BY <1>1, <1>4, <1>5, <1>6 DEF CallFits
<1>8. GoodTable(approvals') /\ loopRun' \in {"running", "paused", "pending", "ended"}
  BY SameTable DEF GoodTable, GateInv, TypeInv
<1> QED
  BY <1>3, <1>4, <1>7, <1>8, CallStep

LEMMA CheckKeeps ==
  ASSUME GateInv, NEW c \in Caller, Check(c)
  PROVE  GateInv' /\ GoodTable(approvals')
<1>1. /\ Len(approvals) \in Nat /\ Slot = 1..Len(approvals)
      /\ call[c] \in CallRecord /\ CallFits(c) /\ call[c].at # "idle"
      /\ subject.requested \in Permission /\ Needed(c) \in Permission
  BY Basics DEF Check
<1>2. UNCHANGED <<subject, now, approvals, loopRun, decision, effects>>
  BY DEF Check
<1>3. GoodTable(approvals') /\ loopRun' \in {"running", "paused", "pending", "ended"}
  BY <1>2, SameTable DEF GoodTable, GateInv, TypeInv
<1>4. CASE call' = [call EXCEPT ![c] = IdleCall]
  BY <1>2, <1>3, <1>4, ToIdle
<1>5. CASE call' = [call EXCEPT ![c].at = "suspending"]
  BY <1>1, <1>2, <1>3, <1>5, GoesOn
<1>6. CASE /\ Granted(c) # {}
           /\ \E i \in Candidates(c) :
                 call' = [call EXCEPT ![c].at = "ready", ![c].slot = i]
  <2>0. PICK i \in Candidates(c) : call' = [call EXCEPT ![c].at = "ready", ![c].slot = i]
    BY <1>6
  <2>1. Granted(c) \subseteq 1..Len(approvals)
    BY <1>1 DEF Granted
  <2>2. i \in Granted(c)
    BY <1>1, <1>6, <2>0, <2>1, NewestIsOne DEF Candidates
  <2>3. /\ i \in 1..Len(approvals) /\ approvals[i].status = "approved"
        /\ approvals[i].kind = "capability" /\ approvals[i].arg = call[c].arg
        /\ approvals[i].permission = ApprovalPermission(c)
    BY <2>1, <2>2 DEF Granted, Binds
  <2>4. Covers(approvals, i, call[c].arg, Needed(c))
    BY <1>1, <2>3, ApprovalCoversNeed DEF Covers, NoSlot
  <2>5. call' = [call EXCEPT ![c].at = "ready", ![c].slot = i]
    BY <2>0
  <2>6. i \in 0..Len(approvals)
    BY <1>1, <2>3
  <2> QED
    BY <1>1, <1>2, <2>4, <2>5, <2>6, Readied
<1>7. CASE /\ ~Gated(c) /\ ~CeilingExceeded(c)
           /\ call' = [call EXCEPT ![c].at = "ready"]
  <2>1. PermissionAllows(ApprovalPermission(c), call[c].ceiling)
    BY <1>7 DEF CeilingExceeded
  <2>2. call[c].ceiling \in Permission /\ call[c].slot \in 0..Len(approvals)
    BY <1>1 DEF CallRecord, CallFits
  <2>3. PermissionAllows(Needed(c), call[c].ceiling)
    BY <1>1, <2>1, <2>2, ApprovalCoversNeed, AllowsIsTransitive
  <2>4. call' = [call EXCEPT ![c].at = "ready", ![c].slot = call[c].slot]
    <3>1. [call[c] EXCEPT !.at = "ready"] = [call[c] EXCEPT !.at = "ready", !.slot = call[c].slot]
      BY <1>1 DEF CallRecord
    <3> QED
      BY <1>7, <3>1
  <2> QED
    BY <1>1, <1>2, <1>7, <2>2, <2>3, <2>4, Readied
<1> QED
  BY <1>4, <1>5, <1>6, <1>7 DEF Check

\* A new approval for what c asks.
LEMMA AskedApproval ==
  ASSUME GateInv, NEW c \in Caller, call[c].at # "idle", NEW owner \in {"own", "loop"},
         NEW marked \in BOOLEAN
  PROVE  NewApproval("capability", owner, call[c].arg, ApprovalPermission(c), marked)
           \in Approval
<1>1. call[c].arg \in Argument
  BY Basics DEF CallRecord
<1> QED
  BY <1>1, ApprovalCoversNeed, NewApprovalType DEF GateInv

LEMMA SuspendTurnKeeps ==
  ASSUME GateInv, NEW c \in Caller, SuspendTurn(c)
  PROVE  GateInv' /\ GoodTable(approvals')
<1> DEFINE r == NewApproval("capability", "own", call[c].arg, ApprovalPermission(c), FALSE)
<1>1. call[c].at # "idle" /\ r \in Approval
  BY AskedApproval DEF SuspendTurn
<1>2. loopRun' \in {"running", "paused", "pending", "ended"}
  BY DEF SuspendTurn, GateInv, TypeInv
<1> HIDE DEF r
<1>3. CASE approvals' = Expired /\ call' = [call EXCEPT ![c] = IdleCall]
  <2>1. GoodTable(approvals')
    BY <1>3, ExpiredRows DEF GateInv, GoodTable
  <2> QED
    BY <1>2, <1>3, <2>1, ToIdle DEF SuspendTurn
<1>4. CASE /\ approvals' = Append(Expired, r)
           /\ call' = [call EXCEPT ![c].at = "marking", ![c].slot = Len(approvals) + 1]
  <2> DEFINE k == [call[c] EXCEPT !.at = "marking", !.slot = Len(approvals) + 1]
  <2>1. /\ Len(approvals) \in Nat /\ call[c] \in CallRecord /\ CallFits(c)
    BY Basics
  <2>2. GoodTable(approvals') /\ Len(approvals') = Len(approvals) + 1
    BY <1>1, <1>4, AppendedRow DEF GateInv, GoodTable
  <2>3. k = [at |-> "marking", arg |-> call[c].arg, ceiling |-> call[c].ceiling,
             since |-> call[c].since, slot |-> Len(approvals) + 1]
    BY <2>1, TwoFields
  <2>4. k \in CallRecord
    BY <2>1, <2>3 DEF CallRecord, CallState
  <2>5. call' = [call EXCEPT ![c] = k] /\ call'[c] = k
    BY <1>4 DEF GateInv, TypeInv
  <2>6. /\ k.at = "marking" /\ k.arg = call[c].arg /\ k.slot = Len(approvals) + 1
        /\ k.ceiling = call[c].ceiling /\ k.since = call[c].since
    BY <2>3
  <2>7. Grants(approvals', call[c].ceiling, call[c].since)
    BY <2>1, <2>2, GrantsKept DEF CallFits, GoodTable
  <2>8. call[c].arg \in subject.arguments
    BY <1>1, <2>1 DEF CallFits
  <2> HIDE DEF k
  <2>9. CallFits(c)'
    BY <2>1, <2>2, <2>4, <2>5, <2>6, <2>7, <2>8, FitsAs DEF SuspendTurn, NoSlot
  <2> QED
    BY <1>2, <2>2, <2>4, <2>5, <2>9, CallStep DEF SuspendTurn
<1> QED
  BY <1>3, <1>4 DEF SuspendTurn, r

LEMMA SuspendLoopKeeps ==
  ASSUME GateInv, NEW c \in Caller, SuspendLoop(c)
  PROVE  GateInv' /\ GoodTable(approvals')
<1> DEFINE r == NewApproval("capability", "loop", call[c].arg, ApprovalPermission(c), TRUE)
<1>1. r \in Approval
  BY AskedApproval DEF SuspendLoop
<1>2. approvals' = Expired \/ approvals' = Append(Expired, r)
  BY DEF SuspendLoop
<1> HIDE DEF r
<1>3. GoodTable(approvals')
  BY <1>1, <1>2, ExpiredRows, AppendedRow DEF GateInv, GoodTable
<1> QED
  BY <1>3, ToIdle DEF SuspendLoop

LEMMA ReadRunKeeps ==
  ASSUME GateInv, NEW c \in Caller, ReadRun(c)
  PROVE  GateInv' /\ GoodTable(approvals')
<1>1. call[c].slot # NoSlot
  BY Basics DEF ReadRun, CallFits
<1>2. GoodTable(approvals')
  BY SameTable DEF ReadRun, GoodTable, GateInv, TypeInv
<1> QED
  BY <1>1, <1>2, GoesOn DEF ReadRun

LEMMA MarkKeeps ==
  ASSUME GateInv, HeldInv, NEW c \in Caller, Mark(c)
  PROVE  GateInv' /\ GoodTable(approvals')
<1> DEFINE i == call[c].slot
           p == held[c].phase
           r == [approvals[i] EXCEPT !.marked = TRUE, !.phase = p]
<1>1. i \in Slot
  BY Basics DEF Mark, CallFits, CallRecord, NoSlot
<1>2. approvals[i] \in Approval
  BY <1>1 DEF GateInv, TypeInv, Slot
<1>3. approvals' = [approvals EXCEPT ![i] = r]
  BY DEF Mark
<1>4. p \in {"paused", "pending", "ended"}
  BY DEF HeldInv, HeldRecord
<1> HIDE DEF i, p
<1>5. r \in Approval /\ SameTerms(approvals[i], r)
  BY <1>2, <1>4 DEF Approval, SameTerms
<1> HIDE DEF r
<1>6. GoodTable(approvals')
  BY <1>1, <1>3, <1>5, OneRow DEF GateInv, GoodTable
<1> QED
  BY <1>6, ToIdle DEF Mark, GateInv, TypeInv

\* The row of a slot a caller or an effect refers to.
LEMMA SlotRow ==
  ASSUME GateInv, NEW c \in Caller, call[c].slot # NoSlot
  PROVE  call[c].slot \in Slot /\ approvals[call[c].slot] \in Approval
<1>1. call[c].slot \in Slot
  BY Basics DEF CallFits, CallRecord, NoSlot
<1> QED
  BY <1>1 DEF GateInv, TypeInv, Slot

\* A write of a receipt, or of a phase, to the row a caller refers to.
LEMMA ReceiptWrite ==
  ASSUME GateInv, NEW c \in Caller,
         \/ approvals' = approvals
         \/ \E v \in {"waits", "completed"} :
               approvals' = [approvals EXCEPT ![call[c].slot].receipt = v]
         \/ approvals' = [approvals EXCEPT ![call[c].slot].phase = "ended"]
  PROVE  GoodTable(approvals')
<1>1. CASE approvals' = approvals
  BY <1>1, SameTable DEF GoodTable, GateInv, TypeInv
<1> DEFINE i == call[c].slot
<1>2. CASE call[c].slot = NoSlot
  <2>1. approvals \in Seq(Approval) /\ i \notin DOMAIN approvals
    BY <1>2 DEF GateInv, TypeInv, NoSlot
  <2>2. approvals' = approvals
    BY <2>1
  <2> QED
    BY <1>1, <2>2
<1>3. CASE call[c].slot # NoSlot
  <2>1. i \in Slot /\ approvals[i] \in Approval
    BY <1>3, SlotRow
  <2>2. ASSUME NEW v \in {"waits", "completed"},
               approvals' = [approvals EXCEPT ![call[c].slot].receipt = v]
        PROVE  GoodTable(approvals')
    <3>1. approvals' = [approvals EXCEPT ![i] = [approvals[i] EXCEPT !.receipt = v]]
      BY <2>2
    <3> HIDE DEF i
    <3> QED BY <2>1, <3>1, ColumnWrites, OneRow DEF GateInv, GoodTable
  <2>3. CASE approvals' = [approvals EXCEPT ![call[c].slot].phase = "ended"]
    <3>1. approvals' = [approvals EXCEPT ![i] = [approvals[i] EXCEPT !.phase = "ended"]]
      BY <2>3
    <3> HIDE DEF i
    <3> QED BY <2>1, <3>1, ColumnWrites, OneRow DEF GateInv, GoodTable
  <2> QED
    BY <1>1, <2>2, <2>3
<1> QED
  BY <1>2, <1>3

\* The authority a caller had when it was let through is the authority it
\* acts on.
LEMMA PerformKeeps ==
  ASSUME GateInv, NEW c \in Caller, Perform(c)
  PROVE  GateInv' /\ GoodTable(approvals')
<1>1. GoodTable(approvals')
  BY ReceiptWrite DEF Perform
<1>2. /\ Len(approvals) \in Nat /\ Len(approvals') \in Nat /\ Len(approvals) <= Len(approvals')
      /\ call[c] \in CallRecord /\ CallFits(c)
  BY <1>1, Basics DEF GoodTable, Grown
<1>3. call[c].slot \in 0..Len(approvals)
  BY <1>2 DEF CallRecord, CallFits
<1>4. ASSUME NEW e \in effects' \ effects PROVE EffectFits(e)'
  <2>1. e = [arg |-> call[c].arg, slot |-> call[c].slot, ceiling |-> call[c].ceiling,
             since |-> call[c].since, needed |-> Needed(c), gated |-> Gated(c),
             governed |-> c \in Loop]
    BY <1>4 DEF Perform
  <2> DEFINE gated == Gated(c)
  <2>2. /\ e.arg = call[c].arg /\ e.slot = call[c].slot /\ e.ceiling = call[c].ceiling
        /\ e.since = call[c].since /\ e.needed = Needed(c)
    BY <2>1
  <2>3. e.gated = gated
    BY <2>1
  <2>4. Grants(approvals', e.ceiling, e.since)
    BY <1>1, <1>2, <2>2, GrantsKept DEF CallFits, GoodTable
  <2>5. \/ PermissionAllows(Needed(c), call[c].ceiling) /\ ~gated
        \/ Covers(approvals, call[c].slot, call[c].arg, Needed(c))
    BY <1>2 DEF CallFits, Perform
  <2>6. Covers(approvals, e.slot, e.arg, e.needed) => Covers(approvals', e.slot, e.arg, e.needed)
    BY <1>1, <1>2, <1>3, <2>2, CoversKept DEF GoodTable
  <2>7. e.slot \in 0..Len(approvals')
    BY <1>2, <1>3, <2>2
  <2> HIDE DEF gated
  <2>8. \/ PermissionAllows(e.needed, e.ceiling) /\ ~e.gated
        \/ Covers(approvals', e.slot, e.arg, e.needed)
    BY <2>2, <2>3, <2>5, <2>6
  <2> QED
    BY <2>4, <2>7, <2>8 DEF EffectFits
<1> QED
  BY <1>1, <1>4, GoesOn DEF Perform

LEMMA CompleteReceiptKeeps ==
  ASSUME GateInv, NEW c \in Caller, CompleteReceipt(c)
  PROVE  GateInv' /\ GoodTable(approvals')
<1> DEFINE i == call[c].slot
           v == IF held[c].outcome # "waits" THEN "completed"
                ELSE IF approvals[i].receipt = "none" THEN "waits" ELSE approvals[i].receipt
<1>1. approvals' = approvals \/ approvals' = [approvals EXCEPT ![i].receipt = v]
  BY DEF CompleteReceipt
<1>2. ASSUME v \in {"waits", "completed"} PROVE GoodTable(approvals')
  BY <1>1, <1>2, ReceiptWrite
<1>3. ASSUME v \notin {"waits", "completed"} PROVE GoodTable(approvals')
  <2>1. ASSUME i \in Slot PROVE FALSE
    <3>1. approvals[i] \in Approval
      BY <2>1 DEF GateInv, TypeInv, Slot
    <3>2. approvals[i].receipt \in {"none", "waits", "completed"}
      BY <3>1 DEF Approval
    <3> HIDE DEF i
    <3> QED
      BY <1>3, <3>2
  <2>2. approvals \in Seq(Approval) /\ i \notin DOMAIN approvals
    BY <2>1 DEF GateInv, TypeInv, Slot
  <2> HIDE DEF i, v
  <2>3. approvals' = approvals
    BY <1>1, <2>2
  <2> QED
    BY <2>3, ReceiptWrite
<1>4. GoodTable(approvals')
  BY <1>2, <1>3
<1> QED
  BY <1>4, GoesOn DEF CompleteReceipt

LEMMA SettleKeeps ==
  ASSUME GateInv, NEW c \in Caller, Settle(c)
  PROVE  GateInv' /\ GoodTable(approvals')
<1>1. GoodTable(approvals')
  BY ReceiptWrite DEF Settle
<1> QED
  BY <1>1, ToIdle DEF Settle, GateInv, TypeInv

LEMMA CallerDiesKeeps ==
  ASSUME GateInv, NEW c \in Caller, CallerDies(c)
  PROVE  GateInv' /\ GoodTable(approvals')
<1>1. GoodTable(approvals')
  BY SameTable DEF CallerDies, GoodTable, GateInv, TypeInv
<1> QED
  BY <1>1, ToIdle DEF CallerDies, GateInv, TypeInv

-----------------------------------------------------------------------------
(* Elevation, decisions, the daemon and time.                              *)

LEMMA RequestElevationKeeps ==
  ASSUME GateInv, NEW p \in Elevation, RequestElevation(p)
  PROVE  GateInv' /\ GoodTable(approvals')
<1> DEFINE r == NewApproval("elevation", "own", "none", p, TRUE)
<1>1. r \in Approval
  BY NewApprovalType, GateAssumption DEF GateInv, Argument
<1>2. approvals' = Expired \/ approvals' = Append(Expired, r)
  BY DEF RequestElevation
<1> HIDE DEF r
<1>3. GoodTable(approvals')
  BY <1>1, <1>2, ExpiredRows, AppendedRow DEF GateInv, GoodTable
<1> QED
  BY <1>3, TableStep DEF RequestElevation, GateInv, TypeInv

LEMMA ReadPendingKeeps ==
  ASSUME GateInv, NEW d \in Decider, NEW i \in Slot, NEW approve \in BOOLEAN,
         ReadPending(d, i, approve)
  PROVE  GateInv' /\ GoodTable(approvals')
<1>1. GoodTable(approvals')
  BY ExpiredRows DEF ReadPending, GateInv, GoodTable
<1>2. i \in Nat /\ i <= Len(approvals)
  BY DEF GateInv, TypeInv, Slot
<1> DEFINE k == [slot |-> i, approve |-> approve, at |-> "read"]
<1>3. k \in DecisionRecord /\ k.slot = i
  BY <1>2 DEF DecisionRecord
<1>4. decision' = [decision EXCEPT ![d] = k]
  BY DEF ReadPending
<1> HIDE DEF k
<1>5. decision' \in [Decider -> DecisionRecord]
  BY <1>3, <1>4 DEF GateInv, TypeInv
<1>6. \A b \in Decider : decision'[b] = decision[b] \/ decision'[b].slot <= Len(approvals)
  BY <1>2, <1>3, <1>4 DEF GateInv, TypeInv
<1> QED
  BY <1>1, <1>5, <1>6, TableStep DEF ReadPending, GateInv, TypeInv

\* A decision that is over, or goes on to resume the loop.
LEMMA DecisionStep ==
  ASSUME GateInv, NEW d \in Decider,
         \/ decision' = [decision EXCEPT ![d] = NoDecision]
         \/ decision' = [decision EXCEPT ![d].at = "continue"]
  PROVE  /\ decision' \in [Decider -> DecisionRecord]
         /\ \A b \in Decider :
               decision'[b] = decision[b] \/ decision'[b].slot <= Len(approvals)
<1>1. Len(approvals) \in Nat /\ decision \in [Decider -> DecisionRecord]
      /\ decision[d] \in DecisionRecord /\ decision[d].slot <= Len(approvals)
  BY DEF GateInv, TypeInv
<1>2. CASE decision' = [decision EXCEPT ![d] = NoDecision]
  <2>1. NoDecision \in DecisionRecord /\ NoDecision.slot <= Len(approvals)
    BY <1>1 DEF NoDecision, NoSlot, DecisionRecord
  <2> QED
    BY <1>1, <1>2, <2>1
<1>3. CASE decision' = [decision EXCEPT ![d].at = "continue"]
  <2> DEFINE k == [decision[d] EXCEPT !.at = "continue"]
  <2>1. k \in DecisionRecord /\ k.slot = decision[d].slot
    BY <1>1 DEF DecisionRecord
  <2>2. decision' = [decision EXCEPT ![d] = k]
    BY <1>3
  <2> HIDE DEF k
  <2> QED
    BY <1>1, <2>1, <2>2
<1> QED
  BY <1>2, <1>3

\* The first answer stands: a row that is decided keeps its status.
LEMMA WriteDecisionKeeps ==
  ASSUME GateInv, NEW d \in Decider, WriteDecision(d)
  PROVE  GateInv' /\ GoodTable(approvals')
<1> DEFINE i == decision[d].slot
           a == approvals[i]
           phase == IF decision[d].approve /\ a.kind = "capability" THEN "pending" ELSE "ended"
           s == IF a.status # "pending" THEN a.status
                ELSE IF decision[d].approve THEN "approved" ELSE "rejected"
           p == IF a.owner = "own" THEN phase ELSE a.phase
           r == [a EXCEPT !.status = s, !.phase = p]
<1>1. i \in Slot
  BY DEF WriteDecision, GateInv, TypeInv, DecisionRecord, Slot, NoSlot
<1>2. a \in Approval
  BY <1>1 DEF GateInv, TypeInv, Slot
<1>3. approvals' = [approvals EXCEPT ![i] = r]
  BY DEF WriteDecision
<1>4. loopRun' \in {"running", "paused", "pending", "ended"}
  BY DEF WriteDecision, GateInv, TypeInv
<1>5. \/ decision' = [decision EXCEPT ![d] = NoDecision]
      \/ decision' = [decision EXCEPT ![d].at = "continue"]
  BY DEF WriteDecision
<1>6. /\ s \in {"pending", "approved", "rejected", "expired"}
      /\ a.status # "pending" => s = a.status
      /\ p \in {"paused", "pending", "ended"}
  BY <1>2 DEF Approval
<1> HIDE DEF i, s, p
<1>7. r \in Approval /\ SameTerms(a, r)
  BY <1>2, <1>6, StatusWrite
<1> HIDE DEF r
<1>8. GoodTable(approvals')
  BY <1>1, <1>3, <1>7, OneRow DEF GateInv, GoodTable
<1>9. UNCHANGED <<subject, now, call, effects>> /\ now \in 0..MaxTime
  BY DEF WriteDecision, GateInv, TypeInv
<1> QED
  BY <1>4, <1>5, <1>8, <1>9, DecisionStep, TableStep

LEMMA ContinueKeeps ==
  ASSUME GateInv, NEW d \in Decider, Continue(d)
  PROVE  GateInv' /\ GoodTable(approvals')
<1>1. GoodTable(approvals')
  BY SameTable DEF Continue, GoodTable, GateInv, TypeInv
<1>2. loopRun' \in {"running", "paused", "pending", "ended"}
  BY DEF Continue, GateInv, TypeInv
<1>3. decision' = [decision EXCEPT ![d] = NoDecision]
  BY DEF Continue
<1>4. UNCHANGED <<subject, now, call, effects>> /\ now \in 0..MaxTime
  BY DEF Continue, GateInv, TypeInv
<1> QED
  BY <1>1, <1>2, <1>3, <1>4, DecisionStep, TableStep

LEMMA ReconcileReceiptsKeeps ==
  ASSUME GateInv, ReconcileReceipts
  PROVE  GateInv' /\ GoodTable(approvals')
<1>1. approvals' = [j \in Slot |-> approvals'[j]]
  BY DEF ReconcileReceipts
<1>2. ASSUME NEW j \in Slot
      PROVE  approvals'[j] \in Approval /\ SameTerms(approvals[j], approvals'[j])
  <2>1. approvals[j] \in Approval
    BY DEF GateInv, TypeInv, Slot
  <2>2. approvals'[j] = approvals[j] \/ approvals'[j] = [approvals[j] EXCEPT !.phase = "ended"]
    BY DEF ReconcileReceipts
  <2>3. SameTerms(approvals[j], approvals[j])
    BY DEF SameTerms
  <2> QED
    BY <2>1, <2>2, <2>3, ColumnWrites
<1>3. GoodTable(approvals')
  BY <1>1, <1>2, MappedRows DEF GateInv, GoodTable
<1> QED
  BY <1>3, TableStep DEF ReconcileReceipts, GateInv, TypeInv

LEMMA ReconcileWaitKeeps ==
  ASSUME GateInv, ReconcileWait
  PROVE  GateInv' /\ GoodTable(approvals')
<1>1. GoodTable(approvals')
  BY ExpiredRows DEF ReconcileWait, GateInv, GoodTable
<1>2. loopRun' \in {"running", "paused", "pending", "ended"}
  BY DEF ReconcileWait
<1> QED
  BY <1>1, <1>2, TableStep DEF ReconcileWait, GateInv, TypeInv

LEMMA TickKeeps ==
  ASSUME GateInv, Tick
  PROVE  GateInv' /\ GoodTable(approvals')
<1>1. GoodTable(approvals')
  BY SameTable DEF Tick, GoodTable, GateInv, TypeInv
<1>2. now' \in 0..MaxTime
  BY GateAssumption DEF Tick, GateInv, TypeInv
<1> QED
  BY <1>1, <1>2, TableStep DEF Tick, GateInv, TypeInv

LEMMA StutterKeeps ==
  ASSUME GateInv, UNCHANGED vars
  PROVE  GateInv' /\ GoodTable(approvals')
<1>1. GoodTable(approvals')
  BY SameTable DEF vars, GoodTable, GateInv, TypeInv
<1> QED
  BY <1>1, TableStep DEF vars, GateInv, TypeInv

\* What a caller holds besides its call is well typed.
LEMMA HeldStep ==
  ASSUME HeldInv, NEW c \in Caller, NEW h \in HeldRecord, held' = [held EXCEPT ![c] = h]
  PROVE  HeldInv'
BY DEF HeldInv

LEMMA HeldKeeps ==
  ASSUME GateInv, HeldInv, [Next]_vars
  PROVE  HeldInv'
<1>1. CASE held' = held
  BY <1>1 DEF HeldInv
<1>2. ASSUME NEW c \in Caller, held' = [held EXCEPT ![c] = NothingHeld]
      PROVE  HeldInv'
  <2>1. NothingHeld \in HeldRecord
    BY DEF NothingHeld, HeldRecord
  <2> QED
    BY <1>2, <2>1, HeldStep
<1>3. ASSUME NEW c \in Caller, ReadRun(c)
      PROVE  HeldInv'
  <2> DEFINE p == approvals[call[c].slot].phase
             h == [held[c] EXCEPT !.phase = p]
  <2>1. call[c].slot # NoSlot
    BY <1>3, Basics DEF ReadRun, CallFits
  <2>2. p \in {"paused", "pending", "ended"}
    BY <2>1, SlotRow DEF Approval
  <2>3. held' = [held EXCEPT ![c] = h]
    BY <1>3 DEF ReadRun
  <2> HIDE DEF p
  <2>4. h \in HeldRecord
    BY <2>2 DEF HeldInv, HeldRecord
  <2> HIDE DEF h
  <2> QED
    BY <2>3, <2>4, HeldStep
<1>4. ASSUME NEW c \in Caller, Perform(c)
      PROVE  HeldInv'
  <2> DEFINE counts == /\ c \in Turn /\ call[c].slot # NoSlot
                       /\ CallMutates(Spec_, call[c].arg)
                       /\ now <= approvals[call[c].slot].expires
  <2>1. PICK outcome \in Outcome(subject.name) :
          held' = [held EXCEPT ![c] = [held[c] EXCEPT !.outcome = outcome, !.receipt = counts]]
    BY <1>4 DEF Perform
  <2>2. outcome \in {"done", "waits", "yields"}
    BY DEF Outcome
  <2>3. counts \in BOOLEAN
    OBVIOUS
  <2> HIDE DEF counts
  <2> DEFINE h == [held[c] EXCEPT !.outcome = outcome, !.receipt = counts]
  <2>4. h \in HeldRecord
    BY <2>2, <2>3 DEF HeldInv, HeldRecord
  <2>5. held' = [held EXCEPT ![c] = h]
    BY <2>1
  <2> HIDE DEF h
  <2> QED
    BY <2>4, <2>5, HeldStep
<1>5. ASSUME NEW c \in Caller,
             \/ \E arg \in subject.arguments : Begin(c, arg)
             \/ Check(c) \/ SuspendTurn(c) \/ ReadRun(c) \/ Mark(c) \/ SuspendLoop(c)
             \/ Perform(c) \/ CompleteReceipt(c) \/ Settle(c) \/ CallerDies(c)
      PROVE  HeldInv'
  <2>1. CASE ReadRun(c)
    BY <1>3, <2>1
  <2>2. CASE Perform(c)
    BY <1>4, <2>2
  <2>3. CASE Mark(c) \/ Settle(c) \/ CallerDies(c)
    BY <1>2, <2>3 DEF Mark, Settle, CallerDies
  <2>4. CASE \/ \E arg \in subject.arguments : Begin(c, arg)
             \/ Check(c) \/ SuspendTurn(c) \/ SuspendLoop(c) \/ CompleteReceipt(c)
    BY <1>1, <2>4 DEF Begin, Check, SuspendTurn, SuspendLoop, CompleteReceipt
  <2> QED
    BY <1>5, <2>1, <2>2, <2>3, <2>4
<1>6. CASE \/ \E p \in Elevation : RequestElevation(p)
           \/ \E d \in Decider : \/ \E i \in Slot, approve \in BOOLEAN : ReadPending(d, i, approve)
                                 \/ WriteDecision(d) \/ Continue(d)
           \/ ReconcileReceipts \/ ReconcileWait \/ Tick \/ UNCHANGED vars
  BY <1>1, <1>6 DEF RequestElevation, ReadPending, WriteDecision, Continue, ReconcileReceipts,
                    ReconcileWait, Tick, vars
<1> QED
  BY <1>5, <1>6 DEF Next

LEMMA NextKeeps ==
  ASSUME GateInv, HeldInv, [Next]_vars
  PROVE  GateInv' /\ GoodTable(approvals')
<1>1. CASE UNCHANGED vars
  BY <1>1, StutterKeeps
<1>2. ASSUME NEW c \in Caller,
             \/ \E arg \in subject.arguments : Begin(c, arg)
             \/ Check(c) \/ SuspendTurn(c) \/ ReadRun(c) \/ Mark(c) \/ SuspendLoop(c)
             \/ Perform(c) \/ CompleteReceipt(c) \/ Settle(c) \/ CallerDies(c)
      PROVE  GateInv' /\ GoodTable(approvals')
  BY <1>2, BeginKeeps, CheckKeeps, SuspendTurnKeeps, ReadRunKeeps, MarkKeeps,
     SuspendLoopKeeps,
     PerformKeeps, CompleteReceiptKeeps, SettleKeeps, CallerDiesKeeps
<1>3. ASSUME NEW p \in Elevation, RequestElevation(p)
      PROVE  GateInv' /\ GoodTable(approvals')
  BY <1>3, RequestElevationKeeps
<1>4. ASSUME NEW d \in Decider,
             \/ \E i \in Slot, approve \in BOOLEAN : ReadPending(d, i, approve)
             \/ WriteDecision(d) \/ Continue(d)
      PROVE  GateInv' /\ GoodTable(approvals')
  BY <1>4, ReadPendingKeeps, WriteDecisionKeeps, ContinueKeeps
<1>5. CASE ReconcileReceipts \/ ReconcileWait \/ Tick
  BY <1>5, ReconcileReceiptsKeeps, ReconcileWaitKeeps, TickKeeps
<1> QED
  BY <1>1, <1>2, <1>3, <1>4, <1>5 DEF Next

LEMMA InitFits ==
  ASSUME Init PROVE GateInv
<1>1. TypeInv
  <2>1. NoDecision \in DecisionRecord /\ IdleCall \in CallRecord
    BY GateAssumption DEF NoDecision, DecisionRecord, IdleCall, CallRecord, CallState,
                          Argument, NoSlot
  <2>2. 0 \in 0..MaxTime
    BY GateAssumption
  <2> QED
    BY <2>1, <2>2 DEF Init, TypeInv
<1>2. ASSUME NEW c \in Caller PROVE CallFits(c)
  <2>1. call[c] = IdleCall /\ Len(approvals) = 0
    BY DEF Init
  <2> QED
    BY <2>1 DEF IdleCall, CallFits, Grants, NoSlot
<1>3. ASSUME NEW d \in Decider PROVE decision[d].slot <= Len(approvals)
  BY DEF Init, NoDecision, NoSlot
<1>4. effects = {}
  BY DEF Init
<1> QED
  BY <1>1, <1>2, <1>3, <1>4 DEF GateInv

-----------------------------------------------------------------------------
(* The theorems.                                                           *)

\* The inductive invariant: what callers hold between two commits is still
\* what CapabilityRegistry.invoke let them through for.
THEOREM GateInvHolds == Spec => [](GateInv /\ HeldInv)
<1>1. Init => GateInv /\ HeldInv
  <2>1. Init => HeldInv
    BY DEF Init, HeldInv, NothingHeld, HeldRecord
  <2> QED
    BY <2>1, InitFits
<1>2. GateInv /\ HeldInv /\ [Next]_vars => (GateInv /\ HeldInv)'
  BY NextKeeps, HeldKeeps
<1> QED
  BY <1>1, <1>2, PTL DEF Spec

\* The variables keep their types, through every commit of invoke, every
\* answer and every sweep of the daemon.
THEOREM GateTypeCorrect == Spec => []TypeOK
<1>1. ASSUME GateInv, HeldInv PROVE TypeOK
  <2>1. ASSUME NEW i \in Slot PROVE approvals[i] \in Approval
    BY <1>1 DEF GateInv, TypeInv, Slot
  <2>2. ASSUME NEW c \in Caller PROVE call[c].at \in CallState
    BY <1>1 DEF GateInv, TypeInv, CallRecord
  <2> QED
    BY <1>1, <2>1, <2>2 DEF GateInv, HeldInv, HeldRecord, TypeInv, TypeOK, Approval, CallState
<1> QED
  BY <1>1, GateInvHolds, PTL

\* No effect above its caller's ceiling, and none its policy wants confirmed,
\* without an approval granted for this capability, argument and permission
\* (CapabilityRegistry.invoke), whatever happened between the lookup of the
\* approval and the effect, and for ever after.
THEOREM EffectsNeedAuthority == Spec => []EffectsAreAuthorised
<1>1. ASSUME GateInv PROVE EffectsAreAuthorised
  BY <1>1 DEF GateInv, EffectFits, Covers, EffectsAreAuthorised
<1> QED
  BY <1>1, GateInvHolds, PTL

\* A turn acts under its surface's ceiling or under an elevation the owner
\* approved and that had not lapsed when the turn began
\* (active_session_elevation, _get_effective_permission_ceiling).
THEOREM CeilingsAreGranted == Spec => []ElevationIsGranted
<1>1. ASSUME GateInv PROVE ElevationIsGranted
  <2>1. Slot = 1..Len(approvals)
    BY <1>1 DEF GateInv, TypeInv, Slot
  <2> QED
    BY <1>1, <2>1 DEF GateInv, EffectFits, Grants, ElevationIsGranted
<1> QED
  BY <1>1, GateInvHolds, PTL

\* Of two answers to one approval, or an answer and its expiry, the first one
\* stands (resolve_approval_in_transaction, expire_pending_approvals).
THEOREM FirstAnswerStands == Spec => DecisionsAreFinal
<1> DEFINE Final == \A i \in Slot : approvals[i].status # "pending"
                                      => approvals'[i].status = approvals[i].status
<1>1. ASSUME GateInv, HeldInv, [Next]_vars PROVE [Final]_vars
  <2>1. Grown(approvals, approvals') /\ Slot = 1..Len(approvals)
    BY <1>1, NextKeeps DEF GoodTable, GateInv, TypeInv, Slot
  <2>2. Final
    BY <2>1 DEF Grown, SameTerms
  <2> QED
    BY <2>2
<1>2. DecisionsAreFinal <=> [][Final]_vars
  BY DEF DecisionsAreFinal
<1> HIDE DEF Final
<1> QED
  BY <1>1, <1>2, GateInvHolds, PTL DEF Spec
=============================================================================
