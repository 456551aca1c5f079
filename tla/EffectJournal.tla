----------------------------- MODULE EffectJournal -----------------------------
(****************************************************************************)
(* The durable journal of mutating capability calls (effect_journal.py) and *)
(* the calls that go through it (CapabilityRegistry.invoke).  The module    *)
(* keeps one effect key, that is one (loop run, attempt, tool, arguments),  *)
(* and every invocation that was ever started for it: the first driver, a   *)
(* driver that resumed the loop after a crash, a concurrent duplicate.      *)
(*                                                                          *)
(* A key names one tool, so all calls of the key run the same kind of       *)
(* capability: a registry tool reserves and completes its audit record      *)
(* inside its handler and turns exceptions into failed results; any other   *)
(* capability is audited by invoke, around the handler, and may raise.      *)
(****************************************************************************)
EXTENDS Integers

CONSTANTS
  Call,          \* invocations; each has its own effect_owner
  NoCall,        \* no owner
  LeaseSeconds,  \* effect_lease_seconds
  MaxTime        \* bound on the clock

ASSUME NoCallAssumption == NoCall \notin Call
ASSUME LeaseAssumption == LeaseSeconds \in Nat \ {0} /\ MaxTime \in Nat

VARIABLES
  row,        \* the loop_effects row of the key
  now,        \* time.time()
  tool,       \* the capability is a registry tool
  pc,         \* pc[c]: where invoke stands
  audit,      \* audit[c]: its tool_call_logs record
  outcome,    \* outcome[c]: the local variable `result`
  reply,      \* reply[c]: what invoke gave its caller
  performed   \* the calls whose handler changed the world

vars == <<row, now, tool, pc, audit, outcome, reply, performed>>

Status == {"none", "active", "completed", "uncertain"}

Result == {"ok", "failed", "internal_error", "audit_incomplete"}

Row == [status: Status, owner: Call \cup {NoCall}, expires: Nat,
        result: Result \cup {"none"}]

Reply == Result \cup {"none", "busy", "uncertain", "denied",
                      "audit_unavailable", "raised"}

PC == {"start", "acquired", "audited", "performed", "returned", "recording",
       "done", "crashed"}

NoRow == [status |-> "none", owner |-> NoCall, expires |-> 0, result |-> "none"]

Init ==
  /\ row = NoRow
  /\ now = 0
  /\ tool \in BOOLEAN
  /\ pc = [c \in Call |-> "start"]
  /\ audit = [c \in Call |-> "none"]
  /\ outcome = [c \in Call |-> "none"]
  /\ reply = [c \in Call |-> "none"]
  /\ performed = {}

Tick ==
  /\ now < MaxTime
  /\ now' = now + 1
  /\ UNCHANGED <<row, tool, pc, audit, outcome, reply, performed>>

\* invoke returns r to its caller (or raises).
Return(c, r) ==
  /\ pc' = [pc EXCEPT ![c] = "done"]
  /\ reply' = [reply EXCEPT ![c] = r]

--------------------------------------------------------------------------------
\* EffectJournal.reserve, one immediate transaction.

\* Mutant: an expired reservation is handed to the next caller.
ReserveStealing(c) ==
  /\ row.status = "none" \/ (row.status = "active" /\ row.expires <= now)
  /\ row' = [status |-> "active", owner |-> c, expires |-> now + LeaseSeconds,
             result |-> "none"]
  /\ pc' = [pc EXCEPT ![c] = "acquired"]
  /\ UNCHANGED reply

\* No record of the key: this call owns the effect.
ReserveNew(c) ==
  /\ row.status = "none"
  /\ row' = [status |-> "active", owner |-> c, expires |-> now + LeaseSeconds,
             result |-> "none"]
  /\ pc' = [pc EXCEPT ![c] = "acquired"]
  /\ UNCHANGED reply

\* Completed: the recorded result is the reply.
ReserveReplay(c) ==
  /\ row.status = "completed"
  /\ Return(c, row.result)
  /\ UNCHANGED row

ReserveBusy(c) ==
  /\ row.status = "active" /\ row.expires > now
  /\ Return(c, "busy")
  /\ UNCHANGED row

\* Uncertain already, or active beyond its lease: nobody may repeat it.
ReserveUncertain(c) ==
  /\ \/ row.status = "uncertain" /\ UNCHANGED row
     \/ /\ row.status = "active" /\ row.expires <= now
        /\ row' = [row EXCEPT !.status = "uncertain", !.expires = 0]
  /\ Return(c, "uncertain")

Reserve(c) ==
  /\ pc[c] = "start"
  /\ ReserveNew(c) \/ ReserveReplay(c) \/ ReserveBusy(c) \/ ReserveUncertain(c)
  /\ UNCHANGED <<now, tool, audit, outcome, performed>>

--------------------------------------------------------------------------------
\* The other journal operations, each one UPDATE or DELETE statement.

Owns(c) == row.owner = c /\ row.status = "active"

\* Mutant: the DELETE names the key only.
AbandonAny(c) == row' = NoRow

\* EffectJournal.abandon
Abandon(c) == row' = IF Owns(c) THEN NoRow ELSE row

\* EffectJournal.fail
MarkUncertain(c) ==
  row' = IF Owns(c) THEN [row EXCEPT !.status = "uncertain", !.expires = 0]
                    ELSE row

\* The grant is refused: the effect never started.
GrantDenied(c) ==
  /\ pc[c] = "acquired"
  /\ Abandon(c)
  /\ Return(c, "denied")
  /\ UNCHANGED <<now, tool, audit, outcome, performed>>

\* Before the effect begins the audit record is reserved.
ReserveAudit(c) ==
  /\ pc[c] = "acquired"
  /\ audit' = [audit EXCEPT ![c] = "reserved"]
  /\ pc' = [pc EXCEPT ![c] = "audited"]
  /\ UNCHANGED <<row, now, tool, outcome, reply, performed>>

\* The audit store is unavailable: invoke gives the reservation up; a tool
\* reports a failed result, which goes on to be recorded.
AuditUnavailable(c) ==
  /\ pc[c] = "acquired"
  /\ \/ /\ ~tool
        /\ Abandon(c)
        /\ Return(c, "audit_unavailable")
        /\ UNCHANGED outcome
     \/ /\ tool
        /\ outcome' = [outcome EXCEPT ![c] = "failed"]
        /\ pc' = [pc EXCEPT ![c] = "recording"]
        /\ UNCHANGED <<row, reply>>
  /\ UNCHANGED <<now, tool, audit, performed>>

\* The handler changes the world.
Perform(c) ==
  /\ pc[c] = "audited"
  /\ performed' = performed \cup {c}
  /\ pc' = [pc EXCEPT ![c] = "performed"]
  /\ UNCHANGED <<row, now, tool, audit, outcome, reply>>

\* The handler returns; success implies it did its work, a failure (the
\* output failing its schema included) may come before or after the effect.
HandlerReturns(c) ==
  /\ pc[c] \in {"audited", "performed"}
  /\ \E r \in {"ok", "failed"} :
        /\ r = "ok" => pc[c] = "performed"
        /\ outcome' = [outcome EXCEPT ![c] = r]
  /\ pc' = [pc EXCEPT ![c] = "returned"]
  /\ UNCHANGED <<row, now, tool, audit, reply, performed>>

\* The handler raises, before or after the effect: fail(), and execution goes
\* on with an internal_error result.
HandlerRaises(c) ==
  /\ ~tool
  /\ pc[c] \in {"audited", "performed"}
  /\ MarkUncertain(c)
  /\ outcome' = [outcome EXCEPT ![c] = "internal_error"]
  /\ pc' = [pc EXCEPT ![c] = "returned"]
  /\ UNCHANGED <<now, tool, audit, reply, performed>>

CompleteAudit(c) ==
  /\ pc[c] = "returned"
  /\ audit' = [audit EXCEPT ![c] = "completed"]
  /\ pc' = [pc EXCEPT ![c] = "recording"]
  /\ UNCHANGED <<row, now, tool, outcome, reply, performed>>

\* Mutant: a failed audit completion is only logged.
AuditCompletionIgnored(c) ==
  /\ pc[c] = "returned"
  /\ pc' = [pc EXCEPT ![c] = "recording"]
  /\ UNCHANGED <<row, now, tool, audit, outcome, reply, performed>>

\* The audit outcome cannot be persisted: invoke marks the effect uncertain
\* and says so; a tool returns the failure as its result.
AuditCompletionFails(c) ==
  /\ pc[c] = "returned"
  /\ \/ /\ ~tool
        /\ MarkUncertain(c)
        /\ Return(c, "audit_incomplete")
        /\ UNCHANGED outcome
     \/ /\ tool
        /\ outcome' = [outcome EXCEPT ![c] = "audit_incomplete"]
        /\ pc' = [pc EXCEPT ![c] = "recording"]
        /\ UNCHANGED <<row, reply>>
  /\ UNCHANGED <<now, tool, audit, performed>>

\* EffectJournal.complete: the result is recorded, or the row is not this
\* call's active reservation any more and complete() raises out of invoke.
Record(c) ==
  \/ /\ Owns(c)
     /\ row' = [row EXCEPT !.status = "completed", !.expires = 0,
                           !.result = outcome[c]]
     /\ Return(c, outcome[c])
  \/ /\ ~Owns(c)
     /\ Return(c, "raised")
     /\ UNCHANGED row

Complete(c) ==
  /\ pc[c] = "recording"
  /\ Record(c)
  /\ UNCHANGED <<now, tool, audit, outcome, performed>>

\* The process dies; the journal keeps what was committed.
Crash(c) ==
  /\ pc[c] \notin {"start", "done", "crashed"}
  /\ pc' = [pc EXCEPT ![c] = "crashed"]
  /\ UNCHANGED <<row, now, tool, audit, outcome, reply, performed>>

--------------------------------------------------------------------------------
Step(c) ==
  \/ Reserve(c) \/ GrantDenied(c) \/ ReserveAudit(c) \/ AuditUnavailable(c)
  \/ Perform(c) \/ HandlerReturns(c) \/ HandlerRaises(c)
  \/ CompleteAudit(c) \/ AuditCompletionFails(c) \/ Complete(c)

Next == Tick \/ \E c \in Call : Step(c) \/ Crash(c)

Spec == Init /\ [][Next]_vars

--------------------------------------------------------------------------------
\* Properties.

\* Type correctness of the row, the calls and their audit records.
TypeOK ==
  /\ row \in Row
  /\ now \in Nat
  /\ tool \in BOOLEAN
  /\ pc \in [Call -> PC]
  /\ audit \in [Call -> {"none", "reserved", "completed"}]
  /\ outcome \in [Call -> Result \cup {"none"}]
  /\ reply \in [Call -> Reply]
  /\ performed \subseteq Call

\* "uncertain outcomes require reconciliation instead of blind retry": for one
\* effect key, at most one invocation ever changes the world, whatever
\* crashes, expires or is retried.
AtMostOnce == \A c, d \in performed : c = d

\* "completion failure surfaces an uncertain audit outcome instead of
\* reporting clean success": a success, first-hand or replayed, means the
\* effect took place, its result is in the journal and its audit record is
\* complete.
SuccessIsAccounted ==
  \A c \in Call : reply[c] = "ok" =>
    /\ row.status = "completed" /\ row.result = "ok"
    /\ \E d \in performed : row.owner = d /\ audit[d] = "completed"

\* A settled record is never rewritten: neither a late complete(), fail() or
\* abandon() of a call whose lease ran out, nor a new reservation, touches it.
SettledIsForever ==
  [][row.status \in {"completed", "uncertain"} => row' = row]_vars

--------------------------------------------------------------------------------
\* The inductive invariant of CapabilityCallProofs.

\* The calls that acquired the effect and have not given it back.
Holding(c) ==
  \/ pc[c] \in {"acquired", "audited", "performed", "returned", "recording"}
  \/ c \in performed

\* The holder is unique, and the row remembers it.
HolderIsRecorded ==
  \A c \in Call : Holding(c) => row.status # "none" /\ row.owner = c

\* What a call has done by the point it has reached.
CallHistory ==
  \A c \in Call :
    /\ c \in performed => pc[c] \notin {"start", "acquired", "audited"}
    /\ pc[c] = "performed" => c \in performed
    /\ outcome[c] = "ok" =>
         /\ c \in performed
         /\ pc[c] = "recording" => audit[c] = "completed"

\* A completed row was completed by its owner, which is done.
CompletedByOwner ==
  row.status = "completed" =>
    /\ row.owner \in Call
    /\ pc[row.owner] = "done"
    /\ row.result = "ok" => row.owner \in performed /\ audit[row.owner] = "completed"

JournalInv ==
  /\ TypeOK /\ HolderIsRecorded /\ CallHistory /\ CompletedByOwner
  /\ SuccessIsAccounted
================================================================================
