----------------------------- MODULE LoopRunAtomic -----------------------------
(****************************************************************************)
(* What LoopRunStore promises its callers about one LoopRun: every          *)
(* operation is one indivisible step, a driver advances or fails the loop   *)
(* only in a state in which it is the lease holder, and a loop that reached *)
(* a final state never changes again.  No time, versions or snapshots here: *)
(* LoopRunStore is shown to implement this specification.                   *)
(****************************************************************************)
EXTENDS LoopGraph

CONSTANTS Driver,   \* execution owners (daemon queue passes, graph runners)
          NoOwner   \* the empty lease_owner column

VARIABLES node, terminal, owner

avars == <<node, terminal, owner>>

AtomicInit ==
  /\ \/ node = "plan" /\ terminal = Active
     \/ node = "evaluate" /\ terminal = "converged"
  /\ owner = NoOwner

\* A driver becomes the holder of an active or (for a retry) a paused loop.
Claim(d) ==
  /\ terminal \in {Active, "paused"}
  /\ owner' = d
  /\ UNCHANGED <<node, terminal>>

\* The lease of a loop that is still claimable is given up or taken away.
Release ==
  /\ terminal \in {Active, "paused"}
  /\ owner # NoOwner
  /\ owner' = NoOwner
  /\ UNCHANGED <<node, terminal>>

\* The holder moves the active loop along one edge of the graph.
Advance(d) ==
  /\ owner = d
  /\ terminal = Active
  /\ \/ \E target \in LoopNode :
          /\ Connected(node, target)
          /\ node' = target
          /\ UNCHANGED <<terminal, owner>>
     \/ \E target \in Suspended \cup Final :
          /\ Connected(node, target)
          /\ terminal' = target
          /\ owner' = NoOwner
          /\ UNCHANGED node

\* The holder fails the active loop after an uncaught exception.
Fail(d) ==
  /\ owner = d
  /\ terminal = Active
  /\ terminal' = "failed"
  /\ owner' = NoOwner
  /\ UNCHANGED node

\* A control command stops the active loop whoever holds it.
Cancel ==
  /\ terminal = Active
  /\ terminal' = "cancelled"
  /\ owner' = NoOwner
  /\ UNCHANGED node

\* A suspended loop becomes active again at a resume node.
Resume ==
  /\ terminal \in Suspended
  /\ terminal' = Active
  /\ node' \in {"plan", "execute", "evaluate"}
  /\ UNCHANGED owner

\* An external decision or receipt settles a suspended loop.
Settle ==
  /\ terminal \in Suspended
  /\ \/ terminal' \in {"cancelled", "paused"}
     \/ terminal = "paused" /\ terminal' \in {"converged", "failed"}
  /\ owner' = NoOwner
  /\ UNCHANGED node

AtomicNext ==
  \/ \E d \in Driver : Claim(d) \/ Advance(d) \/ Fail(d)
  \/ Release \/ Cancel \/ Resume \/ Settle

AtomicSpec == AtomicInit /\ [][AtomicNext]_avars

================================================================================
