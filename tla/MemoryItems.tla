---------------------------- MODULE MemoryItems ----------------------------
(***************************************************************************)
(* The rows of memory_items and the ways MemoryStore changes them.  Some   *)
(* writers update one column of the row as it is (set_status, decay); some *)
(* store a whole row built from one they read before (record_activation,   *)
(* apply_credit_delta, and the conflict audit, which waits for a model     *)
(* between its read and its write).  Each runs in a process of its own.    *)
(***************************************************************************)
EXTENDS Naturals, FiniteSets

CONSTANTS Item,        \* ids of memory items
          NoItem,      \* no row
          Content,     \* what an item may say
          MaxEdits     \* bound on the items added, edits and audits

VARIABLES items,       \* the table
          edit,        \* the row one editor has read and what it is about to do
          audit,       \* the two rows an audit has asked the model about
          edits        \* how many of those there were

itemVars == <<items, edit, audit, edits>>

Status == {"proposed", "accepted", "active", "contradicted", "stale", "archived", "revoked"}
ActiveStatus == {"accepted", "active"}
RecallableStatus == ActiveStatus \cup {"proposed"}

\* _ALLOWED_TRANSITIONS
AllowedTransitions ==
    [proposed     |-> {"accepted", "active", "revoked", "archived"},
     accepted     |-> {"active", "archived", "revoked"},
     active       |-> {"contradicted", "stale", "archived", "revoked"},
     contradicted |-> {"active", "archived", "revoked"},
     stale        |-> {"active", "archived", "revoked"},
     archived     |-> {"active", "revoked"},
     revoked      |-> {"proposed", "archived"}]

\* Confidence in two steps; 0 is at or below the staleness threshold.
Confidence == 0..1

Row == [status : Status, content : Content, confidence : Confidence,
        contradicts : SUBSET Item, superseded : BOOLEAN,
        durable : BOOLEAN,     \* a constraint: not of a type that decays
        lapsed : BOOLEAN]      \* its expires_at has passed

NoEdit  == [op |-> "none"]
NoAudit == [pair |-> {}]

ItemsInit == items = [i \in Item |-> NoItem] /\ edit = NoEdit /\ audit = NoAudit /\ edits = 0

Exists(i)     == items[i] # NoItem
Recallable(i) == Exists(i) /\ items[i].status \in RecallableStatus

\* _do_recall: candidates of the three rankings pass this filter, re-read.
Recalled == {i \in Item : Recallable(i) /\ ~items[i].lapsed}

NewRow(content, status, durable, contradicts) ==
    [status |-> status, content |-> content, confidence |-> 1, contradicts |-> contradicts,
     superseded |-> FALSE, durable |-> durable, lapsed |-> FALSE]

-----------------------------------------------------------------------------
(* The user's memory.add.                                                  *)
AddItem(i, content, status, durable) ==
    /\ ~Exists(i)
    /\ edits < MaxEdits /\ edits' = edits + 1
    /\ items' = [items EXCEPT ![i] = NewRow(content, status, durable, {})]
    /\ UNCHANGED <<edit, audit>>

\* The item's expires_at passes.
Lapse(i) ==
    /\ Exists(i) /\ ~items[i].lapsed
    /\ edits < MaxEdits /\ edits' = edits + 1
    /\ items' = [items EXCEPT ![i].lapsed = TRUE]
    /\ UNCHANGED <<edit, audit>>

\* set_status, record_activation and apply_credit_delta read the row ...
ReadRow(i, op) ==
    /\ edit = NoEdit /\ edits < MaxEdits
    /\ Exists(i)
    /\ op = "activate" => i \in Recalled
    /\ edit' = [op |-> op, item |-> i, row |-> items[i]]
    /\ edits' = edits + 1
    /\ UNCHANGED <<items, audit>>

\* ... and write: an illegal transition raises; a revocation changes the status only.
StoreRevoked ==
    /\ edit.op = "revoke"
    /\ items' = IF "revoked" \in AllowedTransitions[edit.row.status] /\ Exists(edit.item)
                THEN [items EXCEPT ![edit.item].status = "revoked"] ELSE items
    /\ edit' = NoEdit
    /\ UNCHANGED <<audit, edits>>

\* Long-term potentiation: a proposed item that is used becomes active.
Activated(row) ==
    IF row.status = "proposed"
    THEN [row EXCEPT !.status = "active", !.confidence = 1]
    ELSE row

StoreActivated ==
    /\ edit.op = "activate"
    /\ items' = [items EXCEPT ![edit.item] = Activated(edit.row)]
    /\ edit' = NoEdit
    /\ UNCHANGED <<audit, edits>>

\* A negative credit may make the item stale, which asks for a repair.
Penalised(row) ==
    [row EXCEPT !.confidence = 0,
                !.status = IF @ \in {"active", "proposed"} THEN "stale" ELSE @]

StorePenalised ==
    /\ edit.op = "penalise"
    /\ items' = [items EXCEPT ![edit.item] = Penalised(edit.row)]
    /\ edit' = NoEdit
    /\ UNCHANGED <<audit, edits>>

-----------------------------------------------------------------------------
(* Maintenance: garbage_collect of one item.                               *)

Expire(i) ==
    /\ Exists(i) /\ items[i].lapsed
    /\ items[i].status \notin {"archived", "revoked", "stale"}
    /\ items' = [items EXCEPT ![i].status = IF @ = "active" THEN "stale" ELSE "archived"]
    /\ UNCHANGED <<edit, audit, edits>>

Decay(i) ==
    /\ Exists(i) /\ items[i].status = "active" /\ ~items[i].durable /\ ~items[i].lapsed
    /\ items' = [items EXCEPT
          ![i].confidence = 0, ![i].status = "stale"]
    /\ UNCHANGED <<edit, audit, edits>>

\* audit_semantic_conflicts holds the rows of a recallable pair while it asks.
AskAudit(i, j) ==
    /\ audit = NoAudit /\ edits < MaxEdits
    /\ i # j /\ Recallable(i) /\ Recallable(j)
    /\ audit' = [pair |-> <<i, j>>, rows |-> <<items[i], items[j]>>]
    /\ edits' = edits + 1
    /\ UNCHANGED <<items, edit>>

\* The model sees no contradiction, or names one and perhaps which of the
\* two is superseded: that row is stored again, as it was read.
AnswerAudit ==
    /\ audit # NoAudit
    /\ LET i == audit.pair[1]
           j == audit.pair[2]
           linked(n, other) == [audit.rows[n] EXCEPT !.contradicts = @ \cup {other}]
           contradiction == [items EXCEPT ![i] = linked(1, j), ![j] = linked(2, i)]
       IN items' \in {items, contradiction,
                      [contradiction EXCEPT ![i] = [audit.rows[1] EXCEPT !.superseded = TRUE]],
                      [contradiction EXCEPT ![j] = [audit.rows[2] EXCEPT !.superseded = TRUE]]}
    /\ audit' = NoAudit
    /\ UNCHANGED <<edit, edits>>

ItemNext ==
    \/ \E i \in Item, c \in Content, s \in {"proposed", "active"}, d \in BOOLEAN : AddItem(i, c, s, d)
    \/ \E i \in Item : Lapse(i) \/ Expire(i) \/ Decay(i)
    \/ \E i \in Item, op \in {"revoke", "activate", "penalise"} : ReadRow(i, op)
    \/ StoreRevoked \/ StoreActivated
    \/ \E i, j \in Item : AskAudit(i, j)
    \/ AnswerAudit
=============================================================================
