-------------------------- MODULE ConnectorIngress ---------------------------
(***************************************************************************)
(* How a message of a chat service becomes a turn and the turn an answer:  *)
(* the polling service (weixin/service.py or telegram/service.py), the     *)
(* deduplication file, the peer session and health files, the router that  *)
(* waits for the answer (connector_router.py) and the event bus whose      *)
(* single worker runs the turn (event_bus.py, connector_runtime.py,        *)
(* intent_agent.py).  One conversation, one service process: the poll      *)
(* loop, the bus worker and the turn are tasks of its event loop, and a    *)
(* restart loses whatever is not in a file.                                *)
(*                                                                         *)
(* The rows of the outbox are here only as far as the session token, the   *)
(* circuit and the requeue decide their fate; DeliveryOutbox has the rest. *)
(***************************************************************************)
EXTENDS Integers, Sequences, FiniteSets, SequencesExt

CONSTANTS Chat, Anonymous, Control, Blocked, \* messages: with an id, without, an approval
                                             \* command, from someone not allowed
          Background, \* a row nobody asked for: a result or a notification
          Kind,       \* {"weixin", "telegram"} or one of them
          None,
          MaxLog,     \* bound on the updates the service offers, redeliveries included
          TokenOf,    \* the context token of each message, 0 for none: a redelivered
                      \* update carries the same, and two messages may share one
          MaxFaults,  \* bound on failures, stalls and expiries
          MaxRestarts  \* bound on restarts

Message   == Chat \cup Anonymous \cup Control \cup Blocked
OutboxRow == Message \cup {Background}

\* A correlation id: the message, and for one without an id of its own the
\* update it was retrieved with.
Id      == Message \X Nat
Replies == {"none", "text", "ask", "deferred", "empty", "raised"}
Channel == [id : Id, reply : Replies]
Event   == [type : {"ingress", "intent", "completed"}, id : Id, msg : Message,
            asked : BOOLEAN,   \* the answer before this message was a question
            ask : BOOLEAN]     \* what the handlers know, or tell, of a question

ASSUME IngressAssumption ==
    /\ Background \notin Message /\ None \notin OutboxRow
    /\ None \notin Channel /\ None \notin Event
    /\ Kind \subseteq {"weixin", "telegram"}
    /\ TokenOf \in [Message -> Nat]
    /\ MaxLog \in Nat /\ MaxFaults \in Nat /\ MaxRestarts \in Nat

VARIABLES kind,     \* the connector this process runs
          log,      \* the updates of the chat service, in order
          cursor,   \* where a restarted service takes up: saved sync_buf, confirmed offset
          svc,      \* the poll loop
          seen,     \* keys of ingress-dedup.json
          session,  \* the peer's entry in peer-sessions.json
          circuit,  \* proactive_circuit_open_until lies ahead
          rows,     \* the outbox rows of the conversation
          bus,      \* the queue of the event bus
          turn,     \* the user_intent handler the worker is in
          channel,  \* the response channel of the router
          asks,     \* IntentAgent._pending_asks
          restored, \* _restored_session_accounts holds the account
          clock,    \* the last instant at which a context token was observed
          prompted, \* history: the last answer was a question
          turns,    \* history: turns each message was given
          outcome,  \* history: what became of each message
          rejected, \* history: tokens refused since the service last brought them
          lapses, restarts, faults

tasks   == <<bus, turn, channel, asks>>
memory  == <<svc, tasks, restored>>
history == <<prompted, turns, outcome, rejected, lapses, restarts>>
ingressVars == <<kind, log, cursor, memory, seen, session, circuit, rows, clock, history, faults>>

Weixin == kind = "weixin"

NoSession == [token |-> 0, observed |-> 0, known |-> FALSE, aged |-> FALSE]
NoRow     == [status |-> "absent", token |-> 0, observed |-> 0, error |-> "none",
              deadline |-> FALSE, late |-> FALSE]
Polling(at) == [pc |-> "poll", at |-> at, upto |-> at, msg |-> None, id |-> None,
                token |-> 0, observed |-> 0, reply |-> "none"]

Places  == {"poll", "update", "dedup", "typing", "route", "wait", "reply", "drain",
            "background"}
Settled == {"blocked", "answered", "queued", "deferred", "failed", "lost"}

PollLoop == [pc : Places, at : Nat, upto : Nat, msg : Message \cup {None}, id : Id \cup {None},
             token : Nat, observed : Nat, reply : Replies]
Session  == [token : Nat, observed : Nat, known : BOOLEAN, aged : BOOLEAN]
Delivery == [status : {"absent", "pending", "waiting", "sent", "failed"}, token : Nat,
             observed : Nat, error : {"none", "session", "other"}, deadline : BOOLEAN,
             late : BOOLEAN]

IngressTypeOK ==
    /\ kind \in Kind /\ log \in Seq(Message) /\ cursor \in 0..Len(log)
    /\ svc \in PollLoop /\ svc.at <= svc.upto /\ svc.upto <= Len(log)
    /\ session \in Session /\ rows \in [OutboxRow -> Delivery]
    /\ bus \in Seq(Event) /\ turn \in Event \cup {None} /\ channel \in Channel \cup {None}
    /\ asks \in BOOLEAN /\ prompted \in BOOLEAN /\ circuit \in BOOLEAN /\ restored \in BOOLEAN
    /\ clock \in Nat /\ rejected \subseteq Nat \ {0}
    /\ turns \in [Message -> Nat] /\ outcome \in [Message -> {"none"} \cup Settled]
    /\ lapses \in Nat /\ restarts \in Nat /\ faults \in Nat

IngressInit ==
    /\ kind \in Kind /\ log = <<>> /\ cursor = 0
    /\ svc = Polling(0)
    /\ seen = {} /\ session = NoSession /\ circuit = FALSE
    /\ rows = [r \in OutboxRow |-> NoRow]
    /\ bus = <<>> /\ turn = None /\ channel = None /\ asks = FALSE
    /\ restored = FALSE
    /\ clock = 0
    /\ turns = [m \in Message |-> 0] /\ outcome = [m \in Message |-> "none"]
    /\ prompted = FALSE /\ rejected = {} /\ lapses = 0
    /\ restarts = 0 /\ faults = 0

Fault == faults < MaxFaults /\ faults' = faults + 1

GoesTo(pc) == svc' = [svc EXCEPT !.pc = pc]
Settle(m, o) == outcome' = [outcome EXCEPT ![m] = o]

-----------------------------------------------------------------------------
(* The chat service: external.                                             *)

\* A person writes, or the long poll repeats an update it has sent.
Arrive(m) ==
    /\ Len(log) < MaxLog
    /\ log' = Append(log, m)
    /\ UNCHANGED <<kind, cursor, memory, seen, session, circuit, rows, clock, history, faults>>

-----------------------------------------------------------------------------
(* run: the poll loop.                                                     *)

\* Weixin saves the cursor before the updates are handled; Telegram confirms
\* what it has been through by the offset of the next request.
Poll ==
    /\ svc.pc = "poll"
    /\ cursor' = IF Weixin THEN Len(log) ELSE svc.at
    /\ svc' = [svc EXCEPT !.pc = "update", !.upto = Len(log)]
    /\ UNCHANGED <<kind, log, seen, session, circuit, rows, tasks, restored,
                   clock, history, faults>>

\* Mutant: a failed update ends the batch, whose cursor is saved.
DropsTheBatch == Polling(svc.upto)

\* After an update: the next one.  An exception of Weixin's handler is caught
\* per update; one of Telegram's ends the batch, whose rest is fetched again.
AfterUpdate == [svc EXCEPT !.pc = "update", !.msg = None, !.id = None, !.token = 0,
                           !.observed = 0, !.reply = "none"]
AfterFailure == IF Weixin THEN AfterUpdate ELSE Polling(svc.at)

EndOfBatch ==
    /\ svc.pc = "update" /\ svc.at = svc.upto
    /\ svc' = IF Weixin THEN [svc EXCEPT !.pc = "background"] ELSE Polling(svc.at)
    /\ UNCHANGED <<kind, log, cursor, seen, session, circuit, rows, tasks, restored,
                   clock, history, faults>>

\* An id of the transport, or one made up at each retrieval.
MessageId(m) == IF m \in Anonymous THEN <<m, svc.at>> ELSE <<m, 0>>

\* The update in hand keeps its token and when that was observed.
NextUpdate(token, observed) ==
    LET m == log[svc.at + 1]
    IN /\ svc.pc = "update" /\ svc.at < svc.upto
       /\ svc' = [svc EXCEPT !.at = @ + 1, !.msg = m, !.id = MessageId(m), !.token = token,
                             !.observed = observed, !.pc = "dedup"]

\* Mutant: a token is stored unless a newer one is there.
StoresUnlessOlder(observed) == ~session.known \/ session.observed <= observed

\* WeixinSessionStore.put: an entry as old as the stored one changes nothing.
Stores(observed) == ~session.known \/ session.observed < observed

Stored(token, observed) ==
    IF Stores(observed)
    THEN [token |-> token, observed |-> observed, known |-> TRUE, aged |-> FALSE]
    ELSE session

\* _requeue_session_recoverable_deliveries: failed for the session, and with a
\* deadline that lies ahead (a row without one counts as expired).
Recoverable(r) == /\ rows[r].status = "failed" /\ rows[r].error = "session"
                  /\ rows[r].deadline /\ ~rows[r].late

Requeued == [r \in OutboxRow |-> IF Recoverable(r) THEN [rows[r] EXCEPT !.status = "pending"]
                                             ELSE rows[r]]

\* handle_update of Weixin up to the deduplication: policy, session, requeue,
\* and the circuit that the person's message closes.  A redelivered update is
\* as good as a new one here: the token it brings, even one that was refused,
\* is stored under the present instant.
ObserveUpdate ==
    /\ Weixin /\ svc.pc = "update" /\ svc.at < svc.upto
    /\ LET m == log[svc.at + 1]
           token == TokenOf[m]
       IN IF m \in Blocked
          THEN /\ svc' = [svc EXCEPT !.at = @ + 1]
               /\ Settle(m, "blocked")
               /\ UNCHANGED <<session, rows, circuit, clock, rejected>>
          ELSE /\ circuit' = FALSE
               /\ UNCHANGED outcome
               /\ IF token = 0
                  THEN NextUpdate(0, 0) /\ UNCHANGED <<session, rows, clock, rejected>>
                  ELSE /\ NextUpdate(token, clock + 1)
                       /\ clock' = clock + 1
                       /\ session' = Stored(token, clock + 1)
                       /\ rows' = IF Stores(clock + 1) THEN Requeued ELSE rows
                       /\ rejected' = rejected \ {token}
    /\ UNCHANGED <<kind, log, cursor, seen, tasks, restored, prompted, turns,
                   lapses, restarts, faults>>

\* Telegram deduplicates first, and advances its offset before it handles.
TakeUpdate ==
    /\ ~Weixin /\ NextUpdate(0, 0)
    /\ UNCHANGED <<kind, log, cursor, seen, session, circuit, rows, tasks, restored,
                   clock, history, faults>>

-----------------------------------------------------------------------------
(* ConnectorIngressDeduplicator.check, under the lock of its file.         *)

\* The facts of a Weixin message hold its id, so its content key does too.
Key == IF svc.msg \in Anonymous /\ ~Weixin THEN <<"content", svc.msg>> ELSE svc.id

\* Mutant: a duplicate is let through.
NeverDuplicate == FALSE

Duplicate == Key \in seen

Dedup ==
    /\ svc.pc = "dedup"
    /\ seen' = seen \cup {Key}
    /\ IF Duplicate
       THEN svc' = AfterUpdate /\ UNCHANGED outcome
       ELSE IF svc.msg \in Blocked   \* only Telegram comes this far with one
            THEN svc' = AfterUpdate /\ Settle(svc.msg, "blocked")
            ELSE GoesTo(IF Weixin THEN "typing" ELSE "route") /\ UNCHANGED outcome
    /\ UNCHANGED <<kind, log, cursor, session, circuit, rows, tasks, restored,
                   clock, prompted, turns, rejected, lapses, restarts, faults>>

\* _typing_ticket: a ticket, a cached one, or none; the request may fail, and
\* with it the update.
TypingTicket ==
    /\ svc.pc = "typing"
    /\ GoesTo("route")
    /\ UNCHANGED <<kind, log, cursor, seen, session, circuit, rows, tasks, restored,
                   clock, history, faults>>

TypingTicketFails ==
    /\ svc.pc = "typing" /\ Fault
    /\ svc' = AfterFailure /\ Settle(svc.msg, "failed")
    /\ UNCHANGED <<kind, log, cursor, seen, session, circuit, rows, tasks, restored,
                   clock, prompted, turns, rejected, lapses, restarts>>

-----------------------------------------------------------------------------
(* ConnectorRouter.route.                                                  *)

\* A message of the model loop is published and its channel opened.
Publish ==
    /\ svc.pc = "route" /\ svc.msg \notin Control
    /\ channel' = [id |-> svc.id, reply |-> "none"]
    /\ bus' = Append(bus, [type |-> "ingress", id |-> svc.id, msg |-> svc.msg,
                           asked |-> prompted, ask |-> FALSE])
    /\ GoesTo("wait")
    /\ prompted' = FALSE
    /\ UNCHANGED <<kind, log, cursor, seen, session, circuit, rows, turn, asks, restored,
                   clock, turns, outcome, rejected, lapses, restarts, faults>>

\* What route returns without the bus: nothing to a blank text, and the answer
\* of a declared approval command, whose continuation answers, is deferred, or
\* raises.
AnswersDirectly(reply) ==
    /\ svc.pc = "route"
    /\ \/ svc.msg \in Control /\ reply \in {"text", "deferred", "raised"}
       \/ svc.msg \notin Control /\ reply = "empty"
    /\ IF reply = "raised" THEN Fault ELSE UNCHANGED faults
    /\ svc' = [svc EXCEPT !.pc = "reply", !.reply = reply]
    /\ UNCHANGED <<kind, log, cursor, seen, session, circuit, rows, tasks, restored,
                   clock, history>>

Works(id)  == turn # None /\ turn.id = id
Queued(id) == \E k \in DOMAIN bus : bus[k].id = id /\ bus[k].type # "completed"

\* _await_response: the response of the turn.
Receive ==
    /\ svc.pc = "wait" /\ channel.reply # "none"
    /\ svc' = [svc EXCEPT !.pc = "reply", !.reply = channel.reply]
    /\ channel' = None
    /\ prompted' = (channel.reply = "ask")
    /\ UNCHANGED <<kind, log, cursor, seen, session, circuit, rows, bus, turn, asks, restored,
                   clock, turns, outcome, rejected, lapses, restarts, faults>>

\* Mutant: no heartbeat resets the idle window.
SilentDespiteHeartbeat == channel.reply = "none"

\* Nothing comes for the idle window: no heartbeat, because the turn is not
\* running, and no start of it, because its event was lost or queues behind
\* another turn.
Silent == channel.reply = "none" /\ ~Works(svc.id) /\ (Queued(svc.id) => turn # None)

Timeout ==
    /\ svc.pc = "wait" /\ Silent
    /\ svc' = [svc EXCEPT !.pc = "reply", !.reply = "empty"]
    /\ channel' = None
    /\ UNCHANGED <<kind, log, cursor, seen, session, circuit, rows, bus, turn, asks, restored,
                   clock, history, faults>>

\* The event loop itself was held up for longer than the window: the heartbeat
\* comes too late for a turn that is alive.
LoopStalls ==
    /\ svc.pc = "wait" /\ channel.reply = "none" /\ Works(svc.id) /\ Fault
    /\ svc' = [svc EXCEPT !.pc = "reply", !.reply = "empty"]
    /\ channel' = None
    /\ UNCHANGED <<kind, log, cursor, seen, session, circuit, rows, bus, turn, asks, restored,
                   clock, history>>

-----------------------------------------------------------------------------
(* The bus worker: one event at a time, until its handlers are done.       *)

Head1(type) == turn = None /\ bus # <<>> /\ Head(bus).type = type

\* IntentAgent._on_message_ingress: the intent goes to the end of the queue.
HandleIngress ==
    /\ Head1("ingress")
    /\ bus' = Append(Tail(bus), [Head(bus) EXCEPT !.type = "intent", !.ask = asks])
    /\ asks' = FALSE
    /\ UNCHANGED <<kind, log, cursor, svc, seen, session, circuit, rows, turn, channel, restored,
                   clock, history, faults>>

\* It raises before it publishes: the bus logs that, and nobody answers.
IngressRaises ==
    /\ Head1("ingress") /\ Fault
    /\ bus' = Tail(bus)
    /\ UNCHANGED <<kind, log, cursor, svc, seen, session, circuit, rows, turn, channel, asks, restored,
                   clock, history>>

HandleCompleted ==
    /\ Head1("completed")
    /\ asks' = Head(bus).ask
    /\ bus' = Tail(bus)
    /\ UNCHANGED <<kind, log, cursor, svc, seen, session, circuit, rows, turn, channel, restored,
                   clock, history, faults>>

\* on_user_intent: the turn runs inside the handler, so the worker is in it.
StartTurn ==
    /\ Head1("intent")
    /\ turn' = Head(bus) /\ bus' = Tail(bus)
    /\ turns' = [turns EXCEPT ![Head(bus).msg] = @ + 1]
    /\ UNCHANGED <<kind, log, cursor, svc, seen, session, circuit, rows, channel, asks, restored,
                   clock, prompted, outcome, rejected, lapses, restarts, faults>>

\* Mutant: the completion tells the action of the invocation, not of the answer.
CompletedAsChat(reply) == [type |-> "completed", id |-> turn.id, msg |-> turn.msg,
                           asked |-> FALSE, ask |-> FALSE]

Completed(reply) == [type |-> "completed", id |-> turn.id, msg |-> turn.msg,
                     asked |-> FALSE, ask |-> reply = "ask"]

\* send_response: only a channel of the same correlation id is still waiting.
Answers(reply) ==
    IF channel # None /\ channel.id = turn.id THEN [channel EXCEPT !.reply = reply] ELSE channel

\* TurnController.handle: what the loop responded; else a retry that the
\* durable loop owns; else what the responder makes of the facts, or nothing.
Surfaced(responded, retrying, authored) ==
    CASE responded # "none" -> responded
      [] retrying           -> "deferred"
      [] authored           -> "text"
      [] OTHER              -> "empty"

Surfaces == {Surfaced(responded, retrying, authored) :
                responded \in {"none", "text", "ask"}, retrying, authored \in BOOLEAN}

\* The end of the turn, or an exception of it (reported as an empty answer).
\* Only a turn that was recorded publishes its completion, and before the
\* answer is sent.
FinishTurn(reply) ==
    /\ turn # None
    /\ IF reply \in {"empty", "raised"} THEN Fault ELSE UNCHANGED faults
    /\ bus' = IF reply = "raised" THEN bus ELSE Append(bus, Completed(reply))
    /\ channel' = Answers(IF reply = "raised" THEN "empty" ELSE reply)
    /\ turn' = None
    /\ UNCHANGED <<kind, log, cursor, svc, seen, session, circuit, rows, asks, restored,
                   clock, history>>

-----------------------------------------------------------------------------
(* handle_update once the router has answered.                             *)

\* enqueue under the message id: a row that exists is left alone.
NewRow(token, observed, deadline) ==
    [NoRow EXCEPT !.status = "pending", !.token = token, !.observed = observed,
                  !.deadline = deadline]

Enqueued(r, token, observed, deadline) ==
    IF rows[r].status = "absent" THEN [rows EXCEPT ![r] = NewRow(token, observed, deadline)]
                                 ELSE rows

ReplyWeixin ==
    /\ Weixin /\ svc.pc = "reply"
    /\ CASE svc.reply \in {"text", "ask"} ->
              /\ rows' = Enqueued(svc.msg, svc.token, svc.observed, FALSE)
              /\ Settle(svc.msg, "queued")
              /\ GoesTo("drain")
         [] svc.reply = "deferred" ->
              /\ svc' = AfterUpdate /\ Settle(svc.msg, "deferred") /\ UNCHANGED rows
         [] OTHER ->
              /\ svc' = AfterFailure /\ Settle(svc.msg, "failed") /\ UNCHANGED rows
    /\ UNCHANGED <<kind, log, cursor, seen, session, circuit, tasks, restored,
                   clock, prompted, turns, rejected, lapses, restarts, faults>>

\* Telegram sends the answer itself; nothing of it is kept.
ReplyTelegram(sent) ==
    /\ ~Weixin /\ svc.pc = "reply"
    /\ IF sent THEN UNCHANGED faults ELSE Fault
    /\ CASE svc.reply \in {"text", "ask"} /\ sent ->
              svc' = AfterUpdate /\ Settle(svc.msg, "answered")
         [] svc.reply = "deferred" ->
              svc' = AfterUpdate /\ Settle(svc.msg, "deferred")
         [] OTHER ->
              svc' = AfterFailure /\ Settle(svc.msg, "failed")
    /\ UNCHANGED <<kind, log, cursor, seen, session, circuit, rows, tasks, restored,
                   clock, prompted, turns, rejected, lapses, restarts>>

-----------------------------------------------------------------------------
(* process_background and the drain of the outbox: Weixin only.            *)

\* The loop control service queues the accepted result of a goal: external.
QueueResult ==
    /\ Weixin /\ rows[Background].status = "absent"
    /\ rows' = Enqueued(Background, 0, 0, TRUE)
    /\ UNCHANGED <<kind, log, cursor, memory, seen, session, circuit, clock, history, faults>>

\* A background event or task is surfaced, unless it is a transient pause, has
\* nothing to tell, or the model declines.
ProcessBackground(surfaces) ==
    /\ svc.pc = "background"
    /\ rows' = IF surfaces THEN Enqueued(Background, 0, 0, FALSE) ELSE rows
    /\ GoesTo("drain")
    /\ UNCHANGED <<kind, log, cursor, seen, session, circuit, tasks, restored,
                   clock, history, faults>>

\* The rows that brought a token, and the latest of them.
Bearing == {r \in OutboxRow : rows[r].token # 0}
Latest(r) == \A q \in Bearing : rows[q].observed <= rows[r].observed

\* _restore_session_tokens_from_outbox: once per process, the newest token.
RestoreTokens ==
    /\ svc.pc = "drain" /\ ~restored
    /\ \/ Bearing = {} /\ UNCHANGED session
       \/ \E r \in Bearing : Latest(r) /\ session' = Stored(rows[r].token, rows[r].observed)
    /\ restored' = TRUE
    /\ UNCHANGED <<kind, log, cursor, svc, tasks, seen, circuit, rows, clock, history, faults>>

\* Claimed in this order, and proactive rows not while the circuit is open.
Claimable(r) == rows[r].status = "pending" /\ ~(circuit /\ r = Background)
Next1(r) == Claimable(r) /\ (r = Background => \A m \in Message : ~Claimable(m))

\* WeixinSessionStore.resolve: the session's token while it is current; the
\* token the row came with only when the peer has no session at all.
Resolve(r) == IF ~session.known THEN rows[r].token
              ELSE IF session.aged THEN 0 ELSE session.token

Invalidated == IF session.known THEN [session EXCEPT !.token = 0] ELSE session

Marked(r, status, error) == rows' = [rows EXCEPT ![r].status = status, ![r].error = error]

Drains(r) == svc.pc = "drain" /\ restored /\ Next1(r)

drainUnchanged == <<kind, log, cursor, svc, tasks, restored, seen, clock,
                    prompted, turns, outcome, lapses, restarts>>

\* A receipt: after the token, if there is one, was accepted.
DeliverAccepted(r) ==
    /\ Drains(r) /\ ~rows[r].late
    /\ Resolve(r) \notin rejected
    /\ Marked(r, "sent", "none")
    /\ circuit' = (circuit /\ r # Background)
    /\ UNCHANGED <<drainUnchanged, session, rejected, faults>>

\* The deadline passed in the queue.
DeliverLate(r) ==
    /\ Drains(r) /\ rows[r].late
    /\ Marked(r, "failed", "other")
    /\ UNCHANGED <<drainUnchanged, session, circuit, rejected, faults>>

\* classify_failure: a throttled or unavailable service is retried, and a wait
\* it names opens the circuit for proactive rows; anything else is final.
Failure == {"throttled", "unavailable", "session", "other"}

Ends(r, result) ==
    /\ CASE result = "sent"                         -> Marked(r, "sent", "none")
         [] result \in {"throttled", "unavailable"} -> Marked(r, "waiting", "other")
         [] OTHER                                   -> Marked(r, "failed", result)
    /\ circuit' = ((circuit /\ ~(result = "sent" /\ r = Background))
                      \/ (result = "throttled" /\ r = Background))

\* _deliver_locked: the session is rejected, is invalidated, and the send is
\* repeated without a token, with a result of its own.
DeliverRejected(r, again) ==
    /\ Drains(r) /\ ~rows[r].late /\ Resolve(r) # 0 /\ Fault
    /\ rejected' = rejected \cup {Resolve(r)}
    /\ session' = Invalidated
    /\ Ends(r, again)
    /\ UNCHANGED drainUnchanged

SendFails(r, failure) ==
    /\ Drains(r) /\ ~rows[r].late /\ Fault
    /\ failure = "session" => Resolve(r) = 0
    /\ Ends(r, failure)
    /\ UNCHANGED <<drainUnchanged, session, rejected>>

\* A throttled item ends the drain with the rows behind it still pending;
\* whether an item that waits was throttled in this drain is left open.
CutShort == \E r \in OutboxRow : rows[r].status = "waiting"

EndDrain ==
    /\ svc.pc = "drain" /\ restored
    /\ CutShort \/ \A r \in OutboxRow : ~Claimable(r)
    /\ svc' = IF svc.msg # None THEN AfterUpdate ELSE Polling(svc.at)
    /\ UNCHANGED <<kind, log, cursor, tasks, restored, seen, session, circuit, rows,
                   clock, history, faults>>

-----------------------------------------------------------------------------
(* Time and restarts.                                                      *)

RetryDue(r) ==
    /\ rows[r].status = "waiting"
    /\ rows' = [rows EXCEPT ![r].status = "pending"]
    /\ UNCHANGED <<kind, log, cursor, memory, seen, session, circuit, clock, history, faults>>

\* A drain has sampled the circuit when it began.
CircuitElapses ==
    /\ circuit /\ svc.pc # "drain" /\ circuit' = FALSE
    /\ UNCHANGED <<kind, log, cursor, memory, seen, session, rows, clock, history, faults>>

DeadlinePasses ==
    /\ rows[Background].status \notin {"absent", "sent"} /\ Fault
    /\ rows[Background].deadline /\ ~rows[Background].late
    /\ rows' = [rows EXCEPT ![Background].late = TRUE]
    /\ UNCHANGED <<kind, log, cursor, memory, seen, session, circuit, clock, history>>

TokenAges ==
    /\ session.token # 0 /\ ~session.aged /\ Fault
    /\ session' = [session EXCEPT !.aged = TRUE]
    /\ UNCHANGED <<kind, log, cursor, memory, seen, circuit, rows, clock, history>>

DedupLapses(key) ==
    /\ key \in seen /\ Fault
    /\ seen' = seen \ {key} /\ lapses' = lapses + 1
    /\ UNCHANGED <<kind, log, cursor, memory, session, circuit, rows, clock,
                   prompted, turns, outcome, rejected, restarts>>

\* What a restart forgets: the batch behind the saved cursor, the message in
\* hand, the queue of the bus and the turn.  (A turn's loop is durable.)
Forgotten ==
    {log[k] : k \in {j \in DOMAIN log : svc.at < j /\ j <= cursor}}
        \cup (IF ~Weixin /\ svc.pc = "dedup" THEN {} ELSE {svc.msg} \ {None})

ServiceRestarts ==
    /\ restarts < MaxRestarts /\ restarts' = restarts + 1
    /\ svc' = Polling(cursor)
    /\ bus' = <<>> /\ turn' = None /\ channel' = None /\ asks' = FALSE /\ restored' = FALSE
    /\ prompted' = FALSE
    /\ outcome' = [m \in Message |->
                      IF m \in Forgotten /\ outcome[m] = "none" THEN "lost" ELSE outcome[m]]
    /\ UNCHANGED <<kind, log, cursor, seen, session, circuit, rows, clock,
                   turns, rejected, lapses, faults>>

Step ==
    \/ Poll \/ EndOfBatch \/ ObserveUpdate \/ TakeUpdate \/ Dedup \/ TypingTicket
    \/ Publish \/ Receive \/ Timeout \/ ReplyWeixin \/ RestoreTokens \/ EndDrain
    \/ \E reply \in Replies : AnswersDirectly(reply)
    \/ \E sent \in BOOLEAN : ReplyTelegram(sent)
    \/ \E surfaces \in BOOLEAN : ProcessBackground(surfaces)
    \/ \E r \in OutboxRow : DeliverAccepted(r) \/ DeliverLate(r)

BusWorker ==
    \/ HandleIngress \/ HandleCompleted \/ StartTurn
    \/ \E reply \in Surfaces \cup {"raised"} : FinishTurn(reply)

Clock == \/ \E r \in OutboxRow : RetryDue(r)
         \/ CircuitElapses

Environment ==
    \/ \E m \in Message : Arrive(m)
    \/ QueueResult \/ DeadlinePasses \/ TokenAges \/ ServiceRestarts
    \/ \E key \in seen : DedupLapses(key)
    \/ TypingTicketFails \/ IngressRaises \/ LoopStalls
    \/ \E r \in OutboxRow, again \in Failure \cup {"sent"} : DeliverRejected(r, again)
    \/ \E r \in OutboxRow, failure \in Failure : SendFails(r, failure)

IngressNext == Step \/ BusWorker \/ Clock \/ Environment

\* The poll loop and the bus worker are tasks of a running event loop, a turn
\* ends, and waits elapse; nothing obliges a person, or a failure.
IngressSpec == /\ IngressInit /\ [][IngressNext]_ingressVars
               /\ WF_ingressVars(Step) /\ WF_ingressVars(BusWorker) /\ WF_ingressVars(Clock)

-----------------------------------------------------------------------------
(* Properties.                                                             *)

\* The agent loop sees a message once, however often the chat service repeats
\* it and whenever the process restarts, while the keys last
\* (ConnectorIngressDeduplicator).  A Weixin message without an id of its own
\* is not covered: see EachSeenOnce.
SeenOnce == \A m \in Message : turns[m] <= 1 + lapses \/ (Weixin /\ m \in Anonymous)

\* What the class comment of the deduplicator says of every message: "The
\* agent loop should see each connector message once".
EachSeenOnce == \A m \in Message : turns[m] <= 1 + lapses

\* A token the chat service has refused is not sent again, by any row, after a
\* restart or in another order of rows, unless an update has brought it once
\* more in the meantime (WeixinSessionStore, _deliver_locked).  A redelivered
\* update does bring it: the code tells tokens by when they were observed.
RejectedTokensRest == \A r \in OutboxRow : Claimable(r) => Resolve(r) \notin rejected

\* The turn of the message that follows a question knows of the question: its
\* completion has been through the queue by then (IntentAgent._pending_asks).
\* While the keys last: a message let through again during its own turn shares
\* the correlation id of that turn, is given its answer, and the completion of
\* the second turn comes between the question and the next message.
QuestionsAreRemembered ==
    lapses = 0 =>
        /\ turn # None /\ turn.asked => turn.ask
        /\ \A k \in DOMAIN bus : bus[k].type = "intent" /\ bus[k].asked => bus[k].ask

\* While nothing has failed, no turn ends unheard: the router waits for a slow
\* turn, and no turn queues so long behind another that it is given up.
AnswersAreHeard ==
    [][turn # None /\ turn' = None /\ faults' = 0 /\ restarts' = 0
         => channel # None /\ channel' = [id |-> turn.id, reply |-> channel'.reply]]_ingressVars

\* Every message that arrives is answered, queued, deferred, blocked or
\* reported as failed, unless a restart lost it; one failed update does not
\* take the rest of its batch along (run).
MessagesSettle == \A m \in Message :
    (\E k \in DOMAIN log : log[k] = m) ~> outcome[m] \in Settled

=============================================================================
