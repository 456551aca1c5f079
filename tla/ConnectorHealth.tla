--------------------------- MODULE ConnectorHealth ---------------------------
(***************************************************************************)
(* What the Weixin connector computes from a provider's answer, from its   *)
(* counters and from a long text: the reason of a failure and whether it   *)
(* is retried, the projection of ingress and egress facts on one status,   *)
(* and the chunks a text is sent in.  No state: each function is checked,  *)
(* over every small argument, against what a reader of the status, or of   *)
(* the chat, relies on.                                                    *)
(***************************************************************************)
EXTENDS Integers, Sequences, SequencesExt, FiniteSetsExt

-----------------------------------------------------------------------------
(* Failures of a send.                                                     *)

Code    == {"none", "zero", "expired", "limited", "other"}   \* of ret and errcode
Wording == {"unknown error", "too frequent", "anything"}     \* of errmsg

\* Whether _send_chunk and _raise_ilink_error raise at all.
Raises(ret, errcode) == {ret, errcode} \cap {"expired", "limited", "other"} # {}

\* _ilink_error_reason.
Reason(ret, errcode, wording) ==
    CASE \/ "expired" \in {ret, errcode}
         \/ "limited" \in {ret, errcode} /\ wording = "unknown error"      -> "session"
      [] "limited" \in {ret, errcode} /\ wording = "too frequent"          -> "rate"
      [] "limited" \in {ret, errcode} /\ wording = "anything"              -> "transient"
      [] OTHER                                                             -> "rejected"

\* classify_failure: retried or not, and whether it names a wait.
Retried(reason) == reason \in {"transport", "rate", "transient"}
Waits(reason)   == reason \in {"rate", "transient"}

\* A wait is only ever named for something that is retried, and an expired
\* session is never retried as if it were congestion.
ASSUME FailuresAreClassified ==
    \A ret, errcode \in Code, w \in Wording :
        /\ Waits(Reason(ret, errcode, w)) => Retried(Reason(ret, errcode, w))
        /\ "expired" \in {ret, errcode} => ~Retried(Reason(ret, errcode, w))
        /\ Retried(Reason(ret, errcode, w)) => Raises(ret, errcode)

-----------------------------------------------------------------------------
(* WeixinStatusStore.                                                      *)

Ingress == {"unknown", "healthy", "degraded", "fatal", "stale"}
Egress  == {"unknown", "healthy", "degraded"}
Window  == {"met", "breached", "insufficient_data", "unknown"}

\* The status of a window of the delivery record: five samples at least, and
\* nineteen of twenty sent.
WindowStatus(samples, sent) ==
    CASE samples < 5               -> "insufficient_data"
      [] 20 * sent >= 19 * samples -> "met"
      [] OTHER                     -> "breached"

Incident(windows) ==
    CASE "breached" \in windows          -> "open"
      [] "unknown" \in windows           -> "unknown"
      [] "insufficient_data" \in windows -> "insufficient_data"
      [] OTHER                           -> "closed"

\* record_egress_success and record_egress_failure.
Recorded(s, proactive, ok) ==
    LET side  == IF proactive THEN "proactive" ELSE "reactive"
        count == IF proactive THEN "pfail" ELSE "rfail"
    IN [s EXCEPT ![side]  = IF ok THEN "healthy" ELSE "degraded",
                 ![count] = IF ok THEN 0 ELSE @ + 1]

Failures(s) == Max({s.rfail, s.pfail})

\* _project: first the egress as it is now, then with the incident, then all.
Instantaneous(s) ==
    CASE "degraded" \in {s.reactive, s.proactive}  -> "degraded"
      [] {s.reactive, s.proactive} = {"healthy"}   -> "healthy"
      [] "healthy" \in {s.reactive, s.proactive}   -> "partial"
      [] OTHER                                     -> "unknown"

EgressStatus(s) ==
    LET now == Instantaneous(s)
    IN CASE s.incident = "open" /\ now \in {"healthy", "partial"}                 -> "degraded"
         [] s.incident \in {"unknown", "insufficient_data"} /\ now = "healthy"    -> "partial"
         [] OTHER                                                                 -> now

Overall(s) ==
    CASE s.ingress \in {"fatal", "degraded", "stale"}                  -> s.ingress
      [] EgressStatus(s) = "degraded"                                  -> "degraded"
      [] s.ingress = "healthy" /\ EgressStatus(s) = "healthy"          -> "healthy"
      [] s.ingress = "healthy"                                         -> "partial"
      [] OTHER                                                         -> "unknown"

\* snapshot: an ingress nobody has reported on for long is stale.
Snapshot(s, old) == IF old THEN [s EXCEPT !.ingress = "stale"] ELSE s

State == [ingress: Ingress, reactive: Egress, proactive: Egress,
          incident: {Incident(w) : w \in SUBSET Window}, rfail: 0..1, pfail: 0..1]

\* Healthy is earned: both directions of egress, the ingress and the record of
\* deliveries; a silent connector is never healthy; a failure shows at once.
ASSUME StatusIsEarned ==
    \A s \in State :
        /\ Overall(s) = "healthy" <=>
              s.ingress = "healthy" /\ s.reactive = "healthy" /\ s.proactive = "healthy"
                /\ s.incident = "closed"
        /\ Overall(Snapshot(s, TRUE)) = "stale"
        /\ \A p \in BOOLEAN :
              /\ Overall(Recorded(s, p, FALSE)) \in {"fatal", "degraded", "stale"}
              /\ Failures(Recorded(s, p, FALSE)) > 0

\* One side's success does not hide the failures of the other.
ASSUME SidesAreApart ==
    \A s \in State : s.pfail > 0 => Failures(Recorded(s, FALSE, TRUE)) = s.pfail

\* A record below the objective is an incident whatever the other windows say.
ASSUME BreachesOpen ==
    \A n \in 5..25, k \in 0..25 :
        k <= n /\ 20 * k < 19 * n => Incident({"met", WindowStatus(n, k)}) = "open"

-----------------------------------------------------------------------------
(* split_text_for_weixin for a text over the limit: blocks of the text are *)
(* given by their lengths, and a chunk by its length and what of the       *)
(* blocks it holds (the rest are separators of length two).                *)

Hold(len) == [len |-> len, text |-> len]

RECURSIVE Sliced(_, _)
Sliced(len, limit) == IF len <= limit THEN <<Hold(len)>>
                                      ELSE <<Hold(limit)>> \o Sliced(len - limit, limit)

AddBlock(acc, len, limit) ==
    LET cur    == acc.current
        joined == CASE cur.len = 0 -> Hold(len)
                    [] len = 0     -> cur
                    [] OTHER       -> [len |-> cur.len + 2 + len, text |-> cur.text + len]
        parts  == Sliced(len, limit)
    IN IF joined.len <= limit
       THEN [acc EXCEPT !.current = joined]
       ELSE [chunks  |-> (IF cur.len > 0 THEN Append(acc.chunks, cur) ELSE acc.chunks)
                           \o Front(parts),
             current |-> Last(parts)]

Chunks(blocks, limit) ==
    LET end == FoldLeft(LAMBDA acc, len : AddBlock(acc, len, limit),
                        [chunks |-> <<>>, current |-> Hold(0)], blocks)
    IN IF end.current.len > 0 THEN Append(end.chunks, end.current) ELSE end.chunks

Total(blocks) == FoldLeft(LAMBDA a, b : a + b, 0, blocks)

\* No chunk is over the limit or empty, and all of the text is sent.
ASSUME ChunksHoldTheText ==
    \A blocks \in UNION {[1..n -> 0..7] : n \in 1..3} :
        LET chunks == Chunks(blocks, 5)
        IN /\ \A k \in DOMAIN chunks : chunks[k].len \in 1..5
           /\ FoldLeft(LAMBDA a, c : a + c.text, 0, chunks) = Total(blocks)
=============================================================================
