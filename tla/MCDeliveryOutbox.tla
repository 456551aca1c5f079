--------------------------- MODULE MCDeliveryOutbox ----------------------------
(* Value sets for the runs of DeliveryOutbox. *)
EXTENDS DeliveryOutbox

CONSTANTS w1, text, file

OneWorker == {w1}
Items == {text, file}

\* A background result, with its deadline or without, and a file with its
\* caption.
Batches ==
  [items : {{text}}, loop : {FALSE}, deadline : BOOLEAN]
    \cup [items : {{text, file}}, loop : {TRUE}, deadline : {FALSE}]
================================================================================
