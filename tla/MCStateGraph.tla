----------------------------- MODULE MCStateGraph ------------------------------
(* Value sets for the runs of StateGraph. *)
EXTENDS StateGraph

BothModes == {"background", "foreground"}
Background == {"background"}

\* Anything suspended may be resumed by hand.
AnySuspension == Why

\* Resumes answer a question, grant an approval or follow a lock conflict.
AnsweredWaits == {"yield", "approval", "lock"}
================================================================================
