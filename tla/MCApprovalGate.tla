--------------------------- MODULE MCApprovalGate ---------------------------
(* A subject for each way the gate can decide: never asked, asked because  *)
(* of the risk of one argument and not of the other, asked because of the  *)
(* ceiling, asked unless the caller is the control surface, never asked    *)
(* because the capability is the approval itself, refused; and one whose   *)
(* call may report a loop that waits again, one whose call yields control. *)
EXTENDS ApprovalGate

Offer(name, arguments, requested, context) ==
    [name |-> name, arguments |-> arguments, requested |-> requested, context |-> context]

MCSubject ==
    {Offer("http.fetch", {"public_get", "private_target", "unresolved"}, "network", "turn"),
     Offer("file.write", {"new_file", "shrinks_existing"}, "write", "turn"),
     Offer("shell.run", {"local_read", "opaque"}, "write", "turn"),
     Offer("agent.control", {"list", "cancel"}, "prepare", "turn"),
     Offer("goal.resume", {"plain"}, "prepare", "api"),
     Offer("goal.resume", {"plain"}, "prepare", "turn"),
     Offer("channel.send_file", {"inside"}, "write", "turn"),
     Offer("approval.resolve", {"plain"}, "prepare", "turn")}
=============================================================================
