---------------------------- MODULE MCEvolution -----------------------------
(* One proposal, two processes and the daemon; two items, so that an audit *)
(* can compare them.                                                       *)
EXTENDS Evolution, MCTraceRules

CONSTANTS p1, a1, a2, m1, m2

MCProposal == {p1}
MCProcess  == {a1, a2}
MCItem     == {m1, m2}
MCEvolvable == {m1}
=============================================================================
