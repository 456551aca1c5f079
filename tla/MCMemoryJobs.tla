--------------------------- MODULE MCMemoryJobs -----------------------------
(* Two turns of one conversation, one goal and one item; the realtime     *)
(* worker claims one job, the daemon whatever there is (its limit is 10). *)
EXTENDS MemoryJobs, TLC

CONSTANTS e1, e2, m1, realtime, daemon

MCEpisode   == {e1, e2}
MCSessionOf == e1 :> "s" @@ e2 :> "s"
MCItem      == {m1}
MCWorker    == {realtime, daemon}
MCBatchOf   == realtime :> 1 @@ daemon :> 4
=============================================================================
