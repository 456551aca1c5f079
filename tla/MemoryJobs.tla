---------------------------- MODULE MemoryJobs ------------------------------
(***************************************************************************)
(* Consolidation: the transcript of a turn, the rows of                    *)
(* memory_consolidation_jobs, the two kinds of worker that claim them under*)
(* a lease and run them one after the other around a model call, the       *)
(* daemon's sweep and the retention that deletes a transcript once it is   *)
(* learned.  Composed with the items the jobs create and revoke.           *)
(*                                                                         *)
(* Time is the lapse of a lease: a dead worker's lease always lapses, a    *)
(* live one's (a slow model, or the later jobs of a batch) may.            *)
(***************************************************************************)
EXTENDS MemoryItems, Sequences, SequencesExt

CONSTANTS Episode,     \* runs of conversation turns
          Session,     \* conversations
          SessionOf,   \* the conversation of a turn: one has many turns
          Goal,        \* converged goals
          Worker,      \* claimers
          BatchOf,     \* how many jobs a worker claims at once
          NoWorker,
          MaxEvents    \* bound on turns, converged goals, edits and mishaps together

Job == Episode \cup Goal \cup Item     \* an item stands for its repair job

ASSUME JobsAssumption ==
    /\ Episode \cap Goal = {} /\ Episode \cap Item = {} /\ Goal \cap Item = {}
    /\ IsFiniteSet(Job)
    /\ SessionOf \in [Episode -> Session]
    /\ NoWorker \notin Worker
    /\ BatchOf \in [Worker -> Nat \ {0}]

VARIABLES jobs,        \* the queue
          transcript,  \* the messages of each episode
          retention,   \* episodes retention has found ready and not yet deleted
          work,        \* what each worker is doing
          learned,     \* episodes whose learnings were applied
          cases,       \* how often the case of each goal was added
          mishaps       \* crashes, lapses of live leases, retries and prunes so far

jobVars == <<jobs, transcript, retention, work, learned, cases, mishaps>>
consolidationVars == <<itemVars, jobVars>>

Events == Cardinality({e \in Episode : transcript[e] # "none"})
              + Cardinality({g \in Goal : jobs[g].status # "none"}) + edits + mishaps

NoRow   == [status |-> "none", owner |-> NoWorker, lapsed |-> FALSE]
Pending == [NoRow EXCEPT !.status = "pending"]
Resting == [at |-> "idle", batch |-> <<>>, visible |-> {}]

JobStatus == {"none", "pending", "active", "completed", "dead_letter", "failed", "purged"}

JobsTypeOK ==
    /\ items \in [Item -> Row \cup {NoItem}]
    /\ \A j \in Job : jobs[j].status \in JobStatus /\ jobs[j].owner \in Worker \cup {NoWorker}
    /\ transcript \in [Episode -> {"none", "recording", "kept", "deleted"}]
    /\ \A w \in Worker : work[w].at \in {"idle", "next", "asking", "applied", "failed"}

\* A database of an earlier version may hold jobs in the retired status failed.
JobsInit ==
    /\ ItemsInit
    /\ \E old \in SUBSET Episode :
          /\ jobs = [j \in Job |-> IF j \in old THEN [NoRow EXCEPT !.status = "failed"] ELSE NoRow]
          /\ transcript = [e \in Episode |-> IF e \in old THEN "kept" ELSE "none"]
    /\ retention = {}
    /\ work = [w \in Worker |-> Resting]
    /\ learned = {}
    /\ cases = [g \in Goal |-> 0]
    /\ mishaps = 0

-----------------------------------------------------------------------------
(* Who asks for jobs.  ON CONFLICT DO NOTHING: an existing row stays.      *)

Enqueued(j) == IF jobs[j].status = "none" THEN [jobs EXCEPT ![j] = Pending] ELSE jobs

\* _record_turn: the messages first, then the job.
RecordTurn(e) ==
    /\ transcript[e] = "none" /\ Events < MaxEvents
    /\ transcript' = [transcript EXCEPT ![e] = "recording"]
    /\ UNCHANGED <<itemVars, jobs, retention, work, learned, cases, mishaps>>

EnqueueTurn(e) ==
    /\ transcript[e] = "recording"
    /\ transcript' = [transcript EXCEPT ![e] = "kept"]
    /\ jobs' = Enqueued(e)
    /\ UNCHANGED <<itemVars, retention, work, learned, cases, mishaps>>

TurnDies(e) ==
    /\ transcript[e] = "recording"
    /\ transcript' = [transcript EXCEPT ![e] = "kept"]
    /\ UNCHANGED <<itemVars, jobs, retention, work, learned, cases, mishaps>>

\* The turns of a session, and those that left messages.
Turns(s)  == {e \in Episode : SessionOf[e] = s}
Spoken(s) == {e \in Turns(s) : transcript[e] \in {"recording", "kept"}}

\* enqueue_unconsolidated_episodes: a session with messages and without any
\* job gets the job of one of its turns; a turn of a session that has a job
\* is not looked at.
Sweep(s) ==
    /\ \A e \in Turns(s) : jobs[e].status = "none"
    /\ \E e \in Spoken(s) : jobs' = Enqueued(e)
    /\ UNCHANGED <<itemVars, transcript, retention, work, learned, cases, mishaps>>

\* Convergence of a goal, replayed by its saga or not.
EnqueueCase(g) ==
    /\ jobs[g].status = "none" /\ Events < MaxEvents
    /\ jobs' = Enqueued(g)
    /\ UNCHANGED <<itemVars, transcript, retention, work, learned, cases, mishaps>>

\* apply_credit_delta, of a row that the penalty leaves stale.
Penalise ==
    /\ StorePenalised
    /\ jobs' = IF Penalised(edit.row).status = "stale"
               THEN Enqueued(edit.item) ELSE jobs
    /\ UNCHANGED <<transcript, retention, work, learned, cases, mishaps>>

-----------------------------------------------------------------------------
(* Workers.                                                                *)

Normalised ==
    [j \in Job |-> IF jobs[j].status = "failed"
                   THEN [jobs[j] EXCEPT !.status = "dead_letter"] ELSE jobs[j]]

Claimable == {j \in Job : \/ jobs[j].status = "pending"
                          \/ jobs[j].status = "active" /\ jobs[j].lapsed}

\* claim_consolidation_jobs
ClaimJobs(w) ==
    /\ work[w].at = "idle"
    /\ (Claimable # {}) \/ (\E j \in Job : jobs[j].status = "failed")
    /\ \E S \in SUBSET Claimable :
          /\ \/ Cardinality(S) = BatchOf[w]
             \/ S = Claimable /\ Cardinality(S) < BatchOf[w]
          /\ jobs' = [j \in Job |-> IF j \in S
                        THEN [status |-> "active", owner |-> w, lapsed |-> FALSE]
                        ELSE Normalised[j]]
          /\ work' = IF S = {} THEN work
                     ELSE [work EXCEPT ![w] = [at |-> "next", batch |-> SetToSeq(S), visible |-> {}]]
    /\ UNCHANGED <<itemVars, transcript, retention, learned, cases, mishaps>>

Current(w) == Head(work[w].batch)

\* The job is over for its worker; the next one of the batch follows.
Onwards(w) ==
    [work EXCEPT ![w] = IF Len(work[w].batch) = 1 THEN Resting
                        ELSE [at |-> "next", batch |-> Tail(work[w].batch), visible |-> {}]]

\* _finish_consolidation_job: WHERE id = ? AND owner = ?
Finished(w, status) ==
    IF jobs[Current(w)].owner = w
    THEN [jobs EXCEPT ![Current(w)] = [NoRow EXCEPT !.status = status]]
    ELSE jobs

\* The messages a job is run on: those of its turn or, when there are none,
\* those of its session.
Heard(e) == Spoken(SessionOf[e]) # {}

\* consolidate_job finds nothing to learn from: no messages, no goal, or a
\* repair job, whose session has none.
NothingToLearn(w) ==
    /\ work[w].at = "next"
    /\ Current(w) \in Episode => transcript[Current(w)] = "deleted" /\ ~Heard(Current(w))
    /\ jobs' = Finished(w, "completed")
    /\ work' = Onwards(w)
    /\ UNCHANGED <<itemVars, transcript, retention, learned, cases, mishaps>>

\* The model is asked with the recallable items of the moment.
Ask(w) ==
    /\ work[w].at = "next"
    /\ \/ Current(w) \in Goal
       \/ Current(w) \in Episode /\ Heard(Current(w))
    /\ work' = [work EXCEPT ![w].at = "asking", ![w].visible = {i \in Item : Recallable(i)}]
    /\ UNCHANGED <<itemVars, jobs, transcript, retention, learned, cases, mishaps>>

\* What _apply_learnings does: nothing, an item that says what no recallable
\* item says, or the revocation of an item that was visible and still is
\* recallable.
Learnings(w) ==
    \/ UNCHANGED items
    \/ \E i \in Item, c \in Content, C \in SUBSET work[w].visible :
          /\ ~Exists(i)
          /\ \A k \in Item : Recallable(k) => items[k].content # c
          /\ items' = [items EXCEPT ![i] = NewRow(c, "proposed", FALSE, C)]
    \/ \E i \in work[w].visible :
          /\ Recallable(i) /\ "revoked" \in AllowedTransitions[items[i].status]
          /\ items' = [items EXCEPT ![i].status = "revoked"]

\* What _run_case_precipitation stores: the distilled case, or nothing worth
\* keeping.
CaseStored(w) ==
    \/ UNCHANGED <<items, cases>>
    \/ \E i \in Item, c \in Content :
          /\ ~Exists(i)
          /\ items' = [items EXCEPT ![i] = NewRow(c, "proposed", FALSE, {})]
          /\ cases' = [cases EXCEPT ![Current(w)] = @ + 1]

ApplyLearnings(w) ==
    /\ work[w].at = "asking" /\ Current(w) \in Episode
    /\ Learnings(w)
    /\ work' = [work EXCEPT ![w].at = "applied", ![w].visible = {}]
    /\ learned' = learned \cup {Current(w)}
    /\ UNCHANGED <<edit, audit, edits, jobs, transcript, retention, cases, mishaps>>

ApplyCase(w) ==
    /\ work[w].at = "asking" /\ Current(w) \in Goal
    /\ CaseStored(w)
    /\ work' = [work EXCEPT ![w].at = "applied", ![w].visible = {}]
    /\ UNCHANGED <<edit, audit, edits, jobs, transcript, retention, learned, mishaps>>

\* The provider raises or answers nonsense, a hook blocks the write, or the
\* ledger fails when part of the answer is stored.
ModelFails(w) ==
    /\ work[w].at = "asking"
    /\ \/ Current(w) \in Episode /\ Learnings(w) /\ UNCHANGED cases
       \/ Current(w) \in Goal /\ CaseStored(w)
    /\ work' = [work EXCEPT ![w].at = "failed", ![w].visible = {}]
    /\ UNCHANGED <<edit, audit, edits, jobs, transcript, retention, learned, mishaps>>

\* An episode's failure is a dead letter; a case's is nobody's: its job stays
\* active until the lease lapses.
Finish(w) ==
    /\ work[w].at \in {"applied", "failed"}
    /\ jobs' = IF work[w].at = "applied" THEN Finished(w, "completed")
               ELSE IF Current(w) \in Episode THEN Finished(w, "dead_letter") ELSE jobs
    /\ work' = Onwards(w)
    /\ UNCHANGED <<itemVars, transcript, retention, learned, cases, mishaps>>

WorkerDies(w) ==
    /\ work[w].at # "idle" /\ Events < MaxEvents
    /\ mishaps' = mishaps + 1
    /\ work' = [work EXCEPT ![w] = Resting]
    /\ UNCHANGED <<itemVars, jobs, transcript, retention, learned, cases>>

Busy(j) == \E w \in Worker : w = jobs[j].owner /\ j \in Range(work[w].batch)

LeaseLapses(j) ==
    /\ jobs[j].status = "active" /\ ~jobs[j].lapsed
    /\ \/ ~Busy(j) /\ UNCHANGED mishaps
       \/ Busy(j) /\ Events < MaxEvents /\ mishaps' = mishaps + 1
    /\ jobs' = [jobs EXCEPT ![j].lapsed = TRUE]
    /\ UNCHANGED <<itemVars, transcript, retention, work, learned, cases>>

-----------------------------------------------------------------------------
(* Operators and maintenance.                                              *)

\* retry_consolidation_jobs
Retry(j) ==
    /\ jobs[j].status = "dead_letter" /\ Events < MaxEvents
    /\ mishaps' = mishaps + 1
    /\ jobs' = [jobs EXCEPT ![j] = Pending]
    /\ UNCHANGED <<itemVars, transcript, retention, work, learned, cases>>

\* prune_consolidation_history
Prune(j) ==
    /\ jobs[j].status = "completed" /\ Events < MaxEvents
    /\ mishaps' = mishaps + 1
    /\ jobs' = [jobs EXCEPT ![j] = NoRow]
    /\ UNCHANGED <<itemVars, transcript, retention, work, learned, cases>>

\* Mutant: a job that failed for good does not hold retention up.
ReadySettled(e) ==
    /\ transcript[e] = "kept" /\ e \notin retention
    /\ jobs[e].status \in {"completed", "purged", "dead_letter"}
    /\ retention' = retention \cup {e}
    /\ UNCHANGED <<itemVars, jobs, transcript, work, learned, cases, mishaps>>

\* Mutant: a transcript that no job knows is left to the sweep.
ReadyDefers(e) ==
    /\ transcript[e] = "kept" /\ e \notin retention
    /\ jobs[e].status \in {"completed", "purged"}
    /\ retention' = retention \cup {e}
    /\ UNCHANGED <<itemVars, jobs, transcript, work, learned, cases, mishaps>>

\* DataRetentionManager._memory_ready, of an expired turn: a transcript that
\* no job knows gets one, and retention comes back later.
Ready(e) ==
    /\ transcript[e] = "kept" /\ e \notin retention
    /\ \/ jobs[e].status \in {"completed", "purged"} /\ retention' = retention \cup {e}
                                                     /\ UNCHANGED jobs
       \/ jobs[e].status = "none" /\ jobs' = Enqueued(e) /\ UNCHANGED retention
    /\ UNCHANGED <<itemVars, transcript, work, learned, cases, mishaps>>

\* _compact_one, in memory.db.
Compact(e) ==
    /\ e \in retention
    /\ retention' = retention \ {e}
    /\ transcript' = [transcript EXCEPT ![e] = "deleted"]
    /\ jobs' = IF jobs[e].status = "none" THEN jobs
               ELSE [jobs EXCEPT ![e] = [NoRow EXCEPT !.status = "purged"]]
    /\ UNCHANGED <<itemVars, work, learned, cases, mishaps>>

JobsNext ==
    \/ ItemNext /\ UNCHANGED jobVars /\ Events' <= MaxEvents
    \/ Penalise
    \/ \E e \in Episode : RecordTurn(e) \/ EnqueueTurn(e) \/ TurnDies(e) \/ Ready(e) \/ Compact(e)
    \/ \E s \in Session : Sweep(s)
    \/ \E g \in Goal : EnqueueCase(g)
    \/ \E w \in Worker : \/ ClaimJobs(w) \/ NothingToLearn(w) \/ Ask(w) \/ ApplyLearnings(w)
                         \/ ApplyCase(w) \/ ModelFails(w) \/ Finish(w) \/ WorkerDies(w)
    \/ \E j \in Job : LeaseLapses(j) \/ Retry(j) \/ Prune(j)

JobsSpec == JobsInit /\ [][JobsNext]_consolidationVars

\* One worker's program: at each point of it one of these is enabled.
Works(w) ==
    \/ ClaimJobs(w) \/ NothingToLearn(w) \/ Ask(w)
    \/ ApplyLearnings(w) \/ ApplyCase(w) \/ ModelFails(w) \/ Finish(w)

\* The daemon's cycle sweeps, claims, runs and then looks at the expired
\* turns, as every conversation turn is in the end; model calls return; time
\* passes.
JobsFairSpec ==
    /\ JobsSpec
    /\ \A s \in Session : WF_consolidationVars(Sweep(s))
    /\ \A e \in Episode : WF_consolidationVars(Ready(e))
    /\ \A w \in Worker : WF_consolidationVars(Works(w))
    /\ \A j \in Job : WF_consolidationVars(~Busy(j) /\ LeaseLapses(j))

-----------------------------------------------------------------------------
\* Retention deletes no transcript from which nothing was learned: its job
\* is re-created if it was lost, and a dead letter holds the deletion up
\* (DataRetentionManager._memory_ready), whatever lapses and prunes happen
\* between the check and the deletion.
TranscriptsAreLearned ==
    \A e \in Episode : transcript[e] = "deleted" => e \in learned

\* A worker whose lease went to another one in the meantime does not settle
\* the job (_finish_consolidation_job): what ends an active job is its
\* present owner going on to the next one, or retention.
OwnersSettle ==
    [][\A j \in Job :
         (jobs[j].status = "active" /\ jobs'[j].status \in {"completed", "dead_letter"})
            => work'[jobs[j].owner] # work[jobs[j].owner]]_consolidationVars

\* A completed or purged job is not run again (claim, retry and every
\* enqueue): its row can only be purged or pruned.
SettledJobsRest ==
    [][\A j \in Job : jobs[j].status \in {"completed", "purged"}
                         => jobs'[j].status \in {"completed", "purged", "none"}]_consolidationVars

\* What was said is learned or becomes a visible failure, although the turn
\* may die before it asks for the job and workers die with jobs in hand.  The
\* sweep finds the first dead turn of a session only: one that dies when its
\* session already has a job waits until retention finds it expired.
EpisodesAreLearned ==
    \A e \in Episode :
        (transcript[e] = "kept") ~> (e \in learned \/ jobs[e].status = "dead_letter")

\* "a revoked item cannot silently return to active without resolving the
\* contradiction" (the comment of _ALLOWED_TRANSITIONS).
RevokedNeedsReview ==
    [][\A i \in Item : (Exists(i) /\ items[i].status = "revoked" /\ items'[i] # NoItem)
                          => items'[i].status \in {"revoked", "proposed", "archived"}]_consolidationVars

\* "makes case precipitation exactly-once per goal even when the convergence
\* saga replays" (the docstring of enqueue_case_precipitation).
CaseOncePerGoal == \A g \in Goal : cases[g] <= 1
=============================================================================
