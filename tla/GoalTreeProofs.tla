--------------------------- MODULE GoalTreeProofs ----------------------------
(* Theorems about GoalTree, for any templates, callers, budgets and bounds. *)
(* Three of its properties count: agents, the runs of one slot, and the     *)
(* runs a template that has ended still opens.  In each the invariant adds  *)
(* to what exists what is still in somebody's hands.  At the end, what the  *)
(* rules of GoalPolicy grant, for every request.                            *)
EXTENDS GoalTree, FiniteSetTheorems, TLAPS

-----------------------------------------------------------------------------
(* The invariant.                                                           *)

GoalRow ==
    [phase : {"absent", "running", "ended"},
     resolution : {"none", "success", "canceled", "blocked", "failed"},
     cron : Schedule \cup {None}, next : Nat, born : Nat,
     parent : Template \cup Parent \cup {None}, loop : {"none", "active", "final"},
     agent : BOOLEAN, slot : Nat, late : BOOLEAN, revived : BOOLEAN]

Opening == {"create", "loop", "register"}

\* Whom a caller in the middle of a handler is concerned with.
OnTemplate == Opening \cup {"update", "cancel"}
OnParent   == {"admit", "tell"}

Call == [op : OnTemplate \cup OnParent \cup {"child_loop", "idle"},
         goal : GoalId \cup {None}, cron : Schedule \cup {None}, next : Nat, event : Nat]

\* What the daemon has read of a row that is due.
Seen == [id : Template, cron : Schedule \cup {None}, next : Nat]

EventRow == [kind : {"message", "report", "told", "blocked", "compaction"},
             n : Nat, constraint : BOOLEAN]

Kinds == {"opens", "updates", "cancels", "revivals", "spawns", "events", "turns", "faults",
          "crashes"}

TypeInv ==
    /\ clock \in 0..MaxClock
    /\ goal \in [GoalId -> GoalRow]
    /\ \A g \in GoalId : goal[g].phase = "absent" => goal[g] = Absent
    /\ log \in [GoalId -> SUBSET EventRow]
    /\ summed \in [GoalId -> SUBSET EventRow]
    /\ call \in [Caller -> Call]
    /\ daemon \in [pc : {"idle", "next", "advance"}, now : Nat, due : SUBSET Seen,
                   held : Seen \cup {None}]
    /\ keeper \in [pc : {"idle", "next", "summary"}, todo : SUBSET GoalId,
                   held : GoalId \cup {None}, seen : SUBSET EventRow]
    /\ keeper.pc = "summary" => keeper.held \in GoalId
    /\ used \in [Kinds -> Nat]

\* Children exist one by one, below goals that exist, for runs that were due.
Born == {c \in Child : goal[c].phase # "absent"}

ChildrenInv ==
    /\ IsFiniteSet(Born)
    /\ \A c \in Child : /\ goal[c].parent # None => goal[goal[c].parent].phase # "absent"
                        /\ goal[c].slot <= clock
                        /\ daemon.pc # "idle" => goal[c].slot <= daemon.now

\* The daemon's list: one row of each template, due when it was read.
PassInv ==
    /\ daemon.now <= clock
    /\ daemon.pc = "idle" => daemon.due = {}
    /\ \A d \in daemon.due : /\ goal[d.id].phase # "absent" /\ d.next <= daemon.now
                             /\ \A e \in daemon.due : e.id = d.id => e = d
    /\ daemon.pc = "advance" => daemon.held \in daemon.due /\ NextRun(daemon.held) # NoRun

\* A template is opened by one caller, which alone brings its row into being.
Registering(t) == \E u \in Caller : call[u].op \in {"loop", "register"} /\ call[u].goal = t

CallFits(u) ==
    /\ call[u].op \in OnTemplate => call[u].goal \in Template
    /\ call[u].op \in OnParent => call[u].goal \in Template \cup Parent
    /\ call[u].op = "child_loop" => call[u].goal \in Child
    /\ call[u].op = "idle" => call[u] = Idle
    /\ call[u].op = "create" => goal[call[u].goal].phase = "absent"
    /\ call[u].op \notin {"create", "idle"} => goal[call[u].goal].phase # "absent"

OneOpens ==
    \A u, v \in Caller :
        call[u].op \in Opening /\ call[v].op \in Opening /\ call[u].goal = call[v].goal => u = v

CallInv == OneOpens /\ \A u \in Caller : CallFits(u)

\* Who still has the run of t at slot s in hand: the row itself, unless the
\* daemon is about to overwrite it, the daemon's list, or a caller who read it.
Overwritten(t) == daemon.pc = "advance" /\ daemon.held.id = t

Live(t) == Active(t) \/ Registering(t)

InHand(t) ==
    {d \in daemon.due : d.id = t /\ ~(daemon.pc = "advance" /\ daemon.held = d)}

Pending(t, s) ==
    \/ Live(t) /\ goal[t].next = s /\ ~Overwritten(t)
    \/ \E d \in InHand(t) : d.next = s

Updaters == {u \in Caller : call[u].op = "update"}

ReadBy(t, s) == {u \in Updaters : call[u].goal = t /\ call[u].next = s}

One(condition) == IF condition THEN 1 ELSE 0

RunsAreFew(t, s) ==
    Cardinality(Occurrences(t, s)) + One(Pending(t, s)) + Cardinality(ReadBy(t, s))
        <= 1 + used["crashes"] + used["updates"]

RunsInv ==
    /\ IsFiniteSet(Updaters) /\ Cardinality(Updaters) <= used["updates"]
    /\ \A t \in Template, s \in Nat : RunsAreFew(t, s)

\* Slot 0 is what a blocked schedule leaves; while the template is being
\* opened nobody has met it.
BlockedInv ==
    \A t \in Template : Registering(t) =>
        /\ Active(t) => goal[t].next # 0
        /\ ReadBy(t, 0) = {} /\ Occurrences(t, 0) = {}
        /\ \A d \in daemon.due : d.id = t => d.next # 0

\* Runs opened after the end, and the one that is still to come of it.
Late(t) == {c \in Child : goal[c].parent = t /\ goal[c].late}

LateAreFew(t) ==
    Cardinality(Late(t)) + One(Active(t) \/ InHand(t) # {}) <= 1 + used["revivals"]

LateInv == \A t \in Template : LateAreFew(t)

\* The agents that are active as they were admitted.
Agents(p) == {c \in ActiveChildren(p) : goal[c].agent /\ ~goal[c].revived}

AgentsInv == \A p \in Template \cup Parent : Cardinality(Agents(p)) <= MaxChildren

GoalInv ==
    /\ TypeInv /\ ChildrenInv /\ PassInv /\ CallInv
    /\ RunsInv /\ BlockedInv /\ LateInv /\ AgentsInv

-----------------------------------------------------------------------------
(* Helpers: the calendar, the budgets, the records and what they hold.      *)

\* The next run of an expression, when it has one, lies in the future.
LEMMA NextRunIsLater ==
  ASSUME NEW e, NEW now \in Nat, NextCronTime(e, now) # NoRun
  PROVE  NextCronTime(e, now) \in Nat /\ NextCronTime(e, now) > now
<1> DEFINE hits == {offset \in 1..(CronWindow - 1) : CronMatches(e, now + offset)}
<1>1. hits \subseteq 1..6
  BY DEF CronWindow
<1>2. hits # {}
  BY DEF NextCronTime
<1>3. \E m \in hits : \A x \in hits : m <= x
  <2>. HIDE DEF hits
  <2>1. PICK h \in hits : TRUE
    BY <1>2
  <2>2. 1 \in hits \/ 2 \in hits \/ 3 \in hits \/ 4 \in hits \/ 5 \in hits \/ 6 \in hits
    BY <1>1, <2>1
  <2>. QED
    BY <1>1, <2>2
<1>4. Min(hits) \in hits
  BY <1>3 DEF Min
<1>. QED
  BY <1>1, <1>2, <1>4 DEF NextCronTime

LEMMA SpendSpends ==
  ASSUME TypeInv, NEW what \in Kinds, Spend(what)
  PROVE  /\ used' \in [Kinds -> Nat]
         /\ used'[what] = used[what] + 1
         /\ \A kind \in Kinds : used[kind] <= used'[kind]
BY DEF TypeInv, Spend

\* What a row says of how it came to be, and of when it runs next; that it
\* was revived it never forgets.
SameBirth(n, r) ==
    /\ n.parent = r.parent /\ n.agent = r.agent /\ n.slot = r.slot /\ n.late = r.late
    /\ r.revived => n.revived

SameKin(n, r) == SameBirth(n, r) /\ n.next = r.next

\* What the handlers write into a row.
LEMMA EndWritten ==
  ASSUME NEW r \in GoalRow, NEW p \in {"running", "ended"},
         NEW x \in {"none", "success", "canceled", "blocked", "failed"}
  PROVE  /\ [r EXCEPT !.phase = p, !.resolution = x] \in GoalRow
         /\ SameKin([r EXCEPT !.phase = p, !.resolution = x], r)
         /\ [r EXCEPT !.phase = p, !.resolution = x].phase = p
BY DEF GoalRow, SameKin, SameBirth

\* A loop at work revives the goal that has ended, and says so.
LEMMA WorkWritten ==
  ASSUME NEW r \in GoalRow, r.phase # "absent", NEW x \in {"none", "blocked"}
  PROVE  /\ AtWork(r, x) \in GoalRow
         /\ SameKin(AtWork(r, x), r)
         /\ AtWork(r, x).phase = "running"
         /\ r.phase # "running" => AtWork(r, x).revived
BY DEF AtWork, GoalRow, SameKin, SameBirth

LEMMA LoopWritten ==
  ASSUME NEW r \in GoalRow, NEW l \in {"active", "final"}
  PROVE  /\ [r EXCEPT !.loop = l] \in GoalRow
         /\ SameKin([r EXCEPT !.loop = l], r)
         /\ [r EXCEPT !.loop = l].phase = r.phase
BY DEF GoalRow, SameKin, SameBirth

LEMMA NextWritten ==
  ASSUME NEW r \in GoalRow, NEW n \in Nat
  PROVE  /\ [r EXCEPT !.next = n] \in GoalRow
         /\ SameBirth([r EXCEPT !.next = n], r)
         /\ [r EXCEPT !.next = n].phase = r.phase
         /\ [r EXCEPT !.next = n].next = n
BY DEF GoalRow, SameBirth

LEMMA ChildEndWritten ==
  ASSUME NEW r \in GoalRow, NEW x \in {"success", "canceled"}
  PROVE  /\ [r EXCEPT !.loop = "final", !.phase = "ended", !.resolution = x] \in GoalRow
         /\ SameKin([r EXCEPT !.loop = "final", !.phase = "ended", !.resolution = x], r)
         /\ [r EXCEPT !.loop = "final", !.phase = "ended", !.resolution = x].phase = "ended"
BY DEF GoalRow, SameKin, SameBirth

LEMMA BlockWritten ==
  ASSUME NEW r \in GoalRow
  PROVE  /\ [r EXCEPT !.phase = "ended", !.resolution = "blocked", !.next = 0] \in GoalRow
         /\ SameBirth([r EXCEPT !.phase = "ended", !.resolution = "blocked", !.next = 0], r)
         /\ [r EXCEPT !.phase = "ended", !.resolution = "blocked", !.next = 0].phase = "ended"
         /\ [r EXCEPT !.phase = "ended", !.resolution = "blocked", !.next = 0].next = 0
BY DEF GoalRow, SameBirth

LEMMA NewWritten ==
  ASSUME clock \in Nat
  PROVE  NewGoal \in GoalRow /\ NewGoal.phase = "running" /\ NewGoal.parent = None
BY DEF NewGoal, Absent, GoalRow

LEMMA TemplateWritten ==
  ASSUME clock \in Nat, NEW e \in Schedule \cup {None}, NEW n \in Nat
  PROVE  /\ [NewGoal EXCEPT !.cron = e, !.next = n] \in GoalRow
         /\ [NewGoal EXCEPT !.cron = e, !.next = n].phase = "running"
         /\ [NewGoal EXCEPT !.cron = e, !.next = n].next = n
<1>1. NewGoal \in GoalRow /\ NewGoal.phase = "running"
  BY NewWritten
<1>. QED
  BY <1>1 DEF GoalRow

LEMMA AgentWritten ==
  ASSUME clock \in Nat, NEW p \in Template \cup Parent
  PROVE  LET n == [NewGoal EXCEPT !.parent = p, !.agent = TRUE]
         IN  /\ n \in GoalRow
             /\ n.phase = "running" /\ n.parent = p /\ n.agent /\ n.slot = 0 /\ ~n.late
<1>1. /\ NewGoal \in GoalRow /\ NewGoal.phase = "running"
      /\ NewGoal.slot = 0 /\ NewGoal.late = FALSE
  BY DEF NewGoal, Absent, GoalRow
<1>. QED
  BY <1>1 DEF GoalRow

\* One row is written, and comes out as a row that exists.
LEMMA RowWrite ==
  ASSUME TypeInv, NEW g \in GoalId, NEW n \in GoalRow, n.phase # "absent",
         goal' = [goal EXCEPT ![g] = n]
  PROVE  /\ goal' \in [GoalId -> GoalRow]
         /\ \A h \in GoalId : goal'[h].phase = "absent" => goal'[h] = Absent
         /\ goal'[g] = n
         /\ \A h \in GoalId : h # g => goal'[h] = goal[h]
BY DEF TypeInv

\* One caller moves on.
LEMMA CallWrite ==
  ASSUME TypeInv, NEW u \in Caller, NEW k \in Call, call' = [call EXCEPT ![u] = k]
  PROVE  /\ call' \in [Caller -> Call]
         /\ call'[u] = k
         /\ \A v \in Caller : v # u => call'[v] = call[v]
BY DEF TypeInv

LEMMA IdleCall == Idle \in Call /\ Idle.op = "idle"
BY DEF Idle, Call

\* What a caller starts with, whichever handler it is.
LEMMA CallStarts ==
  ASSUME NEW op \in OnTemplate \cup OnParent, NEW g \in GoalId
  PROVE  LET k == [Idle EXCEPT !.op = op, !.goal = g]
         IN  k \in Call /\ k.op = op /\ k.goal = g
<1>1. Idle \in Call
  BY IdleCall
<1>. QED
  BY <1>1 DEF Call

LEMMA OpenStarts ==
  ASSUME NEW g \in GoalId, NEW e \in Schedule
  PROVE  LET k == [Idle EXCEPT !.op = "create", !.goal = g, !.cron = e]
         IN  k \in Call /\ k.op = "create" /\ k.goal = g
<1>1. Idle \in Call
  BY IdleCall
<1>. QED
  BY <1>1 DEF Call, OnTemplate, Opening

LEMMA TellStarts ==
  ASSUME NEW g \in GoalId, NEW n \in Nat
  PROVE  LET k == [Idle EXCEPT !.op = "tell", !.goal = g, !.event = n]
         IN  k \in Call /\ k.op = "tell" /\ k.goal = g
<1>1. Idle \in Call
  BY IdleCall
<1>. QED
  BY <1>1 DEF Call, OnParent

\* A caller goes on to the next step of its handler.
LEMMA CallGoesOn ==
  ASSUME NEW k \in Call, NEW op \in OnTemplate \cup {"child_loop"}
  PROVE  /\ [k EXCEPT !.op = op] \in Call
         /\ [k EXCEPT !.op = op].op = op /\ [k EXCEPT !.op = op].goal = k.goal
         /\ \A g \in GoalId : /\ [k EXCEPT !.op = op, !.goal = g] \in Call
                              /\ [k EXCEPT !.op = op, !.goal = g].op = op
                              /\ [k EXCEPT !.op = op, !.goal = g].goal = g
BY DEF Call

LEMMA EventsAreRows ==
  ASSUME NEW kind \in {"message", "report", "told", "blocked", "compaction"}, NEW n \in Nat
  PROVE  Event(kind, n) \in EventRow
BY DEF Event, EventRow, IsConstraint

LEMMA Fewer ==
  ASSUME NEW S, IsFiniteSet(S), NEW T \in SUBSET S
  PROVE  /\ IsFiniteSet(T) /\ Cardinality(T) \in Nat /\ Cardinality(S) \in Nat
         /\ Cardinality(T) <= Cardinality(S)
BY FS_Subset, FS_CardinalityType

\* What is counted is finite.
LEMMA CountsAreFinite ==
  ASSUME TypeInv, IsFiniteSet(Born), IsFiniteSet(Updaters)
  PROVE  /\ \A t \in Template, s \in Nat :
               /\ IsFiniteSet(Occurrences(t, s)) /\ Cardinality(Occurrences(t, s)) \in Nat
               /\ IsFiniteSet(ReadBy(t, s)) /\ Cardinality(ReadBy(t, s)) \in Nat
         /\ \A t \in Template : IsFiniteSet(Late(t)) /\ Cardinality(Late(t)) \in Nat
         /\ \A p \in Template \cup Parent :
               /\ IsFiniteSet(ActiveChildren(p)) /\ Cardinality(ActiveChildren(p)) \in Nat
               /\ IsFiniteSet(Agents(p)) /\ Cardinality(Agents(p)) \in Nat
<1>1. \A c \in Child, p \in Template \cup Parent : goal[c].parent = p => c \in Born
  BY GoalIdAssumption DEF TypeInv, Born, Absent, GoalId
<1>2. ASSUME NEW t \in Template, NEW s \in Nat
      PROVE  Occurrences(t, s) \subseteq Born /\ ReadBy(t, s) \subseteq Updaters
  BY <1>1 DEF Occurrences, ReadBy
<1>3. ASSUME NEW t \in Template
      PROVE  Late(t) \subseteq Born
  BY <1>1 DEF Late
<1>4. ASSUME NEW p \in Template \cup Parent
      PROVE  ActiveChildren(p) \subseteq Born /\ Agents(p) \subseteq Born
  BY <1>1 DEF ActiveChildren, Agents
<1>. QED
  BY <1>2, <1>3, <1>4, Fewer

LEMMA OneCounts ==
  ASSUME NEW P \in BOOLEAN, NEW Q \in BOOLEAN, P => Q
  PROVE  One(P) \in {0, 1} /\ One(Q) \in {0, 1} /\ One(P) <= One(Q)
BY DEF One

-----------------------------------------------------------------------------
(* How the counts change.                                                   *)

LEMMA OneMore ==
  ASSUME NEW S, IsFiniteSet(S), NEW x, NEW T \in SUBSET (S \cup {x})
  PROVE  /\ IsFiniteSet(T) /\ Cardinality(T) \in Nat /\ Cardinality(S) \in Nat
         /\ Cardinality(T) <= Cardinality(S) + 1
<1>1. /\ IsFiniteSet(S \cup {x}) /\ Cardinality(S) \in Nat
      /\ Cardinality(S \cup {x}) <= Cardinality(S) + 1
  <2>1. Cardinality(S) \in Nat
    BY FS_CardinalityType
  <2>2. /\ IsFiniteSet(S \cup {x})
        /\ Cardinality(S \cup {x}) = IF x \in S THEN Cardinality(S) ELSE Cardinality(S) + 1
    BY FS_AddElement
  <2>. QED
    BY <2>1, <2>2
<1>2. IsFiniteSet(T) /\ Cardinality(T) \in Nat /\ Cardinality(T) <= Cardinality(S \cup {x})
  BY <1>1, Fewer
<1>3. Cardinality(S \cup {x}) \in Nat
  BY <1>1, FS_CardinalityType
<1>. QED
  BY <1>1, <1>2, <1>3

LEMMA OneLess ==
  ASSUME NEW S, IsFiniteSet(S), NEW x \in S, NEW T \in SUBSET (S \ {x})
  PROVE  /\ IsFiniteSet(T) /\ Cardinality(T) \in Nat /\ Cardinality(S) \in Nat
         /\ Cardinality(T) + 1 <= Cardinality(S)
<1>1. /\ IsFiniteSet(S \ {x}) /\ Cardinality(S) \in Nat
      /\ Cardinality(S \ {x}) = Cardinality(S) - 1
  BY FS_RemoveElement, FS_CardinalityType
<1>2. IsFiniteSet(T) /\ Cardinality(T) \in Nat /\ Cardinality(T) <= Cardinality(S \ {x})
  BY <1>1, Fewer
<1>. QED
  BY <1>1, <1>2

\* Nobody gets hold of the run of t at slot s, and nobody opens it.
LEMMA RunsStayFew ==
  ASSUME TypeInv, TypeInv', ChildrenInv, RunsInv, NEW t \in Template, NEW s \in Nat,
         Occurrences(t, s)' \subseteq Occurrences(t, s), ReadBy(t, s)' \subseteq ReadBy(t, s),
         Pending(t, s)' => Pending(t, s),
         used["crashes"] <= used'["crashes"], used["updates"] <= used'["updates"]
  PROVE  RunsAreFew(t, s)'
<1>1. IsFiniteSet(Occurrences(t, s)) /\ IsFiniteSet(ReadBy(t, s))
  BY CountsAreFinite DEF ChildrenInv, RunsInv
<1>2. /\ Cardinality(Occurrences(t, s)') <= Cardinality(Occurrences(t, s))
      /\ Cardinality(Occurrences(t, s)') \in Nat /\ Cardinality(Occurrences(t, s)) \in Nat
      /\ Cardinality(ReadBy(t, s)') <= Cardinality(ReadBy(t, s))
      /\ Cardinality(ReadBy(t, s)') \in Nat /\ Cardinality(ReadBy(t, s)) \in Nat
  BY <1>1, Fewer
<1>3. One(Pending(t, s)') \in {0, 1} /\ One(Pending(t, s)) \in {0, 1}
      /\ One(Pending(t, s)') <= One(Pending(t, s))
  BY DEF One
<1>4. /\ used["crashes"] \in Nat /\ used["updates"] \in Nat
      /\ used'["crashes"] \in Nat /\ used'["updates"] \in Nat
  BY DEF TypeInv, Kinds
<1>5. RunsAreFew(t, s)
  BY DEF RunsInv
<1>. QED
  BY <1>2, <1>3, <1>4, <1>5 DEF RunsAreFew

LEMMA LateStayFew ==
  ASSUME TypeInv, TypeInv', ChildrenInv, RunsInv, LateInv, NEW t \in Template,
         Late(t)' \subseteq Late(t), InHand(t)' # {} => InHand(t) # {} \/ Active(t),
         Active(t)' => Active(t),
         used["revivals"] <= used'["revivals"]
  PROVE  LateAreFew(t)'
<1>1. IsFiniteSet(Late(t))
  BY CountsAreFinite DEF ChildrenInv, RunsInv
<1>2. /\ Cardinality(Late(t)') <= Cardinality(Late(t))
      /\ Cardinality(Late(t)') \in Nat /\ Cardinality(Late(t)) \in Nat
  BY <1>1, Fewer
<1>3. used["revivals"] \in Nat /\ used'["revivals"] \in Nat
  BY DEF TypeInv, Kinds
<1>. QED
  BY <1>2, <1>3 DEF LateInv, LateAreFew, One

LEMMA RevivedOnceMore ==
  ASSUME TypeInv, TypeInv', ChildrenInv, RunsInv, LateInv, NEW t \in Template,
         Late(t)' = Late(t), used["revivals"] < used'["revivals"]
  PROVE  LateAreFew(t)'
<1>1. Cardinality(Late(t)) \in Nat
  BY CountsAreFinite DEF ChildrenInv, RunsInv
<1>2. used["revivals"] \in Nat /\ used'["revivals"] \in Nat
  BY DEF TypeInv, Kinds
<1>. QED
  BY <1>1, <1>2 DEF LateInv, LateAreFew, One

-----------------------------------------------------------------------------
(* Steps that open no goal and move no run.                                 *)

RowsStay ==
    \A g \in GoalId : /\ SameKin(goal'[g], goal[g])
                      /\ goal'[g].phase = "absent" <=> goal[g].phase = "absent"

Quiet ==
    /\ RowsStay
    /\ \A c \in Child : Active(c)' => Active(c) \/ goal'[c].revived
    /\ \A t \in Template :
          /\ Live(t)' => Live(t)
          /\ Active(t)' => Active(t) \/ used["revivals"] < used'["revivals"]
          /\ Registering(t)' => Registering(t) /\ (Active(t)' => Active(t))
    /\ \A u \in Caller : call'[u].op = "update" => call'[u] = call[u]
    /\ daemon' = daemon
    /\ clock <= clock'
    /\ \A kind \in Kinds : used[kind] <= used'[kind]

\* Rows that exist go on existing, below the same parent.
RowsSurvive ==
    \A g \in GoalId : /\ SameBirth(goal'[g], goal[g])
                      /\ goal'[g].phase = "absent" <=> goal[g].phase = "absent"

LEMMA BirthsKept ==
  ASSUME TypeInv, TypeInv', ChildrenInv, RowsSurvive, clock <= clock',
         daemon'.pc # "idle" => daemon.pc # "idle" /\ daemon'.now = daemon.now
  PROVE  ChildrenInv'
<1>1. Born' = Born
  BY DEF RowsSurvive, Born, GoalId
<1>2. ASSUME NEW c \in Child
      PROVE  /\ goal'[c].parent # None => goal'[goal'[c].parent].phase # "absent"
             /\ goal'[c].slot <= clock'
             /\ daemon'.pc # "idle" => goal'[c].slot <= daemon'.now
  <2>1. goal'[c].parent = goal[c].parent /\ goal'[c].slot = goal[c].slot /\ c \in GoalId
    BY DEF RowsSurvive, SameBirth, GoalId
  <2>2. goal[c].parent # None => goal[c].parent \in GoalId
    BY <2>1 DEF TypeInv, GoalRow, GoalId
  <2>3. goal[c].slot \in Nat /\ clock \in Nat /\ clock' \in Nat
    BY <2>1, GoalTreeAssumption DEF TypeInv, GoalRow
  <2>. QED
    BY <2>1, <2>2, <2>3 DEF RowsSurvive, ChildrenInv
<1>. QED
  BY <1>1, <1>2 DEF ChildrenInv

LEMMA PassKept ==
  ASSUME TypeInv, TypeInv', PassInv, daemon' = daemon, clock <= clock',
         \A g \in GoalId : goal'[g].phase = "absent" => goal[g].phase = "absent"
  PROVE  PassInv'
<1>1. clock \in Nat /\ clock' \in Nat /\ daemon.now \in Nat
  BY GoalTreeAssumption DEF TypeInv
<1>2. \A d \in daemon.due : d.id \in GoalId
  BY DEF TypeInv, Seen, GoalId
<1>. QED
  BY <1>1, <1>2 DEF PassInv, NextRun

LEMMA QuietKeepsChildren ==
  ASSUME TypeInv, TypeInv', ChildrenInv, PassInv, Quiet
  PROVE  ChildrenInv' /\ PassInv'
<1>1. RowsSurvive
  BY DEF Quiet, RowsStay, RowsSurvive, SameKin
<1>. QED
  BY <1>1, BirthsKept, PassKept DEF Quiet, RowsSurvive

LEMMA QuietKeepsCounts ==
  ASSUME TypeInv, TypeInv', ChildrenInv, ChildrenInv', PassInv,
         RunsInv, BlockedInv, LateInv, AgentsInv, Quiet
  PROVE  RunsInv' /\ BlockedInv' /\ LateInv' /\ AgentsInv'
<1>1. \A c \in Child : SameKin(goal'[c], goal[c])
  BY DEF Quiet, RowsStay, GoalId
<1>2. /\ Updaters' \subseteq Updaters
      /\ \A t \in Template, s \in Nat : ReadBy(t, s)' \subseteq ReadBy(t, s)
  BY DEF Quiet, Updaters, ReadBy
<1>3. /\ IsFiniteSet(Updaters') /\ Cardinality(Updaters') <= Cardinality(Updaters)
      /\ Cardinality(Updaters') \in Nat /\ Cardinality(Updaters) \in Nat
  BY <1>2, Fewer DEF RunsInv
<1>4. used \in [Kinds -> Nat] /\ used' \in [Kinds -> Nat] /\ "updates" \in Kinds
      /\ "crashes" \in Kinds /\ "revivals" \in Kinds
  BY DEF TypeInv, Kinds
<1>5. /\ \A t \in Template : InHand(t)' = InHand(t)
      /\ \A t \in Template, s \in Nat : Pending(t, s)' => Pending(t, s)
  <2>1. \A t \in Template : goal'[t].next = goal[t].next
    BY DEF Quiet, RowsStay, SameKin, GoalId
  <2>. QED
    BY <2>1 DEF Quiet, Pending, InHand, Overwritten
<1>6. used["crashes"] <= used'["crashes"] /\ used["updates"] <= used'["updates"]
  BY <1>4 DEF Quiet
<1>7. RunsInv'
  <2>1. \A t \in Template, s \in Nat : Occurrences(t, s)' = Occurrences(t, s)
    BY <1>1 DEF Occurrences, SameKin, SameBirth
  <2>2. \A t \in Template, s \in Nat : RunsAreFew(t, s)'
    BY <1>2, <1>5, <1>6, <2>1, RunsStayFew DEF RunsInv
  <2>. QED
    BY <1>3, <1>4, <1>6, <2>2 DEF RunsInv
<1>8. BlockedInv'
  <2> SUFFICES ASSUME NEW t \in Template, Registering(t)'
               PROVE  /\ Active(t)' => goal'[t].next # 0
                      /\ ReadBy(t, 0)' = {} /\ Occurrences(t, 0)' = {}
                      /\ \A d \in daemon'.due : d.id = t => d.next # 0
    BY DEF BlockedInv
  <2>1. Registering(t) /\ (Active(t)' => Active(t)) /\ daemon' = daemon
    BY DEF Quiet
  <2>2. goal'[t].next = goal[t].next
    BY DEF Quiet, RowsStay, SameKin, GoalId
  <2>3. Occurrences(t, 0)' = Occurrences(t, 0)
    BY <1>1 DEF Occurrences, SameKin, SameBirth
  <2>. QED
    BY <1>2, <2>1, <2>2, <2>3 DEF BlockedInv
<1>9. LateInv'
  <2>1. \A t \in Template : Late(t)' = Late(t)
    BY <1>1 DEF Late, SameKin, SameBirth
  <2>2. used["revivals"] <= used'["revivals"]
    BY <1>4 DEF Quiet
  <2>3. ASSUME NEW t \in Template
        PROVE  LateAreFew(t)'
    <3>1. CASE Active(t)' => Active(t)
      BY <1>5, <2>1, <2>2, <3>1, LateStayFew
    <3>2. CASE used["revivals"] < used'["revivals"]
      BY <2>1, <3>2, RevivedOnceMore
    <3>. QED
      BY <3>1, <3>2 DEF Quiet
  <2>. QED
    BY <2>3 DEF LateInv
<1>10. AgentsInv'
  <2> SUFFICES ASSUME NEW p \in Template \cup Parent
               PROVE  Cardinality(Agents(p)') <= MaxChildren
    BY DEF AgentsInv
  <2>1. Agents(p)' \subseteq Agents(p)
    BY <1>1 DEF Agents, ActiveChildren, Quiet, SameKin, SameBirth
  <2>2. IsFiniteSet(Agents(p)) /\ Cardinality(Agents(p)) <= MaxChildren
    BY CountsAreFinite DEF ChildrenInv, RunsInv, AgentsInv
  <2>. QED
    BY <2>1, <2>2, Fewer, GoalTreeAssumption
<1>. QED
  BY <1>7, <1>8, <1>9, <1>10

-----------------------------------------------------------------------------
(* The quiet steps.                                                         *)

\* Rows and callers of which none becomes active, unless it is revived,
\* none starts to register and none reads a run.
Calm ==
    /\ RowsStay
    /\ \A g \in GoalId : Active(g)' => Active(g) \/ (g \notin Template /\ goal'[g].revived)
    /\ \A u \in Caller :
          /\ call'[u].op \in {"loop", "register"}
                => call[u].op \in {"loop", "register"} /\ call'[u].goal = call[u].goal
          /\ call'[u].op = "update" => call'[u] = call[u]
    /\ daemon' = daemon
    /\ clock <= clock'
    /\ \A kind \in Kinds : used[kind] <= used'[kind]

LEMMA CalmIsQuiet ==
  ASSUME Calm
  PROVE  Quiet
<1>1. \A t \in Template : Registering(t)' => Registering(t)
  BY DEF Calm, Registering
<1>2. \A t \in Template : Active(t)' => Active(t)
  BY DEF Calm, GoalId
<1>3. \A c \in Child : Active(c)' => Active(c) \/ goal'[c].revived
  BY DEF Calm, GoalId
<1>. QED
  BY <1>1, <1>2, <1>3 DEF Calm, Quiet, Live

\* One caller moves on while rows may come into being.
LEMMA CallsKept ==
  ASSUME CallInv, NEW u \in Caller, call \in [Caller -> Call],
         \A g \in GoalId : goal[g].phase # "absent" => goal'[g].phase # "absent",
         \A v \in Caller : v # u => call'[v] = call[v],
         \A v \in Caller : v # u /\ call[v].op = "create" => goal'[call[v].goal].phase = "absent",
         CallFits(u)',
         call'[u].op \in Opening =>
            \A v \in Caller : v # u /\ call[v].op \in Opening => call[v].goal # call'[u].goal
  PROVE  CallInv'
<1>1. OneOpens'
  BY DEF CallInv, OneOpens
<1>2. ASSUME NEW v \in Caller, v # u
      PROVE  CallFits(v)'
  <2>1. call'[v] = call[v] /\ CallFits(v) /\ call[v] \in Call
    BY <1>2 DEF CallInv
  <2>2. call[v].op # "idle" => call[v].goal \in GoalId
    BY <2>1 DEF CallFits, Call, GoalId, OnTemplate, OnParent
  <2>. QED
    BY <1>2, <2>1, <2>2 DEF CallFits
<1>. QED
  BY <1>1, <1>2 DEF CallInv

LEMMA CallKept ==
  ASSUME CallInv, NEW u \in Caller, call \in [Caller -> Call],
         \A g \in GoalId : goal'[g].phase = "absent" <=> goal[g].phase = "absent",
         \A v \in Caller : v # u => call'[v] = call[v],
         CallFits(u)',
         call'[u].op \in Opening =>
            \A v \in Caller : v # u /\ call[v].op \in Opening => call[v].goal # call'[u].goal
  PROVE  CallInv'
<1>1. ASSUME NEW v \in Caller, call[v].op = "create"
      PROVE  goal'[call[v].goal].phase = "absent"
  BY <1>1 DEF CallInv, CallFits, OnTemplate, Opening, GoalId
<1>. QED
  BY <1>1, CallsKept

LEMMA CallSame ==
  ASSUME CallInv, call \in [Caller -> Call], call' = call,
         \A g \in GoalId : goal'[g].phase = "absent" <=> goal[g].phase = "absent"
  PROVE  CallInv'
<1>1. OneOpens'
  BY DEF CallInv, OneOpens
<1>2. ASSUME NEW v \in Caller
      PROVE  CallFits(v)'
  <2>1. call'[v] = call[v] /\ CallFits(v) /\ call[v] \in Call
    BY <1>2 DEF CallInv
  <2>2. call[v].op # "idle" => call[v].goal \in GoalId
    BY <2>1 DEF CallFits, Call, GoalId, OnTemplate, OnParent
  <2>. QED
    BY <2>1, <2>2 DEF CallFits
<1>. QED
  BY <1>1, <1>2 DEF CallInv

\* A step that touches neither the goals nor the callers nor the daemon.
LEMMA Apart ==
  ASSUME TypeInv, CallInv, UNCHANGED <<goal, call, daemon>>, clock <= clock',
         \A kind \in Kinds : used[kind] <= used'[kind]
  PROVE  CallInv' /\ Quiet
<1>1. RowsStay /\ \A g \in GoalId : goal'[g] = goal[g]
  BY DEF RowsStay, SameKin, SameBirth
<1>2. CallInv'
  BY CallSame DEF TypeInv
<1>3. Calm
  BY <1>1 DEF Calm, Active
<1>. QED
  BY <1>2, <1>3, CalmIsQuiet

\* A caller starts on a goal that exists, or returns.
LEMMA OnlyCalls ==
  ASSUME TypeInv, CallInv, NEW u \in Caller, NEW k \in Call,
         call' = [call EXCEPT ![u] = k],
         k.op \notin {"loop", "register", "update"},
         CallFits(u)',
         k.op = "create" =>
            \A v \in Caller : v # u /\ call[v].op \in Opening => call[v].goal # k.goal,
         goal' = goal, daemon' = daemon, clock' = clock,
         \A kind \in Kinds : used[kind] <= used'[kind]
  PROVE  CallInv' /\ Quiet
<1>1. RowsStay /\ \A g \in GoalId : goal'[g] = goal[g]
  BY DEF RowsStay, SameKin, SameBirth
<1>2. call'[u] = k /\ \A v \in Caller : v # u => call'[v] = call[v]
  BY CallWrite
<1>3. CallInv'
  BY <1>2, CallKept DEF TypeInv, Opening
<1>4. clock <= clock'
  BY GoalTreeAssumption DEF TypeInv
<1>5. Calm
  BY <1>1, <1>2, <1>4 DEF Calm, Active
<1>. QED
  BY <1>3, <1>5, CalmIsQuiet

\* One row that exists is written and does not become active, unless it is
\* revived; a caller may go on to its next step.
LEMMA OnlyARow ==
  ASSUME TypeInv, CallInv, NEW g \in GoalId, NEW n \in GoalRow,
         goal' = [goal EXCEPT ![g] = n], SameKin(n, goal[g]),
         goal[g].phase # "absent", n.phase # "absent",
         n.phase = "running" => Active(g) \/ (g \notin Template /\ n.revived),
         daemon' = daemon, clock' = clock, CallInv',
         \A u \in Caller :
            /\ call'[u].op \in {"loop", "register"}
                  => call[u].op \in {"loop", "register"} /\ call'[u].goal = call[u].goal
            /\ call'[u].op = "update" => call'[u] = call[u],
         \A kind \in Kinds : used[kind] <= used'[kind]
  PROVE  Quiet
<1>1. goal'[g] = n /\ \A h \in GoalId : h # g => goal'[h] = goal[h]
  BY RowWrite
<1>2. RowsStay
  BY <1>1 DEF RowsStay, SameKin, SameBirth
<1>3. \A h \in GoalId :
         Active(h)' => Active(h) \/ (h \notin Template /\ goal'[h].revived)
  BY <1>1 DEF Active
<1>4. clock <= clock'
  BY GoalTreeAssumption DEF TypeInv
<1>5. Calm
  BY <1>2, <1>3, <1>4 DEF Calm
<1>. QED
  BY <1>5, CalmIsQuiet

LEMMA TickQuiet ==
  ASSUME TypeInv, CallInv, Tick
  PROVE  TypeInv' /\ CallInv' /\ Quiet
<1>1. clock' \in 0..MaxClock /\ clock <= clock'
  BY GoalTreeAssumption DEF TypeInv, Tick
<1>2. TypeInv'
  BY <1>1 DEF TypeInv, Tick
<1>3. \A kind \in Kinds : used[kind] <= used'[kind]
  BY DEF TypeInv, Tick
<1>. QED
  BY <1>1, <1>2, <1>3, Apart DEF Tick

LEMMA KeepOnKeeps ==
  ASSUME TypeInv, NEW g, KeepOn(g)
  PROVE  /\ keeper' \in [pc : {"idle", "next", "summary"}, todo : SUBSET GoalId,
                         held : GoalId \cup {None}, seen : SUBSET EventRow]
         /\ keeper'.pc # "summary"
BY DEF TypeInv, KeepOn, NoTurn

LEMMA TurnCompletesQuiet ==
  ASSUME TypeInv, CallInv, TurnCompletes
  PROVE  TypeInv' /\ CallInv' /\ Quiet
<1>1. /\ used' \in [Kinds -> Nat] /\ \A kind \in Kinds : used[kind] <= used'[kind]
  BY SpendSpends DEF TurnCompletes, Kinds
<1>2. /\ keeper' \in [pc : {"idle", "next", "summary"}, todo : SUBSET GoalId,
                      held : GoalId \cup {None}, seen : SUBSET EventRow]
      /\ keeper'.pc = "next"
  BY DEF TypeInv, TurnCompletes
<1>3. TypeInv'
  BY <1>1, <1>2 DEF TypeInv, TurnCompletes
<1>4. clock <= clock'
  BY GoalTreeAssumption DEF TypeInv, TurnCompletes
<1>. QED
  BY <1>1, <1>3, <1>4, Apart DEF TurnCompletes

LEMMA CompactReadQuiet ==
  ASSUME TypeInv, CallInv, NEW g, CompactRead(g)
  PROVE  TypeInv' /\ CallInv' /\ Quiet
<1>1. /\ keeper' \in [pc : {"idle", "next", "summary"}, todo : SUBSET GoalId,
                      held : GoalId \cup {None}, seen : SUBSET EventRow]
      /\ keeper'.pc = "summary" => keeper'.held \in GoalId
  <2>1. CASE KeepOn(g)
    BY <2>1, KeepOnKeeps
  <2>2. CASE keeper' = [keeper EXCEPT !.pc = "summary", !.held = g, !.seen = log[g]]
    BY <2>2 DEF TypeInv, CompactRead
  <2>. QED
    BY <2>1, <2>2 DEF CompactRead
<1>2. TypeInv'
  BY <1>1 DEF TypeInv, CompactRead
<1>3. clock <= clock' /\ \A kind \in Kinds : used[kind] <= used'[kind]
  BY GoalTreeAssumption DEF TypeInv, CompactRead
<1>. QED
  BY <1>2, <1>3, Apart DEF CompactRead

LEMMA CompactWriteQuiet ==
  ASSUME TypeInv, CallInv, CompactWrite
  PROVE  TypeInv' /\ CallInv' /\ Quiet
<1>1. keeper.held \in GoalId /\ keeper.seen \in SUBSET EventRow
  BY DEF TypeInv, CompactWrite
<1>2. Event("compaction", used.turns) \in EventRow
  BY EventsAreRows DEF TypeInv, Kinds
<1>3. log' \in [GoalId -> SUBSET EventRow] /\ summed' \in [GoalId -> SUBSET EventRow]
  BY <1>1, <1>2 DEF TypeInv, CompactWrite
<1>4. TypeInv'
  BY <1>3, KeepOnKeeps DEF TypeInv, CompactWrite
<1>5. clock <= clock' /\ \A kind \in Kinds : used[kind] <= used'[kind]
  BY GoalTreeAssumption DEF TypeInv, CompactWrite
<1>. QED
  BY <1>4, <1>5, Apart DEF CompactWrite

LEMMA SummaryFailsQuiet ==
  ASSUME TypeInv, CallInv, SummaryFails
  PROVE  TypeInv' /\ CallInv' /\ Quiet
<1>1. /\ used' \in [Kinds -> Nat] /\ \A kind \in Kinds : used[kind] <= used'[kind]
  BY SpendSpends DEF SummaryFails, Kinds
<1>2. TypeInv'
  BY <1>1 DEF TypeInv, SummaryFails, NoTurn
<1>3. clock <= clock'
  BY GoalTreeAssumption DEF TypeInv, SummaryFails
<1>. QED
  BY <1>1, <1>2, <1>3, Apart DEF SummaryFails

\* The counters of a step that spends nothing.
LEMMA NothingSpent ==
  ASSUME TypeInv, used' = used
  PROVE  \A kind \in Kinds : used[kind] <= used'[kind]
BY DEF TypeInv

LEMMA OpenCheckQuiet ==
  ASSUME TypeInv, CallInv, NEW u \in Caller, NEW t \in Template, NEW e \in Schedule, NEW dup,
         OpenCheck(u, t, e, dup)
  PROVE  TypeInv' /\ CallInv' /\ Quiet
<1> DEFINE k == [Idle EXCEPT !.op = "create", !.goal = t, !.cron = e]
<1>1. k \in Call /\ k.op = "create" /\ k.goal = t
  BY OpenStarts DEF GoalId
<1>2. /\ used' \in [Kinds -> Nat] /\ \A kind \in Kinds : used[kind] <= used'[kind]
  BY SpendSpends DEF OpenCheck, Kinds
<1>3. call' = [call EXCEPT ![u] = k] /\ goal[t] = Absent /\ \A v \in Caller : call[v].goal # t
  BY DEF OpenCheck
<1>. HIDE DEF k
<1>4. call' \in [Caller -> Call] /\ call'[u] = k
  BY <1>1, <1>3, CallWrite
<1>5. TypeInv'
  BY <1>2, <1>4 DEF TypeInv, OpenCheck
<1>6. CallFits(u)'
  BY <1>1, <1>3, <1>4 DEF CallFits, OnTemplate, OnParent, Opening, OpenCheck, Absent
<1>. QED
  BY <1>1, <1>2, <1>3, <1>5, <1>6, OnlyCalls DEF OpenCheck

\* A caller that starts on a goal which exists.
LEMMA StartsQuiet ==
  ASSUME TypeInv, CallInv, NEW u \in Caller, NEW k \in Call,
         call' = [call EXCEPT ![u] = k], used' \in [Kinds -> Nat],
         k.op \in {"cancel", "admit", "tell"}, k.goal \in Template \cup Parent,
         k.op = "cancel" => k.goal \in Template,
         goal[k.goal].phase # "absent",
         log' \in [GoalId -> SUBSET EventRow],
         UNCHANGED <<clock, goal, summed, daemon, keeper>>,
         \A kind \in Kinds : used[kind] <= used'[kind]
  PROVE  TypeInv' /\ CallInv' /\ Quiet
<1>1. call' \in [Caller -> Call] /\ call'[u] = k
  BY CallWrite
<1>2. TypeInv'
  BY <1>1 DEF TypeInv
<1>3. CallFits(u)'
  BY <1>1 DEF CallFits, OnTemplate, OnParent, Opening
<1>. QED
  BY <1>2, <1>3, OnlyCalls

LEMMA ReturnsQuiet ==
  ASSUME TypeInv, CallInv, NEW u \in Caller, Return(u), used' \in [Kinds -> Nat],
         log' \in [GoalId -> SUBSET EventRow],
         UNCHANGED <<clock, goal, summed, daemon, keeper>>,
         \A kind \in Kinds : used[kind] <= used'[kind]
  PROVE  TypeInv' /\ CallInv' /\ Quiet
<1>1. call' \in [Caller -> Call] /\ call'[u] = Idle /\ Idle \in Call /\ Idle.op = "idle"
  BY CallWrite, IdleCall DEF Return
<1>2. TypeInv'
  BY <1>1 DEF TypeInv
<1>3. CallFits(u)'
  BY <1>1 DEF CallFits, OnTemplate, OnParent, Opening
<1>. QED
  BY <1>1, <1>2, <1>3, OnlyCalls DEF Return

LEMMA CancelReadQuiet ==
  ASSUME TypeInv, CallInv, NEW u \in Caller, NEW t \in Template, CancelRead(u, t)
  PROVE  TypeInv' /\ CallInv' /\ Quiet
<1> DEFINE k == [Idle EXCEPT !.op = "cancel", !.goal = t]
<1>1. k \in Call /\ k.op = "cancel" /\ k.goal = t
  BY CallStarts DEF OnTemplate, GoalId
<1>2. /\ used' \in [Kinds -> Nat] /\ \A kind \in Kinds : used[kind] <= used'[kind]
  BY SpendSpends DEF CancelRead, Kinds
<1>3. goal[t].phase # "absent"
  BY DEF CancelRead, TypeInv, GoalId, Absent
<1>4. call' = [call EXCEPT ![u] = k]
  BY DEF CancelRead
<1>. HIDE DEF k
<1>. QED
  BY <1>1, <1>2, <1>3, <1>4, StartsQuiet, ZenonT(40) DEF CancelRead, TypeInv

LEMMA SpawnCheckQuiet ==
  ASSUME TypeInv, CallInv, NEW u \in Caller, NEW p \in Template \cup Parent, SpawnCheck(u, p)
  PROVE  TypeInv' /\ CallInv' /\ Quiet
<1> DEFINE k == [Idle EXCEPT !.op = "admit", !.goal = p]
<1>1. k \in Call /\ k.op = "admit" /\ k.goal = p
  BY CallStarts DEF OnParent, GoalId
<1>2. /\ used' \in [Kinds -> Nat] /\ \A kind \in Kinds : used[kind] <= used'[kind]
  BY SpendSpends DEF SpawnCheck, Kinds
<1>3. call' = [call EXCEPT ![u] = k] /\ goal[p].phase # "absent"
  BY DEF SpawnCheck
<1>. HIDE DEF k
<1>. QED
  BY <1>1, <1>2, <1>3, StartsQuiet DEF SpawnCheck, TypeInv

LEMMA TellQuiet ==
  ASSUME TypeInv, CallInv, ChildrenInv, NEW u \in Caller, NEW c \in Child,
         NEW kind \in {"message", "report"}, Tell(u, c, kind)
  PROVE  TypeInv' /\ CallInv' /\ Quiet
<1>1. PICK p \in Template \cup Parent : p = goal[c].parent
  BY DEF Tell, TypeInv, GoalRow, GoalId
<1>2. PICK n \in Nat : n = used.events
  BY DEF TypeInv, Kinds
<1> DEFINE k == [Idle EXCEPT !.op = "tell", !.goal = p, !.event = n]
<1>3. k \in Call /\ k.op = "tell" /\ k.goal = p
  BY TellStarts DEF GoalId
<1>4. /\ used' \in [Kinds -> Nat] /\ \A what \in Kinds : used[what] <= used'[what]
  BY SpendSpends DEF Tell, Kinds
<1>5. call' = [call EXCEPT ![u] = k] /\ goal[p].phase # "absent"
  BY <1>1, <1>2 DEF Tell, ChildrenInv
<1>6. Event(kind, n) \in EventRow
  BY EventsAreRows
<1>7. log' \in [GoalId -> SUBSET EventRow]
  BY <1>2, <1>6 DEF Tell, Append1, TypeInv, GoalId
<1>. HIDE DEF k
<1>. QED
  BY <1>3, <1>4, <1>5, <1>7, StartsQuiet DEF Tell

LEMMA TellParentQuiet ==
  ASSUME TypeInv, CallInv, NEW u \in Caller, TellParent(u)
  PROVE  TypeInv' /\ CallInv' /\ Quiet
<1>1. call[u] \in Call /\ call[u].event \in Nat
  BY DEF TypeInv, Call
<1>2. Event("told", call[u].event) \in EventRow
  BY <1>1, EventsAreRows
<1>3. call[u].goal \in GoalId
  BY DEF CallInv, CallFits, TellParent, At, OnParent, GoalId
<1>4. log' \in [GoalId -> SUBSET EventRow]
  BY <1>2, <1>3 DEF TellParent, Append1, TypeInv
<1>5. used' \in [Kinds -> Nat]
  BY DEF TellParent, TypeInv
<1>. QED
  BY <1>4, <1>5, NothingSpent, ReturnsQuiet DEF TellParent

LEMMA CallerDiesQuiet ==
  ASSUME TypeInv, CallInv, NEW u \in Caller, CallerDies(u)
  PROVE  TypeInv' /\ CallInv' /\ Quiet
<1>1. /\ used' \in [Kinds -> Nat] /\ \A kind \in Kinds : used[kind] <= used'[kind]
  BY SpendSpends DEF CallerDies, Kinds
<1>2. log' \in [GoalId -> SUBSET EventRow]
  BY DEF CallerDies, TypeInv
<1>. QED
  BY <1>1, <1>2, ReturnsQuiet DEF CallerDies

\* A caller that writes one existing row and moves on or returns.
LEMMA RowAndCall ==
  ASSUME TypeInv, CallInv, NEW u \in Caller, NEW k \in Call, NEW g \in GoalId, NEW n \in GoalRow,
         goal' = [goal EXCEPT ![g] = n], SameKin(n, goal[g]), call' = [call EXCEPT ![u] = k],
         goal[g].phase # "absent", n.phase # "absent", n.phase = "running" => Active(g),
         \/ k = Idle
         \/ k.op = "register" /\ call[u].op = "loop" /\ k.goal = call[u].goal,
         UNCHANGED <<clock, log, summed, daemon, keeper, used>>
  PROVE  TypeInv' /\ CallInv' /\ Quiet
<1>1. /\ goal' \in [GoalId -> GoalRow]
      /\ \A h \in GoalId : goal'[h].phase = "absent" => goal'[h] = Absent
      /\ goal'[g] = n /\ \A h \in GoalId : h # g => goal'[h] = goal[h]
  BY RowWrite
<1>2. /\ call' \in [Caller -> Call] /\ call'[u] = k
      /\ \A v \in Caller : v # u => call'[v] = call[v]
  BY CallWrite
<1>3. TypeInv'
  BY <1>1, <1>2 DEF TypeInv
<1>4. \A h \in GoalId : goal'[h].phase = "absent" <=> goal[h].phase = "absent"
  BY <1>1
<1>5. Idle.op = "idle"
  BY IdleCall
<1>6. /\ CallFits(u)'
      /\ call'[u].op \in Opening =>
           \A v \in Caller : v # u /\ call[v].op \in Opening => call[v].goal # call'[u].goal
  <2>1. CASE k = Idle
    BY <1>2, <1>5, <2>1 DEF CallFits, OnTemplate, OnParent, Opening
  <2>2. CASE k.op = "register" /\ call[u].op = "loop" /\ k.goal = call[u].goal
    <3>1. call[u].goal \in Template /\ goal[call[u].goal].phase # "absent"
      BY <2>2 DEF CallInv, CallFits, OnTemplate, Opening
    <3>2. \A v \in Caller : v # u /\ call[v].op \in Opening => call[v].goal # call[u].goal
      BY <2>2 DEF CallInv, OneOpens, Opening
    <3>. QED
      BY <1>2, <1>4, <2>2, <3>1, <3>2 DEF CallFits, OnTemplate, OnParent, Opening, GoalId
  <2>. QED
    BY <2>1, <2>2
<1>7. CallInv'
  BY <1>2, <1>4, <1>6, CallKept DEF TypeInv
<1>8. \A v \in Caller :
         /\ call'[v].op \in {"loop", "register"}
               => call[v].op \in {"loop", "register"} /\ call'[v].goal = call[v].goal
         /\ call'[v].op = "update" => call'[v] = call[v]
  BY <1>2, <1>5
<1>9. Quiet
  BY <1>7, <1>8, NothingSpent, OnlyARow
<1>. QED
  BY <1>3, <1>7, <1>9

LEMMA OpenLoopQuiet ==
  ASSUME TypeInv, CallInv, NEW u \in Caller, OpenLoop(u)
  PROVE  TypeInv' /\ CallInv' /\ Quiet
<1>1. PICK g \in GoalId : g = call[u].goal
  BY DEF CallInv, CallFits, OpenLoop, At, OnTemplate, Opening, GoalId
<1>2. goal[g] \in GoalRow /\ goal[g].phase # "absent"
  BY <1>1 DEF TypeInv, CallInv, CallFits, OpenLoop, At
<1> DEFINE n == [goal[g] EXCEPT !.loop = "final"]
           k == [call[u] EXCEPT !.op = "register"]
<1>3. n \in GoalRow /\ SameKin(n, goal[g]) /\ n.phase = goal[g].phase
  BY <1>2, LoopWritten
<1>4. k \in Call /\ k.op = "register" /\ k.goal = call[u].goal
  <2>1. call[u] \in Call /\ "register" \in OnTemplate \cup {"child_loop"}
    BY DEF TypeInv, OnTemplate, Opening
  <2>. QED
    BY <2>1, CallGoesOn
<1>5. goal' = [goal EXCEPT ![g] = n] /\ call' = [call EXCEPT ![u] = k] /\ call[u].op = "loop"
  BY <1>1 DEF OpenLoop, Goto, At, TypeInv
<1>6. n.phase # "absent" /\ (n.phase = "running" => Active(g))
  BY <1>2, <1>3 DEF Active, GoalRow
<1>. HIDE DEF n, k
<1>. QED
  BY <1>2, <1>3, <1>4, <1>5, <1>6, RowAndCall DEF OpenLoop

LEMMA CancelWriteQuiet ==
  ASSUME TypeInv, CallInv, NEW u \in Caller, CancelWrite(u)
  PROVE  TypeInv' /\ CallInv' /\ Quiet
<1>1. PICK g \in GoalId : g = call[u].goal
  BY DEF CallInv, CallFits, CancelWrite, At, OnTemplate, GoalId
<1>2. goal[g] \in GoalRow /\ goal[g].phase # "absent"
  BY <1>1 DEF TypeInv, CallInv, CallFits, CancelWrite, At
<1> DEFINE n == [goal[g] EXCEPT !.phase = "ended", !.resolution = "canceled"]
<1>3. n \in GoalRow /\ SameKin(n, goal[g]) /\ n.phase = "ended"
  BY <1>2, EndWritten
<1>4. goal' = [goal EXCEPT ![g] = n] /\ call' = [call EXCEPT ![u] = Idle]
  BY <1>1 DEF CancelWrite, Ended, Return
<1>5. Idle \in Call
  BY IdleCall
<1>. HIDE DEF n
<1>. QED
  BY <1>2, <1>3, <1>4, <1>5, RowAndCall DEF CancelWrite

LEMMA SpawnLoopQuiet ==
  ASSUME TypeInv, CallInv, NEW u \in Caller, SpawnLoop(u)
  PROVE  TypeInv' /\ CallInv' /\ Quiet
<1>1. PICK g \in GoalId : g = call[u].goal
  BY DEF CallInv, CallFits, SpawnLoop, At, GoalId
<1>2. goal[g] \in GoalRow /\ goal[g].phase # "absent"
  BY <1>1 DEF TypeInv, CallInv, CallFits, SpawnLoop, At
<1> DEFINE n == [goal[g] EXCEPT !.loop = "active"]
<1>3. n \in GoalRow /\ SameKin(n, goal[g]) /\ n.phase = goal[g].phase
  BY <1>2, LoopWritten
<1>4. goal' = [goal EXCEPT ![g] = n] /\ call' = [call EXCEPT ![u] = Idle]
  BY <1>1 DEF SpawnLoop, Return, TypeInv
<1>5. Idle \in Call
  BY IdleCall
<1>6. n.phase # "absent" /\ (n.phase = "running" => Active(g))
  BY <1>2, <1>3 DEF Active
<1>. HIDE DEF n
<1>. QED
  BY <1>2, <1>3, <1>4, <1>5, <1>6, RowAndCall DEF SpawnLoop

\* A goal's row is written by nobody who is in the middle of a call.
LEMMA RowAndLog ==
  ASSUME TypeInv, CallInv, NEW g \in GoalId, NEW n \in GoalRow,
         goal' = [goal EXCEPT ![g] = n], SameKin(n, goal[g]),
         goal[g].phase # "absent", n.phase # "absent",
         n.phase = "running" => Active(g) \/ (g \notin Template /\ n.revived),
         log' \in [GoalId -> SUBSET EventRow], used' \in [Kinds -> Nat],
         keeper' \in [pc : {"idle", "next", "summary"}, todo : SUBSET GoalId,
                      held : GoalId \cup {None}, seen : SUBSET EventRow],
         keeper'.pc = "summary" => keeper'.held \in GoalId,
         \A kind \in Kinds : used[kind] <= used'[kind],
         UNCHANGED <<clock, summed, call, daemon>>
  PROVE  TypeInv' /\ CallInv' /\ Quiet
<1>1. /\ goal' \in [GoalId -> GoalRow]
      /\ \A h \in GoalId : goal'[h].phase = "absent" => goal'[h] = Absent
      /\ goal'[g] = n /\ \A h \in GoalId : h # g => goal'[h] = goal[h]
  BY RowWrite
<1>2. TypeInv'
  BY <1>1 DEF TypeInv
<1>3. CallInv'
  BY <1>1, CallSame DEF TypeInv
<1>4. Quiet
  BY <1>3, OnlyARow
<1>. QED
  BY <1>2, <1>3, <1>4

\* A loop belongs to a goal that exists, and no template has one.
LEMMA LoopsHaveGoals ==
  ASSUME TypeInv, NEW g \in Child \cup Parent, goal[g].loop = "active"
  PROVE  /\ g \in GoalId /\ g \notin Template
         /\ goal[g] \in GoalRow /\ goal[g].phase # "absent"
BY GoalIdAssumption DEF TypeInv, GoalId, Absent

LEMMA ChildEndsQuiet ==
  ASSUME TypeInv, CallInv, NEW c, NEW r \in {"success", "canceled"}, ChildEnds(c, r)
  PROVE  TypeInv' /\ CallInv' /\ Quiet
<1>1. c \in GoalId /\ goal[c] \in GoalRow /\ goal[c].phase # "absent"
  BY LoopsHaveGoals DEF ChildEnds
<1> DEFINE n == [goal[c] EXCEPT !.loop = "final", !.phase = "ended", !.resolution = r]
<1>2. n \in GoalRow /\ SameKin(n, goal[c]) /\ n.phase = "ended"
  BY <1>1, ChildEndWritten
<1>3. goal' = [goal EXCEPT ![c] = n]
  BY DEF ChildEnds
<1>. HIDE DEF n
<1>. QED
  BY <1>1, <1>2, <1>3, NothingSpent, RowAndLog DEF ChildEnds, TypeInv

LEMMA ChildBlocksQuiet ==
  ASSUME TypeInv, CallInv, NEW c, ChildBlocks(c)
  PROVE  TypeInv' /\ CallInv' /\ Quiet
<1>1. /\ c \in GoalId /\ c \notin Template
      /\ goal[c] \in GoalRow /\ goal[c].phase # "absent"
  BY LoopsHaveGoals DEF ChildBlocks
<1> DEFINE n == AtWork(goal[c], "blocked")
<1>2. /\ n \in GoalRow /\ SameKin(n, goal[c]) /\ n.phase = "running"
      /\ Active(c) \/ n.revived
  BY <1>1, WorkWritten DEF Active
<1>3. goal' = [goal EXCEPT ![c] = n]
  BY <1>1 DEF ChildBlocks, TypeInv
<1>4. Event("blocked", used.events) \in EventRow
  BY EventsAreRows DEF TypeInv, Kinds
<1>5. log' \in [GoalId -> SUBSET EventRow]
  BY <1>1, <1>4 DEF ChildBlocks, Append1, TypeInv
<1>6. /\ used' \in [Kinds -> Nat] /\ \A what \in Kinds : used[what] <= used'[what]
  BY SpendSpends DEF ChildBlocks, Kinds
<1>. HIDE DEF n
<1>. QED
  BY <1>1, <1>2, <1>3, <1>5, <1>6, RowAndLog DEF ChildBlocks, TypeInv

LEMMA LoopResumesQuiet ==
  ASSUME TypeInv, CallInv, NEW g, LoopResumes(g)
  PROVE  TypeInv' /\ CallInv' /\ Quiet
<1>1. /\ g \in GoalId /\ g \notin Template
      /\ goal[g] \in GoalRow /\ goal[g].phase # "absent"
  BY LoopsHaveGoals DEF LoopResumes
<1> DEFINE n == AtWork(goal[g], "none")
<1>2. /\ n \in GoalRow /\ SameKin(n, goal[g]) /\ n.phase = "running"
      /\ Active(g) \/ n.revived
  BY <1>1, WorkWritten DEF Active
<1>3. goal' = [goal EXCEPT ![g] = n]
  BY <1>1 DEF LoopResumes, TypeInv
<1>. HIDE DEF n
<1>. QED
  BY <1>1, <1>2, <1>3, NothingSpent, RowAndLog DEF LoopResumes, TypeInv

LEMMA StopGoalQuiet ==
  ASSUME TypeInv, CallInv, NEW g, StopGoal(g)
  PROVE  TypeInv' /\ CallInv' /\ Quiet
<1>1. g \in GoalId /\ goal[g] \in GoalRow /\ goal[g].phase # "absent"
  BY DEF StopGoal, Stops, Active, TypeInv
<1> DEFINE n == [goal[g] EXCEPT !.phase = "ended", !.resolution = "blocked"]
<1>2. n \in GoalRow /\ SameKin(n, goal[g]) /\ n.phase = "ended"
  BY <1>1, EndWritten
<1>3. goal' = [goal EXCEPT ![g] = n]
  BY DEF StopGoal, Ended
<1>4. Event("blocked", clock) \in EventRow
  BY EventsAreRows, GoalTreeAssumption DEF TypeInv
<1>5. log' \in [GoalId -> SUBSET EventRow]
  BY <1>1, <1>4 DEF StopGoal, Append1, TypeInv
<1>. HIDE DEF n
<1>. QED
  BY <1>1, <1>2, <1>3, <1>5, NothingSpent, KeepOnKeeps, RowAndLog DEF StopGoal, TypeInv

\* The registration may revive a template; its caller is the only one that
\* registers it, and is through with it.
LEMMA OpenRegisterQuiet ==
  ASSUME TypeInv, CallInv, NEW u \in Caller, OpenRegister(u)
  PROVE  TypeInv' /\ CallInv' /\ Quiet
<1>1. PICK g \in Template : g = call[u].goal
  BY DEF CallInv, CallFits, OpenRegister, At, OnTemplate, Opening
<1>2. /\ g \in GoalId /\ g \notin Child /\ call[u].op = "register"
      /\ goal[g] \in GoalRow /\ goal[g].phase # "absent"
  BY <1>1, GoalIdAssumption DEF TypeInv, CallInv, CallFits, OpenRegister, At, GoalId
<1> DEFINE n == [goal[g] EXCEPT !.phase = "running", !.resolution = "none"]
<1>3. n \in GoalRow /\ SameKin(n, goal[g]) /\ n.phase = "running"
  BY <1>2, EndWritten
<1>4. goal' = [goal EXCEPT ![g] = n] /\ call' = [call EXCEPT ![u] = Idle]
  BY <1>1 DEF OpenRegister, Return
<1>5. Idle \in Call /\ Idle.op = "idle"
  BY IdleCall
<1>. HIDE DEF n
<1>6. /\ goal' \in [GoalId -> GoalRow]
      /\ \A h \in GoalId : goal'[h].phase = "absent" => goal'[h] = Absent
      /\ goal'[g] = n /\ \A h \in GoalId : h # g => goal'[h] = goal[h]
  BY <1>2, <1>3, <1>4, RowWrite
<1>7. /\ call' \in [Caller -> Call] /\ call'[u] = Idle
      /\ \A v \in Caller : v # u => call'[v] = call[v]
  BY <1>4, <1>5, CallWrite
<1>8. /\ used' \in [Kinds -> Nat] /\ \A kind \in Kinds : used[kind] <= used'[kind]
      /\ ~Active(g) => used["revivals"] < used'["revivals"]
  BY <1>1 DEF OpenRegister, TypeInv, Kinds
<1>9. TypeInv'
  BY <1>6, <1>7, <1>8 DEF TypeInv, OpenRegister
<1>10. CallInv'
  <2>1. CallFits(u)'
    BY <1>5, <1>7 DEF CallFits, OnTemplate, OnParent, Opening
  <2>2. \A h \in GoalId : goal'[h].phase = "absent" <=> goal[h].phase = "absent"
    BY <1>2, <1>3, <1>6
  <2>3. call'[u].op \notin Opening
    BY <1>5, <1>7 DEF Opening
  <2>. QED
    BY <1>7, <2>1, <2>2, <2>3, CallKept DEF TypeInv
<1>11. RowsStay
  BY <1>2, <1>3, <1>6 DEF RowsStay, SameKin, SameBirth
<1>12. \A c \in Child : Active(c)' => Active(c)
  BY <1>2, <1>6 DEF Active, GoalId
<1>13. \A t \in Template : Registering(t)' => Registering(t) /\ t # g
  <2> SUFFICES ASSUME NEW t \in Template, NEW v \in Caller,
                      call'[v].op \in {"loop", "register"}, call'[v].goal = t
               PROVE  Registering(t) /\ t # g
    BY DEF Registering
  <2>1. v # u
    BY <1>5, <1>7
  <2>2. call[v].op \in {"loop", "register"} /\ call[v].goal = t
    BY <1>7, <2>1
  <2>. QED
    BY <1>1, <1>2, <2>1, <2>2 DEF CallInv, OneOpens, Registering, Opening
<1>14. \A t \in Template : t # g => (Active(t)' <=> Active(t))
  BY <1>6 DEF Active, GoalId
<1>15. Live(g)
  BY <1>1, <1>2 DEF Live, Registering
<1>16. daemon' = daemon /\ clock <= clock'
  BY GoalTreeAssumption DEF OpenRegister, TypeInv
<1>17. \A v \in Caller : call'[v].op = "update" => call'[v] = call[v]
  BY <1>5, <1>7
<1>18. Quiet
  BY <1>8, <1>11, <1>12, <1>13, <1>14, <1>15, <1>16, <1>17 DEF Quiet, Live
<1>. QED
  BY <1>9, <1>10, <1>18

LEMMA QuietKeeps ==
  ASSUME GoalInv, TypeInv', CallInv', Quiet
  PROVE  GoalInv'
BY QuietKeepsChildren, QuietKeepsCounts DEF GoalInv

-----------------------------------------------------------------------------
(* An update of a template reads its run, and writes it later.              *)

LEMMA UpdateReadKeeps ==
  ASSUME GoalInv, NEW u \in Caller, NEW t \in Template, NEW e \in Schedule, NEW dup,
         UpdateRead(u, t, e, dup)
  PROVE  GoalInv'
<1>. USE DEF GoalInv
<1>1. t \in GoalId /\ goal[t] \in GoalRow /\ clock \in Nat /\ goal[t].phase # "absent"
  BY GoalTreeAssumption DEF TypeInv, GoalId, UpdateRead, Active
<1>2. PICK n \in Nat : n = IF e = goal[t].cron THEN goal[t].next ELSE NextCronTime(e, clock)
  BY <1>1, NextRunIsLater DEF UpdateRead, GoalRow
<1>3. n = goal[t].next \/ n # 0
  BY <1>1, <1>2, NextRunIsLater DEF UpdateRead
<1> DEFINE k == [Idle EXCEPT !.op = "update", !.goal = t, !.cron = e, !.next = n]
<1>4. k \in Call /\ k.op = "update" /\ k.goal = t /\ k.next = n
  <2>1. t \in GoalId /\ e \in Schedule /\ n \in Nat
    BY <1>1
  <2>2. Idle \in Call
    BY IdleCall
  <2>. QED
    BY <2>1, <2>2 DEF Call, OnTemplate
<1>5. /\ used' \in [Kinds -> Nat] /\ \A kind \in Kinds : used[kind] <= used'[kind]
      /\ used'["updates"] = used["updates"] + 1
  BY SpendSpends DEF UpdateRead, Kinds
<1>6. call' = [call EXCEPT ![u] = k] /\ call[u].op = "idle"
  BY <1>2 DEF UpdateRead, At
<1>. HIDE DEF k
<1>7. /\ call' \in [Caller -> Call] /\ call'[u] = k
      /\ \A v \in Caller : v # u => call'[v] = call[v]
  BY <1>4, <1>6, CallWrite
<1>8. goal' = goal /\ daemon' = daemon /\ clock' = clock
  BY DEF UpdateRead
<1>9. TypeInv'
  BY <1>5, <1>7 DEF TypeInv, UpdateRead
<1>10. CallInv'
  <2>1. CallFits(u)'
    BY <1>1, <1>4, <1>7, <1>8 DEF CallFits, OnTemplate, OnParent, Opening
  <2>2. call'[u].op \notin Opening
    BY <1>4, <1>7 DEF Opening
  <2>. QED
    BY <1>7, <1>8, <2>1, <2>2, CallKept DEF TypeInv
<1>11. RowsSurvive /\ clock <= clock'
  BY <1>1, <1>8 DEF RowsSurvive, SameBirth
<1>12. ChildrenInv' /\ PassInv'
  BY <1>8, <1>9, <1>11, BirthsKept, PassKept
<1>13. u \notin Updaters /\ Updaters' \subseteq Updaters \cup {u}
  BY <1>6, <1>7 DEF Updaters
<1>14. \A r \in Template, s \in Nat :
          /\ ReadBy(r, s)' \subseteq ReadBy(r, s) \cup {u}
          /\ Occurrences(r, s)' = Occurrences(r, s)
          /\ ~(r = t /\ s = n) => ReadBy(r, s)' \subseteq ReadBy(r, s)
  BY <1>4, <1>7, <1>8 DEF ReadBy, Updaters, Occurrences
<1>15. \A r \in Template : Registering(r)' => Registering(r)
  BY <1>4, <1>7 DEF Registering
<1>16. \A r \in Template, s \in Nat : Pending(r, s)' => Pending(r, s)
  BY <1>8, <1>15 DEF Pending, Live, Active, InHand, Overwritten
<1>17. used["updates"] \in Nat /\ used["crashes"] \in Nat /\ used'["crashes"] \in Nat
       /\ used["crashes"] <= used'["crashes"] /\ used["revivals"] <= used'["revivals"]
  BY <1>5 DEF TypeInv, Kinds
<1>18. RunsInv'
  <2>1. IsFiniteSet(Updaters') /\ Cardinality(Updaters') <= used'["updates"]
    <3>1. IsFiniteSet(Updaters) /\ Cardinality(Updaters) <= used["updates"]
      BY DEF RunsInv
    <3>. QED
      BY <1>5, <1>13, <1>17, <3>1, OneMore
  <2>2. ASSUME NEW r \in Template, NEW s \in Nat
        PROVE  RunsAreFew(r, s)'
    <3>1. IsFiniteSet(ReadBy(r, s)) /\ Cardinality(Occurrences(r, s)) \in Nat
      BY CountsAreFinite DEF ChildrenInv, RunsInv
    <3>2. /\ Cardinality(ReadBy(r, s)') <= Cardinality(ReadBy(r, s)) + 1
          /\ Cardinality(ReadBy(r, s)') \in Nat /\ Cardinality(ReadBy(r, s)) \in Nat
      BY <1>14, <3>1, OneMore
    <3>3. /\ One(Pending(r, s)') \in {0, 1} /\ One(Pending(r, s)) \in {0, 1}
          /\ One(Pending(r, s)') <= One(Pending(r, s))
      BY <1>16 DEF One
    <3>4. RunsAreFew(r, s) /\ Occurrences(r, s)' = Occurrences(r, s)
      BY <1>14 DEF RunsInv
    <3>. QED
      BY <1>5, <1>17, <3>1, <3>2, <3>3, <3>4 DEF RunsAreFew
  <2>. QED
    BY <2>1, <2>2 DEF RunsInv
<1>19. BlockedInv'
  <2> SUFFICES ASSUME NEW r \in Template, Registering(r)'
               PROVE  /\ Active(r)' => goal'[r].next # 0
                      /\ ReadBy(r, 0)' = {} /\ Occurrences(r, 0)' = {}
                      /\ \A d \in daemon'.due : d.id = r => d.next # 0
    BY DEF BlockedInv
  <2>1. /\ Active(r) => goal[r].next # 0
        /\ ReadBy(r, 0) = {} /\ Occurrences(r, 0) = {}
        /\ \A d \in daemon.due : d.id = r => d.next # 0
    BY <1>15 DEF BlockedInv
  <2>2. r = t => n # 0
    BY <1>3, <2>1 DEF UpdateRead
  <2>. QED
    BY <1>8, <1>14, <2>1, <2>2 DEF Active
<1>20. LateInv'
  <2>1. ASSUME NEW r \in Template
        PROVE  LateAreFew(r)'
    BY <1>8, <1>9, <1>17, LateStayFew DEF Late, InHand, Active
  <2>. QED
    BY <2>1 DEF LateInv
<1>21. AgentsInv'
  BY <1>8 DEF AgentsInv, Agents, ActiveChildren, Active
<1>. QED
  BY <1>9, <1>10, <1>12, <1>18, <1>19, <1>20, <1>21

\* The update that writes back a run it read pays with the place it had
\* among those who have it in hand.
LEMMA UpdateWriteKeeps ==
  ASSUME GoalInv, NEW u \in Caller, UpdateWrite(u)
  PROVE  GoalInv'
<1>. USE DEF GoalInv
<1>1. call[u].op = "update" /\ call[u] \in Call
  BY DEF UpdateWrite, At, TypeInv
<1>2. PICK t \in Template : t = call[u].goal
  BY <1>1 DEF CallInv, CallFits, OnTemplate
<1>3. PICK n \in Nat, e \in Schedule \cup {None} : n = call[u].next /\ e = call[u].cron
  BY <1>1 DEF Call
<1>4. /\ t \in GoalId /\ t \notin Child /\ goal[t] \in GoalRow /\ goal[t].phase # "absent"
      /\ clock \in Nat
  BY <1>1, <1>2, GoalIdAssumption, GoalTreeAssumption DEF TypeInv, GoalId, CallInv, CallFits
<1> DEFINE m == [goal[t] EXCEPT !.cron = e, !.next = n]
<1>5. m \in GoalRow /\ SameBirth(m, goal[t]) /\ m.phase = goal[t].phase /\ m.next = n
  <2>1. goal[t] \in GoalRow
    BY <1>4
  <2>. QED
    BY <2>1 DEF GoalRow, SameBirth
<1>6. goal' = [goal EXCEPT ![t] = m] /\ call' = [call EXCEPT ![u] = Idle]
  BY <1>2, <1>3 DEF UpdateWrite, Rescheduled, Return
<1>. HIDE DEF m
<1>7. Idle \in Call /\ Idle.op = "idle"
  BY IdleCall
<1>8. /\ goal' \in [GoalId -> GoalRow]
      /\ \A h \in GoalId : goal'[h].phase = "absent" => goal'[h] = Absent
      /\ goal'[t] = m /\ \A h \in GoalId : h # t => goal'[h] = goal[h]
  BY <1>4, <1>5, <1>6, RowWrite
<1>9. /\ call' \in [Caller -> Call] /\ call'[u] = Idle
      /\ \A v \in Caller : v # u => call'[v] = call[v]
  BY <1>6, <1>7, CallWrite
<1>10. daemon' = daemon /\ clock' = clock /\ used' = used
  BY DEF UpdateWrite
<1>11. TypeInv'
  BY <1>8, <1>9 DEF TypeInv, UpdateWrite
<1>12. RowsSurvive /\ clock <= clock'
  BY <1>4, <1>5, <1>8, <1>10 DEF RowsSurvive, SameBirth
<1>13. CallInv'
  <2>1. CallFits(u)'
    BY <1>7, <1>9 DEF CallFits, OnTemplate, OnParent, Opening
  <2>2. call'[u].op \notin Opening
    BY <1>7, <1>9 DEF Opening
  <2>. QED
    BY <1>9, <1>12, <2>1, <2>2, CallKept DEF TypeInv, RowsSurvive
<1>14. ChildrenInv' /\ PassInv'
  BY <1>10, <1>11, <1>12, BirthsKept, PassKept DEF RowsSurvive
<1>15. \A g \in GoalId : Active(g)' <=> Active(g)
  BY <1>5, <1>8 DEF Active
<1>16. u \in ReadBy(t, n) /\ Updaters' \subseteq Updaters
  BY <1>1, <1>2, <1>3, <1>7, <1>9 DEF Updaters, ReadBy
<1>17. \A c \in Child : goal'[c] = goal[c]
  BY <1>4, <1>8 DEF GoalId
<1>18. \A r \in Template, s \in Nat :
          /\ ReadBy(r, s)' \subseteq ReadBy(r, s)
          /\ ReadBy(r, s)' \subseteq ReadBy(r, s) \ {u}
          /\ Occurrences(r, s)' = Occurrences(r, s)
  BY <1>7, <1>9, <1>17 DEF ReadBy, Updaters, Occurrences
<1>19. \A r \in Template : Registering(r)' => Registering(r)
  BY <1>7, <1>9 DEF Registering
<1>20. ASSUME NEW r \in Template, NEW s \in Nat, ~(r = t /\ s = n)
       PROVE  Pending(r, s)' => Pending(r, s)
  <2>1. goal'[r].next = s => goal[r].next = s
    BY <1>5, <1>8, <1>20 DEF GoalId
  <2>2. Live(r)' => Live(r)
    BY <1>15, <1>19 DEF Live, GoalId
  <2>. QED
    BY <1>10, <2>1, <2>2 DEF Pending, InHand, Overwritten
<1>21. used["updates"] \in Nat /\ used["crashes"] \in Nat /\ used["revivals"] \in Nat
  BY DEF TypeInv, Kinds
<1>22. RunsInv'
  <2>1. IsFiniteSet(Updaters') /\ Cardinality(Updaters') <= used'["updates"]
    <3>1. IsFiniteSet(Updaters) /\ Cardinality(Updaters) <= used["updates"]
      BY DEF RunsInv
    <3>. QED
      BY <1>10, <1>16, <1>21, <3>1, Fewer
  <2>2. RunsAreFew(t, n)'
    <3>1. IsFiniteSet(ReadBy(t, n)) /\ Cardinality(Occurrences(t, n)) \in Nat
      BY CountsAreFinite DEF ChildrenInv, RunsInv
    <3>2. /\ Cardinality(ReadBy(t, n)') + 1 <= Cardinality(ReadBy(t, n))
          /\ Cardinality(ReadBy(t, n)') \in Nat /\ Cardinality(ReadBy(t, n)) \in Nat
      BY <1>16, <1>18, <3>1, OneLess
    <3>3. One(Pending(t, n)') \in {0, 1} /\ One(Pending(t, n)) \in {0, 1}
      BY DEF One
    <3>4. RunsAreFew(t, n) /\ Occurrences(t, n)' = Occurrences(t, n)
      BY <1>18 DEF RunsInv
    <3>. QED
      BY <1>10, <1>21, <3>1, <3>2, <3>3, <3>4 DEF RunsAreFew
  <2>3. ASSUME NEW r \in Template, NEW s \in Nat, ~(r = t /\ s = n)
        PROVE  RunsAreFew(r, s)'
    BY <1>10, <1>11, <1>18, <1>20, <1>21, <2>3, RunsStayFew
  <2>. QED
    BY <2>1, <2>2, <2>3 DEF RunsInv
<1>23. BlockedInv'
  <2> SUFFICES ASSUME NEW r \in Template, Registering(r)'
               PROVE  /\ Active(r)' => goal'[r].next # 0
                      /\ ReadBy(r, 0)' = {} /\ Occurrences(r, 0)' = {}
                      /\ \A d \in daemon'.due : d.id = r => d.next # 0
    BY DEF BlockedInv
  <2>1. /\ Active(r) => goal[r].next # 0
        /\ ReadBy(r, 0) = {} /\ Occurrences(r, 0) = {}
        /\ \A d \in daemon.due : d.id = r => d.next # 0
    BY <1>19 DEF BlockedInv
  <2>2. r = t => n # 0
    BY <1>16, <2>1
  <2>3. Active(r)' => goal'[r].next # 0
    BY <1>5, <1>8, <1>15, <2>1, <2>2 DEF GoalId
  <2>. QED
    BY <1>10, <1>18, <2>1, <2>3
<1>24. LateInv'
  <2>1. ASSUME NEW r \in Template
        PROVE  LateAreFew(r)'
    <3>1. Late(r)' = Late(r)
      BY <1>17 DEF Late
    <3>2. Active(r)' => Active(r)
      BY <1>15 DEF GoalId
    <3>3. InHand(r)' = InHand(r)
      BY <1>10 DEF InHand
    <3>. QED
      BY <1>10, <1>11, <1>21, <3>1, <3>2, <3>3, LateStayFew
  <2>. QED
    BY <2>1 DEF LateInv
<1>25. AgentsInv'
  BY <1>17 DEF AgentsInv, Agents, ActiveChildren, Active
<1>. QED
  BY <1>11, <1>13, <1>14, <1>22, <1>23, <1>24, <1>25

-----------------------------------------------------------------------------
(* Goals that come into being.                                              *)

\* Of a goal that does not exist nobody has anything in hand.
LEMMA NothingOfAbsent ==
  ASSUME GoalInv, NEW t \in Template, goal[t].phase = "absent"
  PROVE  /\ \A c \in Child : goal[c].parent # t
         /\ \A s \in Nat : Occurrences(t, s) = {} /\ ReadBy(t, s) = {}
         /\ Late(t) = {}
         /\ \A d \in daemon.due : d.id # t
         /\ InHand(t) = {}
<1>1. \A c \in Child : goal[c].parent # t
  BY GoalIdAssumption DEF GoalInv, ChildrenInv, GoalId
<1>2. \A s \in Nat : ReadBy(t, s) = {}
  BY DEF GoalInv, CallInv, CallFits, ReadBy, Updaters
<1>3. \A d \in daemon.due : d.id # t
  BY DEF GoalInv, PassInv
<1>. QED
  BY <1>1, <1>2, <1>3 DEF Occurrences, Late, InHand

LEMMA OpenCreateKeeps ==
  ASSUME GoalInv, NEW u \in Caller, OpenCreate(u), NextCronTime(call[u].cron, clock) # NoRun
  PROVE  GoalInv'
<1>. USE DEF GoalInv
<1>1. call[u].op = "create" /\ call[u] \in Call /\ clock \in Nat
  BY GoalTreeAssumption DEF OpenCreate, At, TypeInv
<1>2. PICK t \in Template : t = call[u].goal
  BY <1>1 DEF CallInv, CallFits, OnTemplate, Opening
<1>3. PICK n \in Nat, e \in Schedule \cup {None} :
        n = NextCronTime(call[u].cron, clock) /\ e = call[u].cron
  BY <1>1, NextRunIsLater DEF Call
<1>4. n # 0
  BY <1>1, <1>3, NextRunIsLater
<1>5. t \in GoalId /\ t \notin Child /\ goal[t].phase = "absent"
  BY <1>1, <1>2, GoalIdAssumption DEF GoalId, CallInv, CallFits
<1> DEFINE m == [NewGoal EXCEPT !.cron = e, !.next = n]
           k == [call[u] EXCEPT !.op = "loop"]
<1>6. m \in GoalRow /\ m.phase = "running" /\ m.next = n
  <2>1. NewGoal \in GoalRow /\ NewGoal.phase = "running"
    BY <1>1, NewWritten
  <2>. QED
    BY <2>1 DEF GoalRow
<1>7. k \in Call /\ k.op = "loop" /\ k.goal = t
  BY <1>1, <1>2 DEF Call, OnTemplate, Opening
<1>8. goal' = [goal EXCEPT ![t] = m]
  BY <1>2, <1>3 DEF OpenCreate
<1>9. call' = [call EXCEPT ![u] = k]
  BY <1>3 DEF OpenCreate, Goto, TypeInv
<1>. HIDE DEF m, k
<1>10. /\ goal' \in [GoalId -> GoalRow]
       /\ \A h \in GoalId : goal'[h].phase = "absent" => goal'[h] = Absent
       /\ goal'[t] = m /\ \A h \in GoalId : h # t => goal'[h] = goal[h]
  BY <1>5, <1>6, <1>8, RowWrite
<1>11. /\ call' \in [Caller -> Call] /\ call'[u] = k
       /\ \A v \in Caller : v # u => call'[v] = call[v]
  BY <1>7, <1>9, CallWrite
<1>12. daemon' = daemon /\ clock' = clock /\ used' = used
  BY DEF OpenCreate
<1>13. TypeInv'
  BY <1>10, <1>11 DEF TypeInv, OpenCreate
<1>14. \A v \in Caller : v # u /\ call[v].op \in Opening => call[v].goal # t
  BY <1>1, <1>2 DEF CallInv, OneOpens, Opening
<1>15. CallInv'
  <2>1. CallFits(u)'
    BY <1>5, <1>6, <1>7, <1>10, <1>11 DEF CallFits, OnTemplate, OnParent, Opening
  <2>2. \A g \in GoalId : goal[g].phase # "absent" => goal'[g].phase # "absent"
    BY <1>5, <1>10
  <2>3. ASSUME NEW v \in Caller, v # u, call[v].op = "create"
        PROVE  goal'[call[v].goal].phase = "absent"
    BY <1>10, <1>14, <2>3 DEF CallInv, CallFits, OnTemplate, Opening, GoalId
  <2>. QED
    BY <1>7, <1>11, <1>14, <2>1, <2>2, <2>3, CallsKept DEF TypeInv
<1>16. \A c \in Child : goal'[c] = goal[c]
  BY <1>5, <1>10 DEF GoalId
<1>17. ChildrenInv'
  <2>1. Born' = Born
    BY <1>16 DEF Born
  <2>2. ASSUME NEW c \in Child, goal[c].parent # None
        PROVE  goal'[goal[c].parent].phase # "absent"
    <3>1. goal[c].parent \in GoalId /\ goal[goal[c].parent].phase # "absent"
      BY <2>2 DEF ChildrenInv, TypeInv, GoalRow, GoalId
    <3>. QED
      BY <1>5, <1>10, <3>1
  <2>. QED
    BY <1>12, <1>16, <2>1, <2>2 DEF ChildrenInv
<1>18. PassInv'
  <2>1. \A d \in daemon.due : d.id \in GoalId /\ d.id # t
    BY <1>5, NothingOfAbsent DEF TypeInv, Seen, GoalId
  <2>. QED
    BY <1>10, <1>12, <2>1 DEF PassInv, NextRun
<1>19. Updaters' = Updaters
  BY <1>1, <1>7, <1>11 DEF Updaters
<1>20. \A r \in Template, s \in Nat :
          ReadBy(r, s)' = ReadBy(r, s) /\ Occurrences(r, s)' = Occurrences(r, s)
  BY <1>1, <1>7, <1>11, <1>16, <1>19 DEF ReadBy, Updaters, Occurrences
<1>21. \A r \in Template : r # t => (Registering(r)' => Registering(r))
  BY <1>7, <1>11 DEF Registering
<1>22. \A r \in Template : r # t => (Active(r)' <=> Active(r))
  BY <1>10 DEF Active, GoalId
<1>23. \A r \in Template, s \in Nat : r # t => (Pending(r, s)' => Pending(r, s))
  BY <1>10, <1>12, <1>21, <1>22 DEF Pending, Live, InHand, Overwritten, GoalId
<1>24. used["updates"] \in Nat /\ used["crashes"] \in Nat /\ used["revivals"] \in Nat
  BY DEF TypeInv, Kinds
<1>25. RunsInv'
  <2>1. ASSUME NEW s \in Nat
        PROVE  RunsAreFew(t, s)'
    <3>1. Occurrences(t, s)' = {} /\ ReadBy(t, s)' = {}
      BY <1>5, <1>20, NothingOfAbsent
    <3>2. Cardinality({}) = 0
      BY FS_EmptySet
    <3>3. One(Pending(t, s)') \in {0, 1}
      BY DEF One
    <3>. QED
      BY <1>12, <1>24, <3>1, <3>2, <3>3 DEF RunsAreFew
  <2>2. ASSUME NEW r \in Template, NEW s \in Nat, r # t
        PROVE  RunsAreFew(r, s)'
    BY <1>12, <1>13, <1>20, <1>23, <1>24, <2>2, RunsStayFew
  <2>. QED
    BY <1>12, <1>19, <2>1, <2>2 DEF RunsInv
<1>26. BlockedInv'
  <2> SUFFICES ASSUME NEW r \in Template, Registering(r)'
               PROVE  /\ Active(r)' => goal'[r].next # 0
                      /\ ReadBy(r, 0)' = {} /\ Occurrences(r, 0)' = {}
                      /\ \A d \in daemon'.due : d.id = r => d.next # 0
    BY DEF BlockedInv
  <2>1. CASE r = t
    BY <1>4, <1>5, <1>6, <1>10, <1>12, <1>20, <2>1, NothingOfAbsent
  <2>2. CASE r # t
    BY <1>10, <1>12, <1>20, <1>21, <1>22, <2>2 DEF BlockedInv, GoalId
  <2>. QED
    BY <2>1, <2>2
<1>27. LateInv'
  <2>1. \A r \in Template : Late(r)' = Late(r) /\ InHand(r)' = InHand(r)
    BY <1>12, <1>16 DEF Late, InHand
  <2>2. LateAreFew(t)'
    <3>1. Cardinality(Late(t)') = 0
      BY <1>5, <2>1, NothingOfAbsent, FS_EmptySet
    <3>. QED
      BY <1>12, <1>24, <3>1 DEF LateAreFew, One
  <2>3. ASSUME NEW r \in Template, r # t
        PROVE  LateAreFew(r)'
    BY <1>12, <1>13, <1>22, <1>24, <2>1, <2>3, LateStayFew
  <2>. QED
    BY <2>2, <2>3 DEF LateInv
<1>28. AgentsInv'
  BY <1>16 DEF AgentsInv, Agents, ActiveChildren, Active
<1>. QED
  BY <1>13, <1>15, <1>17, <1>18, <1>25, <1>26, <1>27, <1>28

\* A child is born below a goal that exists.
LEMMA ChildBorn ==
  ASSUME GoalInv, NEW c \in Child, goal[c] = Absent, NEW n \in GoalRow,
         goal' = [goal EXCEPT ![c] = n], n.phase = "running", n.parent # None,
         goal[n.parent].phase # "absent", n.slot <= clock, clock' = clock,
         daemon'.pc # "idle" => daemon.pc # "idle" /\ daemon'.now = daemon.now
                                 /\ n.slot <= daemon'.now
  PROVE  /\ goal' \in [GoalId -> GoalRow]
         /\ \A h \in GoalId : goal'[h].phase = "absent" => goal'[h] = Absent
         /\ \A h \in GoalId : goal[h].phase # "absent" => goal'[h].phase # "absent"
         /\ goal'[c] = n /\ \A h \in GoalId : h # c => goal'[h] = goal[h]
         /\ \A p \in Template \cup Parent : p # c /\ goal'[p] = goal[p]
         /\ ChildrenInv'
         /\ \A r \in Template, s \in Nat :
               /\ Occurrences(r, s)' \subseteq Occurrences(r, s) \cup {c}
               /\ ~(r = n.parent /\ ~n.agent /\ s = n.slot)
                     => Occurrences(r, s)' \subseteq Occurrences(r, s)
         /\ \A r \in Template :
               /\ Late(r)' \subseteq Late(r) \cup {c}
               /\ ~(r = n.parent /\ n.late) => Late(r)' \subseteq Late(r)
         /\ \A p \in Template \cup Parent :
               /\ Agents(p)' \subseteq ActiveChildren(p) \cup {c}
               /\ ~(p = n.parent /\ n.agent) => Agents(p)' \subseteq Agents(p)
<1>. USE DEF GoalInv
<1>1. c \in GoalId /\ goal[c].phase = "absent"
  BY DEF GoalId, Absent
<1>2. /\ goal' \in [GoalId -> GoalRow]
      /\ \A h \in GoalId : goal'[h].phase = "absent" => goal'[h] = Absent
      /\ goal'[c] = n /\ \A h \in GoalId : h # c => goal'[h] = goal[h]
  BY <1>1, RowWrite
<1>3. \A h \in GoalId : goal[h].phase # "absent" => goal'[h].phase # "absent"
  BY <1>1, <1>2
<1>4. \A p \in Template \cup Parent : p \in GoalId /\ p # c /\ goal'[p] = goal[p]
  BY <1>2, GoalIdAssumption DEF GoalId
<1>5. \A d \in Child : d # c => goal'[d] = goal[d]
  BY <1>2 DEF GoalId
<1>6. ChildrenInv'
  <2>1. Born' \subseteq Born \cup {c} /\ IsFiniteSet(Born)
    BY <1>5 DEF Born, ChildrenInv
  <2>2. IsFiniteSet(Born')
    BY <2>1, OneMore
  <2>3. ASSUME NEW d \in Child
        PROVE  /\ goal'[d].parent # None => goal'[goal'[d].parent].phase # "absent"
               /\ goal'[d].slot <= clock'
               /\ daemon'.pc # "idle" => goal'[d].slot <= daemon'.now
    <3>1. CASE d = c
      <4>1. n.parent \in GoalId
        BY DEF GoalRow, GoalId
      <4>. QED
        BY <1>2, <1>3, <3>1, <4>1
    <3>2. CASE d # c
      <4>1. goal'[d] = goal[d] /\ goal[d] \in GoalRow
        BY <1>5, <3>2 DEF TypeInv, GoalId
      <4>2. goal[d].parent # None => goal[d].parent \in GoalId
        BY <4>1 DEF GoalRow, GoalId
      <4>. QED
        BY <1>3, <4>1, <4>2 DEF ChildrenInv
    <3>. QED
      BY <3>1, <3>2
  <2>. QED
    BY <2>2, <2>3 DEF ChildrenInv
<1>7. ASSUME NEW r \in Template, NEW s \in Nat
      PROVE  /\ Occurrences(r, s)' \subseteq Occurrences(r, s) \cup {c}
             /\ ~(r = n.parent /\ ~n.agent /\ s = n.slot)
                     => Occurrences(r, s)' \subseteq Occurrences(r, s)
  BY <1>2, <1>5 DEF Occurrences
<1>8. ASSUME NEW r \in Template
      PROVE  /\ Late(r)' \subseteq Late(r) \cup {c}
             /\ ~(r = n.parent /\ n.late) => Late(r)' \subseteq Late(r)
  BY <1>2, <1>5 DEF Late
<1>9. ASSUME NEW p \in Template \cup Parent
      PROVE  /\ Agents(p)' \subseteq ActiveChildren(p) \cup {c}
             /\ ~(p = n.parent /\ n.agent) => Agents(p)' \subseteq Agents(p)
  BY <1>2, <1>5 DEF Agents, ActiveChildren, Active
<1>. QED
  BY <1>2, <1>3, <1>4, <1>6, <1>7, <1>8, <1>9

\* The agent is counted in the step that creates it.
LEMMA SpawnCreateKeeps ==
  ASSUME GoalInv, NEW u \in Caller, NEW c \in Child, SpawnCreate(u, c), Admits(call[u].goal)
  PROVE  GoalInv'
<1>. USE DEF GoalInv
<1>1. call[u].op = "admit" /\ call[u] \in Call /\ clock \in Nat /\ goal[c] = Absent
  BY GoalTreeAssumption DEF SpawnCreate, At, TypeInv
<1>2. PICK p \in Template \cup Parent : p = call[u].goal
  BY <1>1 DEF CallInv, CallFits, OnParent
<1> DEFINE k == [call[u] EXCEPT !.op = "child_loop", !.goal = c]
<1>3. PICK n \in GoalRow :
        /\ n = [NewGoal EXCEPT !.parent = p, !.agent = TRUE]
        /\ n.phase = "running" /\ n.parent = p /\ n.agent /\ n.slot = 0 /\ ~n.late
  BY <1>1, AgentWritten
<1>4. k \in Call /\ k.op = "child_loop" /\ k.goal = c
  BY <1>1 DEF Call, GoalId
<1>5. goal' = [goal EXCEPT ![c] = n] /\ call' = [call EXCEPT ![u] = k]
  BY <1>2, <1>3 DEF SpawnCreate
<1>. HIDE DEF k
<1>6. daemon' = daemon /\ clock' = clock /\ used' = used
  BY DEF SpawnCreate
<1>7. p # None /\ p \in GoalId /\ goal[p].phase # "absent" /\ c \in GoalId
  BY <1>1, <1>2, GoalIdAssumption DEF GoalId, CallInv, CallFits
<1>8. n.slot <= clock /\ n.slot <= daemon.now
  BY <1>1, <1>3 DEF TypeInv
<1>9. /\ goal' \in [GoalId -> GoalRow]
      /\ \A h \in GoalId : goal'[h].phase = "absent" => goal'[h] = Absent
      /\ \A h \in GoalId : goal[h].phase # "absent" => goal'[h].phase # "absent"
      /\ goal'[c] = n /\ \A h \in GoalId : h # c => goal'[h] = goal[h]
      /\ \A q \in Template \cup Parent : goal'[q] = goal[q]
      /\ ChildrenInv'
      /\ \A r \in Template, s \in Nat : Occurrences(r, s)' \subseteq Occurrences(r, s)
      /\ \A r \in Template : Late(r)' \subseteq Late(r)
      /\ \A q \in Template \cup Parent :
            /\ Agents(q)' \subseteq ActiveChildren(q) \cup {c}
            /\ q # p => Agents(q)' \subseteq Agents(q)
  <2>1. n.parent # None /\ goal[n.parent].phase # "absent"
    BY <1>3, <1>7
  <2>2. daemon'.pc # "idle" => daemon.pc # "idle" /\ daemon'.now = daemon.now
                                 /\ n.slot <= daemon'.now
    BY <1>6, <1>8
  <2>3. /\ goal' \in [GoalId -> GoalRow]
        /\ \A h \in GoalId : goal'[h].phase = "absent" => goal'[h] = Absent
        /\ \A h \in GoalId : goal[h].phase # "absent" => goal'[h].phase # "absent"
        /\ goal'[c] = n /\ \A h \in GoalId : h # c => goal'[h] = goal[h]
        /\ \A q \in Template \cup Parent : q # c /\ goal'[q] = goal[q]
        /\ ChildrenInv'
        /\ \A r \in Template, s \in Nat :
              /\ Occurrences(r, s)' \subseteq Occurrences(r, s) \cup {c}
              /\ ~(r = n.parent /\ ~n.agent /\ s = n.slot)
                     => Occurrences(r, s)' \subseteq Occurrences(r, s)
        /\ \A r \in Template :
              /\ Late(r)' \subseteq Late(r) \cup {c}
              /\ ~(r = n.parent /\ n.late) => Late(r)' \subseteq Late(r)
        /\ \A q \in Template \cup Parent :
              /\ Agents(q)' \subseteq ActiveChildren(q) \cup {c}
              /\ ~(q = n.parent /\ n.agent) => Agents(q)' \subseteq Agents(q)
    <3>1. /\ goal[c] = Absent /\ goal' = [goal EXCEPT ![c] = n] /\ n.phase = "running"
          /\ n.slot <= clock /\ clock' = clock
      BY <1>1, <1>3, <1>5, <1>6, <1>8
    <3>. QED
      BY <2>1, <2>2, <3>1, ChildBorn
  <2>. QED
    BY <1>3, <2>3
<1>10. /\ call' \in [Caller -> Call] /\ call'[u] = k
       /\ \A v \in Caller : v # u => call'[v] = call[v]
  BY <1>4, <1>5, CallWrite
<1>11. TypeInv'
  BY <1>9, <1>10 DEF TypeInv, SpawnCreate
<1>12. CallInv'
  <2>1. CallFits(u)'
    BY <1>3, <1>4, <1>9, <1>10 DEF CallFits, OnTemplate, OnParent, Opening
  <2>2. ASSUME NEW v \in Caller, v # u, call[v].op = "create"
        PROVE  goal'[call[v].goal].phase = "absent"
    BY <1>9, <2>2 DEF CallInv, CallFits, OnTemplate, Opening
  <2>3. call'[u].op \notin Opening
    BY <1>4, <1>10 DEF Opening
  <2>. QED
    BY <1>9, <1>10, <2>1, <2>2, <2>3, CallsKept DEF TypeInv
<1>13. PassInv'
  <2>1. \A d \in daemon.due : d.id \in Template
    BY DEF TypeInv, Seen
  <2>. QED
    BY <1>6, <1>9, <2>1 DEF PassInv, NextRun
<1>14. \A r \in Template : Registering(r)' => Registering(r)
  BY <1>4, <1>10 DEF Registering
<1>15. Updaters' = Updaters
  BY <1>1, <1>4, <1>10 DEF Updaters
<1>16. \A r \in Template, s \in Nat : ReadBy(r, s)' = ReadBy(r, s)
  BY <1>1, <1>4, <1>10, <1>15 DEF ReadBy, Updaters
<1>17. \A r \in Template, s \in Nat : Pending(r, s)' => Pending(r, s)
  BY <1>6, <1>9, <1>14 DEF Pending, Live, Active, InHand, Overwritten
<1>18. used["updates"] \in Nat /\ used["crashes"] \in Nat /\ used["revivals"] \in Nat
  BY DEF TypeInv, Kinds
<1>19. RunsInv'
  <2>1. ASSUME NEW r \in Template, NEW s \in Nat
        PROVE  RunsAreFew(r, s)'
    BY <1>6, <1>9, <1>11, <1>16, <1>17, <1>18, RunsStayFew
  <2>. QED
    BY <1>6, <1>15, <2>1 DEF RunsInv
<1>20. BlockedInv'
  <2> SUFFICES ASSUME NEW r \in Template, Registering(r)'
               PROVE  /\ Active(r)' => goal'[r].next # 0
                      /\ ReadBy(r, 0)' = {} /\ Occurrences(r, 0)' = {}
                      /\ \A d \in daemon'.due : d.id = r => d.next # 0
    BY DEF BlockedInv
  <2>1. /\ Active(r) => goal[r].next # 0
        /\ ReadBy(r, 0) = {} /\ Occurrences(r, 0) = {}
        /\ \A d \in daemon.due : d.id = r => d.next # 0
    BY <1>14 DEF BlockedInv
  <2>2. Occurrences(r, 0)' \subseteq Occurrences(r, 0)
    BY <1>9
  <2>. QED
    BY <1>6, <1>9, <1>16, <2>1, <2>2 DEF Active
<1>21. LateInv'
  <2>1. ASSUME NEW r \in Template
        PROVE  LateAreFew(r)'
    <3>1. goal'[r] = goal[r]
      BY <1>9
    <3>. QED
      BY <1>6, <1>9, <1>11, <1>18, <3>1, LateStayFew DEF Active, InHand
  <2>. QED
    BY <2>1 DEF LateInv
<1>22. AgentsInv'
  <2> SUFFICES ASSUME NEW q \in Template \cup Parent
               PROVE  Cardinality(Agents(q)') <= MaxChildren
    BY DEF AgentsInv
  <2>1. /\ IsFiniteSet(ActiveChildren(q)) /\ IsFiniteSet(Agents(q))
        /\ Cardinality(Agents(q)) <= MaxChildren /\ MaxChildren \in Nat
    BY CountsAreFinite, GoalTreeAssumption DEF ChildrenInv, RunsInv, AgentsInv
  <2>2. CASE q = p
    <3>1. Cardinality(ActiveChildren(q)) < MaxChildren
      BY <1>2, <2>2 DEF Admits
    <3>2. /\ Cardinality(Agents(q)') <= Cardinality(ActiveChildren(q)) + 1
          /\ Cardinality(Agents(q)') \in Nat /\ Cardinality(ActiveChildren(q)) \in Nat
      BY <1>9, <2>1, OneMore
    <3>. QED
      BY <2>1, <3>1, <3>2
  <2>3. CASE q # p
    BY <1>9, <2>1, <2>3, Fewer
  <2>. QED
    BY <2>2, <2>3
<1>. QED
  BY <1>9, <1>11, <1>12, <1>13, <1>19, <1>20, <1>21, <1>22

\* Whoever is registering has met nothing of a blocked schedule; kept by a
\* step in which no run of slot 0 appears.
LEMMA BlockedKept ==
  ASSUME BlockedInv,
         \A r \in Template : Registering(r)' => Registering(r),
         \A r \in Template : Registering(r)' /\ Active(r)' =>
             goal'[r].next # 0 \/ (Active(r) /\ goal'[r].next = goal[r].next),
         \A r \in Template : ReadBy(r, 0)' \subseteq ReadBy(r, 0),
         \A r \in Template : Registering(r) => Occurrences(r, 0)' \subseteq Occurrences(r, 0),
         \A d \in daemon'.due : d \in daemon.due \/ (Active(d.id) /\ d.next = goal[d.id].next)
  PROVE  BlockedInv'
<1> SUFFICES ASSUME NEW r \in Template, Registering(r)'
             PROVE  /\ Active(r)' => goal'[r].next # 0
                    /\ ReadBy(r, 0)' = {} /\ Occurrences(r, 0)' = {}
                    /\ \A d \in daemon'.due : d.id = r => d.next # 0
  BY DEF BlockedInv
<1>1. /\ Active(r) => goal[r].next # 0
      /\ ReadBy(r, 0) = {} /\ Occurrences(r, 0) = {}
      /\ \A d \in daemon.due : d.id = r => d.next # 0
      /\ Registering(r)
  BY DEF BlockedInv
<1>2. ReadBy(r, 0)' = {} /\ Occurrences(r, 0)' = {}
  BY <1>1
<1>3. Active(r)' => goal'[r].next # 0
  BY <1>1
<1>4. \A d \in daemon'.due : d.id = r => d.next # 0
  BY <1>1
<1>. QED
  BY <1>2, <1>3, <1>4

-----------------------------------------------------------------------------
(* The daemon's pass.                                                       *)

\* The daemon opens the run it has in hand, and from then on is about to
\* overwrite it in the row.
LEMMA OpenOccurrenceKeeps ==
  ASSUME GoalInv, NEW d \in daemon.due, NEW c \in Child, OpenOccurrence(d, c)
  PROVE  GoalInv'
<1>. USE DEF GoalInv
<1>1. PICK t \in Template, s \in Nat : t = d.id /\ s = d.next
  BY DEF TypeInv, Seen
<1>2. /\ daemon.pc = "next" /\ goal[c] = Absent /\ clock \in Nat /\ daemon.now \in Nat
      /\ NextRun(d) # NoRun
  BY GoalTreeAssumption DEF OpenOccurrence, TypeInv
<1>3. PICK b \in BOOLEAN : b = ~Active(t)
  BY DEF Active
<1>4. PICK n \in GoalRow :
        /\ n = [NewGoal EXCEPT !.parent = t, !.loop = "active", !.slot = s, !.late = b]
        /\ n.phase = "running" /\ n.parent = t /\ ~n.agent /\ n.slot = s /\ n.late = b
  <2>1. NewGoal \in GoalRow /\ NewGoal.phase = "running" /\ NewGoal.agent = FALSE
    BY <1>2 DEF NewGoal, Absent, GoalRow
  <2> DEFINE m == [NewGoal EXCEPT !.parent = t, !.loop = "active", !.slot = s, !.late = b]
  <2>2. /\ m \in GoalRow
        /\ m.phase = "running" /\ m.parent = t /\ ~m.agent /\ m.slot = s /\ m.late = b
    BY <2>1 DEF GoalRow
  <2>. QED
    BY <2>2
<1>5. goal' = [goal EXCEPT ![c] = n]
  BY <1>1, <1>3, <1>4 DEF OpenOccurrence
<1>6. /\ clock' = clock /\ used' = used /\ call' = call
      /\ daemon' = [daemon EXCEPT !.pc = "advance", !.held = d]
  BY DEF OpenOccurrence
<1>7. /\ daemon'.pc = "advance" /\ daemon'.held = d
      /\ daemon'.due = daemon.due /\ daemon'.now = daemon.now
  BY <1>6 DEF TypeInv
<1>8. /\ t # None /\ t \in GoalId /\ goal[t].phase # "absent" /\ c \in GoalId
      /\ s <= daemon.now /\ s <= clock
      /\ \A e \in daemon.due : e.id = t => e = d
  BY <1>1, <1>2, GoalIdAssumption DEF GoalId, PassInv
<1>9. /\ goal' \in [GoalId -> GoalRow]
      /\ \A h \in GoalId : goal'[h].phase = "absent" => goal'[h] = Absent
      /\ \A h \in GoalId : goal[h].phase # "absent" => goal'[h].phase # "absent"
      /\ goal'[c] = n /\ \A h \in GoalId : h # c => goal'[h] = goal[h]
      /\ \A q \in Template \cup Parent : goal'[q] = goal[q]
      /\ ChildrenInv'
      /\ \A r \in Template, i \in Nat :
            /\ Occurrences(r, i)' \subseteq Occurrences(r, i) \cup {c}
            /\ ~(r = t /\ i = s) => Occurrences(r, i)' \subseteq Occurrences(r, i)
      /\ \A r \in Template :
            /\ Late(r)' \subseteq Late(r) \cup {c}
            /\ ~(r = t /\ b) => Late(r)' \subseteq Late(r)
      /\ \A q \in Template \cup Parent : Agents(q)' \subseteq Agents(q)
  <2>1. n.parent # None /\ goal[n.parent].phase # "absent"
    BY <1>4, <1>8
  <2>2. daemon'.pc # "idle" => daemon.pc # "idle" /\ daemon'.now = daemon.now
                                 /\ n.slot <= daemon'.now
    BY <1>2, <1>4, <1>7, <1>8
  <2>3. /\ goal[c] = Absent /\ goal' = [goal EXCEPT ![c] = n] /\ n.phase = "running"
        /\ n.slot <= clock /\ clock' = clock
    BY <1>2, <1>4, <1>5, <1>6, <1>8
  <2>4. /\ goal' \in [GoalId -> GoalRow]
        /\ \A h \in GoalId : goal'[h].phase = "absent" => goal'[h] = Absent
        /\ \A h \in GoalId : goal[h].phase # "absent" => goal'[h].phase # "absent"
        /\ goal'[c] = n /\ \A h \in GoalId : h # c => goal'[h] = goal[h]
        /\ \A q \in Template \cup Parent : q # c /\ goal'[q] = goal[q]
        /\ ChildrenInv'
        /\ \A r \in Template, i \in Nat :
              /\ Occurrences(r, i)' \subseteq Occurrences(r, i) \cup {c}
              /\ ~(r = n.parent /\ ~n.agent /\ i = n.slot)
                     => Occurrences(r, i)' \subseteq Occurrences(r, i)
        /\ \A r \in Template :
              /\ Late(r)' \subseteq Late(r) \cup {c}
              /\ ~(r = n.parent /\ n.late) => Late(r)' \subseteq Late(r)
        /\ \A q \in Template \cup Parent :
              /\ Agents(q)' \subseteq ActiveChildren(q) \cup {c}
              /\ ~(q = n.parent /\ n.agent) => Agents(q)' \subseteq Agents(q)
    BY <2>1, <2>2, <2>3, ChildBorn
  <2>. QED
    BY <1>4, <2>4
<1>10. TypeInv'
  <2>1. daemon' \in [pc : {"idle", "next", "advance"}, now : Nat, due : SUBSET Seen,
                     held : Seen \cup {None}]
    BY <1>6 DEF TypeInv
  <2>. QED
    BY <1>6, <1>9, <2>1 DEF TypeInv, OpenOccurrence
<1>11. CallInv'
  <2>1. OneOpens'
    BY <1>6 DEF CallInv, OneOpens
  <2>2. ASSUME NEW v \in Caller
        PROVE  CallFits(v)'
    <3>1. call'[v] = call[v] /\ CallFits(v) /\ call[v] \in Call
      BY <1>6 DEF CallInv, TypeInv
    <3>2. call[v].op # "idle" => call[v].goal \in GoalId
      BY <3>1 DEF CallFits, Call, GoalId, OnTemplate, OnParent
    <3>3. call[v].op = "create" => call[v].goal \in Template
      BY <3>1 DEF CallFits, OnTemplate, Opening
    <3>. QED
      BY <1>9, <3>1, <3>2, <3>3 DEF CallFits
  <2>. QED
    BY <2>1, <2>2 DEF CallInv
<1>12. PassInv'
  <2>1. \A e \in daemon.due : e.id \in Template
    BY DEF TypeInv, Seen
  <2>. QED
    BY <1>2, <1>6, <1>7, <1>9, <2>1 DEF PassInv, NextRun
<1>13. \A r \in Template : goal'[r] = goal[r] /\ (Registering(r)' <=> Registering(r))
  BY <1>6, <1>9 DEF Registering
<1>14. \A r \in Template : Active(r)' <=> Active(r)
  BY <1>13 DEF Active
<1>15. Updaters' = Updaters /\ \A r \in Template, i \in Nat : ReadBy(r, i)' = ReadBy(r, i)
  BY <1>6 DEF Updaters, ReadBy
<1>16. InHand(t)' = {} /\ d \in InHand(t) /\ Overwritten(t)'
  BY <1>1, <1>2, <1>7, <1>8 DEF InHand, Overwritten
<1>17. \A r \in Template : r # t => InHand(r)' = InHand(r) /\ ~Overwritten(r)' /\ ~Overwritten(r)
  BY <1>1, <1>2, <1>7 DEF InHand, Overwritten
<1>18. /\ \A i \in Nat : ~Pending(t, i)'
       /\ Pending(t, s)
       /\ \A r \in Template, i \in Nat : r # t => (Pending(r, i)' => Pending(r, i))
  BY <1>1, <1>13, <1>14, <1>16, <1>17 DEF Pending, Live
<1>19. used["updates"] \in Nat /\ used["crashes"] \in Nat /\ used["revivals"] \in Nat
  BY DEF TypeInv, Kinds
<1>20. RunsInv'
  <2>1. RunsAreFew(t, s)'
    <3>1. /\ IsFiniteSet(Occurrences(t, s)) /\ Cardinality(ReadBy(t, s)) \in Nat
      BY CountsAreFinite DEF ChildrenInv, RunsInv
    <3>2. /\ Cardinality(Occurrences(t, s)') <= Cardinality(Occurrences(t, s)) + 1
          /\ Cardinality(Occurrences(t, s)') \in Nat /\ Cardinality(Occurrences(t, s)) \in Nat
      <4>1. Occurrences(t, s)' \subseteq Occurrences(t, s) \cup {c}
        BY <1>9
      <4>. QED
        BY <3>1, <4>1, OneMore
    <3>3. One(Pending(t, s)') = 0 /\ One(Pending(t, s)) = 1
      BY <1>18 DEF One
    <3>4. RunsAreFew(t, s) /\ ReadBy(t, s)' = ReadBy(t, s)
      BY <1>15 DEF RunsInv
    <3>. QED
      BY <1>6, <1>19, <3>1, <3>2, <3>3, <3>4 DEF RunsAreFew
  <2>2. ASSUME NEW r \in Template, NEW i \in Nat, ~(r = t /\ i = s)
        PROVE  RunsAreFew(r, i)'
    <3>1. Pending(r, i)' => Pending(r, i)
      BY <1>18
    <3>2. Occurrences(r, i)' \subseteq Occurrences(r, i)
      BY <1>9, <2>2
    <3>. QED
      BY <1>6, <1>10, <1>15, <1>19, <3>1, <3>2, RunsStayFew
  <2>. QED
    BY <1>6, <1>15, <2>1, <2>2 DEF RunsInv
<1>21. BlockedInv'
  <2>1. ASSUME NEW r \in Template, Registering(r)
        PROVE  Occurrences(r, 0)' \subseteq Occurrences(r, 0)
    <3>1. r = t => s # 0
      BY <1>1, <2>1 DEF BlockedInv
    <3>. QED
      BY <1>9, <3>1
  <2>. QED
    BY <1>7, <1>13, <1>14, <1>15, <2>1, BlockedKept
<1>22. LateInv'
  <2>1. LateAreFew(t)'
    <3>1. LateAreFew(t) /\ IsFiniteSet(Late(t)) /\ InHand(t) # {}
      BY <1>16, CountsAreFinite DEF LateInv, ChildrenInv, RunsInv
    <3>2. CASE b
      <4>1. /\ Cardinality(Late(t)') <= Cardinality(Late(t)) + 1
            /\ Cardinality(Late(t)') \in Nat /\ Cardinality(Late(t)) \in Nat
        BY <1>9, <3>1, OneMore
      <4>2. ~Active(t)' /\ InHand(t)' = {}
        BY <1>3, <1>14, <1>16, <3>2
      <4>. QED
        BY <1>6, <1>19, <3>1, <4>1, <4>2 DEF LateAreFew, One
    <3>3. CASE ~b
      BY <1>6, <1>9, <1>10, <1>14, <1>16, <1>19, <3>3, LateStayFew
    <3>. QED
      BY <3>2, <3>3
  <2>2. ASSUME NEW r \in Template, r # t
        PROVE  LateAreFew(r)'
    BY <1>6, <1>9, <1>10, <1>14, <1>17, <1>19, <2>2, LateStayFew
  <2>. QED
    BY <2>1, <2>2 DEF LateInv
<1>23. AgentsInv'
  <2> SUFFICES ASSUME NEW q \in Template \cup Parent
               PROVE  Cardinality(Agents(q)') <= MaxChildren
    BY DEF AgentsInv
  <2>1. IsFiniteSet(Agents(q)) /\ Cardinality(Agents(q)) <= MaxChildren /\ MaxChildren \in Nat
    BY CountsAreFinite, GoalTreeAssumption DEF ChildrenInv, RunsInv, AgentsInv
  <2>. QED
    BY <1>9, <2>1, Fewer
<1>. QED
  BY <1>9, <1>10, <1>11, <1>12, <1>20, <1>21, <1>22, <1>23

\* The scan reads the runs of active templates, which the rows had in hand.
LEMMA DaemonScanKeeps ==
  ASSUME GoalInv, DaemonScan
  PROVE  GoalInv'
<1>. USE DEF GoalInv
<1> DEFINE read == {[id |-> t, cron |-> goal[t].cron, next |-> goal[t].next] : t \in Due}
<1>1. /\ daemon.pc = "idle" /\ daemon.due = {} /\ clock \in Nat
      /\ daemon' = [daemon EXCEPT !.pc = "next", !.now = clock, !.due = read]
  BY GoalTreeAssumption DEF DaemonScan, PassInv, TypeInv
<1>2. /\ goal' = goal /\ call' = call /\ used' = used /\ clock' = clock
      /\ log' = log /\ summed' = summed /\ keeper' = keeper
  BY DEF DaemonScan
<1>3. \A e \in read : /\ e \in Seen /\ e.id \in Template /\ Active(e.id)
                      /\ e = [id |-> e.id, cron |-> goal[e.id].cron, next |-> goal[e.id].next]
                      /\ e.next = goal[e.id].next /\ e.next <= clock
  BY DEF Due, TypeInv, GoalRow, GoalId, Seen
<1>. HIDE DEF read
<1>4. /\ daemon' \in [pc : {"idle", "next", "advance"}, now : Nat, due : SUBSET Seen,
                      held : Seen \cup {None}]
      /\ daemon'.pc = "next" /\ daemon'.now = clock /\ daemon'.due = read
  BY <1>1, <1>3 DEF TypeInv
<1>5. TypeInv'
  BY <1>2, <1>4 DEF TypeInv
<1>6. CallInv'
  BY <1>2, CallSame DEF TypeInv
<1>7. ChildrenInv'
  BY <1>2, <1>4 DEF ChildrenInv, Born
<1>8. PassInv'
  <2>1. \A e \in read : goal[e.id].phase # "absent"
    BY <1>3 DEF Active
  <2>2. \A e, f \in read : e.id = f.id => e = f
    BY <1>3
  <2>. QED
    BY <1>1, <1>2, <1>3, <1>4, <2>1, <2>2 DEF PassInv
<1>9. \A t \in Template : /\ Registering(t)' <=> Registering(t)
                          /\ Active(t)' <=> Active(t)
                          /\ Late(t)' = Late(t)
                          /\ InHand(t)' # {} => Active(t)
  BY <1>2, <1>3, <1>4 DEF Registering, Active, Late, InHand
<1>10. /\ Updaters' = Updaters
       /\ \A t \in Template, s \in Nat :
             ReadBy(t, s)' = ReadBy(t, s) /\ Occurrences(t, s)' = Occurrences(t, s)
  BY <1>2 DEF Updaters, ReadBy, Occurrences
<1>11. ASSUME NEW t \in Template, NEW s \in Nat, Pending(t, s)'
       PROVE  Pending(t, s)
  <2>1. CASE Live(t)' /\ goal'[t].next = s
    BY <1>1, <1>2, <1>9, <2>1 DEF Pending, Live, Overwritten
  <2>2. CASE \E d \in InHand(t)' : d.next = s
    <3>1. Active(t) /\ goal[t].next = s
      BY <1>3, <1>4, <2>2 DEF InHand
    <3>. QED
      BY <1>1, <3>1 DEF Pending, Live, Overwritten
  <2>. QED
    BY <1>11, <2>1, <2>2 DEF Pending
<1>12. used["updates"] \in Nat /\ used["crashes"] \in Nat /\ used["revivals"] \in Nat
  BY DEF TypeInv, Kinds
<1>13. RunsInv'
  <2>1. ASSUME NEW t \in Template, NEW s \in Nat
        PROVE  RunsAreFew(t, s)'
    BY <1>2, <1>5, <1>10, <1>11, <1>12, RunsStayFew
  <2>. QED
    BY <1>2, <1>10, <2>1 DEF RunsInv
<1>14. BlockedInv'
  BY <1>2, <1>3, <1>4, <1>9, <1>10, BlockedKept
<1>15. LateInv'
  <2>1. ASSUME NEW t \in Template
        PROVE  LateAreFew(t)'
    BY <1>2, <1>5, <1>9, <1>12, LateStayFew
  <2>. QED
    BY <2>1 DEF LateInv
<1>16. AgentsInv'
  BY <1>2 DEF AgentsInv, Agents, ActiveChildren, Active
<1>. QED
  BY <1>5, <1>6, <1>7, <1>8, <1>13, <1>14, <1>15, <1>16

\* The daemon is through with a row it had read.
LEMMA PassesOn ==
  ASSUME TypeInv, PassInv, NEW d \in daemon.due, PassOn(d), daemon.pc # "idle",
         daemon.pc = "advance" => daemon.held = d
  PROVE  /\ daemon' \in [pc : {"idle", "next", "advance"}, now : Nat, due : SUBSET Seen,
                         held : Seen \cup {None}]
         /\ daemon'.pc # "advance" /\ (daemon'.pc = "idle" => daemon'.due = {})
         /\ daemon'.pc # "idle" => daemon'.now = daemon.now
         /\ daemon'.now <= daemon.now
         /\ daemon'.due \subseteq daemon.due
         /\ \A t \in Template : ~Overwritten(t)'
         /\ InHand(d.id)' = {}
         /\ \A t \in Template : t # d.id => InHand(t)' = InHand(t) /\ ~Overwritten(t)
<1> DEFINE rest == daemon.due \ {d}
<1>1. rest \subseteq daemon.due /\ daemon.due \subseteq Seen /\ d \in Seen /\ daemon.now \in Nat
  BY DEF TypeInv
<1>2. CASE rest = {} /\ daemon' = NoPass
  <2>1. /\ daemon'.pc = "idle" /\ daemon'.due = {} /\ daemon'.now = 0 /\ daemon'.held = None
        /\ daemon' \in [pc : {"idle", "next", "advance"}, now : Nat, due : SUBSET Seen,
                        held : Seen \cup {None}]
    BY <1>2 DEF NoPass
  <2>2. \A t \in Template : InHand(t)' = {} /\ ~Overwritten(t)'
    BY <2>1 DEF InHand, Overwritten
  <2>3. \A t \in Template : t # d.id => InHand(t) = {} /\ ~Overwritten(t)
    BY <1>2 DEF InHand, Overwritten
  <2>4. d.id \in Template
    BY <1>1 DEF Seen
  <2>. QED
    BY <1>1, <2>1, <2>2, <2>3, <2>4
<1>3. CASE rest # {} /\ daemon' = [daemon EXCEPT !.due = rest, !.held = None, !.pc = "next"]
  <2>1. /\ daemon'.pc = "next" /\ daemon'.due = rest /\ daemon'.now = daemon.now
        /\ daemon' \in [pc : {"idle", "next", "advance"}, now : Nat, due : SUBSET Seen,
                        held : Seen \cup {None}]
    BY <1>1, <1>3 DEF TypeInv
  <2>2. \A t \in Template : ~Overwritten(t)'
    BY <2>1 DEF Overwritten
  <2>3. InHand(d.id)' = {}
    BY <2>1 DEF InHand, PassInv
  <2>4. \A t \in Template : t # d.id => InHand(t)' = InHand(t) /\ ~Overwritten(t)
    BY <2>1 DEF InHand, Overwritten
  <2>. QED
    BY <1>1, <2>1, <2>2, <2>3, <2>4
<1>. QED
  BY <1>2, <1>3 DEF PassOn

\* The row of a template the daemon is through with, with a new next run.
RowPasses(d, t, n) ==
    /\ PassOn(d) /\ daemon.pc # "idle" /\ (daemon.pc = "advance" => daemon.held = d)
    /\ t = d.id /\ goal' = [goal EXCEPT ![t] = n]
    /\ SameBirth(n, goal[t]) /\ n.phase # "absent" /\ (n.phase = "running" => Active(t))
    /\ log' \in [GoalId -> SUBSET EventRow]
    /\ used' \in [Kinds -> Nat]
    /\ \A kind \in Kinds : used[kind] <= used'[kind]
    /\ UNCHANGED <<clock, summed, call, keeper>>

OnlyRowMoved(t, n) ==
    /\ TypeInv' /\ CallInv' /\ ChildrenInv' /\ PassInv' /\ LateInv' /\ AgentsInv'
    /\ goal'[t] = n
    /\ \A r \in Template : r # t => goal'[r] = goal[r]
    /\ Updaters' = Updaters
    /\ \A r \in Template : Registering(r)' <=> Registering(r)
    /\ \A r \in Template, s \in Nat :
          /\ ReadBy(r, s)' = ReadBy(r, s)
          /\ Occurrences(r, s)' = Occurrences(r, s)
          /\ r # t => RunsAreFew(r, s)'
    /\ \A s \in Nat : Pending(t, s)' => Live(t)' /\ goal'[t].next = s
    /\ daemon'.due \subseteq daemon.due

LEMMA RowPassed ==
  ASSUME GoalInv, NEW d \in daemon.due, NEW t \in Template, NEW n \in GoalRow,
         RowPasses(d, t, n)
  PROVE  OnlyRowMoved(t, n)
<1>. USE DEF GoalInv, RowPasses
<1>1. t \in GoalId /\ t \notin Child /\ goal[t].phase # "absent"
  BY GoalIdAssumption DEF GoalId, PassInv
<1>2. /\ goal' \in [GoalId -> GoalRow]
      /\ \A h \in GoalId : goal'[h].phase = "absent" => goal'[h] = Absent
      /\ goal'[t] = n /\ \A h \in GoalId : h # t => goal'[h] = goal[h]
  BY <1>1, RowWrite
<1>3. /\ daemon' \in [pc : {"idle", "next", "advance"}, now : Nat, due : SUBSET Seen,
                      held : Seen \cup {None}]
      /\ daemon'.pc # "advance" /\ (daemon'.pc = "idle" => daemon'.due = {})
      /\ daemon'.pc # "idle" => daemon'.now = daemon.now
      /\ daemon'.now <= daemon.now
      /\ daemon'.due \subseteq daemon.due
      /\ \A r \in Template : ~Overwritten(r)'
      /\ InHand(t)' = {}
      /\ \A r \in Template : r # t => InHand(r)' = InHand(r) /\ ~Overwritten(r)
  BY PassesOn
<1>4. TypeInv'
  BY <1>2, <1>3 DEF TypeInv
<1>5. RowsSurvive /\ clock <= clock'
  BY <1>1, <1>2, GoalTreeAssumption DEF RowsSurvive, SameBirth, TypeInv
<1>6. CallInv'
  BY <1>5, CallSame DEF RowsSurvive, TypeInv
<1>7. ChildrenInv'
  BY <1>3, <1>4, <1>5, BirthsKept
<1>8. PassInv'
  <2>1. daemon'.now <= clock'
    BY <1>3, GoalTreeAssumption DEF TypeInv, PassInv
  <2>2. \A e \in daemon'.due : /\ e.id \in GoalId /\ goal'[e.id].phase # "absent"
                               /\ e.next <= daemon'.now
                               /\ \A f \in daemon'.due : f.id = e.id => f = e
    BY <1>3, <1>5 DEF PassInv, RowsSurvive, TypeInv, Seen, GoalId
  <2>. QED
    BY <1>3, <2>1, <2>2 DEF PassInv
<1>9. \A c \in Child : goal'[c] = goal[c]
  BY <1>1, <1>2 DEF GoalId
<1>10. \A r \in Template : r # t => goal'[r] = goal[r]
  BY <1>2 DEF GoalId
<1>11. /\ Updaters' = Updaters /\ \A r \in Template : Registering(r)' <=> Registering(r)
       /\ \A r \in Template, s \in Nat :
             ReadBy(r, s)' = ReadBy(r, s) /\ Occurrences(r, s)' = Occurrences(r, s)
  BY <1>9 DEF Updaters, Registering, ReadBy, Occurrences
<1>12. \A s \in Nat : Pending(t, s)' => Live(t)' /\ goal'[t].next = s
  BY <1>3 DEF Pending
<1>13. \A r \in Template, s \in Nat : r # t => (Pending(r, s)' => Pending(r, s))
  BY <1>3, <1>10, <1>11 DEF Pending, Live, Active
<1>14. /\ used["crashes"] <= used'["crashes"] /\ used["updates"] <= used'["updates"]
       /\ used["revivals"] <= used'["revivals"]
  BY DEF Kinds
<1>15. ASSUME NEW r \in Template, NEW s \in Nat, r # t
       PROVE  RunsAreFew(r, s)'
  BY <1>4, <1>11, <1>13, <1>14, <1>15, RunsStayFew
<1>16. LateInv'
  <2>1. ASSUME NEW r \in Template
        PROVE  LateAreFew(r)'
    <3>1. Late(r)' = Late(r)
      BY <1>9 DEF Late
    <3>2. Active(r)' => Active(r)
      BY <1>2, <1>10 DEF Active
    <3>3. InHand(r)' # {} => InHand(r) # {}
      BY <1>3
    <3>. QED
      BY <1>4, <1>14, <3>1, <3>2, <3>3, LateStayFew
  <2>. QED
    BY <2>1 DEF LateInv
<1>17. AgentsInv'
  BY <1>9 DEF AgentsInv, Agents, ActiveChildren, Active
<1>. QED
  BY <1>2, <1>3, <1>4, <1>6, <1>7, <1>8, <1>10, <1>11, <1>12, <1>15, <1>16, <1>17
     DEF OnlyRowMoved

LEMMA BlockScheduleKeeps ==
  ASSUME GoalInv, NEW d \in daemon.due, BlockSchedule(d)
  PROVE  GoalInv'
<1>. USE DEF GoalInv
<1>1. PICK t \in Template, i \in Nat : t = d.id /\ i = d.next
  BY DEF TypeInv, Seen
<1>2. goal[t] \in GoalRow /\ t \in GoalId /\ daemon.pc = "next" /\ PassOn(d)
  BY DEF TypeInv, GoalId, BlockSchedule
<1>3. PICK n \in GoalRow :
        /\ n = [goal[t] EXCEPT !.phase = "ended", !.resolution = "blocked", !.next = 0]
        /\ SameBirth(n, goal[t]) /\ n.phase = "ended" /\ n.next = 0
  BY <1>2, BlockWritten
<1>4. goal' = [goal EXCEPT ![t] = n]
  BY <1>1, <1>3 DEF BlockSchedule, Blocked
<1>5. Event("blocked", i) \in EventRow
  BY EventsAreRows
<1>6. log' \in [GoalId -> SUBSET EventRow]
  BY <1>1, <1>2, <1>5 DEF BlockSchedule, Append1, TypeInv
<1>7. /\ used' = used /\ used' \in [Kinds -> Nat]
      /\ \A kind \in Kinds : used[kind] <= used'[kind]
      /\ UNCHANGED <<clock, summed, call, keeper>>
  <2>1. UNCHANGED <<clock, summed, call, keeper, used>>
    BY DEF BlockSchedule
  <2>. QED
    BY <2>1, NothingSpent DEF TypeInv
<1>8. n.phase # "absent" /\ (n.phase = "running" => Active(t))
  BY <1>3
<1>9. OnlyRowMoved(t, n)
  <2>1. RowPasses(d, t, n)
    BY <1>1, <1>2, <1>3, <1>4, <1>6, <1>7, <1>8 DEF RowPasses
  <2>. HIDE DEF GoalInv
  <2>. QED
    BY <2>1, RowPassed
<1>. USE DEF OnlyRowMoved
<1>10. ~Active(t)' /\ goal'[t].next = 0
  BY <1>3, <1>9 DEF Active
<1>11. used["updates"] \in Nat /\ used["crashes"] \in Nat
  BY DEF TypeInv, Kinds
<1>12. ASSUME NEW s \in Nat
       PROVE  RunsAreFew(t, s)'
  <2>1. CASE Pending(t, s)'
    <3>1. s = 0 /\ Registering(t)
      BY <1>9, <1>10, <2>1 DEF Live
    <3>2. Occurrences(t, s)' = {} /\ ReadBy(t, s)' = {}
      BY <1>9, <3>1 DEF BlockedInv
    <3>3. Cardinality({}) = 0 /\ One(Pending(t, s)') \in {0, 1}
      BY FS_EmptySet DEF One
    <3>. QED
      BY <1>7, <1>11, <3>2, <3>3 DEF RunsAreFew
  <2>2. CASE ~Pending(t, s)'
    BY <1>7, <1>9, <1>11, <2>2, RunsStayFew
  <2>. QED
    BY <2>1, <2>2
<1>13. RunsInv'
  BY <1>7, <1>9, <1>12 DEF RunsInv
<1>14. BlockedInv'
  <2>1. \A r \in Template : Registering(r)' /\ Active(r)' =>
            goal'[r].next # 0 \/ (Active(r) /\ goal'[r].next = goal[r].next)
    BY <1>9, <1>10 DEF Active
  <2>. QED
    BY <1>9, <2>1, BlockedKept
<1>. QED
  BY <1>9, <1>13, <1>14

\* The row gets a run nobody has met: it is later than every run the daemon
\* has ever had in hand.
LEMMA AdvanceKeeps ==
  ASSUME GoalInv, NEW d \in daemon.due, PassOn(d), daemon.pc # "idle",
         daemon.pc = "advance" => daemon.held = d,
         NextRun(d) # NoRun, Advanced(d.id, NextRun(d)), used' \in [Kinds -> Nat],
         \A kind \in Kinds : used[kind] <= used'[kind],
         UNCHANGED <<clock, log, summed, call, keeper>>
  PROVE  GoalInv'
<1>. USE DEF GoalInv
<1>1. PICK t \in Template : t = d.id
  BY DEF TypeInv, Seen
<1>2. PICK i \in Nat : i = NextRun(d) /\ i > daemon.now
  BY NextRunIsLater DEF TypeInv, NextRun
<1>3. goal[t] \in GoalRow /\ t \in GoalId /\ goal[t].phase # "absent" /\ daemon.now \in Nat
  BY <1>1 DEF TypeInv, GoalId, PassInv
<1>4. PICK n \in GoalRow :
        /\ n = [goal[t] EXCEPT !.next = i]
        /\ SameBirth(n, goal[t]) /\ n.phase = goal[t].phase /\ n.next = i
  BY <1>3, NextWritten, ZenonT(40)
<1>5. goal' = [goal EXCEPT ![t] = n]
  BY <1>1, <1>2, <1>4 DEF Advanced, TypeInv
<1>6. n.phase # "absent" /\ (n.phase = "running" => Active(t)) /\ SameBirth(n, goal[t])
  BY <1>3, <1>4 DEF Active
<1>7. log' \in [GoalId -> SUBSET EventRow]
  BY DEF TypeInv
<1>8. OnlyRowMoved(t, n)
  <2>1. RowPasses(d, t, n)
    BY <1>1, <1>5, <1>6, <1>7 DEF RowPasses
  <2>. HIDE DEF GoalInv
  <2>. QED
    BY <2>1, RowPassed
<1>. USE DEF OnlyRowMoved
<1>9. /\ used["updates"] \in Nat /\ used["crashes"] \in Nat
      /\ used'["updates"] \in Nat /\ used'["crashes"] \in Nat
      /\ used["updates"] <= used'["updates"] /\ used["crashes"] <= used'["crashes"]
  BY DEF TypeInv, Kinds
<1>10. /\ IsFiniteSet(Updaters) /\ Cardinality(Updaters) <= used["updates"]
       /\ Cardinality(Updaters) \in Nat
  BY FS_CardinalityType DEF RunsInv
<1>11. ASSUME NEW s \in Nat
       PROVE  RunsAreFew(t, s)'
  <2>1. CASE Pending(t, s)'
    <3>1. s = i
      BY <1>4, <1>8, <2>1
    <3>2. \A c \in Child : goal[c].slot <= daemon.now /\ goal[c].slot \in Nat
      BY DEF ChildrenInv, TypeInv, GoalRow, GoalId
    <3>3. Occurrences(t, s)' = {}
      BY <1>2, <1>3, <1>8, <3>1, <3>2 DEF Occurrences
    <3>4. /\ Cardinality(ReadBy(t, s)) <= Cardinality(Updaters)
          /\ Cardinality(ReadBy(t, s)) \in Nat
      BY <1>10, Fewer DEF ReadBy
    <3>5. Cardinality({}) = 0 /\ One(Pending(t, s)') \in {0, 1}
      BY FS_EmptySet DEF One
    <3>6. ReadBy(t, s)' = ReadBy(t, s)
      BY <1>8
    <3>. QED
      BY <1>9, <1>10, <3>3, <3>4, <3>5, <3>6 DEF RunsAreFew
  <2>2. CASE ~Pending(t, s)'
    BY <1>8, <1>9, <2>2, RunsStayFew
  <2>. QED
    BY <2>1, <2>2
<1>12. RunsInv'
  <2>1. IsFiniteSet(Updaters') /\ Cardinality(Updaters') <= used'["updates"]
    BY <1>8, <1>9, <1>10
  <2>. QED
    BY <1>8, <1>11, <2>1 DEF RunsInv
<1>13. BlockedInv'
  <2>1. \A r \in Template : Registering(r)' /\ Active(r)' =>
            goal'[r].next # 0 \/ (Active(r) /\ goal'[r].next = goal[r].next)
    <3>1. \A r \in Template : r # t => goal'[r] = goal[r]
      BY <1>8
    <3>2. goal'[t].next # 0
      BY <1>2, <1>3, <1>4, <1>8
    <3>. QED
      BY <3>1, <3>2 DEF Active
  <2>. QED
    BY <1>8, <2>1, BlockedKept
<1>. QED
  BY <1>8, <1>12, <1>13

LEMMA OpenFailsKeeps ==
  ASSUME GoalInv, NEW d \in daemon.due, OpenFails(d)
  PROVE  GoalInv'
<1>1. used' \in [Kinds -> Nat] /\ \A kind \in Kinds : used[kind] <= used'[kind]
  <2>1. CASE used' = used
    BY <2>1, NothingSpent DEF GoalInv, TypeInv
  <2>2. CASE Spend("faults")
    BY <2>2, SpendSpends DEF GoalInv, Kinds
  <2>. QED
    BY <2>1, <2>2 DEF OpenFails
<1>. QED
  BY <1>1, AdvanceKeeps DEF OpenFails

LEMMA AdvanceRunKeeps ==
  ASSUME GoalInv, AdvanceRun
  PROVE  GoalInv'
<1>1. daemon.held \in daemon.due /\ NextRun(daemon.held) # NoRun
  BY DEF GoalInv, PassInv, AdvanceRun
<1>2. PICK d \in daemon.due : d = daemon.held
  BY <1>1
<1>3. used' \in [Kinds -> Nat] /\ \A kind \in Kinds : used[kind] <= used'[kind]
  BY NothingSpent DEF AdvanceRun, GoalInv, TypeInv
<1>4. /\ PassOn(d) /\ daemon.pc = "advance" /\ Advanced(d.id, NextRun(d))
      /\ UNCHANGED <<clock, log, summed, call, keeper>> /\ NextRun(d) # NoRun
  BY <1>1, <1>2 DEF AdvanceRun
<1>. QED
  BY <1>2, <1>3, <1>4, AdvanceKeeps

\* A restart puts the run of a row that was still to be overwritten back in
\* hand, once: the crash pays for it.
LEMMA DaemonRestartsKeeps ==
  ASSUME GoalInv, DaemonRestarts
  PROVE  GoalInv'
<1>. USE DEF GoalInv
<1>0. /\ daemon' = NoPass /\ keeper' = NoTurn
      /\ clock' = clock /\ log' = log /\ summed' = summed /\ call' = call
  BY DEF DaemonRestarts
<1>1. /\ goal' = [g \in GoalId |->
                    IF Orphan(g)
                    THEN [goal[g] EXCEPT !.phase = "ended", !.resolution = "failed"]
                    ELSE goal[g]]
      /\ Spend("crashes")
  BY DEF DaemonRestarts
<1>2. /\ used' \in [Kinds -> Nat] /\ used'["crashes"] = used["crashes"] + 1
      /\ \A kind \in Kinds : used[kind] <= used'[kind]
  BY <1>1, SpendSpends DEF Kinds
<1>3. /\ used["crashes"] \in Nat /\ used["updates"] \in Nat /\ used'["updates"] \in Nat
      /\ used["updates"] <= used'["updates"] /\ used["revivals"] <= used'["revivals"]
  BY <1>2 DEF TypeInv, Kinds
<1>4. ASSUME NEW g \in GoalId
      PROVE  /\ goal'[g] \in GoalRow /\ SameKin(goal'[g], goal[g])
             /\ goal'[g].phase = "absent" <=> goal[g].phase = "absent"
             /\ goal'[g].phase = "absent" => goal'[g] = Absent
             /\ Active(g)' => Active(g)
  <2>1. goal[g] \in GoalRow
    BY DEF TypeInv
  <2>2. CASE Orphan(g)
    <3>1. PICK n \in GoalRow :
            /\ n = [goal[g] EXCEPT !.phase = "ended", !.resolution = "failed"]
            /\ SameKin(n, goal[g]) /\ n.phase = "ended"
      BY <2>1, EndWritten
    <3>2. goal'[g] = n
      BY <1>1, <2>2, <3>1
    <3>. QED
      BY <2>2, <3>1, <3>2 DEF Orphan, Active
  <2>3. CASE ~Orphan(g)
    <3>1. goal'[g] = goal[g]
      BY <1>1, <2>3
    <3>. QED
      BY <2>1, <3>1 DEF SameKin, SameBirth, Active, TypeInv
  <2>. QED
    BY <2>2, <2>3
<1>5. /\ daemon' \in [pc : {"idle", "next", "advance"}, now : Nat, due : SUBSET Seen,
                      held : Seen \cup {None}]
      /\ daemon'.pc = "idle" /\ daemon'.due = {} /\ daemon'.now = 0
  BY <1>0 DEF NoPass
<1>6. TypeInv'
  <2>1. goal' \in [GoalId -> GoalRow]
    BY <1>1, <1>4
  <2>2. /\ keeper' \in [pc : {"idle", "next", "summary"}, todo : SUBSET GoalId,
                        held : GoalId \cup {None}, seen : SUBSET EventRow]
        /\ keeper'.pc = "idle"
    BY <1>0 DEF NoTurn
  <2>. QED
    BY <1>0, <1>2, <1>4, <1>5, <2>1, <2>2 DEF TypeInv
<1>7. RowsSurvive
  BY <1>4 DEF RowsSurvive, SameKin
<1>8. clock \in Nat /\ clock' = clock /\ clock <= clock'
  BY <1>0, GoalTreeAssumption DEF TypeInv
<1>9. CallInv'
  BY <1>0, <1>7, CallSame DEF RowsSurvive, TypeInv
<1>10. ChildrenInv'
  BY <1>5, <1>6, <1>7, <1>8, BirthsKept
<1>11. PassInv'
  <2>1. daemon'.now <= clock' /\ daemon'.pc # "advance"
    BY <1>5, <1>8
  <2>. QED
    BY <1>5, <2>1 DEF PassInv
<1>12. \A c \in Child : SameKin(goal'[c], goal[c]) /\ (Active(c)' => Active(c))
  BY <1>4 DEF GoalId
<1>13. /\ Updaters' = Updaters
       /\ \A t \in Template : /\ Registering(t)' <=> Registering(t)
                              /\ InHand(t)' = {}
                              /\ Active(t)' => Active(t)
                              /\ goal'[t].next = goal[t].next
  BY <1>0, <1>4, <1>5 DEF Updaters, Registering, InHand, GoalId, SameKin
<1>14. /\ \A t \in Template : Late(t)' = Late(t)
       /\ \A t \in Template, s \in Nat :
             ReadBy(t, s)' = ReadBy(t, s) /\ Occurrences(t, s)' = Occurrences(t, s)
  BY <1>0, <1>12, <1>13 DEF Late, ReadBy, Occurrences, SameKin, SameBirth
<1>15. RunsInv'
  <2>1. ASSUME NEW t \in Template, NEW s \in Nat
        PROVE  RunsAreFew(t, s)'
    <3>1. /\ Cardinality(Occurrences(t, s)) \in Nat /\ Cardinality(ReadBy(t, s)) \in Nat
          /\ One(Pending(t, s)) \in {0, 1} /\ One(Pending(t, s)') \in {0, 1}
      BY CountsAreFinite DEF ChildrenInv, RunsInv, One
    <3>2. /\ Cardinality(Occurrences(t, s)) + One(Pending(t, s)) + Cardinality(ReadBy(t, s))
                <= 1 + used["crashes"] + used["updates"]
      BY DEF RunsInv, RunsAreFew
    <3>3. /\ Cardinality(Occurrences(t, s)') = Cardinality(Occurrences(t, s))
          /\ Cardinality(ReadBy(t, s)') = Cardinality(ReadBy(t, s))
      BY <1>14
    <3>. QED
      BY <1>2, <1>3, <3>1, <3>2, <3>3 DEF RunsAreFew
  <2>2. IsFiniteSet(Updaters) /\ Cardinality(Updaters) \in Nat
    BY FS_CardinalityType DEF RunsInv
  <2>. QED
    BY <1>3, <1>13, <2>1, <2>2 DEF RunsInv
<1>16. BlockedInv'
  BY <1>5, <1>13, <1>14, BlockedKept
<1>17. LateInv'
  <2>1. ASSUME NEW t \in Template
        PROVE  LateAreFew(t)'
    BY <1>3, <1>6, <1>13, <1>14, LateStayFew
  <2>. QED
    BY <2>1 DEF LateInv
<1>18. AgentsInv'
  <2> SUFFICES ASSUME NEW p \in Template \cup Parent
               PROVE  Cardinality(Agents(p)') <= MaxChildren
    BY DEF AgentsInv
  <2>1. Agents(p)' \subseteq Agents(p)
    BY <1>12 DEF Agents, ActiveChildren, SameKin, SameBirth
  <2>2. IsFiniteSet(Agents(p)) /\ Cardinality(Agents(p)) <= MaxChildren
    BY CountsAreFinite DEF ChildrenInv, RunsInv, AgentsInv
  <2>. QED
    BY <2>1, <2>2, Fewer, GoalTreeAssumption
<1>. QED
  BY <1>6, <1>9, <1>10, <1>11, <1>15, <1>16, <1>17, <1>18

-----------------------------------------------------------------------------
(* The invariant holds.                                                     *)

\* A schedule that never runs again opens nothing; nor does a goal that has
\* all the children it may have.
LEMMA OpenRefusedKeeps ==
  ASSUME GoalInv, NEW u \in Caller, OpenCreate(u), NextCronTime(call[u].cron, clock) = NoRun
  PROVE  GoalInv'
<1>1. Return(u) /\ UNCHANGED <<clock, goal, log, summed, daemon, keeper, used>>
  BY DEF OpenCreate
<1>2. /\ used' \in [Kinds -> Nat] /\ log' \in [GoalId -> SUBSET EventRow]
      /\ UNCHANGED <<clock, goal, summed, daemon, keeper>>
  BY <1>1 DEF GoalInv, TypeInv
<1>3. \A kind \in Kinds : used[kind] <= used'[kind]
  BY <1>1, NothingSpent DEF GoalInv
<1>. QED
  BY <1>1, <1>2, <1>3, ReturnsQuiet, QuietKeeps DEF GoalInv

LEMMA SpawnRefusedKeeps ==
  ASSUME GoalInv, NEW u \in Caller, NEW c \in Child, SpawnCreate(u, c), ~Admits(call[u].goal)
  PROVE  GoalInv'
<1>1. Return(u) /\ UNCHANGED <<clock, goal, log, summed, daemon, keeper, used>>
  BY DEF SpawnCreate
<1>2. /\ used' \in [Kinds -> Nat] /\ log' \in [GoalId -> SUBSET EventRow]
      /\ UNCHANGED <<clock, goal, summed, daemon, keeper>>
  BY <1>1 DEF GoalInv, TypeInv
<1>3. \A kind \in Kinds : used[kind] <= used'[kind]
  BY <1>1, NothingSpent DEF GoalInv
<1>. QED
  BY <1>1, <1>2, <1>3, ReturnsQuiet, QuietKeeps DEF GoalInv

LEMMA GoalInit ==
  ASSUME Init
  PROVE  GoalInv
<1>1. /\ clock = 0 /\ daemon = NoPass /\ keeper = NoTurn
      /\ log = [g \in GoalId |-> {}] /\ summed = [g \in GoalId |-> {}]
      /\ call = [u \in Caller |-> Idle]
      /\ used \in [Kinds -> Nat] /\ \A kind \in Kinds : used[kind] = 0
  BY DEF Init, Kinds
<1>2. ASSUME NEW g \in GoalId
      PROVE  /\ goal[g] \in GoalRow /\ goal[g].parent = None /\ goal[g].slot = 0
             /\ goal[g].phase = "absent" => goal[g] = Absent
             /\ g \in Child => goal[g] = Absent
  <2>1. Absent \in GoalRow /\ Absent.parent = None /\ Absent.slot = 0
    BY DEF Absent, GoalRow
  <2>2. CASE g \in Parent
    <3>1. goal[g] = [Absent EXCEPT !.phase = "running", !.loop = "active"]
      BY <2>2 DEF Init
    <3>2. goal[g] \in GoalRow /\ goal[g].parent = None /\ goal[g].slot = 0
          /\ goal[g].phase = "running"
      BY <3>1, <2>1 DEF GoalRow
    <3>. QED
      BY <2>2, <3>2, GoalIdAssumption
  <2>3. CASE g \notin Parent
    BY <2>1, <2>3 DEF Init
  <2>. QED
    BY <2>2, <2>3
<1>3. TypeInv
  <2>1. goal \in [GoalId -> GoalRow]
    BY <1>2 DEF Init
  <2>2. /\ daemon \in [pc : {"idle", "next", "advance"}, now : Nat, due : SUBSET Seen,
                       held : Seen \cup {None}]
        /\ keeper \in [pc : {"idle", "next", "summary"}, todo : SUBSET GoalId,
                       held : GoalId \cup {None}, seen : SUBSET EventRow]
        /\ keeper.pc = "idle"
    BY <1>1 DEF NoPass, NoTurn
  <2>3. call \in [Caller -> Call]
    BY <1>1, IdleCall
  <2>4. clock \in 0..MaxClock
    BY <1>1, GoalTreeAssumption
  <2>5. log \in [GoalId -> SUBSET EventRow] /\ summed \in [GoalId -> SUBSET EventRow]
    BY <1>1
  <2>. QED
    BY <1>1, <1>2, <2>1, <2>2, <2>3, <2>4, <2>5 DEF TypeInv
<1>4. daemon.pc = "idle" /\ daemon.now = 0 /\ daemon.due = {}
  BY <1>1 DEF NoPass
<1>5. \A c \in Child : goal[c].phase = "absent" /\ goal[c].parent = None /\ goal[c].slot = 0
  BY <1>2 DEF GoalId, Absent
<1>6. \A u \in Caller : call[u] = Idle /\ call[u].op = "idle"
  BY <1>1, IdleCall
<1>7. Born = {} /\ Updaters = {}
  BY <1>5, <1>6 DEF Born, Updaters
<1>8. \A t \in Template \cup Parent : t # None
  BY GoalIdAssumption DEF GoalId
<1>9. /\ \A t \in Template, s \in Nat : Occurrences(t, s) = {} /\ ReadBy(t, s) = {}
      /\ \A t \in Template : Late(t) = {} /\ ~Registering(t)
      /\ \A p \in Template \cup Parent : Agents(p) = {}
  BY <1>5, <1>6, <1>8
     DEF Occurrences, ReadBy, Updaters, Late, Registering, Agents, ActiveChildren
<1>10. IsFiniteSet({}) /\ Cardinality({}) = 0
  BY FS_EmptySet
<1>11. used["crashes"] = 0 /\ used["updates"] = 0 /\ used["revivals"] = 0
  BY <1>1 DEF Kinds
<1>12. ChildrenInv
  BY <1>1, <1>4, <1>5, <1>7, <1>10 DEF ChildrenInv
<1>13. PassInv
  BY <1>1, <1>4 DEF PassInv
<1>14. CallInv
  BY <1>6 DEF CallInv, OneOpens, CallFits, Opening, OnTemplate, OnParent
<1>15. RunsInv
  <2>1. ASSUME NEW t \in Template, NEW s \in Nat
        PROVE  RunsAreFew(t, s)
    <3>1. One(Pending(t, s)) \in {0, 1}
      BY DEF One
    <3>. QED
      BY <1>9, <1>10, <1>11, <3>1 DEF RunsAreFew
  <2>. QED
    BY <1>7, <1>10, <1>11, <2>1 DEF RunsInv
<1>16. BlockedInv
  BY <1>9 DEF BlockedInv
<1>17. LateInv
  BY <1>9, <1>10, <1>11 DEF LateInv, LateAreFew, One
<1>18. AgentsInv
  BY <1>9, <1>10, GoalTreeAssumption DEF AgentsInv
<1>. QED
  BY <1>3, <1>12, <1>13, <1>14, <1>15, <1>16, <1>17, <1>18 DEF GoalInv

LEMMA StutterKeeps ==
  ASSUME GoalInv, UNCHANGED vars
  PROVE  GoalInv'
<1>1. UNCHANGED <<goal, call, daemon>> /\ clock' = clock /\ used' = used
  BY DEF vars
<1>2. TypeInv'
  BY DEF vars, GoalInv, TypeInv
<1>3. clock <= clock'
  BY <1>1, GoalTreeAssumption DEF GoalInv, TypeInv
<1>4. \A kind \in Kinds : used[kind] <= used'[kind]
  BY <1>1, NothingSpent DEF GoalInv
<1>5. CallInv' /\ Quiet
  BY <1>1, <1>3, <1>4, Apart DEF GoalInv
<1>. QED
  BY <1>2, <1>5, QuietKeeps

LEMMA DaemonKeeps ==
  ASSUME GoalInv, DaemonPass
  PROVE  GoalInv'
<1>1. CASE DaemonScan
  BY <1>1, DaemonScanKeeps
<1>2. ASSUME NEW d \in daemon.due, BlockSchedule(d)
      PROVE  GoalInv'
  BY <1>2, BlockScheduleKeeps
<1>3. ASSUME NEW d \in daemon.due, OpenFails(d)
      PROVE  GoalInv'
  BY <1>3, OpenFailsKeeps
<1>4. ASSUME NEW d \in daemon.due, NEW c \in Child, OpenOccurrence(d, c)
      PROVE  GoalInv'
  BY <1>4, OpenOccurrenceKeeps
<1>5. CASE AdvanceRun
  BY <1>5, AdvanceRunKeeps
<1>. QED
  BY <1>1, <1>2, <1>3, <1>4, <1>5 DEF DaemonPass

LEMMA KeeperKeeps ==
  ASSUME GoalInv, TurnCompletes \/ KeeperPass \/ SummaryFails
  PROVE  GoalInv'
<1>0. TypeInv /\ CallInv
  BY DEF GoalInv
<1>1. CASE TurnCompletes
  BY <1>0, <1>1, TurnCompletesQuiet, QuietKeeps
<1>2. ASSUME NEW g \in keeper.todo, StopGoal(g)
      PROVE  GoalInv'
  BY <1>0, <1>2, StopGoalQuiet, QuietKeeps
<1>3. ASSUME NEW g \in keeper.todo, CompactRead(g)
      PROVE  GoalInv'
  BY <1>0, <1>3, CompactReadQuiet, QuietKeeps
<1>4. CASE CompactWrite
  BY <1>0, <1>4, CompactWriteQuiet, QuietKeeps
<1>5. CASE SummaryFails
  BY <1>0, <1>5, SummaryFailsQuiet, QuietKeeps
<1>. QED
  BY <1>1, <1>2, <1>3, <1>4, <1>5 DEF KeeperPass

LEMMA CallerStartsKeeps ==
  ASSUME GoalInv, NEW u \in Caller, CallerStarts(u)
  PROVE  GoalInv'
<1>0. TypeInv /\ CallInv /\ ChildrenInv
  BY DEF GoalInv
<1>1. ASSUME NEW t \in Template, NEW e \in Schedule, NEW dup \in BOOLEAN, OpenCheck(u, t, e, dup)
      PROVE  GoalInv'
  BY <1>0, <1>1, OpenCheckQuiet, QuietKeeps
<1>2. ASSUME NEW t \in Template, NEW e \in Schedule, NEW dup \in BOOLEAN, UpdateRead(u, t, e, dup)
      PROVE  GoalInv'
  BY <1>2, UpdateReadKeeps
<1>3. ASSUME NEW t \in Template, CancelRead(u, t)
      PROVE  GoalInv'
  BY <1>0, <1>3, CancelReadQuiet, QuietKeeps
<1>4. ASSUME NEW p \in Template \cup Parent, SpawnCheck(u, p)
      PROVE  GoalInv'
  BY <1>0, <1>4, SpawnCheckQuiet, QuietKeeps
<1>5. ASSUME NEW c \in Child, NEW kind \in {"message", "report"}, Tell(u, c, kind)
      PROVE  GoalInv'
  BY <1>0, <1>5, TellQuiet, QuietKeeps
<1>6. ASSUME NEW c \in Child, Message(u, c) \/ Report(u, c)
      PROVE  GoalInv'
  BY <1>5, <1>6 DEF Message, Report
<1>. QED
  BY <1>1, <1>2, <1>3, <1>4, <1>6 DEF CallerStarts

LEMMA CallerGoesOnKeeps ==
  ASSUME GoalInv, NEW u \in Caller, CallerGoesOn(u)
  PROVE  GoalInv'
<1>0. TypeInv /\ CallInv
  BY DEF GoalInv
<1>1. CASE OpenCreate(u)
  BY <1>1, OpenCreateKeeps, OpenRefusedKeeps
<1>2. CASE OpenLoop(u)
  BY <1>0, <1>2, OpenLoopQuiet, QuietKeeps
<1>3. CASE OpenRegister(u)
  BY <1>0, <1>3, OpenRegisterQuiet, QuietKeeps
<1>4. CASE UpdateWrite(u)
  BY <1>4, UpdateWriteKeeps
<1>5. CASE CancelWrite(u)
  BY <1>0, <1>5, CancelWriteQuiet, QuietKeeps
<1>6. ASSUME NEW c \in Child, SpawnCreate(u, c)
      PROVE  GoalInv'
  BY <1>6, SpawnCreateKeeps, SpawnRefusedKeeps
<1>7. CASE SpawnLoop(u)
  BY <1>0, <1>7, SpawnLoopQuiet, QuietKeeps
<1>8. CASE TellParent(u)
  BY <1>0, <1>8, TellParentQuiet, QuietKeeps
<1>. QED
  BY <1>1, <1>2, <1>3, <1>4, <1>5, <1>6, <1>7, <1>8 DEF CallerGoesOn

LEMMA GoalNext ==
  ASSUME GoalInv, [Next]_vars
  PROVE  GoalInv'
<1>0. TypeInv /\ CallInv
  BY DEF GoalInv
<1>1. CASE Tick
  BY <1>0, <1>1, TickQuiet, QuietKeeps
<1>2. CASE DaemonPass
  BY <1>2, DaemonKeeps
<1>3. CASE TurnCompletes \/ KeeperPass \/ SummaryFails
  BY <1>3, KeeperKeeps
<1>4. ASSUME NEW u \in Caller, CallerStarts(u)
      PROVE  GoalInv'
  BY <1>4, CallerStartsKeeps
<1>5. ASSUME NEW u \in Caller, CallerGoesOn(u)
      PROVE  GoalInv'
  BY <1>5, CallerGoesOnKeeps
<1>6. ASSUME NEW u \in Caller, CallerDies(u)
      PROVE  GoalInv'
  BY <1>0, <1>6, CallerDiesQuiet, QuietKeeps
<1>7. CASE DaemonRestarts
  BY <1>7, DaemonRestartsKeeps
<1>8. ASSUME NEW c \in Child, ChildBlocks(c)
      PROVE  GoalInv'
  BY <1>0, <1>8, ChildBlocksQuiet, QuietKeeps
<1>9. ASSUME NEW c \in Child, NEW r \in {"success", "canceled"}, ChildEnds(c, r)
      PROVE  GoalInv'
  BY <1>0, <1>9, ChildEndsQuiet, QuietKeeps
<1>10. ASSUME NEW g \in Child \cup Parent, LoopResumes(g)
       PROVE  GoalInv'
  BY <1>0, <1>10, LoopResumesQuiet, QuietKeeps
<1>11. CASE UNCHANGED vars
  BY <1>11, StutterKeeps
<1>. QED
  BY <1>1, <1>2, <1>3, <1>4, <1>5, <1>6, <1>7, <1>8, <1>9, <1>10, <1>11 DEF Next

LEMMA GoalInvHolds == Spec => []GoalInv
<1>1. Init => GoalInv
  BY GoalInit
<1>2. GoalInv /\ [Next]_vars => GoalInv'
  BY GoalNext
<1>. QED
  BY <1>1, <1>2, PTL DEF Spec

-----------------------------------------------------------------------------
(* What follows from it.                                                    *)

\* Every row, the daemon's list and the keeper's list stay what the code
\* takes them for.
THEOREM GoalTypeCorrect == Spec => []TypeOK
<1>1. GoalInv => TypeOK
  BY DEF GoalInv, TypeInv, TypeOK, GoalRow, Seen
<1>. QED
  BY <1>1, GoalInvHolds, PTL

\* A goal never has more active agents than MAX_ACTIVE_CHILDREN, however
\* many callers spawn below it at once and however many of them die between
\* the first count and the insert: the insert counts again.  Not counted are
\* the agents whose goal was ended while their loop went on, once the daemon
\* has resumed it: nobody admits them a second time.
THEOREM GoalAgentsBounded == Spec => []AgentsAreBounded
<1>1. GoalInv => AgentsAreBounded
  BY DEF GoalInv, AgentsInv, Agents, AgentsAreBounded
<1>. QED
  BY <1>1, GoalInvHolds, PTL

\* The run of a template for one slot is opened once, and once more for each
\* crash and each goal.update that could have brought it back: every run that
\* exists, every row that still announces it and every caller that has read it
\* is paid for by one of them.
THEOREM GoalRunsOnce == Spec => []RunsOnce
<1>1. ASSUME GoalInv, NEW t \in Template, NEW s \in 0..MaxClock
      PROVE  Cardinality(Occurrences(t, s)) <= 1 + used.crashes + used.updates
  <2>1. s \in Nat
    BY GoalTreeAssumption
  <2>2. Cardinality(Occurrences(t, s)) \in Nat /\ Cardinality(ReadBy(t, s)) \in Nat
    BY <1>1, <2>1, CountsAreFinite DEF GoalInv, ChildrenInv, RunsInv
  <2>3. used["crashes"] \in Nat /\ used["updates"] \in Nat
    BY <1>1 DEF GoalInv, TypeInv, Kinds
  <2>4. One(Pending(t, s)) \in {0, 1}
    BY DEF One
  <2>5. RunsAreFew(t, s)
    BY <1>1, <2>1 DEF GoalInv, RunsInv
  <2>. QED
    BY <2>2, <2>3, <2>4, <2>5 DEF RunsAreFew
<1>2. GoalInv => RunsOnce
  BY <1>1 DEF RunsOnce
<1>. QED
  BY <1>2, GoalInvHolds, PTL

\* A template that has ended, in whatever way, opens at most the one run the
\* daemon had in hand when it ended, and one more for each registration that
\* has revived it.
THEOREM GoalEndedStopsRunning == Spec => []EndedStopsRunning
<1>1. ASSUME GoalInv, NEW t \in Template
      PROVE  Cardinality({c \in Child : goal[c].parent = t /\ goal[c].late}) <= 1 + used.revivals
  <2>1. Cardinality(Late(t)) \in Nat
    BY <1>1, CountsAreFinite DEF GoalInv, ChildrenInv, RunsInv
  <2>2. used["revivals"] \in Nat
    BY <1>1 DEF GoalInv, TypeInv, Kinds
  <2>3. LateAreFew(t)
    BY <1>1 DEF GoalInv, LateInv
  <2>4. Cardinality(Late(t)) <= 1 + used["revivals"]
    BY <2>1, <2>2, <2>3 DEF LateAreFew, One
  <2>. QED
    BY <2>4 DEF Late
<1>2. GoalInv => EndedStopsRunning
  BY <1>1 DEF EndedStopsRunning
<1>. QED
  BY <1>2, GoalInvHolds, PTL

\* The log as every step leaves it: it only grows, or a compaction takes out
\* events whose content it has recorded, none of them a constraint.
LEMMA LogChanges ==
  ASSUME TypeInv, [Next]_vars, NEW g \in GoalId, NEW e, e \in log[g], e \notin log'[g]
  PROVE  e \in summed'[g] /\ ~e.constraint
<1>1. CASE CompactWrite
  <2>1. PICK h \in GoalId : h = keeper.held
    BY <1>1 DEF CompactWrite, TypeInv
  <2>2. /\ log' = [log EXCEPT ![h] = (@ \ Deleted(keeper.seen, @))
                                        \cup {Event("compaction", used.turns)}]
        /\ summed' = [summed EXCEPT ![h] = @ \cup keeper.seen]
    BY <1>1, <2>1 DEF CompactWrite
  <2>3. g = h
    BY <2>2 DEF TypeInv
  <2>4. e \in Deleted(keeper.seen, log[h])
    BY <2>2, <2>3 DEF TypeInv
  <2>. QED
    BY <2>2, <2>3, <2>4 DEF Deleted, TypeInv
<1>2. ASSUME NEW h, NEW x, Append1(h, x)
      PROVE  FALSE
  BY <1>2 DEF Append1, TypeInv
<1>3. CASE log' = log
  BY <1>3
<1>4. CASE DaemonPass
  BY <1>2, <1>3, <1>4
     DEF DaemonPass, DaemonScan, BlockSchedule, OpenFails, OpenOccurrence, AdvanceRun
<1>5. CASE TurnCompletes \/ KeeperPass \/ SummaryFails
  BY <1>1, <1>2, <1>3, <1>5, ZenonT(40)
     DEF KeeperPass, TurnCompletes, SummaryFails, StopGoal, CompactRead
<1>6. ASSUME NEW u \in Caller, CallerStarts(u)
      PROVE  log' = log \/ \E h, x : Append1(h, x)
  BY <1>6 DEF CallerStarts, OpenCheck, UpdateRead, CancelRead, SpawnCheck, Message, Report, Tell
<1>7. ASSUME NEW u \in Caller, CallerGoesOn(u) \/ CallerDies(u)
      PROVE  log' = log \/ \E h, x : Append1(h, x)
  BY <1>7 DEF CallerGoesOn, CallerDies, OpenCreate, OpenLoop, OpenRegister, UpdateWrite,
              CancelWrite, SpawnCreate, SpawnLoop, TellParent
<1>8. ASSUME NEW c \in Child, ChildBlocks(c)
      PROVE  FALSE
  BY <1>2, <1>8 DEF ChildBlocks
<1>9. ASSUME NEW c \in Child, NEW r, ChildEnds(c, r)
      PROVE  log' = log
  BY <1>9 DEF ChildEnds
<1>10. ASSUME NEW h, LoopResumes(h)
       PROVE  log' = log
  BY <1>10 DEF LoopResumes
<1>11. CASE Tick \/ DaemonRestarts \/ UNCHANGED vars
  BY <1>3, <1>11 DEF Tick, DaemonRestarts, vars
<1>. QED
  BY <1>2, <1>3, <1>4, <1>5, <1>6, <1>7, <1>8, <1>9, <1>10, <1>11 DEF Next

\* Compaction neither loses an event that was appended while the model was
\* summarising nor drops one that records a blocked state: it deletes what it
\* has read and recorded, by identity, and nothing else.
THEOREM GoalEventsAccountedFor == Spec => EventsAreAccountedFor
<1> DEFINE Kept ==
      \A g \in GoalId, e \in UNION {log[h] : h \in GoalId} :
         e \in log[g] \ log'[g] => e \in summed'[g] /\ ~e.constraint
<1>1. GoalInv /\ [Next]_vars => Kept
  BY LogChanges DEF GoalInv
<1>2. GoalInv /\ [Next]_vars => [Kept]_vars
  BY <1>1
<1>3. EventsAreAccountedFor <=> [][Kept]_vars
  BY DEF EventsAreAccountedFor
<1>. HIDE DEF Kept
<1>. QED
  BY <1>2, <1>3, GoalInvHolds, PTL DEF Spec

-----------------------------------------------------------------------------
(* What a child and a goal may be given, for every request (GoalPolicy).    *)

LEMMA OfTwo ==
  ASSUME NEW a \in Int, NEW b \in Int
  PROVE  /\ Max({a, b}) = IF a >= b THEN a ELSE b
         /\ Min({a, b}) = IF a <= b THEN a ELSE b
<1>1. PICK m \in {a, b} : \A y \in {a, b} : m >= y
  OBVIOUS
<1>2. Max({a, b}) \in {a, b} /\ \A y \in {a, b} : Max({a, b}) >= y
  BY <1>1 DEF Max
<1>3. PICK n \in {a, b} : \A y \in {a, b} : n =< y
  OBVIOUS
<1>4. Min({a, b}) \in {a, b} /\ \A y \in {a, b} : Min({a, b}) =< y
  BY <1>3 DEF Min
<1> QED
  BY <1>2, <1>4

LEMMA BoundedFits ==
  ASSUME NEW value \in Int, NEW default \in Nat \ {0}, NEW upper \in Nat \ {0}
  PROVE  Bounded(value, default, upper) \in 1..upper
<1> DEFINE asked == IF value = NotANumber THEN default ELSE value
<1>1. asked \in Int
  OBVIOUS
<1> HIDE DEF asked
<1> DEFINE least == Min({asked, upper})
<1>2. least = IF asked <= upper THEN asked ELSE upper
  BY <1>1, OfTwo
<1>3. least \in Int /\ least <= upper
  BY <1>1, <1>2
<1> HIDE DEF least
<1>4. Max({1, least}) = IF 1 >= least THEN 1 ELSE least
  BY <1>3, OfTwo
<1>5. Bounded(value, default, upper) = Max({1, least})
  BY DEF Bounded, asked, least
<1> QED
  BY <1>3, <1>4, <1>5

\* Whatever number a child asks for, or something that is no number, its budget
\* is positive, within the system's and, where the parent has one, within the
\* parent's (_intersect_budget); a parent without a limit leaves it the system's.
THEOREM BudgetsAlwaysNarrow ==
  ASSUME NEW value \in Int, NEW default \in Nat \ {0}, NEW system \in Nat \ {0},
         NEW parent \in Nat
  PROVE  LET budget == IntersectBudget(value, default, system, parent)
         IN  budget \in 1..system /\ (parent > 0 => budget <= parent)
<1> DEFINE asked == Bounded(value, default, system)
<1>1. asked \in 1..system
  BY BoundedFits
<1> HIDE DEF asked
<1>2. CASE parent > 0
  <2>1. Min({asked, parent}) = IF asked <= parent THEN asked ELSE parent
    BY <1>1, OfTwo
  <2>2. Min({asked, parent}) \in 1..system /\ Min({asked, parent}) <= parent
    BY <1>1, <1>2, <2>1
  <2> QED
    BY <1>2, <2>2 DEF IntersectBudget, asked
<1>3. CASE ~(parent > 0)
  BY <1>1, <1>3 DEF IntersectBudget, asked
<1> QED
  BY <1>2, <1>3

\* However late in its parent's time a child is spawned, it stops with the
\* parent, or one second after, the shortest timeout there is.
THEOREM ChildrenAlwaysStop ==
  ASSUME NEW value \in Int, NEW system \in Nat \ {0}, NEW timeout \in Nat, NEW age \in Nat
  PROVE  LET given == ChildTimeout(value, system, timeout, age)
         IN  /\ given \in 1..system
             /\ timeout > 0 => age + given <= Max({timeout, age + 1})
<1> DEFINE left == IF timeout <= 0 THEN system ELSE Max({1, timeout - age})
           upper == Min({system, left})
           given == Bounded(value, 2, upper)
<1>1. Max({1, timeout - age}) = IF 1 >= timeout - age THEN 1 ELSE timeout - age
  BY OfTwo
<1>2. /\ left \in Nat \ {0}
      /\ timeout > 0 => left = IF 1 >= timeout - age THEN 1 ELSE timeout - age
  BY <1>1
<1> HIDE DEF left
<1>3. upper = IF system <= left THEN system ELSE left
  BY <1>2, OfTwo
<1>4. upper \in 1..system /\ upper <= left
  BY <1>2, <1>3
<1> HIDE DEF upper
<1>5. 2 \in Nat \ {0} /\ upper \in Nat \ {0}
  BY <1>4
<1>6. given \in 1..upper
  BY <1>5, BoundedFits
<1> HIDE DEF given
<1>7. Max({timeout, age + 1}) = IF timeout >= age + 1 THEN timeout ELSE age + 1
  BY OfTwo
<1>8. given \in 1..system /\ (timeout > 0 => age + given <= Max({timeout, age + 1}))
  BY <1>2, <1>4, <1>6, <1>7
<1>9. ChildTimeout(value, system, timeout, age) = given
  BY DEF ChildTimeout, given, upper, left
<1> QED
  BY <1>8, <1>9

LEMMA CeilingsCompose ==
  ASSUME NEW p \in Permission, NEW q \in Permission, NEW r \in Permission,
         PermissionAllows(p, q), PermissionAllows(q, r)
  PROVE  PermissionAllows(p, r)
<1>1. \A x \in Permission : PermissionOrder[x] \in Nat
  BY DEF Permission, PermissionOrder
<1> QED
  BY <1>1 DEF PermissionAllows

\* From a caller to the goal it opens and on to the child that goal spawns: what
\* the child may call, its report aside, is offered, may be delegated and was in
\* view of the caller as well as of the goal's own turn, and where its permission
\* is fixed, the ceiling of the caller pays for it (effective_allowed_capabilities,
\* _child_capability_envelope).  Names are unique, and "*" is not one.
THEOREM AuthorityNarrows ==
  ASSUME NEW offered, \A s \in offered : s.permission \in Permission /\ s.name # "*",
         \A s, t \in offered : s.name = t.name => s = t,
         NEW ceiling \in Permission, NEW value \in Permission, NEW seen, NEW context,
         NEW requested, NEW asked, PermissionCeiling(value, ceiling) # Denied,
         NEW n \in ChildEnvelope(asked, offered,
                      EffectiveAllowed(requested, offered, seen,
                                       PermissionCeiling(value, ceiling)),
                      context) \ {"agent.report"}
  PROVE  \E s \in offered : /\ s.name = n /\ Delegable(s) /\ n \in seen \cap context
                             /\ s.policy = "static" => PermissionAllows(s.permission, ceiling)
<1> DEFINE granted == PermissionCeiling(value, ceiling)
           allowed == EffectiveAllowed(requested, offered, seen, granted)
<1>1. granted = value /\ PermissionAllows(value, ceiling)
  BY DEF PermissionCeiling
<1>2. ASSUME NEW m \in allowed
      PROVE  /\ m \in seen
             /\ \E s \in offered : /\ s.name = m
                                   /\ s.policy = "static" => PermissionAllows(s.permission, value)
  <2>1. m \in {s.name : s \in RegistryVisible(offered, granted)} \cap seen
    BY <1>2 DEF EffectiveAllowed, NoneAllowed
  <2>2. PICK s \in RegistryVisible(offered, granted) : s.name = m
    BY <2>1
  <2>3. s \in offered /\ (s.policy # "static" \/ PermissionAllows(s.permission, granted))
    BY <2>2 DEF RegistryVisible
  <2> QED
    BY <1>1, <2>1, <2>2, <2>3
<1>3. "*" \notin allowed
  BY <1>2
<1> HIDE DEF allowed
<1>4. n \in ChildEnvelope(asked, offered, allowed, context) /\ n # "agent.report"
  BY DEF allowed, granted
<1> HIDE DEF granted
<1> DEFINE Fit(x) == Delegable(x) /\ x.name \in allowed /\ x.name \in context
           eligible == {s.name : s \in {x \in offered :
                          /\ Delegable(x)
                          /\ "*" \in allowed \/ x.name \in allowed
                          /\ x.name \in context}}
<1>5. n \in asked /\ asked \subseteq eligible
  BY <1>4 DEF ChildEnvelope, NoneAllowed
<1>6. PICK s \in offered : s.name = n /\ Fit(s)
  BY <1>3, <1>5
<1>7. n \in seen /\ n \in context
  BY <1>2, <1>6
<1>8. PICK t \in offered : /\ t.name = n
                           /\ t.policy = "static" => PermissionAllows(t.permission, value)
  BY <1>2, <1>6
<1>9. s = t
  BY <1>6, <1>8
<1>10. s.policy = "static" => PermissionAllows(s.permission, ceiling)
  BY <1>1, <1>8, <1>9, CeilingsCompose
<1> QED
  BY <1>6, <1>7, <1>10
=============================================================================
