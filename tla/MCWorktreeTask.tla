--------------------------- MODULE MCWorktreeTask ---------------------------
(***************************************************************************)
(* A small instance of WorktreeTask.  Git and the coordination store share *)
(* the worktrees alone: a behaviour with sessions has one slug, which comes *)
(* and goes, and nothing to merge; one with commits, a second slug, a queue *)
(* item or a source checkout in other use has no sessions.                 *)
(***************************************************************************)
EXTENDS WorktreeTask, TLC

MCScopes == {<<"docs">>}

Symmetry == Permutations(Workers) \cup Permutations(Worktrees) \cup Permutations(SessionIds)

Used == {w \in Worktrees : tip[w] # NoBranch \/ made[w] > 0}

Creating(p) == job[p].step \in {"added", "registered", "ready"}

Coordinated ==
  \/ now > 0 \/ DOMAIN db.sessions # {}
  \/ \E p \in Workers : Creating(p) /\ (job[p].dispatch \/ job[p].requested # << >>)

Worked ==
  \/ \E w \in Worktrees : made[w] > 0 \/ tree[w] = "dirty"
  \/ Cardinality(Used) > 1 \/ locked # {}
  \/ source # "clean" \/ db.queue # << >>
  \/ \E p \in Workers : job[p].step \in {"looked", "finalized", "staged", "committed"}

SessionsOrWork == ~(Coordinated /\ Worked)

\* All sessions are about one slug; where there is a lock there is one session.
OneSlug ==
  LET places == {db.sessions[s].worktree : s \in DOMAIN db.sessions} IN
  places # {} => Cardinality(places \cup Used) < 2

LocksOfOne ==
  Len(db.locks) > 0 \/ (\E p \in Workers : Creating(p) /\ job[p].requested # << >>)
    => Cardinality(DOMAIN db.sessions) < 2

\* With two slugs, or after the leases have run out, one worker at a time is busy,
\* beside the subcommands of one step.
OneBusy ==
  Cardinality(Used) > 1 \/ now > 0 => Cardinality({p \in Workers : job[p] # Idle}) < 2

\* The second slug, and the queue item, meet no source checkout in other use.
SourceAlone == Cardinality(Used) > 1 \/ db.queue # << >> => source # "elsewhere"

QueueAlone == db.queue # << >> => Cardinality(Used) < 2
=============================================================================
