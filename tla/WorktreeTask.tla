---------------------------- MODULE WorktreeTask ----------------------------
(***************************************************************************)
(* Task worktrees of src/ai_client_governance/worktree/task.py: one linked *)
(* Git worktree and one branch codex/<slug> per task, over the             *)
(* coordination store of WorktreeCoord.                                    *)
(*                                                                         *)
(* Every subcommand is a process that runs Git commands and worktree-coord *)
(* commands one after the other, with no lock of its own around them; it   *)
(* may fail or die between any two.  A worktree-coord command is one step  *)
(* here: WorktreeCoord shows that its transactions do not overlap.         *)
(*                                                                         *)
(* A worktree stands for its slug.  The commits of its branch are counted: *)
(* the branch holds the first tip[w] of them, the target the first         *)
(* merged[w].                                                              *)
(***************************************************************************)
EXTENDS Integers, Sequences, FiniteSets

CONSTANTS
  Workers,     \* worktree-task processes that may run at the same time
  SessionIds, Worktrees, Scopes, ItemIds, Leases, MaxNow, MaxLocks, MaxItems,
  MaxCommits,  \* bound on the commits of a branch
  DefaultLease, \* the lease of the sessions and locks that create asks for
  Subcommands, \* the subcommands in use, create --git-lock, and two of worktree-coord:
               \* heartbeat and lock
  SourceUse    \* what people leave the source checkout in

ASSUME TaskAssumption ==
  /\ MaxNow \in Nat /\ MaxLocks \in Nat /\ MaxItems \in Nat /\ MaxCommits \in Nat
  /\ Leases \subseteq Int
  /\ \A scope \in Scopes : scope \in Seq(STRING)
  /\ DefaultLease \in Nat \ {0}
  /\ Subcommands \subseteq {"create", "dispatch", "merge", "remove", "cleanup-branch",
                            "reset", "close", "queue", "reconcile", "closeout-all",
                            "finalize", "heartbeat", "lock", "git-lock"}
  /\ SourceUse \subseteq {"clean", "elsewhere", "dirty"}

VARIABLES
  now, db,  \* the clock and the document of the coordination store
  tree,     \* per worktree: "none", "clean" or "dirty"
  tip,      \* per worktree: the commits on its branch, or NoBranch
  merged,   \* per worktree: its commits that the target holds
  locked,   \* the worktrees that git worktree lock protects
  source,   \* the source checkout: "clean" (and on the target), "elsewhere" (clean, on
            \* another branch), "dirty", or one of them with a conflict: see Aborted
  job,      \* per worker: how far its subcommand is
  host,     \* the host repository: see Host
  made,     \* history: per worktree, the commits ever made on its branch
  gone,     \* history: the sessions whose worktree was removed since they registered
  kept      \* history: the sessions that were last closed with --keep-locks

coordVars == <<now, db, kept>>
gitVars == <<tree, tip, merged, locked, source, made>>
taskVars == <<now, db, kept, tree, tip, merged, locked, source, job, made, gone, host>>

Coord == INSTANCE WorktreeCoord
           WITH Procs <- {}, pc <- << >>, view <- << >>

NoBranch == -1
Idle == [step |-> "idle"]
Elsewhere == << >>

\* What git merge --abort makes of a checkout that a conflict has left merging.
Aborted == [merging |-> "clean", merging_elsewhere |-> "elsewhere", merging_dirty |-> "dirty"]
InMerge == DOMAIN Aborted

Requests == Coord!Requests \cup {<< >>}

\* The commits the target holds of every branch: what the head of the source
\* checkout says, unless the checkout is elsewhere.
Heads == [Worktrees -> 0..MaxCommits] \cup {Elsewhere}

\* Of the worktrees that a closeout has to merge, the commits of their branches;
\* of those that finalize finds settled, the commits made.
Ahead == UNION {[todo -> 0..MaxCommits] : todo \in SUBSET Worktrees}

\* What closeout-all changes in the host repository: the gitlink of the embedded
\* repository in the index and in the last commit.
Host ==
  [index : Heads, committed : Heads]

\* Where the subcommands that take several steps can be.
Jobs ==
  {Idle}
    \cup [step : {"added", "registered", "ready"}, w : Worktrees, s : SessionIds,
          requested : Requests, dispatch : BOOLEAN]
    \cup [step : {"merge"}, w : Worktrees, items : SUBSET ItemIds]
    \cup [step : {"mark"}, w : Worktrees, items : SUBSET ItemIds]
    \cup [step : {"snapshot"}, live : SUBSET Worktrees]
    \cup [step : {"coord"}, live : SUBSET Worktrees, sessions : SUBSET SessionIds]
    \cup [step : {"live"}, sessions : SUBSET SessionIds]
    \cup {[step |-> "abort"]}
    \cup [step : {"closeout"}, todo : SUBSET Worktrees, ahead : Ahead]
    \cup [step : {"remove", "sessions", "branch"}, w : Worktrees,
          todo : SUBSET Worktrees, ahead : Ahead]
    \cup [step : {"looked", "finalized", "staged", "committed"}, ahead : Ahead]

\* The commit that is checked out in the source repository.
CurrentHead == IF source \in {"elsewhere", "merging_elsewhere"} THEN Elsewhere ELSE merged

MergedToTarget(w) == tip[w] <= merged[w]

SessionsOf(w) == {s \in DOMAIN db.sessions : db.sessions[s].worktree = w}

ActiveSessions == {s \in DOMAIN db.sessions : Coord!SessionIsActive(db, s, now)}

\* A worktree-coord command, as one step.
Transact(edited) == db' = edited /\ UNCHANGED <<now, kept>>

\* One that takes sessions out of use.
Retire(sessions, edited, keepLocks) ==
  /\ db' = edited
  /\ kept' = IF keepLocks THEN kept \cup sessions ELSE kept \ sessions
  /\ UNCHANGED now

At(p, step) == job[p].step = step

Goto(p, next) == job' = [job EXCEPT ![p] = next]

\* The document after session s got status, and its active locks label.
Retired(d, s, status, label) ==
  Coord!Closed(d, s, status, Coord!Relabel(d.locks, Coord!OwnedBy(d, s), label))

-----------------------------------------------------------------------------
\* What agents and people do in the worktrees and in the source checkout.

Edit(w) ==
  /\ tree[w] = "clean"
  /\ tree' = [tree EXCEPT ![w] = "dirty"]
  /\ UNCHANGED <<coordVars, tip, merged, locked, source, made, job, gone, host>>

CommitWork(w) ==
  /\ tree[w] = "dirty"
  /\ tip[w] \in 0..(MaxCommits - 1)
  /\ tree' = [tree EXCEPT ![w] = "clean"]
  /\ tip' = [tip EXCEPT ![w] = @ + 1]
  /\ made' = [made EXCEPT ![w] = @ + 1]
  /\ UNCHANGED <<coordVars, merged, locked, source, job, gone, host>>

UseSource(status) ==
  /\ source # status
  /\ source' = status
  /\ UNCHANGED <<coordVars, tree, tip, merged, locked, made, job, gone, host>>

\* The two commands of worktree-coord that a working session goes on using.
Heartbeat(s, lease) ==
  /\ s \in DOMAIN db.sessions
  /\ now + lease <= MaxNow
  /\ Transact([db EXCEPT !.sessions[s].expires = now + lease])
  /\ UNCHANGED <<gitVars, job, gone, host>>

AcquireLock(s, requested, lease) ==
  /\ Len(db.locks) + Len(requested) <= MaxLocks
  /\ now + lease <= MaxNow
  /\ Coord!SessionIsActive(db, s, now)
  /\ Coord!Conflicts(db, s, requested, now) = {}
  /\ Transact(Coord!Acquired(db, s, requested, now + lease))
  /\ UNCHANGED <<gitVars, job, gone, host>>

Tick ==
  /\ now < MaxNow
  /\ now' = now + 1
  /\ UNCHANGED <<db, kept, gitVars, job, gone, host>>

-----------------------------------------------------------------------------
\* create, and dispatch, which is create with a session and then a payload file.

\* Fault: git worktree add -B, which resets a branch that exists.
CreateTree_Reset(p, w, s, requested, dispatch, lock) ==
  /\ job[p] = Idle
  /\ dispatch => source \in {"clean", "elsewhere"}
  /\ tree[w] = "none"
  /\ tree' = [tree EXCEPT ![w] = "clean"]
  /\ tip' = [tip EXCEPT ![w] = merged[w]]
  /\ locked' = IF lock THEN locked \cup {w} ELSE locked
  /\ Goto(p, [step |-> "added", w |-> w, s |-> s,
              requested |-> requested, dispatch |-> dispatch])
  /\ UNCHANGED <<coordVars, merged, source, made, gone, host>>

\* git worktree add -b: it refuses a path or a branch that exists.
CreateTree(p, w, s, requested, dispatch, lock) ==
  /\ job[p] = Idle
  /\ dispatch => source \in {"clean", "elsewhere"}
  /\ tree[w] = "none" /\ tip[w] = NoBranch
  /\ tree' = [tree EXCEPT ![w] = "clean"]
  /\ tip' = [tip EXCEPT ![w] = merged[w]]
  /\ locked' = IF lock THEN locked \cup {w} ELSE locked
  /\ Goto(p, [step |-> "added", w |-> w, s |-> s,
              requested |-> requested, dispatch |-> dispatch])
  /\ UNCHANGED <<coordVars, merged, source, made, gone, host>>

\* Where create leads when its last command has succeeded.
Created(j) == IF j.dispatch THEN [j EXCEPT !.step = "ready"] ELSE Idle

\* session register runs in the new worktree and refuses an id in use.
CreateRegister(p) ==
  LET j == job[p] IN
  /\ At(p, "added")
  /\ tree[j.w] # "none"
  /\ j.s \notin DOMAIN db.sessions
  /\ now + DefaultLease <= MaxNow
  /\ Transact(Coord!Registered(db, j.s, j.w, now + DefaultLease))
  /\ gone' = gone \ {j.s}
  /\ Goto(p, IF j.requested = << >> THEN Created(j) ELSE [j EXCEPT !.step = "registered"])
  /\ UNCHANGED <<gitVars, host>>

CreateLock(p) ==
  LET j == job[p] IN
  /\ At(p, "registered")
  /\ Len(db.locks) + Len(j.requested) <= MaxLocks
  /\ now + DefaultLease <= MaxNow
  /\ Coord!SessionIsActive(db, j.s, now)
  /\ Coord!Conflicts(db, j.s, j.requested, now) = {}
  /\ Transact(Coord!Acquired(db, j.s, j.requested, now + DefaultLease))
  /\ Goto(p, Created(j))
  /\ UNCHANGED <<gitVars, gone, host>>

\* dispatch leaves task-payload.json, untracked, in the worktree.
DispatchPayload(p) ==
  LET j == job[p] IN
  /\ At(p, "ready")
  /\ tree[j.w] # "none"
  /\ tree' = [tree EXCEPT ![j.w] = "dirty"]
  /\ Goto(p, Idle)
  /\ UNCHANGED <<coordVars, tip, merged, locked, source, made, gone, host>>

-----------------------------------------------------------------------------
\* close, queue, merge, remove, cleanup-branch and reset.

\* Fault: the locks stay whatever the flag says.
CloseTask_KeepLocks(w, s, keepLocks) ==
  /\ tree[w] # "none"
  /\ s \in DOMAIN db.sessions
  /\ Retire({s}, Coord!Closed(db, s, "closed", db.locks), keepLocks)
  /\ UNCHANGED <<gitVars, job, gone, host>>

\* The session is closed whatever the state of the worktree is.
CloseTask(w, s, keepLocks) ==
  /\ tree[w] # "none"
  /\ s \in DOMAIN db.sessions
  /\ Retire({s}, IF keepLocks THEN Coord!Closed(db, s, "closed", db.locks)
                              ELSE Retired(db, s, "closed", "released"), keepLocks)
  /\ UNCHANGED <<gitVars, job, gone, host>>

QueueTask(w, item) ==
  /\ tree[w] # "none"
  /\ Len(db.queue) < MaxItems
  /\ Coord!Entries(db, item) = {}
  /\ Transact([db EXCEPT !.queue = Append(@, [id |-> item, status |-> "pending"])])
  /\ UNCHANGED <<gitVars, job, gone, host>>

MergeCheck(p, w, items) ==
  /\ job[p] = Idle
  /\ tree[w] = "clean"
  /\ source = "clean"
  /\ ~MergedToTarget(w)
  /\ Goto(p, [step |-> "merge", w |-> w, items |-> items])
  /\ UNCHANGED <<coordVars, gitVars, gone, host>>

\* git merge takes what the branch holds by now into whatever the source
\* checkout is on by now; edits there that it does not touch are no obstacle.
GitMerge(w) ==
  /\ source \notin InMerge
  /\ tip[w] # NoBranch
  /\ merged' = IF CurrentHead # Elsewhere /\ merged[w] < tip[w]
                 THEN [merged EXCEPT ![w] = tip[w]] ELSE merged
  /\ UNCHANGED <<tree, tip, locked, source, made>>

GitConflict(w) ==
  /\ ~MergedToTarget(w)
  /\ \E merging \in InMerge : Aborted[merging] = source /\ source' = merging
  /\ UNCHANGED <<tree, tip, merged, locked, made>>

\* git merge does nothing while another merge is going on, or without the branch.
GitRefusal(w) ==
  /\ source \in InMerge \/ tip[w] = NoBranch
  /\ UNCHANGED gitVars

MergeRun(p) ==
  /\ At(p, "merge")
  /\ GitMerge(job[p].w)
  /\ Goto(p, IF job[p].items = {} THEN Idle ELSE [job[p] EXCEPT !.step = "mark"])
  /\ UNCHANGED <<coordVars, gone, host>>

\* A conflict is left to whoever called: merge does not abort.
MergeConflict(p) ==
  /\ At(p, "merge")
  /\ GitConflict(job[p].w)
  /\ Goto(p, Idle)
  /\ UNCHANGED <<coordVars, gone, host>>

MergeMark(p) ==
  /\ At(p, "mark")
  /\ tree[job[p].w] # "none"
  /\ \E item \in job[p].items : \E i \in Coord!Entries(db, item) :
       Transact([db EXCEPT !.queue[i].status = "done"])
  /\ Goto(p, Idle)
  /\ UNCHANGED <<gitVars, gone, host>>

\* git worktree remove: a dirty tree only with --force, a locked one never.
GitRemove(w, force) ==
  /\ tree[w] = "clean" \/ (tree[w] = "dirty" /\ force)
  /\ w \notin locked
  /\ tree' = [tree EXCEPT ![w] = "none"]
  /\ gone' = gone \cup SessionsOf(w)
  /\ UNCHANGED <<tip, merged, locked, source, made>>

Remove(w, force) == GitRemove(w, force) /\ UNCHANGED <<coordVars, job, host>>

\* git branch -d refuses a branch that is checked out or not merged.
GitDeleteBranch(w) ==
  /\ tree[w] = "none" /\ tip[w] # NoBranch
  /\ MergedToTarget(w)
  /\ tip' = [tip EXCEPT ![w] = NoBranch]
  /\ UNCHANGED <<tree, merged, locked, source, made>>

CleanupBranch(w) == GitDeleteBranch(w) /\ UNCHANGED <<coordVars, job, gone, host>>

\* git checkout -- . and git clean -fd; what is staged survives them.
Reset(w) ==
  /\ tree[w] = "dirty"
  /\ tree' = [tree EXCEPT ![w] = "clean"]
  /\ UNCHANGED <<coordVars, tip, merged, locked, source, made, job, gone, host>>

-----------------------------------------------------------------------------
\* reconcile --mark-missing-stale.

\* The snapshot of the task worktrees comes first; the report takes only
\* warnings from it.
ReconcileSnapshot(p) ==
  /\ job[p] = Idle
  /\ Goto(p, [step |-> "snapshot", live |-> {w \in Worktrees : tree[w] # "none"}])
  /\ UNCHANGED <<coordVars, gitVars, gone, host>>

\* The document is read without the guard.
ReadCoord(p) ==
  /\ At(p, "snapshot")
  /\ Goto(p, [step |-> "coord", live |-> job[p].live, sessions |-> ActiveSessions])
  /\ UNCHANGED <<coordVars, gitVars, gone, host>>

\* Fault: the worktrees are taken from the snapshot.
Missing_Snapshot(p) ==
  {s \in job[p].sessions : \E w \in Worktrees : s \in SessionsOf(w) /\ w \notin job[p].live}

\* Of the sessions seen active, those whose worktree Git does not list now.
Missing(p) ==
  {s \in job[p].sessions : \E w \in Worktrees : s \in SessionsOf(w) /\ tree[w] = "none"}

ReadLive(p) ==
  /\ At(p, "coord")
  /\ Missing(p) # {}
  /\ Goto(p, [step |-> "live", sessions |-> Missing(p)])
  /\ UNCHANGED <<coordVars, gitVars, gone, host>>

\* Fault: the two labels are swapped.
RetireAll_Swapped(sessions, status, label) ==
  [db EXCEPT
     !.sessions = [s \in DOMAIN @ |->
        IF s \in sessions THEN [@[s] EXCEPT !.status = label] ELSE @[s]],
     !.locks = Coord!Relabel(@, UNION {Coord!OwnedBy(db, s) : s \in sessions}, status)]

\* The document after the sessions got status, and their active locks label.
RetireAll(sessions, status, label) ==
  [db EXCEPT
     !.sessions = [s \in DOMAIN @ |->
        IF s \in sessions THEN [@[s] EXCEPT !.status = status] ELSE @[s]],
     !.locks = Coord!Relabel(@, UNION {Coord!OwnedBy(db, s) : s \in sessions}, label)]

\* The sessions of the report are marked, whatever has become of them since.
MarkMissing(p) ==
  /\ At(p, "live")
  /\ Retire(job[p].sessions,
            RetireAll(job[p].sessions, "stale_or_missing_worktree", "released_missing_worktree"),
            FALSE)
  /\ Goto(p, Idle)
  /\ UNCHANGED <<gitVars, gone, host>>

-----------------------------------------------------------------------------
\* closeout-all --execute.

\* The source checkout is on the target, and nobody has changed anything in it.
OnTarget == source = "clean"

Closable(w) == tree[w] = "clean" /\ w \notin locked /\ tip[w] # NoBranch

\* The plan covers every task worktree, and one that cannot be closed blocks all,
\* as does a source checkout that is dirty or not on the target.  Without a
\* worktree there is only a task to complete.
CloseoutPlan(p) ==
  LET present == {w \in Worktrees : tree[w] # "none"}
      unmerged == {w \in present : ~MergedToTarget(w)} IN
  /\ job[p] = Idle
  /\ \A w \in present : Closable(w)
  /\ present # {} => OnTarget
  /\ Goto(p, IF present = {}
               THEN [step |-> "committed", ahead |-> << >>]
               ELSE [step |-> "closeout", todo |-> present,
                     ahead |-> [w \in unmerged |-> tip[w]]])
  /\ UNCHANGED <<coordVars, gitVars, gone, host>>

\* Whether to merge was decided by the plan.  Worktrees are taken in any order.
CloseoutMerge(p, w) ==
  LET j == job[p] IN
  /\ At(p, "closeout")
  /\ w \in j.todo
  /\ \/ w \in DOMAIN j.ahead /\ GitMerge(w)
     \/ w \notin DOMAIN j.ahead /\ UNCHANGED gitVars
  /\ Goto(p, [step |-> "remove", w |-> w, todo |-> j.todo \ {w},
              ahead |-> j.ahead])
  /\ UNCHANGED <<coordVars, gone, host>>

\* A merge that fails, for whatever reason, is followed by git merge --abort.
CloseoutConflict(p, w) ==
  /\ At(p, "closeout")
  /\ w \in job[p].todo \cap DOMAIN job[p].ahead
  /\ GitConflict(w) \/ GitRefusal(w)
  /\ Goto(p, [step |-> "abort"])
  /\ UNCHANGED <<coordVars, gone, host>>

\* It aborts the merge that is going on by now, whoever began it.
CloseoutAbort(p) ==
  /\ At(p, "abort")
  /\ source' = IF source \in InMerge THEN Aborted[source] ELSE source
  /\ Goto(p, Idle)
  /\ UNCHANGED <<coordVars, tree, tip, merged, locked, made, gone, host>>

\* Fault: git worktree remove --force.
CloseoutRemove_Force(p) ==
  /\ At(p, "remove")
  /\ GitRemove(job[p].w, TRUE)
  /\ Goto(p, [job[p] EXCEPT !.step = "sessions"])
  /\ UNCHANGED <<coordVars, host>>

CloseoutRemove(p) ==
  /\ At(p, "remove")
  /\ GitRemove(job[p].w, FALSE)
  /\ Goto(p, [job[p] EXCEPT !.step = "sessions"])
  /\ UNCHANGED <<coordVars, host>>

\* Only sessions that are active at this moment are closed.
CloseoutSessions(p) ==
  LET sessions == SessionsOf(job[p].w) \cap ActiveSessions IN
  /\ At(p, "sessions")
  /\ Retire(sessions, RetireAll(sessions, "closed_by_closeout", "released_by_closeout"), FALSE)
  /\ Goto(p, [job[p] EXCEPT !.step = "branch"])
  /\ UNCHANGED <<gitVars, gone, host>>

\* Fault: git branch -d alone, which is content with a branch that is merged to
\* whatever is checked out.
CloseoutBranch_Unchecked(p) ==
  LET j == job[p] IN
  /\ At(p, "branch")
  /\ \/ /\ tree[j.w] = "none" /\ tip[j.w] # NoBranch
        /\ MergedToTarget(j.w) \/ CurrentHead = Elsewhere
        /\ tip' = [tip EXCEPT ![j.w] = NoBranch]
        /\ UNCHANGED <<tree, merged, locked, source, made>>
     \/ tip[j.w] = NoBranch /\ UNCHANGED gitVars
  /\ Goto(p, [step |-> "closeout", todo |-> j.todo, ahead |-> j.ahead])
  /\ UNCHANGED <<coordVars, gone, host>>

\* A branch that is gone already is passed over; one that has commits the
\* target lacks ends the run.
CloseoutBranch(p) ==
  LET j == job[p] IN
  /\ At(p, "branch")
  /\ \/ GitDeleteBranch(j.w)
     \/ tip[j.w] = NoBranch /\ UNCHANGED gitVars
  /\ Goto(p, [step |-> "closeout", todo |-> j.todo, ahead |-> j.ahead])
  /\ UNCHANGED <<coordVars, gone, host>>

\* git add of the gitlink takes the head as it is now.
CloseoutStage(p) ==
  /\ At(p, "closeout")
  /\ job[p].todo = {}
  /\ host' = [host EXCEPT !.index = CurrentHead]
  /\ Goto(p, [step |-> "staged", ahead |-> job[p].ahead])
  /\ UNCHANGED <<coordVars, gitVars, gone>>

\* git commit takes whatever is staged; with nothing staged it is left out.  What
\* is left is to transition the task to done, which the queue does, and to ask for
\* the verdict of its final gate.
CloseoutCommit(p) ==
  /\ At(p, "staged")
  /\ host' = [host EXCEPT !.committed = host.index]
  /\ Goto(p, [job[p] EXCEPT !.step = "committed"])
  /\ UNCHANGED <<coordVars, gitVars, gone>>

-----------------------------------------------------------------------------
\* finalize, with everything required that it can require of worktrees and host.

Listed == {w \in Worktrees : tree[w] # "none"}

\* What finalize has found settled: the worktrees it lists, and no branch left.
Settled == Listed \cup {w \in Worktrees : tip[w] = NoBranch}

\* Fault: a worktree counts as merged whatever its branch holds.
FinalizeLook_NotMerged(p) ==
  /\ job[p] = Idle
  /\ \A w \in Listed : tree[w] = "clean"
  /\ Goto(p, [step |-> "looked", ahead |-> [w \in Settled |-> made[w]]])
  /\ UNCHANGED <<coordVars, gitVars, gone, host>>

\* The snapshot of the worktrees comes first.  An issue, here or below, is
\* reported and changes nothing.
FinalizeLook(p) ==
  /\ job[p] = Idle
  /\ \A w \in Listed : tree[w] = "clean" /\ MergedToTarget(w)
  /\ Goto(p, [step |-> "looked", ahead |-> [w \in Settled |-> made[w]]])
  /\ UNCHANGED <<coordVars, gitVars, gone, host>>

\* The host index has the head of the embedded checkout, and git status is empty: a
\* checkout that has moved or is dirty shows as a change of the host.  What the state
\* database and the tracking file say comes on top.
HostIsClosed ==
  /\ host.index = CurrentHead
  /\ host.index = host.committed
  /\ source \notin {"dirty"} \cup InMerge

FinalizeHost(p) ==
  /\ At(p, "looked")
  /\ HostIsClosed
  /\ Goto(p, [job[p] EXCEPT !.step = "finalized"])
  /\ UNCHANGED <<coordVars, gitVars, gone, host>>

\* The end of a subcommand: its return, an error on the way, or its death.
Leave(p) ==
  /\ job[p] # Idle
  /\ Goto(p, Idle)
  /\ UNCHANGED <<coordVars, gitVars, gone, host>>

-----------------------------------------------------------------------------
TaskInit ==
  /\ now = 0
  /\ db = Coord!EmptyDocument
  /\ tree = [w \in Worktrees |-> "none"]
  /\ tip = [w \in Worktrees |-> NoBranch]
  /\ merged = [w \in Worktrees |-> 0]
  /\ locked = {}
  /\ source = "clean"
  /\ job = [p \in Workers |-> Idle]
  /\ host = [index |-> merged, committed |-> merged]
  /\ made = [w \in Worktrees |-> 0]
  /\ gone = {}
  /\ kept = {}

Uses(subcommand) == subcommand \in Subcommands

Agents ==
  \/ \E w \in Worktrees : Edit(w) \/ CommitWork(w)
  \/ \E status \in SourceUse : UseSource(status)
  \/ \E s \in SessionIds, lease \in Leases :
       \/ Uses("heartbeat") /\ Heartbeat(s, lease)
       \/ Uses("lock") /\ \E scope \in Scopes : AcquireLock(s, <<scope>>, lease)
  \/ Tick

Create(p) ==
  \/ /\ Uses("create")
     /\ \E w \in Worktrees, s \in SessionIds, requested \in Requests, lock \in BOOLEAN :
          (lock => Uses("git-lock")) /\ CreateTree(p, w, s, requested, FALSE, lock)
  \/ /\ Uses("dispatch")
     /\ \E w \in Worktrees, s \in SessionIds, requested \in Requests :
          CreateTree(p, w, s, requested, TRUE, FALSE)
  \/ CreateRegister(p) \/ CreateLock(p) \/ DispatchPayload(p)

Merge(p) ==
  \/ /\ Uses("merge")
     /\ \E w \in Worktrees, items \in {{}} \cup {{item} : item \in ItemIds} :
          MergeCheck(p, w, items)
  \/ MergeRun(p) \/ MergeConflict(p) \/ MergeMark(p)

Reconcile(p) ==
  \/ Uses("reconcile") /\ ReconcileSnapshot(p)
  \/ ReadCoord(p) \/ ReadLive(p) \/ MarkMissing(p)

CloseoutAll(p) ==
  \/ Uses("closeout-all") /\ CloseoutPlan(p)
  \/ \E w \in Worktrees : CloseoutMerge(p, w) \/ CloseoutConflict(p, w)
  \/ CloseoutAbort(p) \/ CloseoutRemove(p) \/ CloseoutSessions(p) \/ CloseoutBranch(p)
  \/ CloseoutStage(p) \/ CloseoutCommit(p)

Finalize(p) ==
  \/ Uses("finalize") /\ FinalizeLook(p)
  \/ FinalizeHost(p)

OneStep ==
  \E w \in Worktrees :
    \/ Uses("close") /\ \E s \in SessionIds, keepLocks \in BOOLEAN : CloseTask(w, s, keepLocks)
    \/ Uses("queue") /\ \E item \in ItemIds : QueueTask(w, item)
    \/ Uses("remove") /\ \E force \in BOOLEAN : Remove(w, force)
    \/ Uses("cleanup-branch") /\ CleanupBranch(w)
    \/ Uses("reset") /\ Reset(w)

TaskNext ==
  \/ Agents
  \/ OneStep
  \/ \E p \in Workers :
       Create(p) \/ Merge(p) \/ Reconcile(p) \/ CloseoutAll(p) \/ Finalize(p) \/ Leave(p)

TaskSpec == TaskInit /\ [][TaskNext]_taskVars

-----------------------------------------------------------------------------
\* Properties.

\* Every variable has its type.
TaskTypeOK ==
  /\ now \in 0..MaxNow
  /\ Coord!IsDocument(db)
  /\ tree \in [Worktrees -> {"none", "clean", "dirty"}]
  /\ tip \in [Worktrees -> {NoBranch} \cup 0..MaxCommits]
  /\ merged \in [Worktrees -> 0..MaxCommits]
  /\ locked \subseteq Worktrees
  /\ source \in {"clean", "elsewhere", "dirty"} \cup InMerge
  /\ job \in [Workers -> Jobs]
  /\ made \in [Worktrees -> 0..MaxCommits]
  /\ gone \subseteq SessionIds
  /\ kept \subseteq SessionIds
  /\ host \in Host

\* No commit is lost: the target or the task's branch holds every commit ever
\* made on the branch, although closeout-all merges, removes and deletes by a
\* plan that commits and other subcommands may have overtaken.
NoWorkLost == \A w \in Worktrees : made[w] \in {tip[w], merged[w]}

\* When closeout-all has come to completing its task, the target holds every
\* commit that the planned branches had when it planned, and so does the gitlink
\* in the host's last commit, unless someone had the source checkout elsewhere
\* when it was staged.  A branch that moves, a merge into another branch and a
\* second closeout that stages in between all end the run or are taken along.
\* And what finalize passes is backed likewise: every commit made by its snapshot
\* on a branch that is gone, or that had a worktree, is in the target and in the
\* host's last commit, although it looks at worktrees and host one after the other.
CompletionIsBacked ==
  \A p \in Workers :
    At(p, "committed") \/ At(p, "finalized") =>
      \A w \in DOMAIN job[p].ahead :
        /\ merged[w] >= job[p].ahead[w]
        /\ host.committed # Elsewhere => host.committed[w] >= job[p].ahead[w]

\* A branch that exists holds all the work, and one that does not is merged:
\* what makes NoWorkLost inductive.
WorkInvariant ==
  \A w \in Worktrees :
    /\ tree[w] \in {"none", "clean", "dirty"}
    /\ merged[w] \in 0..made[w]
    /\ tip[w] = NoBranch => merged[w] = made[w]
    /\ tip[w] # NoBranch => tip[w] = made[w]

\* Uncommitted work goes only by reset and by remove --force.
EditsAreKept ==
  [][\A w \in Worktrees :
       tree[w] = "dirty" /\ tree'[w] = "none" => Remove(w, TRUE)]_taskVars

\* reconcile marks a session stale only if its worktree has been removed since
\* the session registered: a session that is just being created is spared,
\* because the document is read before the worktrees are listed.
FreshSessionsAreSpared ==
  \A s \in DOMAIN db.sessions :
    db.sessions[s].status = "stale_or_missing_worktree" => s \in gone

\* A session that a subcommand has retired keeps no active lock, unless it was
\* closed with --keep-locks: no scope stays shut behind a session that was closed,
\* closed out or repaired, whichever of them came last.
RetiredHoldNothing ==
  \A i \in DOMAIN db.locks :
    db.locks[i].status = "active" =>
      \/ db.sessions[db.locks[i].session].status = "active"
      \/ db.locks[i].session \in kept

Residue(w) ==
  {i \in Coord!ActiveLocks(db, now) : db.sessions[db.locks[i].session].worktree = w}

\* After closeout-all has removed a worktree and closed its sessions, no active
\* lock of them is left for reconcile --strict to complain about.
CloseoutLeavesNoResidue ==
  \A p \in Workers : At(p, "branch") => Residue(job[p].w) = {}

=============================================================================
