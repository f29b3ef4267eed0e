------------------------- MODULE WorktreeTaskProofs -------------------------
(***************************************************************************)
(* Proofs about WorktreeTask for any number of workers, worktrees, commits *)
(* and sessions: no commit is lost, uncommitted edits go only by force,     *)
(* closeout-all and finalize are backed by the last commit of the host, the *)
(* variables have their types, reconcile spares fresh sessions, and a      *)
(* retired session holds no lock.                                          *)
(***************************************************************************)
EXTENDS WorktreeTask, TLAPS

\* The functions the work depends on are functions on the worktrees.
Shape ==
  /\ tree = [w \in Worktrees |-> tree[w]]
  /\ tip = [w \in Worktrees |-> tip[w]]
  /\ merged = [w \in Worktrees |-> merged[w]]
  /\ made \in [Worktrees -> Nat]

-----------------------------------------------------------------------------
\* What a step does to the work: nothing, or one change of one worktree.

Untouched == UNCHANGED <<tree, tip, merged, made>>

TreeChanged(w) ==
  /\ \E status \in {"none", "clean", "dirty"} :
       /\ tree' = [tree EXCEPT ![w] = status]
       /\ tree[w] = "dirty" /\ status = "none" => Remove(w, TRUE)
  /\ UNCHANGED <<tip, merged, made>>

Branched(w) ==
  /\ tree[w] = "none" /\ tip[w] = NoBranch
  /\ tree' = [tree EXCEPT ![w] = "clean"]
  /\ tip' = [tip EXCEPT ![w] = merged[w]]
  /\ UNCHANGED <<merged, made>>

Committed(w) ==
  /\ tree[w] = "dirty" /\ tip[w] # NoBranch
  /\ tree' = [tree EXCEPT ![w] = "clean"]
  /\ tip' = [tip EXCEPT ![w] = @ + 1]
  /\ made' = [made EXCEPT ![w] = @ + 1]
  /\ UNCHANGED merged

BranchMerged(w) ==
  /\ tip[w] # NoBranch /\ merged[w] < tip[w]
  /\ merged' = [merged EXCEPT ![w] = tip[w]]
  /\ UNCHANGED <<tree, tip, made>>

BranchDeleted(w) ==
  /\ tip[w] # NoBranch /\ MergedToTarget(w)
  /\ tip' = [tip EXCEPT ![w] = NoBranch]
  /\ UNCHANGED <<tree, merged, made>>

Changed(w) ==
  TreeChanged(w) \/ Branched(w) \/ Committed(w) \/ BranchMerged(w) \/ BranchDeleted(w)

Change == Untouched \/ \E w : Changed(w)

\* git merge leaves the work alone or merges one branch.
LEMMA GitMergeChanges == ASSUME NEW w, GitMerge(w) PROVE Change
BY DEF GitMerge, Change, Changed, BranchMerged, Untouched

LEMMA GitRemoveChanges ==
  ASSUME NEW w, NEW force \in BOOLEAN, GitRemove(w, force),
         tree[w] = "dirty" => Remove(w, TRUE)
  PROVE  Change
<1>1. tree' = [tree EXCEPT ![w] = "none"] /\ UNCHANGED <<tip, merged, made>>
  BY DEF GitRemove
<1> QED
  BY <1>1 DEF Change, Changed, TreeChanged

LEMMA GitDeleteBranchChanges == ASSUME NEW w, GitDeleteBranch(w) PROVE Change
BY DEF GitDeleteBranch, Change, Changed, BranchDeleted

\* What agents and people do.
LEMMA AgentsChange == Agents => Change
<1> SUFFICES ASSUME Agents PROVE Change
  OBVIOUS
<1>1. ASSUME NEW w \in Worktrees, Edit(w) PROVE Change
  BY <1>1 DEF Edit, Change, Changed, TreeChanged
<1>2. ASSUME NEW w \in Worktrees, CommitWork(w) PROVE Change
  <2>1. tip[w] # NoBranch
    BY <1>2, TaskAssumption DEF CommitWork, NoBranch
  <2>2. Committed(w)
    BY <1>2, <2>1 DEF CommitWork, Committed
  <2> QED
    BY <2>2 DEF Change, Changed
<1>3. ASSUME NEW status \in SourceUse, UseSource(status) PROVE Change
  BY <1>3 DEF UseSource, Change, Untouched
<1>4. ASSUME NEW s \in SessionIds, NEW lease \in Leases, Heartbeat(s, lease) PROVE Change
  BY <1>4 DEF Heartbeat, Change, Untouched, gitVars
<1>5. ASSUME NEW s, NEW requested, NEW lease, AcquireLock(s, requested, lease) PROVE Change
  BY <1>5 DEF AcquireLock, Change, Untouched, gitVars
<1>6. Tick => Change
  BY DEF Tick, Change, Untouched, gitVars
<1> QED
  BY <1>1, <1>2, <1>3, <1>4, <1>5, <1>6 DEF Agents

LEMMA OneStepChanges == OneStep => Change
<1> SUFFICES ASSUME NEW w \in Worktrees,
                    \/ \E s \in SessionIds, keepLocks \in BOOLEAN : CloseTask(w, s, keepLocks)
                    \/ \E item \in ItemIds : QueueTask(w, item)
                    \/ \E force \in BOOLEAN : Remove(w, force)
                    \/ CleanupBranch(w)
                    \/ Reset(w)
             PROVE  Change
  BY DEF OneStep
<1>1. ASSUME NEW s, NEW keepLocks, CloseTask(w, s, keepLocks) PROVE Change
  BY <1>1 DEF CloseTask, Change, Untouched, gitVars
<1>2. ASSUME NEW item, QueueTask(w, item) PROVE Change
  BY <1>2 DEF QueueTask, Change, Untouched, gitVars
<1>3. ASSUME NEW force \in BOOLEAN, Remove(w, force) PROVE Change
  <2>1. tree[w] = "dirty" => Remove(w, TRUE)
    BY <1>3 DEF Remove, GitRemove
  <2> QED
    BY <1>3, <2>1, GitRemoveChanges DEF Remove
<1>4. CleanupBranch(w) => Change
  BY GitDeleteBranchChanges DEF CleanupBranch
<1>5. Reset(w) => Change
  BY DEF Reset, Change, Changed, TreeChanged
<1> QED
  BY <1>1, <1>2, <1>3, <1>4, <1>5

LEMMA CreateChanges == ASSUME NEW p \in Workers, Create(p) PROVE Change
<1>1. ASSUME NEW w, NEW s, NEW requested, NEW dispatch, NEW lock,
             CreateTree(p, w, s, requested, dispatch, lock)
      PROVE  Change
  BY <1>1 DEF CreateTree, Change, Changed, Branched
<1>2. CreateRegister(p) => Change
  BY DEF CreateRegister, Change, Untouched, gitVars
<1>3. CreateLock(p) => Change
  BY DEF CreateLock, Change, Untouched, gitVars
<1>4. DispatchPayload(p) => Change
  BY DEF DispatchPayload, Change, Changed, TreeChanged
<1> QED
  BY <1>1, <1>2, <1>3, <1>4 DEF Create

LEMMA MergeChanges == ASSUME NEW p \in Workers, Merge(p) PROVE Change
<1>1. ASSUME NEW w, NEW items, MergeCheck(p, w, items) PROVE Change
  BY <1>1 DEF MergeCheck, Change, Untouched, gitVars
<1>2. MergeRun(p) => Change
  BY GitMergeChanges DEF MergeRun
<1>3. MergeConflict(p) => Change
  BY DEF MergeConflict, GitConflict, Change, Untouched
<1>4. MergeMark(p) => Change
  BY DEF MergeMark, Change, Untouched, gitVars
<1> QED
  BY <1>1, <1>2, <1>3, <1>4 DEF Merge

LEMMA ReconcileChanges == ASSUME NEW p \in Workers, Reconcile(p) PROVE Change
BY DEF Reconcile, ReconcileSnapshot, ReadCoord, ReadLive, MarkMissing, Change, Untouched, gitVars

LEMMA FinalizeChanges == ASSUME NEW p \in Workers, Finalize(p) PROVE Change
BY DEF Finalize, FinalizeLook, FinalizeHost, Change, Untouched, gitVars

LEMMA CloseoutChanges == ASSUME NEW p \in Workers, CloseoutAll(p) PROVE Change
<1>1. CloseoutPlan(p) => Change
  BY DEF CloseoutPlan, Change, Untouched, gitVars
<1>2. ASSUME NEW w \in Worktrees, CloseoutMerge(p, w) PROVE Change
  <2>1. GitMerge(w) \/ UNCHANGED gitVars
    BY <1>2 DEF CloseoutMerge
  <2> QED
    BY <2>1, GitMergeChanges DEF Change, Untouched, gitVars
<1>3. ASSUME NEW w \in Worktrees, CloseoutConflict(p, w) PROVE Change
  BY <1>3 DEF CloseoutConflict, GitConflict, GitRefusal, Change, Untouched, gitVars
<1>4. CloseoutAbort(p) => Change
  BY DEF CloseoutAbort, Change, Untouched
<1>5. CloseoutRemove(p) => Change
  <2> SUFFICES ASSUME CloseoutRemove(p) PROVE Change
    OBVIOUS
  <2>1. GitRemove(job[p].w, FALSE)
    BY DEF CloseoutRemove
  <2>2. tree[job[p].w] = "clean"
    BY <2>1 DEF GitRemove
  <2> QED
    BY <2>1, <2>2, GitRemoveChanges
<1>6. CloseoutSessions(p) => Change
  BY DEF CloseoutSessions, Change, Untouched, gitVars
<1>7. CloseoutBranch(p) => Change
  BY GitDeleteBranchChanges DEF CloseoutBranch, Change, Untouched, gitVars
<1>8. CloseoutStage(p) \/ CloseoutCommit(p) => Change
  BY DEF CloseoutStage, CloseoutCommit, Change, Untouched, gitVars
<1> QED
  BY <1>1, <1>2, <1>3, <1>4, <1>5, <1>6, <1>7, <1>8 DEF CloseoutAll

\* Every step leaves the work alone or changes it in one of five ways.
LEMMA EveryStepChanges == [TaskNext]_taskVars => Change
<1>1. ASSUME NEW p \in Workers, Leave(p) PROVE Change
  BY <1>1 DEF Leave, Change, Untouched, gitVars
<1>2. UNCHANGED taskVars => Change
  BY DEF taskVars, Change, Untouched
<1> QED
  BY <1>1, <1>2, AgentsChange, OneStepChanges, CreateChanges, MergeChanges,
     ReconcileChanges, CloseoutChanges, FinalizeChanges DEF TaskNext

LEMMA CommittedKeepsShape == ASSUME NEW w, Shape, Committed(w) PROVE Shape'
<1>1. made' \in [Worktrees -> Nat]
  <2>1. CASE w \in Worktrees
    BY <2>1 DEF Committed, Shape
  <2>2. CASE w \notin Worktrees
    BY <2>2 DEF Committed, Shape
  <2> QED
    BY <2>1, <2>2
<1>2. tree' = [v \in Worktrees |-> tree'[v]] /\ tip' = [v \in Worktrees |-> tip'[v]]
  BY DEF Committed, Shape
<1>3. merged' = [v \in Worktrees |-> merged'[v]]
  BY DEF Committed, Shape
<1> QED
  BY <1>1, <1>2, <1>3 DEF Shape

-----------------------------------------------------------------------------
\* The branch of a worktree holds all its work, or the target does.
LEMMA WorkIsHeld == TaskSpec => [](Shape /\ WorkInvariant)
<1>1. TaskInit => Shape /\ WorkInvariant
  BY DEF TaskInit, Shape, WorkInvariant, NoBranch
<1>2. Shape /\ WorkInvariant /\ [TaskNext]_taskVars => (Shape /\ WorkInvariant)'
  <2> SUFFICES ASSUME Shape, WorkInvariant, Change PROVE (Shape /\ WorkInvariant)'
    BY EveryStepChanges
  <2>1. CASE Untouched
    BY <2>1 DEF Untouched, Shape, WorkInvariant
  <2>2. ASSUME NEW w, TreeChanged(w) PROVE (Shape /\ WorkInvariant)'
    <3>1. PICK status \in {"none", "clean", "dirty"} : tree' = [tree EXCEPT ![w] = status]
      BY <2>2 DEF TreeChanged
    <3>2. UNCHANGED <<tip, merged, made>>
      BY <2>2 DEF TreeChanged
    <3> QED
      BY <3>1, <3>2 DEF Shape, WorkInvariant
  <2>3. ASSUME NEW w, Branched(w) PROVE (Shape /\ WorkInvariant)'
    BY <2>3 DEF Branched, Shape, WorkInvariant, NoBranch
  <2>4. ASSUME NEW w, Committed(w) PROVE (Shape /\ WorkInvariant)'
    <3>1. ASSUME NEW v \in Worktrees
          PROVE  /\ tree'[v] = IF v = w THEN "clean" ELSE tree[v]
                 /\ tip'[v] = IF v = w THEN tip[v] + 1 ELSE tip[v]
                 /\ made'[v] = IF v = w THEN made[v] + 1 ELSE made[v]
                 /\ merged'[v] = merged[v]
      BY <2>4 DEF Committed, Shape
    <3>2. WorkInvariant'
      <4> SUFFICES ASSUME NEW v \in Worktrees
                   PROVE  /\ tree'[v] \in {"none", "clean", "dirty"}
                          /\ merged'[v] \in 0..made'[v]
                          /\ tip'[v] = -1 => merged'[v] = made'[v]
                          /\ tip'[v] # -1 => tip'[v] = made'[v]
        BY DEF WorkInvariant, NoBranch
      <4>1. /\ tree[v] \in {"none", "clean", "dirty"}
            /\ merged[v] \in 0..made[v]
            /\ tip[v] = -1 => merged[v] = made[v]
            /\ tip[v] # -1 => tip[v] = made[v]
        BY DEF WorkInvariant, NoBranch
      <4>2. made[v] \in Nat
        BY DEF Shape
      <4>3. v = w => tip[v] # -1
        BY <2>4 DEF Committed, NoBranch
      <4> QED
        BY <3>1, <4>1, <4>2, <4>3
    <3>3. Shape'
      BY <2>4, CommittedKeepsShape
    <3> QED
      BY <3>2, <3>3
  <2>5. ASSUME NEW w, BranchMerged(w) PROVE (Shape /\ WorkInvariant)'
    BY <2>5 DEF BranchMerged, Shape, WorkInvariant, NoBranch
  <2>6. ASSUME NEW w, BranchDeleted(w) PROVE (Shape /\ WorkInvariant)'
    BY <2>6 DEF BranchDeleted, MergedToTarget, Shape, WorkInvariant, NoBranch
  <2> QED
    BY <2>1, <2>2, <2>3, <2>4, <2>5, <2>6 DEF Change, Changed
<1> QED
  BY <1>1, <1>2, PTL DEF TaskSpec

\* The work on every branch is held by the branch or by the target, whatever
\* create, merge, remove, reset, cleanup-branch and closeout-all do at once and
\* wherever they stop.
THEOREM WorkIsKept == TaskSpec => []NoWorkLost
<1>1. Shape /\ WorkInvariant => NoWorkLost
  BY DEF Shape, WorkInvariant, NoWorkLost
<1> QED
  BY <1>1, WorkIsHeld, PTL

\* A worktree with uncommitted edits disappears only by remove --force.
THEOREM EditsGoOnlyByForce == TaskSpec => EditsAreKept
<1>1. TaskInit => Shape
  BY DEF TaskInit, Shape
<1>2. Shape /\ [TaskNext]_taskVars => Shape'
  <2> SUFFICES ASSUME Shape, Change PROVE Shape'
    BY EveryStepChanges
  <2>1. ASSUME NEW w, Changed(w) PROVE Shape'
    <3>1. CASE TreeChanged(w)
      BY <3>1 DEF TreeChanged, Shape
    <3>2. CASE Branched(w) \/ BranchMerged(w) \/ BranchDeleted(w)
      BY <3>2 DEF Branched, BranchMerged, BranchDeleted, Shape
    <3>3. CASE Committed(w)
      BY <3>3, CommittedKeepsShape
    <3> QED
      BY <2>1, <3>1, <3>2, <3>3 DEF Changed
  <2> QED
    BY <2>1 DEF Change, Untouched, Shape
<1>3. Shape /\ [TaskNext]_taskVars =>
        [\A w \in Worktrees :
           tree[w] = "dirty" /\ tree'[w] = "none" => Remove(w, TRUE)]_taskVars
  <2> SUFFICES ASSUME Shape, Change, NEW w \in Worktrees, tree[w] = "dirty", tree'[w] = "none"
               PROVE  Remove(w, TRUE)
    BY EveryStepChanges
  <2>1. PICK v : Changed(v)
    BY DEF Change, Untouched
  <2>2. CASE TreeChanged(v)
    <3>1. PICK status \in {"none", "clean", "dirty"} :
            /\ tree' = [tree EXCEPT ![v] = status]
            /\ tree[v] = "dirty" /\ status = "none" => Remove(v, TRUE)
      BY <2>2 DEF TreeChanged
    <3>2. v = w /\ status = "none"
      BY <3>1 DEF Shape
    <3> QED
      BY <3>1, <3>2
  <2>3. CASE Branched(v) \/ Committed(v) \/ BranchMerged(v) \/ BranchDeleted(v)
    BY <2>3 DEF Branched, Committed, BranchMerged, BranchDeleted, Shape
  <2> QED
    BY <2>1, <2>2, <2>3 DEF Changed
<1> QED
  BY <1>1, <1>2, <1>3, PTL DEF TaskSpec, EditsAreKept

-----------------------------------------------------------------------------
\* closeout-all and finalize: what their plan or snapshot promised against what
\* target and host hold.

CloseoutSteps ==
  {"closeout", "remove", "sessions", "branch", "staged", "committed", "looked", "finalized"}

\* The steps after which nothing is left to merge.
SettledSteps == {"looked", "staged", "committed", "finalized"}

SettledWork(j, w) ==
  /\ j.ahead[w] <= merged[w]
  /\ j.step # "looked" /\ host.index # Elsewhere => j.ahead[w] <= host.index[w]
  /\ j.step \in {"committed", "finalized"} /\ host.committed # Elsewhere =>
       j.ahead[w] <= host.committed[w]

\* A worker's job is backed: what it planned was made, what it has settled the
\* target holds, and what is staged or committed the gitlink holds.
JobIsBacked(j) ==
  /\ "step" \in DOMAIN j
  /\ j.step \in CloseoutSteps =>
       /\ DOMAIN j.ahead \subseteq Worktrees
       /\ \A w \in DOMAIN j.ahead : j.ahead[w] \in Int /\ j.ahead[w] <= made[w]
  /\ j.step = "closeout" =>
       /\ j = [step |-> "closeout", todo |-> j.todo, ahead |-> j.ahead]
       /\ \A w \in DOMAIN j.ahead : w \in j.todo \/ j.ahead[w] <= merged[w]
  /\ j.step \in {"remove", "sessions", "branch"} =>
       /\ j = [step |-> j.step, w |-> j.w, todo |-> j.todo, ahead |-> j.ahead]
       /\ \A w \in DOMAIN j.ahead : w \in j.todo \/ w = j.w \/ j.ahead[w] <= merged[w]
  /\ j.step \in SettledSteps =>
       /\ j = [step |-> j.step, ahead |-> j.ahead]
       /\ \A w \in DOMAIN j.ahead : SettledWork(j, w)

Backed ==
  /\ Shape /\ WorkInvariant
  /\ job = [p \in Workers |-> job[p]]
  /\ host = [index |-> host.index, committed |-> host.committed]
  /\ \A p \in Workers : JobIsBacked(job[p])

\* Commits and merges are only added.
Grown == \A w \in Worktrees :
           /\ made[w] \in Nat /\ made'[w] \in Nat /\ made[w] <= made'[w]
           /\ merged[w] \in Nat /\ merged'[w] \in Nat /\ merged[w] <= merged'[w]

Restaged == host' = [index |-> CurrentHead, committed |-> host.committed]
Recommitted == host' = [index |-> host.index, committed |-> host.index]

LEMMA WorkGrows == ASSUME Shape, WorkInvariant, Change PROVE Grown
<1>1. ASSUME NEW w \in Worktrees
      PROVE  made[w] \in Nat /\ merged[w] \in Nat /\ merged[w] <= made[w] /\ (tip[w] # NoBranch => tip[w] = made[w])
  BY DEF Shape, WorkInvariant
<1>2. CASE Untouched
  BY <1>1, <1>2 DEF Untouched, Grown
<1>3. ASSUME NEW v, TreeChanged(v) \/ Branched(v) \/ BranchDeleted(v) PROVE Grown
  <2>1. made' = made /\ merged' = merged
    BY <1>3 DEF TreeChanged, Branched, BranchDeleted
  <2> QED
    BY <1>1, <2>1 DEF Grown
<1>4. ASSUME NEW v, Committed(v) PROVE Grown
  <2>1. merged' = merged /\ made' = [made EXCEPT ![v] = @ + 1]
    BY <1>4 DEF Committed
  <2> QED
    BY <1>1, <2>1 DEF Grown, Shape
<1>5. ASSUME NEW v, BranchMerged(v) PROVE Grown
  <2>1. /\ made' = made /\ merged' = [merged EXCEPT ![v] = tip[v]]
        /\ tip[v] # NoBranch /\ merged[v] < tip[v]
    BY <1>5 DEF BranchMerged
  <2> QED
    BY <1>1, <2>1 DEF Grown, Shape
<1> QED
  BY <1>2, <1>3, <1>4, <1>5 DEF Change, Changed

\* A job that does not move stays backed.
LEMMA StaysBacked ==
  ASSUME Grown, NEW j, JobIsBacked(j), UNCHANGED host \/ Restaged \/ Recommitted
  PROVE  JobIsBacked(j)'
<1>1. ASSUME j.step \in CloseoutSteps, NEW w \in DOMAIN j.ahead
      PROVE  /\ w \in Worktrees /\ j.ahead[w] \in Int
             /\ j.ahead[w] <= made'[w]
             /\ j.ahead[w] <= merged[w] => j.ahead[w] <= merged'[w]
  BY <1>1 DEF Grown, JobIsBacked
<1>2. ASSUME j.step \in SettledSteps, NEW w \in DOMAIN j.ahead
      PROVE  SettledWork(j, w)'
  <2>1. SettledWork(j, w)
    BY <1>2 DEF JobIsBacked
  <2>2. j.ahead[w] <= merged'[w]
    BY <1>1, <1>2, <2>1 DEF CloseoutSteps, SettledSteps, SettledWork
  <2>3. CASE UNCHANGED host
    BY <2>1, <2>2, <2>3 DEF SettledWork
  <2>4. CASE Restaged
    BY <2>1, <2>2, <2>4 DEF Restaged, CurrentHead, SettledWork
  <2>5. CASE Recommitted
    BY <1>2, <2>1, <2>2, <2>5 DEF Recommitted, SettledWork
  <2> QED
    BY <2>3, <2>4, <2>5
<1> QED
  BY <1>1, <1>2 DEF JobIsBacked, CloseoutSteps, SettledSteps, SettledWork

\* A job outside closeout-all and finalize is backed.
LEMMA OthersAreBacked ==
  ASSUME NEW j, "step" \in DOMAIN j, j.step \notin CloseoutSteps
  PROVE  JobIsBacked(j)'
BY DEF JobIsBacked, CloseoutSteps, SettledSteps

\* What a step does to the jobs.
Moved == \E p \in Workers : \E j : Goto(p, j) /\ JobIsBacked(j)'

LEMMA OutsideMoves == ASSUME Agents \/ OneStep PROVE UNCHANGED job /\ UNCHANGED host
<1>1. Agents => UNCHANGED job /\ UNCHANGED host
  BY DEF Agents, Edit, CommitWork, UseSource, Heartbeat, AcquireLock, Tick
<1>2. OneStep => UNCHANGED job /\ UNCHANGED host
  BY DEF OneStep, CloseTask, QueueTask, Remove, CleanupBranch, Reset
<1> QED
  BY <1>1, <1>2

\* The other subcommands leave the host alone and never get into such a step.
LEMMA SubcommandMoves ==
  ASSUME Backed, NEW p \in Workers, Create(p) \/ Merge(p) \/ Reconcile(p) \/ Leave(p)
  PROVE  Moved /\ UNCHANGED host
<1> DEFINE Plain(j) == Goto(p, j) /\ "step" \in DOMAIN j /\ j.step \notin CloseoutSteps
<1>0. "step" \in DOMAIN job[p]
  BY DEF Backed, JobIsBacked
<1>1. Plain(Idle) <=> Goto(p, Idle)
  BY DEF Idle, CloseoutSteps
<1>2. ASSUME NEW step \in {"registered", "ready", "mark"}
      PROVE  Plain([job[p] EXCEPT !.step = step]) <=> Goto(p, [job[p] EXCEPT !.step = step])
  BY <1>0 DEF CloseoutSteps
<1>3. Plain(Created(job[p])) <=> Goto(p, Created(job[p]))
  BY <1>1, <1>2 DEF Created
<1>4. CASE Create(p)
  <2>1. ASSUME NEW w, NEW s, NEW requested, NEW dispatch, NEW lock,
               CreateTree(p, w, s, requested, dispatch, lock)
        PROVE  (\E j : Plain(j)) /\ UNCHANGED host
    BY <2>1 DEF CreateTree, CloseoutSteps
  <2>2. CreateRegister(p) => (\E j : Plain(j)) /\ UNCHANGED host
    BY <1>2, <1>3 DEF CreateRegister
  <2>3. CreateLock(p) => (\E j : Plain(j)) /\ UNCHANGED host
    BY <1>3 DEF CreateLock
  <2>4. DispatchPayload(p) => (\E j : Plain(j)) /\ UNCHANGED host
    BY <1>1 DEF DispatchPayload
  <2> QED
    BY <1>4, <2>1, <2>2, <2>3, <2>4, OthersAreBacked DEF Create, Moved
<1>5. CASE Merge(p)
  <2>1. ASSUME NEW w, NEW items, MergeCheck(p, w, items)
        PROVE  (\E j : Plain(j)) /\ UNCHANGED host
    BY <2>1 DEF MergeCheck, CloseoutSteps
  <2>2. MergeRun(p) => (\E j : Plain(j)) /\ UNCHANGED host
    BY <1>1, <1>2 DEF MergeRun
  <2>3. MergeConflict(p) \/ MergeMark(p) => (\E j : Plain(j)) /\ UNCHANGED host
    BY <1>1 DEF MergeConflict, MergeMark
  <2> QED
    BY <1>5, <2>1, <2>2, <2>3, OthersAreBacked DEF Merge, Moved
<1>6. CASE Reconcile(p)
  <2>1. ReconcileSnapshot(p) \/ ReadCoord(p) \/ ReadLive(p) => (\E j : Plain(j)) /\ UNCHANGED host
    BY DEF ReconcileSnapshot, ReadCoord, ReadLive, CloseoutSteps
  <2>2. MarkMissing(p) => (\E j : Plain(j)) /\ UNCHANGED host
    BY <1>1 DEF MarkMissing
  <2> QED
    BY <1>6, <2>1, <2>2, OthersAreBacked DEF Reconcile, Moved
<1>7. CASE Leave(p)
  BY <1>1, <1>7, OthersAreBacked DEF Leave, Moved
<1> QED
  BY <1>4, <1>5, <1>6, <1>7

\* closeout-all keeps what it promised: a merge is settled only when the branch
\* is gone, and the gitlink is staged only when all are settled.
LEMMA CloseoutMoves ==
  ASSUME Backed, Grown, NEW p \in Workers, CloseoutAll(p)
  PROVE  Moved /\ (UNCHANGED host \/ Restaged \/ Recommitted)
<1>old. PICK old : old = job[p]
  OBVIOUS
<1>0. JobIsBacked(old)
  BY <1>old DEF Backed
<1>1. ASSUME NEW w \in Worktrees
      PROVE  /\ tip[w] # NoBranch => tip[w] = made[w]
             /\ tip[w] = NoBranch => merged[w] = made[w]
  BY DEF Backed, WorkInvariant
<1>2. ASSUME CloseoutPlan(p) PROVE Moved /\ UNCHANGED host
  <2> DEFINE present == {w \in Worktrees : tree[w] # "none"}
             unmerged == {w \in present : ~MergedToTarget(w)}
             none == [step |-> "committed", ahead |-> << >>]
  <2>0. PICK all : all = [step |-> "closeout", todo |-> present, ahead |-> [w \in unmerged |-> tip[w]]]
    OBVIOUS
  <2>1. /\ UNCHANGED host /\ \A w \in present : tip[w] # NoBranch
        /\ Goto(p, none) \/ Goto(p, all)
    BY <1>2, <2>0 DEF CloseoutPlan, Closable
  <2>2. JobIsBacked(none)'
    BY DEF JobIsBacked, SettledSteps
  <2>3. \A w \in unmerged : w \in Worktrees /\ tip[w] \in Int /\ tip[w] <= made'[w]
    BY <1>1, <2>1 DEF Grown
  <2>4. JobIsBacked(all)'
    BY <2>0, <2>3 DEF JobIsBacked, SettledSteps
  <2> QED
    BY <2>1, <2>2, <2>4 DEF Moved
<1>3. ASSUME NEW w \in Worktrees, CloseoutMerge(p, w) PROVE Moved /\ UNCHANGED host
  <2> DEFINE j == [step |-> "remove", w |-> w, todo |-> old.todo \ {w}, ahead |-> old.ahead]
  <2>1. old.step = "closeout" /\ w \in old.todo /\ Goto(p, j) /\ UNCHANGED host
    BY <1>old, <1>3 DEF CloseoutMerge, At
  <2>2. JobIsBacked(old)'
    BY <1>0, <2>1, StaysBacked
  <2>3. JobIsBacked(j)'
    BY <2>1, <2>2 DEF JobIsBacked, CloseoutSteps, SettledSteps
  <2> QED
    BY <2>1, <2>3 DEF Moved
<1>4. ASSUME NEW w, CloseoutConflict(p, w) PROVE Moved /\ UNCHANGED host
  BY <1>4, OthersAreBacked DEF CloseoutConflict, CloseoutSteps, Moved
<1>5. CloseoutAbort(p) => Moved /\ UNCHANGED host
  BY OthersAreBacked DEF CloseoutAbort, Idle, CloseoutSteps, Moved
<1>6. ASSUME CloseoutRemove(p) \/ CloseoutSessions(p) PROVE Moved /\ UNCHANGED host
  <2>1. PICK step \in {"sessions", "branch"} :
          /\ old.step \in {"remove", "sessions"}
          /\ Goto(p, [old EXCEPT !.step = step]) /\ UNCHANGED host
    BY <1>old, <1>6 DEF CloseoutRemove, CloseoutSessions, At
  <2> DEFINE j == [step |-> step, w |-> old.w, todo |-> old.todo, ahead |-> old.ahead]
  <2>2. JobIsBacked(old)'
    BY <1>0, <2>1, StaysBacked
  <2>3. [old EXCEPT !.step = step] = j
    BY <1>0, <2>1 DEF JobIsBacked
  <2>4. JobIsBacked(j)'
    BY <2>1, <2>2 DEF JobIsBacked, CloseoutSteps, SettledSteps
  <2> HIDE DEF j
  <2> QED
    BY <2>1, <2>3, <2>4 DEF Moved
<1>7. ASSUME CloseoutBranch(p) PROVE Moved /\ UNCHANGED host
  <2> DEFINE j == [step |-> "closeout", todo |-> old.todo, ahead |-> old.ahead]
  <2>1. /\ old.step = "branch" /\ Goto(p, j) /\ UNCHANGED host
        /\ (tip[old.w] # NoBranch /\ tip[old.w] <= merged[old.w]) \/ tip[old.w] = NoBranch
    BY <1>old, <1>7 DEF CloseoutBranch, At, GitDeleteBranch, MergedToTarget
  <2>2. JobIsBacked(old)'
    BY <1>0, <2>1, StaysBacked
  <2>3. ASSUME old.w \in DOMAIN old.ahead PROVE old.ahead[old.w] <= merged'[old.w]
    <3>1. old.w \in Worktrees /\ old.ahead[old.w] \in Int /\ old.ahead[old.w] <= made[old.w]
      BY <1>0, <2>1, <2>3 DEF JobIsBacked, CloseoutSteps
    <3>2. merged[old.w] >= made[old.w]
      BY <1>1, <2>1, <3>1 DEF Grown
    <3> QED
      BY <3>1, <3>2 DEF Grown
  <2>4. JobIsBacked(j)'
    BY <2>1, <2>2, <2>3 DEF JobIsBacked, CloseoutSteps, SettledSteps
  <2> QED
    BY <2>1, <2>4 DEF Moved
<1>8. ASSUME CloseoutStage(p) PROVE Moved /\ Restaged
  <2> DEFINE j == [step |-> "staged", ahead |-> old.ahead]
  <2>1. /\ old.step = "closeout" /\ old.todo = {} /\ Goto(p, j)
        /\ host' = [host EXCEPT !.index = CurrentHead] /\ merged' = merged
    BY <1>old, <1>8 DEF CloseoutStage, At, gitVars
  <2>2. Restaged
    BY <2>1 DEF Restaged, Backed
  <2>3. JobIsBacked(old)'
    BY <1>0, <2>2, StaysBacked
  <2>4. host'.index # Elsewhere => host'.index = merged'
    BY <2>1, <2>2 DEF Restaged, CurrentHead
  <2>5. JobIsBacked(j)'
    BY <2>1, <2>3, <2>4 DEF JobIsBacked, CloseoutSteps, SettledSteps, SettledWork
  <2> QED
    BY <2>1, <2>2, <2>5 DEF Moved
<1>9. ASSUME CloseoutCommit(p) PROVE Moved /\ Recommitted
  <2> DEFINE j == [step |-> "committed", ahead |-> old.ahead]
  <2>1. /\ old.step = "staged" /\ Goto(p, [old EXCEPT !.step = "committed"])
        /\ host' = [host EXCEPT !.committed = host.index]
    BY <1>old, <1>9 DEF CloseoutCommit, At
  <2>2. Recommitted
    BY <2>1 DEF Recommitted, Backed
  <2>3. JobIsBacked(old)'
    BY <1>0, <2>2, StaysBacked
  <2>4. [old EXCEPT !.step = "committed"] = j
    BY <1>0, <2>1 DEF JobIsBacked, SettledSteps
  <2>5. host'.committed = host'.index
    BY <2>2 DEF Recommitted
  <2>6. JobIsBacked(j)'
    BY <2>1, <2>3, <2>5 DEF JobIsBacked, CloseoutSteps, SettledSteps, SettledWork
  <2> HIDE DEF j
  <2> QED
    BY <2>1, <2>2, <2>4, <2>6 DEF Moved
<1> QED
  BY <1>2, <1>3, <1>4, <1>5, <1>6, <1>7, <1>8, <1>9 DEF CloseoutAll

\* So does finalize: a listed worktree it passes is merged, a branch that is gone
\* was, and the host it passes has committed the head.
LEMMA FinalizeMoves ==
  ASSUME Backed, Grown, NEW p \in Workers, Finalize(p)
  PROVE  Moved /\ UNCHANGED host
<1>old. PICK old : old = job[p]
  OBVIOUS
<1>0. JobIsBacked(old)
  BY <1>old DEF Backed
<1>1. ASSUME FinalizeLook(p) PROVE Moved /\ UNCHANGED host
  <2>0. PICK j : j = [step |-> "looked", ahead |-> [w \in Settled |-> made[w]]]
    OBVIOUS
  <2>1. Goto(p, j) /\ UNCHANGED host /\ \A w \in Listed : MergedToTarget(w)
    BY <1>1, <2>0 DEF FinalizeLook
  <2>2. ASSUME NEW w \in Settled
        PROVE  w \in Worktrees /\ made[w] \in Int /\ made[w] <= made'[w] /\ made[w] <= merged'[w]
    <3>1. w \in Worktrees
      BY DEF Settled, Listed
    <3>2. /\ made[w] \in Nat /\ merged[w] \in 0..made[w]
          /\ tip[w] = NoBranch => merged[w] = made[w]
          /\ tip[w] # NoBranch => tip[w] = made[w]
      BY <3>1 DEF Backed, Shape, WorkInvariant
    <3>3. made[w] <= merged[w]
      BY <2>1, <3>2 DEF Settled, MergedToTarget
    <3> QED
      BY <3>1, <3>3 DEF Grown
  <2>3. JobIsBacked(j)'
    BY <2>0, <2>2 DEF JobIsBacked, CloseoutSteps, SettledSteps, SettledWork
  <2> QED
    BY <2>1, <2>3 DEF Moved
<1>2. ASSUME FinalizeHost(p) PROVE Moved /\ UNCHANGED host
  <2> DEFINE j == [step |-> "finalized", ahead |-> old.ahead]
  <2>1. /\ old.step = "looked" /\ Goto(p, [old EXCEPT !.step = "finalized"])
        /\ UNCHANGED host /\ merged' = merged
        /\ host.index = CurrentHead /\ host.committed = CurrentHead
    BY <1>old, <1>2 DEF FinalizeHost, HostIsClosed, At, gitVars
  <2>2. [old EXCEPT !.step = "finalized"] = j
    BY <1>0, <2>1 DEF JobIsBacked, SettledSteps
  <2>3. JobIsBacked(old)'
    BY <1>0, <2>1, StaysBacked
  <2>4. CurrentHead # Elsewhere => CurrentHead = merged'
    BY <2>1 DEF CurrentHead
  <2>5. JobIsBacked(j)'
    BY <2>1, <2>3, <2>4 DEF JobIsBacked, CloseoutSteps, SettledSteps, SettledWork
  <2> HIDE DEF j
  <2> QED
    BY <2>1, <2>2, <2>5 DEF Moved
<1> QED
  BY <1>1, <1>2 DEF Finalize

\* However many closeouts, merges and commits overlap, and wherever they stop: a
\* closeout-all that comes to completing its task has its planned commits in the
\* target and in the host's last commit, unless the checkout was elsewhere, and so
\* has a finalize that passes all the work that its snapshot showed.
THEOREM CloseoutIsBacked == TaskSpec => []CompletionIsBacked
<1>1. TaskInit /\ Shape /\ WorkInvariant => Backed
  <2> SUFFICES ASSUME TaskInit, Shape, WorkInvariant PROVE Backed
    OBVIOUS
  <2>1. JobIsBacked(Idle)
    BY DEF JobIsBacked, Idle, CloseoutSteps, SettledSteps
  <2> QED
    BY <2>1 DEF TaskInit, Backed
<1>2. Backed /\ (Shape /\ WorkInvariant)' /\ [TaskNext]_taskVars => Backed'
  <2> SUFFICES ASSUME Backed, (Shape /\ WorkInvariant)', [TaskNext]_taskVars PROVE Backed'
    OBVIOUS
  <2>1. Grown
    BY EveryStepChanges, WorkGrows DEF Backed
  <2>2. (UNCHANGED job \/ Moved) /\ (UNCHANGED host \/ Restaged \/ Recommitted)
    <3>1. CASE UNCHANGED taskVars
      BY <3>1 DEF taskVars
    <3>2. CASE Agents \/ OneStep
      BY <3>2, OutsideMoves
    <3>3. ASSUME NEW p \in Workers, Create(p) \/ Merge(p) \/ Reconcile(p) \/ CloseoutAll(p)
                                    \/ Finalize(p) \/ Leave(p)
          PROVE  Moved /\ (UNCHANGED host \/ Restaged \/ Recommitted)
      BY <2>1, <3>3, SubcommandMoves, CloseoutMoves, FinalizeMoves
    <3> QED
      BY <3>1, <3>2, <3>3 DEF TaskNext
  <2>3. host' = [index |-> host'.index, committed |-> host'.committed]
    BY <2>2 DEF Restaged, Recommitted, Backed
  <2>4. ASSUME NEW p \in Workers, job'[p] = job[p] PROVE JobIsBacked(job[p])'
    <3>1. PICK j : j = job[p]
      OBVIOUS
    <3>2. JobIsBacked(j)'
      BY <2>1, <2>2, <3>1, StaysBacked DEF Backed
    <3> QED
      BY <2>4, <3>1, <3>2 DEF JobIsBacked
  <2>5. CASE UNCHANGED job
    BY <2>3, <2>4, <2>5 DEF Backed
  <2>6. CASE Moved
    <3>0. PICK p \in Workers : \E j : Goto(p, j) /\ JobIsBacked(j)'
      BY <2>6 DEF Moved
    <3>1. PICK j : Goto(p, j) /\ JobIsBacked(j)'
      BY <3>0
    <3>2. job' = [q \in Workers |-> IF q = p THEN j ELSE job[q]]
      BY <3>1 DEF Goto, Backed
    <3>3. ASSUME NEW q \in Workers PROVE JobIsBacked(job[q])'
      <4>1. CASE q = p
        <5>1. job'[q] = j
          BY <3>2, <4>1
        <5> QED
          BY <3>1, <5>1 DEF JobIsBacked
      <4>2. CASE q # p
        BY <2>4, <3>2, <4>2
      <4> QED
        BY <4>1, <4>2
    <3> QED
      BY <2>3, <3>2, <3>3 DEF Backed
  <2> QED
    BY <2>2, <2>5, <2>6
<1>3. Backed => CompletionIsBacked
  <2> SUFFICES ASSUME Backed PROVE CompletionIsBacked
    OBVIOUS
  <2>1. ASSUME NEW p \in Workers, At(p, "committed") \/ At(p, "finalized"),
               NEW w \in DOMAIN job[p].ahead
        PROVE  /\ merged[w] >= job[p].ahead[w]
               /\ host.committed # Elsewhere => host.committed[w] >= job[p].ahead[w]
    <3>1. JobIsBacked(job[p]) /\ job[p].step \in {"committed", "finalized"}
      BY <2>1 DEF Backed, At
    <3>2. SettledWork(job[p], w)
      BY <3>1 DEF JobIsBacked, SettledSteps
    <3>3. job[p].ahead[w] \in Int /\ w \in Worktrees
      BY <3>1 DEF JobIsBacked, CloseoutSteps
    <3> QED
      BY <3>1, <3>2, <3>3 DEF SettledWork
  <2> QED
    BY <2>1 DEF CompletionIsBacked
<1> QED
  BY <1>1, <1>2, <1>3, WorkIsHeld, PTL DEF TaskSpec

-----------------------------------------------------------------------------
\* Where the subcommands that take several steps can be, by step.

CreateJobs == [step : {"added", "registered", "ready"}, w : Worktrees, s : SessionIds,
               requested : Requests, dispatch : BOOLEAN]
ItemJobs == [step : {"merge", "mark"}, w : Worktrees, items : SUBSET ItemIds]
SettleJobs == [step : {"remove", "sessions", "branch"}, w : Worktrees,
               todo : SUBSET Worktrees, ahead : Ahead]
CloseoutJobs == [step : {"closeout"}, todo : SUBSET Worktrees, ahead : Ahead]
CoordJobs == [step : {"coord"}, live : SUBSET Worktrees, sessions : SUBSET SessionIds]
SnapshotJobs == [step : {"snapshot"}, live : SUBSET Worktrees]
LiveJobs == [step : {"live"}, sessions : SUBSET SessionIds]
AbortJobs == {[step |-> "abort"]}
HostJobs == [step : {"looked", "finalized", "staged", "committed"}, ahead : Ahead]

\* A job is one of these, and its step says which.
LEMMA JobForms ==
  Jobs = {Idle} \cup CreateJobs \cup ItemJobs \cup SettleJobs \cup CloseoutJobs \cup CoordJobs
           \cup SnapshotJobs \cup LiveJobs \cup AbortJobs \cup HostJobs
<1>1. ItemJobs = [step : {"merge"}, w : Worktrees, items : SUBSET ItemIds]
                   \cup [step : {"mark"}, w : Worktrees, items : SUBSET ItemIds]
  BY DEF ItemJobs
<1> HIDE DEF ItemJobs
<1> QED
  BY <1>1 DEF Jobs, CreateJobs, SettleJobs, CloseoutJobs, CoordJobs, SnapshotJobs, LiveJobs,
     AbortJobs, HostJobs

LEMMA JobOfStep ==
  ASSUME NEW j \in Jobs
  PROVE  /\ j.step \in {"added", "registered", "ready"} => j \in CreateJobs
         /\ j.step \in {"merge", "mark"} => j \in ItemJobs
         /\ j.step \in {"remove", "sessions", "branch"} => j \in SettleJobs
         /\ j.step = "closeout" => j \in CloseoutJobs
         /\ j.step = "coord" => j \in CoordJobs
         /\ j.step = "snapshot" => j \in SnapshotJobs
         /\ j.step = "live" => j \in LiveJobs
         /\ j.step = "abort" => j \in AbortJobs
         /\ j.step \in SettledSteps => j \in HostJobs
<1>1. /\ \A k \in CreateJobs : k.step \in {"added", "registered", "ready"}
      /\ \A k \in ItemJobs : k.step \in {"merge", "mark"}
      /\ \A k \in SettleJobs : k.step \in {"remove", "sessions", "branch"}
      /\ \A k \in CloseoutJobs : k.step = "closeout"
      /\ \A k \in CoordJobs : k.step = "coord"
  BY DEF CreateJobs, ItemJobs, SettleJobs, CloseoutJobs, CoordJobs
<1>2. /\ \A k \in SnapshotJobs : k.step = "snapshot"
      /\ \A k \in LiveJobs : k.step = "live"
      /\ \A k \in AbortJobs : k.step = "abort"
      /\ \A k \in HostJobs : k.step \in SettledSteps
      /\ Idle.step = "idle"
  BY DEF SnapshotJobs, LiveJobs, AbortJobs, HostJobs, SettledSteps, Idle
<1> QED
  BY <1>1, <1>2, JobForms DEF SettledSteps

-----------------------------------------------------------------------------
\* The edits of the document that the subcommands make.

\* In a document whose locks are held, each lock has its session, and an active
\* lock one that is active or spared.
LocksHeld(d, spared) ==
  \A i \in DOMAIN d.locks :
    /\ d.locks[i].session \in DOMAIN d.sessions
    /\ d.locks[i].status = "active" =>
         d.sessions[d.locks[i].session].status = "active" \/ d.locks[i].session \in spared

HeldDocument(d, spared) == Coord!IsDocument(d) /\ LocksHeld(d, spared)

\* What the sessions of d become in e: none goes, none moves, and only those in
\* stale may be marked as missing.
Continues(d, e, stale) ==
  /\ DOMAIN d.sessions \subseteq DOMAIN e.sessions
  /\ \A s \in DOMAIN d.sessions :
       /\ e.sessions[s].worktree = d.sessions[s].worktree
       /\ e.sessions[s].status = "stale_or_missing_worktree" =>
            d.sessions[s].status = "stale_or_missing_worktree" \/ s \in stale

LEMMA RelabelledLocks ==
  ASSUME NEW locks \in Seq(Coord!Lock), NEW chosen, NEW label \in Coord!LockStatuses
  PROVE  LET new == Coord!Relabel(locks, chosen, label) IN
         /\ new \in Seq(Coord!Lock) /\ DOMAIN new = DOMAIN locks
         /\ \A i \in DOMAIN locks :
              /\ new[i].session = locks[i].session
              /\ new[i].status \in {locks[i].status, label}
              /\ i \in chosen /\ label # "active" => new[i].status # "active"
<1> DEFINE new == Coord!Relabel(locks, chosen, label)
<1>1. DOMAIN new = DOMAIN locks
  BY DEF Coord!Relabel
<1>2. ASSUME NEW i \in DOMAIN locks
      PROVE  /\ new[i] \in Coord!Lock
             /\ new[i].session = locks[i].session
             /\ new[i].status \in {locks[i].status, label}
             /\ i \in chosen /\ label # "active" => new[i].status # "active"
  <2>1. locks[i] \in Coord!Lock
    OBVIOUS
  <2> QED
    BY <2>1 DEF Coord!Relabel, Coord!Lock
<1>3. new \in Seq(Coord!Lock)
  <2>1. DOMAIN locks = 1..Len(locks) /\ Len(locks) \in Nat
    OBVIOUS
  <2>2. new = [i \in 1..Len(locks) |-> new[i]]
    BY <2>1 DEF Coord!Relabel
  <2> QED
    BY <1>1, <1>2, <2>1, <2>2
<1> QED
  BY <1>1, <1>2, <1>3

LEMMA RequestedLocks ==
  ASSUME NEW s \in SessionIds, NEW requested \in Seq(Scopes), NEW expires \in Int
  PROVE  LET new == Coord!NewLocks(s, requested, expires) IN
         /\ new \in Seq(Coord!Lock) /\ Len(requested) \in Nat
         /\ DOMAIN requested = 1..Len(requested)
         /\ \A k \in DOMAIN new : new[k].session = s
<1> DEFINE new == Coord!NewLocks(s, requested, expires)
<1>2. DOMAIN requested = 1..Len(requested) /\ Len(requested) \in Nat
  OBVIOUS
<1>3. ASSUME NEW k \in DOMAIN requested PROVE new[k] \in Coord!Lock /\ new[k].session = s
  BY DEF Coord!NewLocks, Coord!Lock, Coord!LockStatuses
<1>4. DOMAIN new = DOMAIN requested /\ new = [k \in 1..Len(requested) |-> new[k]]
  BY <1>2 DEF Coord!NewLocks
<1>5. new \in Seq(Coord!Lock)
  BY <1>2, <1>3, <1>4
<1> QED
  BY <1>2, <1>3, <1>4, <1>5

\* A lease is renewed.
LEMMA RenewedIsHeld ==
  ASSUME NEW d, NEW spared, HeldDocument(d, spared), NEW s \in DOMAIN d.sessions, NEW expires \in Int
  PROVE  LET e == [d EXCEPT !.sessions[s].expires = expires] IN
         HeldDocument(e, spared) /\ Continues(d, e, {}) /\ DOMAIN e.sessions = DOMAIN d.sessions
<1> DEFINE f == [d.sessions EXCEPT ![s] = [@ EXCEPT !.expires = expires]]
           e == [d EXCEPT !.sessions = f]
<1>1. d.sessions[s] \in Coord!Session
  BY DEF HeldDocument, Coord!IsDocument
<1>2. f \in [DOMAIN d.sessions -> Coord!Session]
  BY <1>1 DEF HeldDocument, Coord!IsDocument, Coord!Session
<1>3. \A t \in DOMAIN d.sessions :
        f[t].worktree = d.sessions[t].worktree /\ f[t].status = d.sessions[t].status
  BY <1>1 DEF Coord!Session
<1> HIDE DEF f
<1>4. Coord!IsDocument(e) /\ e.sessions = f /\ e.locks = d.locks /\ DOMAIN f = DOMAIN d.sessions
  BY <1>2 DEF HeldDocument, Coord!IsDocument
<1>5. HeldDocument(e, spared) /\ Continues(d, e, {})
  BY <1>3, <1>4 DEF HeldDocument, LocksHeld, Continues
<1> QED
  BY <1>4, <1>5 DEF f

\* Two fields of a document are replaced.
LEMMA DocumentFields ==
  ASSUME NEW d, Coord!IsDocument(d), NEW f, NEW locks, NEW ids
  PROVE  /\ [d EXCEPT !.sessions = f, !.locks = locks] =
              [sessions |-> f, locks |-> locks, queue |-> d.queue, announced |-> d.announced]
         /\ [d EXCEPT !.locks = locks, !.announced = ids] =
              [sessions |-> d.sessions, locks |-> locks, queue |-> d.queue, announced |-> ids]
<1> DEFINE g == [d EXCEPT !.sessions = f]
           l == [d EXCEPT !.locks = locks]
<1>1. d = [sessions |-> d.sessions, locks |-> d.locks, queue |-> d.queue, announced |-> d.announced]
  BY DEF Coord!IsDocument
<1>2. /\ g = [sessions |-> f, locks |-> d.locks, queue |-> d.queue, announced |-> d.announced]
      /\ l = [sessions |-> d.sessions, locks |-> locks, queue |-> d.queue, announced |-> d.announced]
  BY <1>1
<1>3. /\ [d EXCEPT !.sessions = f, !.locks = locks] = [g EXCEPT !.locks = locks]
      /\ [d EXCEPT !.locks = locks, !.announced = ids] = [l EXCEPT !.announced = ids]
  BY Zenon
<1> HIDE DEF g, l
<1> QED
  BY <1>2, <1>3

\* A session is registered under an id that is not in use.
LEMMA RegisteredIsHeld ==
  ASSUME NEW d, NEW spared, HeldDocument(d, spared), NEW s \in SessionIds, s \notin DOMAIN d.sessions,
         NEW w \in Worktrees, NEW expires \in Int
  PROVE  LET e == Coord!Registered(d, s, w, expires) IN
         /\ HeldDocument(e, spared) /\ Continues(d, e, {}) /\ DOMAIN e.sessions = DOMAIN d.sessions \cup {s}
         /\ e.sessions[s].worktree = w /\ e.sessions[s].status = "active"
<1> DEFINE v == [status |-> "active", worktree |-> w, expires |-> expires]
           f == Coord!Put(d.sessions, s, v)
           e == [d EXCEPT !.sessions = f]
<1>1. v \in Coord!Session /\ v.worktree = w /\ v.status = "active"
  BY DEF Coord!Session, Coord!SessionStatuses
<1> HIDE DEF v
<1>2. /\ DOMAIN f = DOMAIN d.sessions \cup {s} /\ f[s] = v
      /\ \A t \in DOMAIN d.sessions : f[t] = d.sessions[t]
  BY DEF Coord!Put
<1>3. f \in [DOMAIN f -> Coord!Session]
  <2>1. \A t \in DOMAIN f : f[t] \in Coord!Session
    BY <1>1, <1>2 DEF HeldDocument, Coord!IsDocument
  <2> QED
    BY <2>1 DEF Coord!Put
<1> HIDE DEF f
<1>4. Coord!IsDocument(e) /\ e.sessions = f /\ e.locks = d.locks
  BY <1>2, <1>3 DEF HeldDocument, Coord!IsDocument
<1>5. HeldDocument(e, spared) /\ Continues(d, e, {})
  BY <1>2, <1>4 DEF HeldDocument, LocksHeld, Continues
<1>6. Coord!Registered(d, s, w, expires) = e
  BY DEF Coord!Registered, f, v
<1> QED
  BY <1>1, <1>2, <1>4, <1>5, <1>6

\* Locks are acquired for an active session.
LEMMA AcquiredIsHeld ==
  ASSUME NEW d, NEW spared, HeldDocument(d, spared), NEW s \in DOMAIN d.sessions, NEW requested \in Seq(Scopes),
         NEW expires \in Int, d.sessions[s].status = "active"
  PROVE  LET e == Coord!Acquired(d, s, requested, expires) IN
         HeldDocument(e, spared) /\ Continues(d, e, {}) /\ DOMAIN e.sessions = DOMAIN d.sessions
<1> DEFINE new == Coord!NewLocks(s, requested, expires)
           ids == d.announced \cup {Len(d.locks) + k : k \in DOMAIN requested}
           e == [d EXCEPT !.locks = d.locks \o new, !.announced = ids]
<1>0. s \in SessionIds
  BY DEF HeldDocument, Coord!IsDocument
<1>1. d.locks \in Seq(Coord!Lock)
  BY DEF HeldDocument, Coord!IsDocument
<1>2. /\ new \in Seq(Coord!Lock) /\ Len(requested) \in Nat /\ DOMAIN requested = 1..Len(requested)
      /\ \A k \in DOMAIN new : new[k].session = s
  BY <1>0, RequestedLocks
<1>3. ids \subseteq Nat
  BY <1>1, <1>2 DEF HeldDocument, Coord!IsDocument
<1> HIDE DEF new, ids
<1>4. d.locks \o new \in Seq(Coord!Lock)
  BY <1>1, <1>2
<1>5. /\ e = [sessions |-> d.sessions, locks |-> d.locks \o new, queue |-> d.queue, announced |-> ids]
      /\ e.sessions = d.sessions /\ e.locks = d.locks \o new
  <2> HIDE DEF e
  <2>1. e = [sessions |-> d.sessions, locks |-> d.locks \o new, queue |-> d.queue, announced |-> ids]
    BY DocumentFields DEF HeldDocument, e
  <2> QED
    BY <2>1
<1> HIDE DEF e
<1>6. Coord!IsDocument(e)
  BY <1>3, <1>4, <1>5 DEF HeldDocument, Coord!IsDocument
<1>7. LocksHeld(e, spared)
  <2> SUFFICES ASSUME NEW i \in DOMAIN e.locks
               PROVE  /\ e.locks[i].session \in DOMAIN d.sessions
                      /\ e.locks[i].status = "active" =>
                           \/ d.sessions[e.locks[i].session].status = "active"
                           \/ e.locks[i].session \in spared
    BY <1>5 DEF LocksHeld
  <2>1. CASE i \in DOMAIN d.locks
    BY <1>1, <1>2, <1>5, <2>1 DEF HeldDocument, LocksHeld
  <2>2. CASE i \notin DOMAIN d.locks
    <3>1. i - Len(d.locks) \in DOMAIN new /\ e.locks[i] = new[i - Len(d.locks)]
      BY <1>1, <1>2, <1>5, <2>2
    <3> QED
      BY <1>2, <3>1
  <2> QED
    BY <2>1, <2>2
<1>8. Coord!Acquired(d, s, requested, expires) = e
  BY Zenon DEF Coord!Acquired, new, ids, e
<1> QED
  BY <1>5, <1>6, <1>7, <1>8 DEF HeldDocument, Continues

\* A change of the queue alone.
LEMMA QueuedIsHeld ==
  ASSUME NEW d, NEW spared, HeldDocument(d, spared), NEW q \in Seq(Coord!Item)
  PROVE  LET e == [d EXCEPT !.queue = q] IN
         HeldDocument(e, spared) /\ Continues(d, e, {}) /\ DOMAIN e.sessions = DOMAIN d.sessions
<1> DEFINE e == [d EXCEPT !.queue = q]
<1>1. Coord!IsDocument(e) /\ e.sessions = d.sessions /\ e.locks = d.locks
  BY DEF HeldDocument, Coord!IsDocument
<1> QED
  BY <1>1 DEF HeldDocument, LocksHeld, Continues

\* Sessions get another status; an active lock that is left is of a session that is
\* spared from now on, or of one that neither was spared nor is retired.
SessionsRetired(d, f, sessions, status) ==
  /\ f \in [DOMAIN d.sessions -> Coord!Session]
  /\ \A s \in DOMAIN d.sessions :
       /\ f[s].worktree = d.sessions[s].worktree
       /\ f[s].status = IF s \in sessions THEN status ELSE d.sessions[s].status

LocksLeft(d, locks, before, sessions, spared) ==
  /\ locks \in Seq(Coord!Lock) /\ DOMAIN locks = DOMAIN d.locks
  /\ \A i \in DOMAIN d.locks :
       /\ locks[i].session = d.locks[i].session
       /\ locks[i].status = "active" =>
            /\ d.locks[i].status = "active"
            /\ locks[i].session \in spared \/ locks[i].session \notin before \cup sessions

LEMMA RetiredIsHeld ==
  ASSUME NEW d, NEW before, HeldDocument(d, before), NEW f, NEW locks, NEW sessions, NEW status,
         NEW spared, LocksLeft(d, locks, before, sessions, spared),
         SessionsRetired(d, f, sessions, status),
         NEW stale, status = "stale_or_missing_worktree" => sessions \subseteq stale,
         NEW e, e = [sessions |-> f, locks |-> locks, queue |-> d.queue, announced |-> d.announced]
  PROVE  /\ HeldDocument(e, spared) /\ Continues(d, e, stale)
         /\ DOMAIN e.sessions = DOMAIN d.sessions
<1>1. Coord!IsDocument(e) /\ e.sessions = f /\ e.locks = locks /\ DOMAIN f = DOMAIN d.sessions
  BY DEF HeldDocument, Coord!IsDocument, SessionsRetired, LocksLeft
<1>2. LocksHeld(e, spared)
  BY <1>1 DEF HeldDocument, LocksHeld, SessionsRetired, LocksLeft
<1>3. Continues(d, e, stale)
  BY <1>1 DEF Continues, SessionsRetired
<1> QED
  BY <1>1, <1>2, <1>3 DEF HeldDocument

\* reconcile and closeout-all retire sessions together with their locks.
LEMMA RetireAllIsHeld ==
  ASSUME HeldDocument(db, kept), NEW sessions, NEW status \in Coord!SessionStatuses,
         NEW label \in Coord!LockStatuses \ {"active"},
         NEW stale, status = "stale_or_missing_worktree" => sessions \subseteq stale
  PROVE  LET e == RetireAll(sessions, status, label) IN
         /\ HeldDocument(e, kept \ sessions) /\ Continues(db, e, stale)
         /\ DOMAIN e.sessions = DOMAIN db.sessions
<1> DEFINE f == [s \in DOMAIN db.sessions |->
                   IF s \in sessions THEN [db.sessions[s] EXCEPT !.status = status] ELSE db.sessions[s]]
           chosen == UNION {Coord!OwnedBy(db, s) : s \in sessions}
           locks == Coord!Relabel(db.locks, chosen, label)
<1>1. \A s \in DOMAIN db.sessions :
        /\ f[s] \in Coord!Session
        /\ f[s].worktree = db.sessions[s].worktree
        /\ f[s].status = IF s \in sessions THEN status ELSE db.sessions[s].status
  <2> SUFFICES ASSUME NEW s \in DOMAIN db.sessions
               PROVE  /\ f[s] \in Coord!Session
                      /\ f[s].worktree = db.sessions[s].worktree
                      /\ f[s].status = IF s \in sessions THEN status ELSE db.sessions[s].status
    OBVIOUS
  <2>1. db.sessions[s] \in Coord!Session
    BY DEF HeldDocument, Coord!IsDocument
  <2> QED
    BY <2>1 DEF Coord!Session
<1>2. f \in [DOMAIN db.sessions -> Coord!Session]
  BY <1>1
<1>3. db.locks \in Seq(Coord!Lock)
  BY DEF HeldDocument, Coord!IsDocument
<1>4. /\ locks \in Seq(Coord!Lock) /\ DOMAIN locks = DOMAIN db.locks
      /\ \A i \in DOMAIN db.locks :
           /\ locks[i].session = db.locks[i].session
           /\ locks[i].status \in {db.locks[i].status, label}
           /\ locks[i].status = "active" => db.locks[i].status = "active" /\ i \notin chosen
  <2> HIDE DEF chosen
  <2> QED
    BY <1>3, RelabelledLocks
<1>5. \A i \in DOMAIN db.locks : db.locks[i].session \in sessions => i \in chosen
  BY DEF Coord!OwnedBy
<1>6. RetireAll(sessions, status, label) = [db EXCEPT !.sessions = f, !.locks = locks]
  BY Zenon DEF RetireAll
<1> HIDE DEF f, chosen, locks
<1>a. PICK spared : spared = kept \ sessions
  OBVIOUS
<1>7. LocksLeft(db, locks, kept, sessions, spared)
  BY <1>a, <1>4, <1>5 DEF LocksLeft
<1>8. SessionsRetired(db, f, sessions, status)
  BY <1>1, <1>2 DEF SessionsRetired
<1>9. PICK e : e = [db EXCEPT !.sessions = f, !.locks = locks]
  OBVIOUS
<1>10. e = [sessions |-> f, locks |-> locks, queue |-> db.queue, announced |-> db.announced]
  BY <1>9, DocumentFields DEF HeldDocument
<1>11. HeldDocument(e, spared) /\ Continues(db, e, stale) /\ DOMAIN e.sessions = DOMAIN db.sessions
  BY <1>7, <1>8, <1>10, RetiredIsHeld
<1> QED
  BY <1>a, <1>6, <1>9, <1>11

\* close leaves the locks of its session only where that is spared from now on.
SparedBy(s, keepLocks) == IF keepLocks THEN kept \cup {s} ELSE kept \ {s}

LEMMA ClosedIsHeld ==
  ASSUME HeldDocument(db, kept), NEW s \in DOMAIN db.sessions, NEW keepLocks \in BOOLEAN
  PROVE  LET e == IF keepLocks THEN Coord!Closed(db, s, "closed", db.locks)
                               ELSE Retired(db, s, "closed", "released") IN
         /\ HeldDocument(e, SparedBy(s, keepLocks)) /\ Continues(db, e, {})
         /\ DOMAIN e.sessions = DOMAIN db.sessions
<1> DEFINE f == [db.sessions EXCEPT ![s] = [@ EXCEPT !.status = "closed"]]
           released == Coord!Relabel(db.locks, Coord!OwnedBy(db, s), "released")
           locks == IF keepLocks THEN db.locks ELSE released
<1>1. db.sessions[s] \in Coord!Session /\ db.locks \in Seq(Coord!Lock)
  BY DEF HeldDocument, Coord!IsDocument
<1>2. SessionsRetired(db, f, {s}, "closed")
  BY <1>1 DEF HeldDocument, Coord!IsDocument, Coord!Session, Coord!SessionStatuses, SessionsRetired
<1>3. /\ released \in Seq(Coord!Lock) /\ DOMAIN released = DOMAIN db.locks
      /\ \A i \in DOMAIN db.locks :
           /\ released[i].session = db.locks[i].session
           /\ released[i].status \in {db.locks[i].status, "released"}
           /\ released[i].session = s => released[i].status # "active"
  <2>1. "released" \in Coord!LockStatuses
    BY DEF Coord!LockStatuses
  <2>2. \A i \in DOMAIN db.locks : db.locks[i].session = s => i \in Coord!OwnedBy(db, s)
    BY DEF Coord!OwnedBy
  <2> HIDE DEF released
  <2>3. PICK owned : owned = Coord!OwnedBy(db, s)
    OBVIOUS
  <2>4. released = Coord!Relabel(db.locks, owned, "released")
    BY <2>3 DEF released
  <2> QED
    BY <1>1, <2>1, <2>2, <2>3, <2>4, RelabelledLocks
<1>4. (IF keepLocks THEN Coord!Closed(db, s, "closed", db.locks) ELSE Retired(db, s, "closed", "released"))
        = [db EXCEPT !.sessions = f, !.locks = locks]
  BY Zenon DEF Coord!Closed, Retired
<1> HIDE DEF f, released
<1>a. PICK spared : spared = SparedBy(s, keepLocks)
  OBVIOUS
<1>5. LocksLeft(db, locks, kept, {s}, spared)
  BY <1>a, <1>1, <1>3 DEF LocksLeft, SparedBy
<1> HIDE DEF locks
<1>6. PICK e : e = [db EXCEPT !.sessions = f, !.locks = locks]
  OBVIOUS
<1>7. e = [sessions |-> f, locks |-> locks, queue |-> db.queue, announced |-> db.announced]
  BY <1>6, DocumentFields DEF HeldDocument
<1>8. HeldDocument(e, spared) /\ Continues(db, e, {}) /\ DOMAIN e.sessions = DOMAIN db.sessions
  BY <1>2, <1>5, <1>7, RetiredIsHeld
<1> QED
  BY <1>a, <1>4, <1>6, <1>8

-----------------------------------------------------------------------------
\* What is known of the sessions: one that is marked as missing, or whose
\* worktree is not there, has lost its worktree since it registered.

RemovalsKnown ==
  \A s \in DOMAIN db.sessions :
    \/ tree[db.sessions[s].worktree] = "none"
    \/ db.sessions[s].status = "stale_or_missing_worktree"
    => s \in gone

\* The sessions that reconcile is about to mark are of that kind.
ReportsTrue ==
  \A p \in Workers : At(p, "live") => job[p].sessions \subseteq gone \cap DOMAIN db.sessions

Sources == {"clean", "elsewhere", "dirty"} \cup InMerge

GitTyped ==
  /\ tree \in [Worktrees -> {"none", "clean", "dirty"}]
  /\ tip \in [Worktrees -> {NoBranch} \cup 0..MaxCommits]
  /\ merged \in [Worktrees -> 0..MaxCommits]
  /\ made \in [Worktrees -> 0..MaxCommits]

Framed ==
  /\ now \in 0..MaxNow
  /\ locked \subseteq Worktrees
  /\ source \in Sources
  /\ gone \subseteq SessionIds
  /\ kept \subseteq SessionIds
  /\ host \in Host

Known ==
  /\ Framed
  /\ job \in [Workers -> Jobs]
  /\ HeldDocument(db, kept)
  /\ RemovalsKnown
  /\ ReportsTrue

\* A step that moves at most one job, and lets it report only such sessions.
Placed ==
  \/ UNCHANGED job
  \/ \E p \in Workers, j \in Jobs :
       /\ Goto(p, j)
       /\ j.step = "live" => j.sessions \subseteq gone \cap DOMAIN db.sessions

\* A step that forgets no removal, marks only sessions of that kind, registers
\* sessions in worktrees that are there and notes whose worktree it removes.
Remembered ==
  /\ HeldDocument(db', kept') /\ Continues(db, db', gone)
  /\ gone \cap DOMAIN db.sessions \subseteq gone'
  /\ \A s \in DOMAIN db'.sessions \ DOMAIN db.sessions :
       /\ tree'[db'.sessions[s].worktree] # "none"
       /\ db'.sessions[s].status # "stale_or_missing_worktree"
  /\ \A w \in Worktrees : tree'[w] = "none" => tree[w] = "none" \/ SessionsOf(w) \subseteq gone'

LEMMA KnownKept == ASSUME Known, Framed', Placed, Remembered PROVE Known'
<1>1. RemovalsKnown'
  <2> SUFFICES ASSUME NEW s \in DOMAIN db'.sessions,
                      \/ tree'[db'.sessions[s].worktree] = "none"
                      \/ db'.sessions[s].status = "stale_or_missing_worktree"
               PROVE  s \in gone'
    BY DEF RemovalsKnown
  <2>1. s \in DOMAIN db.sessions
    BY DEF Remembered
  <2>2. db.sessions[s] \in Coord!Session /\ db.sessions[s].worktree \in Worktrees
    BY <2>1 DEF Known, HeldDocument, Coord!IsDocument, Coord!Session
  <2>3. /\ db'.sessions[s].worktree = db.sessions[s].worktree
        /\ db'.sessions[s].status = "stale_or_missing_worktree" =>
             db.sessions[s].status = "stale_or_missing_worktree" \/ s \in gone
    BY <2>1 DEF Remembered, Continues
  <2>4. CASE s \in gone
    BY <2>1, <2>4 DEF Remembered
  <2>5. CASE s \notin gone
    <3>1. tree'[db.sessions[s].worktree] = "none" /\ tree[db.sessions[s].worktree] # "none"
      BY <2>1, <2>3, <2>5 DEF Known, RemovalsKnown
    <3> QED
      BY <2>1, <2>2, <3>1 DEF Remembered, SessionsOf
  <2> QED
    BY <2>4, <2>5
<1>2. gone \cap DOMAIN db.sessions \subseteq gone' \cap DOMAIN db'.sessions
  BY DEF Remembered, Continues
<1>3. CASE UNCHANGED job
  <2>1. ReportsTrue'
    BY <1>2, <1>3 DEF Known, ReportsTrue, At
  <2> QED
    BY <1>1, <1>3, <2>1 DEF Known, Remembered
<1>4. ASSUME NEW p \in Workers, NEW j \in Jobs, Goto(p, j),
             j.step = "live" => j.sessions \subseteq gone \cap DOMAIN db.sessions
      PROVE  Known'
  <2>1. job' = [job EXCEPT ![p] = j] /\ job \in [Workers -> Jobs]
    BY <1>4 DEF Goto, Known
  <2>2. job' \in [Workers -> Jobs]
    BY <2>1
  <2>3. \A q \in Workers : job'[q] = IF q = p THEN j ELSE job[q]
    BY <2>1
  <2>4. ReportsTrue'
    BY <1>2, <1>4, <2>3 DEF Known, ReportsTrue, At
  <2> QED
    BY <1>1, <2>2, <2>4 DEF Known, Remembered
<1> QED
  BY <1>3, <1>4 DEF Placed

\* A step that leaves sessions and removals alone.
LEMMA UntouchedSessions ==
  ASSUME Known, UNCHANGED <<db, kept, gone>>,
         \A w \in Worktrees : tree'[w] = "none" => tree[w] = "none"
  PROVE  Remembered
BY DEF Known, Remembered, HeldDocument, Continues, LocksHeld

\* A step that rewrites the document and registers nobody.
LEMMA RewrittenSessions ==
  ASSUME Known, UNCHANGED <<tree, gone>>, HeldDocument(db', kept'), Continues(db, db', gone),
         DOMAIN db'.sessions = DOMAIN db.sessions
  PROVE  Remembered
BY DEF Remembered

\* The removal of a worktree.
LEMMA RemovedWorktree ==
  ASSUME Known, GitTyped, UNCHANGED <<db, kept>>, NEW w, NEW force, GitRemove(w, force)
  PROVE  Remembered /\ gone' \subseteq SessionIds
<1>1. tree' = [tree EXCEPT ![w] = "none"] /\ gone' = gone \cup SessionsOf(w)
  BY DEF GitRemove
<1>2. SessionsOf(w) \subseteq SessionIds
  BY DEF Known, HeldDocument, Coord!IsDocument, SessionsOf
<1>3. HeldDocument(db', kept') /\ Continues(db, db', gone)
  BY DEF Known, HeldDocument, Continues, LocksHeld
<1>4. \A v \in Worktrees : tree'[v] = "none" => tree[v] = "none" \/ SessionsOf(v) \subseteq gone'
  BY <1>1 DEF GitTyped
<1> QED
  BY <1>1, <1>2, <1>3, <1>4 DEF Remembered, Known, Framed

\* A document that a worktree-coord command of a working session writes.
LEMMA LockedIsHeld ==
  ASSUME Known, NEW s, NEW requested \in Seq(Scopes), NEW expires \in Int,
         Coord!SessionIsActive(db, s, now)
  PROVE  LET e == Coord!Acquired(db, s, requested, expires) IN
         HeldDocument(e, kept) /\ Continues(db, e, gone) /\ DOMAIN e.sessions = DOMAIN db.sessions
<1>1. s \in DOMAIN db.sessions /\ db.sessions[s].status = "active" /\ HeldDocument(db, kept)
  BY DEF Coord!SessionIsActive, Coord!IsActiveRecord, Known
<1> DEFINE e == Coord!Acquired(db, s, requested, expires)
<1>2. HeldDocument(e, kept) /\ Continues(db, e, {}) /\ DOMAIN e.sessions = DOMAIN db.sessions
  BY <1>1, AcquiredIsHeld
<1> QED
  BY <1>2 DEF Continues

\* What agents and people do keeps it all.
LEMMA AgentsKnow == ASSUME Known, GitTyped, Agents PROVE Known'
<1> USE TaskAssumption DEF gitVars, coordVars
<1>1. ASSUME NEW w \in Worktrees, Edit(w) \/ CommitWork(w) PROVE Known'
  <2>1. UNCHANGED <<now, db, kept, locked, source, job, gone, host>>
    BY <1>1 DEF Edit, CommitWork
  <2>2. \A v \in Worktrees : tree'[v] = "none" => tree[v] = "none"
    BY <1>1 DEF Edit, CommitWork, GitTyped
  <2>3. Framed' /\ Placed
    BY <2>1 DEF Known, Framed, Placed, Host
  <2> QED
    BY <2>1, <2>2, <2>3, UntouchedSessions, KnownKept
<1>2. ASSUME NEW status \in SourceUse, UseSource(status) PROVE Known'
  <2>1. UNCHANGED <<now, db, kept, locked, tree, job, gone, host>> /\ source' \in Sources
    BY <1>2 DEF UseSource, Sources
  <2>2. Framed' /\ Placed
    BY <2>1 DEF Known, Framed, Placed, Host
  <2> QED
    BY <2>1, <2>2, UntouchedSessions, KnownKept
<1>3. ASSUME NEW s \in SessionIds, NEW lease \in Leases, Heartbeat(s, lease) PROVE Known'
  <2> DEFINE e == [db EXCEPT !.sessions[s].expires = now + lease]
  <2>1. /\ UNCHANGED <<now, kept, locked, source, tree, job, gone, host>>
        /\ db' = e /\ s \in DOMAIN db.sessions
    BY <1>3 DEF Heartbeat, Transact
  <2>2. now + lease \in Int /\ HeldDocument(db, kept)
    BY DEF Known, Framed
  <2>3. HeldDocument(e, kept) /\ Continues(db, e, {}) /\ DOMAIN e.sessions = DOMAIN db.sessions
    BY <2>1, <2>2, RenewedIsHeld
  <2> HIDE DEF e
  <2>4. Continues(db, db', gone)
    BY <2>1, <2>3 DEF Continues
  <2>5. Framed' /\ Placed
    BY <2>1 DEF Known, Framed, Placed, Host
  <2> QED
    BY <2>1, <2>3, <2>4, <2>5, RewrittenSessions, KnownKept
<1>4. ASSUME NEW s \in SessionIds, NEW scope \in Scopes, NEW lease \in Leases,
             AcquireLock(s, <<scope>>, lease)
      PROVE  Known'
  <2> DEFINE e == Coord!Acquired(db, s, <<scope>>, now + lease)
  <2>1. /\ UNCHANGED <<now, kept, locked, source, tree, job, gone, host>>
        /\ db' = e /\ Coord!SessionIsActive(db, s, now)
    BY <1>4 DEF AcquireLock, Transact
  <2>2. now + lease \in Int
    BY DEF Known, Framed
  <2>3. <<scope>> \in Seq(Scopes)
    OBVIOUS
  <2>4. HeldDocument(e, kept) /\ Continues(db, e, gone) /\ DOMAIN e.sessions = DOMAIN db.sessions
    BY <2>1, <2>2, <2>3, LockedIsHeld
  <2> HIDE DEF e
  <2>5. Framed' /\ Placed
    BY <2>1 DEF Known, Framed, Placed, Host
  <2> QED
    BY <2>1, <2>4, <2>5, RewrittenSessions, KnownKept
<1>5. ASSUME Tick PROVE Known'
  <2>1. UNCHANGED <<db, kept, locked, source, tree, job, gone, host>> /\ now' \in 0..MaxNow
    BY <1>5 DEF Tick, Known, Framed
  <2>2. Framed' /\ Placed
    BY <2>1 DEF Known, Framed, Placed, Host
  <2> QED
    BY <2>1, <2>2, UntouchedSessions, KnownKept
<1> QED
  BY <1>1, <1>2, <1>3, <1>4, <1>5 DEF Agents

\* So do the subcommands that take one step.
LEMMA OneStepKnows == ASSUME Known, GitTyped, OneStep PROVE Known'
<1> USE DEF gitVars, coordVars
<1>0. PICK w \in Worktrees :
        \/ \E s \in SessionIds, keepLocks \in BOOLEAN : CloseTask(w, s, keepLocks)
        \/ \E item \in ItemIds : QueueTask(w, item)
        \/ \E force \in BOOLEAN : Remove(w, force)
        \/ CleanupBranch(w)
        \/ Reset(w)
  BY DEF OneStep
<1>1. ASSUME NEW s \in SessionIds, NEW keepLocks \in BOOLEAN, CloseTask(w, s, keepLocks)
      PROVE  Known'
  <2> DEFINE e == IF keepLocks THEN Coord!Closed(db, s, "closed", db.locks)
                               ELSE Retired(db, s, "closed", "released")
  <2>1. /\ UNCHANGED <<now, locked, source, tree, job, gone, host>>
        /\ kept' = SparedBy(s, keepLocks)
        /\ db' = e /\ s \in DOMAIN db.sessions
    BY <1>1 DEF CloseTask, Retire, SparedBy
  <2>2. /\ HeldDocument(e, SparedBy(s, keepLocks)) /\ Continues(db, e, {})
        /\ DOMAIN e.sessions = DOMAIN db.sessions
    BY <2>1, ClosedIsHeld DEF Known
  <2> HIDE DEF e
  <2>3. Continues(db, db', gone)
    BY <2>1, <2>2 DEF Continues
  <2>4. kept' \subseteq SessionIds
    BY <2>1 DEF SparedBy, Known, Framed
  <2>5. Framed' /\ Placed
    BY <2>1, <2>4 DEF Known, Framed, Placed, Host
  <2> QED
    BY <2>1, <2>2, <2>3, <2>5, RewrittenSessions, KnownKept
<1>2. ASSUME NEW item \in ItemIds, QueueTask(w, item) PROVE Known'
  <2> DEFINE q == Append(db.queue, [id |-> item, status |-> "pending"])
             e == [db EXCEPT !.queue = q]
  <2>1. /\ UNCHANGED <<now, kept, locked, source, tree, job, gone, host>>
        /\ db' = e
    BY <1>2 DEF QueueTask, Transact
  <2>2. q \in Seq(Coord!Item)
    BY DEF Known, HeldDocument, Coord!IsDocument, Coord!Item, Coord!QueueStatuses
  <2> HIDE DEF q
  <2>3. HeldDocument(e, kept) /\ Continues(db, e, {}) /\ DOMAIN e.sessions = DOMAIN db.sessions
    BY <2>2, QueuedIsHeld DEF Known
  <2> HIDE DEF e
  <2>4. Continues(db, db', gone)
    BY <2>1, <2>3 DEF Continues
  <2>5. Framed' /\ Placed
    BY <2>1 DEF Known, Framed, Placed, Host
  <2> QED
    BY <2>1, <2>3, <2>4, <2>5, RewrittenSessions, KnownKept
<1>3. ASSUME NEW force \in BOOLEAN, Remove(w, force) PROVE Known'
  <2>1. UNCHANGED <<now, db, kept, locked, source, job, host>> /\ GitRemove(w, force)
    BY <1>3 DEF Remove, GitRemove
  <2>2. Remembered /\ gone' \subseteq SessionIds
    BY <2>1, RemovedWorktree
  <2>3. Framed' /\ Placed
    BY <2>1, <2>2 DEF Known, Framed, Placed, Host
  <2> QED
    BY <2>2, <2>3, KnownKept
<1>4. ASSUME CleanupBranch(w) \/ Reset(w) PROVE Known'
  <2>1. UNCHANGED <<now, db, kept, locked, source, job, gone, host>>
    BY <1>4 DEF CleanupBranch, Reset, GitDeleteBranch
  <2>2. \A v \in Worktrees : tree'[v] = "none" => tree[v] = "none"
    BY <1>4 DEF CleanupBranch, Reset, GitDeleteBranch, GitTyped
  <2>3. Framed' /\ Placed
    BY <2>1 DEF Known, Framed, Placed, Host
  <2> QED
    BY <2>1, <2>2, <2>3, UntouchedSessions, KnownKept
<1> QED
  BY <1>0, <1>1, <1>2, <1>3, <1>4

LEMMA RequestIsList == ASSUME NEW requested \in Requests PROVE requested \in Seq(Scopes)
<1>1. CASE \E a \in Scopes : requested = <<a>>
  BY <1>1
<1>2. CASE \E a, b \in Scopes : requested = <<a, b>>
  BY <1>2
<1>3. CASE requested = << >>
  BY <1>3
<1> QED
  BY <1>1, <1>2, <1>3 DEF Requests, Coord!Requests

\* A job of create, with the next of its steps.
LEMMA CreateJobMoves ==
  ASSUME NEW j \in CreateJobs
  PROVE  /\ [j EXCEPT !.step = "registered"] \in Jobs /\ [j EXCEPT !.step = "registered"].step = "registered"
         /\ Created(j) \in Jobs /\ Created(j).step # "live"
<1>1. ASSUME NEW step \in {"registered", "ready"}
      PROVE  [j EXCEPT !.step = step] \in CreateJobs /\ [j EXCEPT !.step = step].step = step
  BY DEF CreateJobs
<1>2. Idle.step # "live"
  BY DEF Idle
<1> QED
  BY <1>1, <1>2, JobForms DEF Created

\* create and dispatch.
LEMMA CreateKnows == ASSUME Known, GitTyped, NEW p \in Workers, Create(p) PROVE Known'
<1> USE TaskAssumption DEF gitVars, coordVars
<1>old. PICK j : j = job[p]
  OBVIOUS
<1>0. j \in Jobs /\ (At(p, "added") \/ At(p, "registered") \/ At(p, "ready") => j \in CreateJobs)
  BY <1>old, JobOfStep DEF Known, At
<1>1. ASSUME NEW w \in Worktrees, NEW s \in SessionIds, NEW requested \in Requests,
             NEW dispatch \in BOOLEAN, NEW lock \in BOOLEAN,
             CreateTree(p, w, s, requested, dispatch, lock)
      PROVE  Known'
  <2> DEFINE k == [step |-> "added", w |-> w, s |-> s, requested |-> requested, dispatch |-> dispatch]
  <2>1. /\ UNCHANGED <<now, db, kept, source, gone, host>> /\ locked' \subseteq Worktrees
        /\ tree' = [tree EXCEPT ![w] = "clean"] /\ Goto(p, k)
    BY <1>1 DEF CreateTree, Known, Framed
  <2>2. \A v \in Worktrees : tree'[v] = "none" => tree[v] = "none"
    BY <2>1 DEF GitTyped
  <2>3. k \in CreateJobs /\ k.step # "live"
    BY DEF CreateJobs
  <2> HIDE DEF k
  <2>4. k \in Jobs
    BY <2>3, JobForms
  <2>5. Framed' /\ Placed
    BY <2>1, <2>3, <2>4 DEF Known, Framed, Placed, Host
  <2> QED
    BY <2>1, <2>2, <2>5, UntouchedSessions, KnownKept
<1>2. ASSUME CreateRegister(p) PROVE Known'
  <2> DEFINE e == Coord!Registered(db, j.s, j.w, now + DefaultLease)
             k == IF j.requested = << >> THEN Created(j) ELSE [j EXCEPT !.step = "registered"]
  <2>1. /\ UNCHANGED <<now, kept, tree, locked, source, host>> /\ gone' = gone \ {j.s}
        /\ db' = e /\ Goto(p, k)
        /\ tree[j.w] # "none" /\ j.s \notin DOMAIN db.sessions
        /\ j \in CreateJobs
    BY <1>old, <1>0, <1>2 DEF CreateRegister, Transact
  <2>2. /\ j.s \in SessionIds /\ j.w \in Worktrees
        /\ now + DefaultLease \in Int /\ HeldDocument(db, kept)
    BY <2>1 DEF CreateJobs, Known, Framed
  <2>3. /\ HeldDocument(e, kept) /\ Continues(db, e, {}) /\ DOMAIN e.sessions = DOMAIN db.sessions \cup {j.s}
        /\ e.sessions[j.s].worktree = j.w /\ e.sessions[j.s].status = "active"
    BY <2>1, <2>2, RegisteredIsHeld
  <2> HIDE DEF e
  <2>4. k \in Jobs /\ k.step # "live"
    BY <2>1, CreateJobMoves
  <2> HIDE DEF k
  <2>5. Remembered
    BY <2>1, <2>3 DEF Remembered, Continues
  <2>6. Framed' /\ Placed
    BY <2>1, <2>4 DEF Known, Framed, Placed, Host
  <2> QED
    BY <2>5, <2>6, KnownKept
<1>3. ASSUME CreateLock(p) PROVE Known'
  <2> DEFINE e == Coord!Acquired(db, j.s, j.requested, now + DefaultLease)
             k == Created(j)
  <2>1. /\ UNCHANGED <<now, kept, tree, locked, source, gone, host>>
        /\ db' = e /\ Goto(p, k) /\ Coord!SessionIsActive(db, j.s, now)
        /\ j \in CreateJobs
    BY <1>old, <1>0, <1>3 DEF CreateLock, Transact
  <2>2. now + DefaultLease \in Int
    BY DEF Known, Framed
  <2>3. j.requested \in Seq(Scopes)
    BY <2>1, RequestIsList DEF CreateJobs
  <2>4. HeldDocument(e, kept) /\ Continues(db, e, gone) /\ DOMAIN e.sessions = DOMAIN db.sessions
    BY <2>1, <2>2, <2>3, LockedIsHeld
  <2> HIDE DEF e
  <2>5. k \in Jobs /\ k.step # "live"
    BY <2>1, CreateJobMoves
  <2> HIDE DEF k
  <2>6. Framed' /\ Placed
    BY <2>1, <2>5 DEF Known, Framed, Placed, Host
  <2> QED
    BY <2>1, <2>4, <2>6, RewrittenSessions, KnownKept
<1>4. ASSUME DispatchPayload(p) PROVE Known'
  <2>1. /\ UNCHANGED <<now, db, kept, locked, source, gone, host>>
        /\ tree' = [tree EXCEPT ![j.w] = "dirty"] /\ Goto(p, Idle)
    BY <1>4, <1>old DEF DispatchPayload
  <2>2. \A v \in Worktrees : tree'[v] = "none" => tree[v] = "none"
    BY <2>1 DEF GitTyped
  <2>3. Framed' /\ Placed
    BY <2>1, JobForms DEF Known, Framed, Placed, Host, Idle
  <2> QED
    BY <2>1, <2>2, <2>3, UntouchedSessions, KnownKept
<1> QED
  BY <1>1, <1>2, <1>3, <1>4 DEF Create

\* merge.
LEMMA MergeKnows == ASSUME Known, GitTyped, NEW p \in Workers, Merge(p) PROVE Known'
<1> USE DEF gitVars, coordVars
<1>old. PICK j : j = job[p]
  OBVIOUS
<1>0. j \in Jobs /\ (At(p, "merge") \/ At(p, "mark") => j \in ItemJobs)
  BY <1>old, JobOfStep DEF Known, At
<1>idle. Idle \in Jobs /\ Idle.step # "live"
  BY JobForms DEF Idle
<1>1. ASSUME NEW w \in Worktrees, NEW items \in {{}} \cup {{item} : item \in ItemIds},
             MergeCheck(p, w, items)
      PROVE  Known'
  <2> DEFINE k == [step |-> "merge", w |-> w, items |-> items]
  <2>1. UNCHANGED <<now, db, kept, tree, locked, source, gone, host>> /\ Goto(p, k)
    BY <1>1 DEF MergeCheck
  <2>2. k \in ItemJobs /\ k.step # "live"
    BY DEF ItemJobs
  <2> HIDE DEF k
  <2>3. Framed' /\ Placed
    BY <2>1, <2>2, JobForms DEF Known, Framed, Placed, Host
  <2> QED
    BY <2>1, <2>3, UntouchedSessions, KnownKept
<1>2. ASSUME MergeRun(p) PROVE Known'
  <2> DEFINE k == [j EXCEPT !.step = "mark"]
  <2>1. /\ UNCHANGED <<now, db, kept, tree, locked, source, gone, host>>
        /\ Goto(p, Idle) \/ Goto(p, k)
        /\ j \in ItemJobs
    BY <1>0, <1>2, <1>old DEF MergeRun, GitMerge
  <2>2. j \in ItemJobs => k \in ItemJobs /\ k.step # "live"
    BY DEF ItemJobs
  <2> HIDE DEF k
  <2>3. Framed' /\ Placed
    BY <1>idle, <2>1, <2>2, JobForms DEF Known, Framed, Placed, Host
  <2> QED
    BY <2>1, <2>3, UntouchedSessions, KnownKept
<1>3. ASSUME MergeConflict(p) PROVE Known'
  <2>1. /\ UNCHANGED <<now, db, kept, tree, locked, gone, host>> /\ source' \in Sources
        /\ Goto(p, Idle)
    BY <1>3 DEF MergeConflict, GitConflict, Sources
  <2>2. Framed' /\ Placed
    BY <1>idle, <2>1 DEF Known, Framed, Placed, Host
  <2> QED
    BY <2>1, <2>2, UntouchedSessions, KnownKept
<1>4. ASSUME MergeMark(p) PROVE Known'
  <2>0. PICK item \in j.items :
          \E i \in Coord!Entries(db, item) : Transact([db EXCEPT !.queue[i].status = "done"])
    BY <1>4, <1>old DEF MergeMark
  <2>1. PICK i \in Coord!Entries(db, item) : Transact([db EXCEPT !.queue[i].status = "done"])
    BY <2>0
  <2> DEFINE q == [db.queue EXCEPT ![i] = [@ EXCEPT !.status = "done"]]
             e == [db EXCEPT !.queue = q]
  <2>2. /\ UNCHANGED <<now, kept, tree, locked, source, gone, host>> /\ Goto(p, Idle)
        /\ db' = e
    BY <1>4, <2>1 DEF MergeMark, Transact
  <2>3. db.queue \in Seq(Coord!Item) /\ i \in DOMAIN db.queue
    BY DEF Known, HeldDocument, Coord!IsDocument, Coord!Entries
  <2>4. q \in Seq(Coord!Item)
    <3>1. db.queue[i] \in Coord!Item
      BY <2>3
    <3>2. [db.queue[i] EXCEPT !.status = "done"] \in Coord!Item
      BY <3>1 DEF Coord!Item, Coord!QueueStatuses
    <3> QED
      BY <2>3, <3>2
  <2> HIDE DEF q
  <2>5. HeldDocument(e, kept) /\ Continues(db, e, {}) /\ DOMAIN e.sessions = DOMAIN db.sessions
    BY <2>4, QueuedIsHeld DEF Known
  <2> HIDE DEF e
  <2>6. Continues(db, db', gone)
    BY <2>2, <2>5 DEF Continues
  <2>7. Framed' /\ Placed
    BY <1>idle, <2>2 DEF Known, Framed, Placed, Host
  <2> QED
    BY <2>2, <2>5, <2>6, <2>7, RewrittenSessions, KnownKept
<1> QED
  BY <1>1, <1>2, <1>3, <1>4 DEF Merge

\* reconcile: it reads the document before it lists the worktrees, so that a
\* session it reports has lost its worktree since it registered.
LEMMA ReconcileKnows == ASSUME Known, GitTyped, NEW p \in Workers, Reconcile(p) PROVE Known'
<1> USE DEF gitVars, coordVars
<1>old. PICK j : j = job[p]
  OBVIOUS
<1>0. /\ At(p, "snapshot") => j \in SnapshotJobs
      /\ At(p, "coord") => j \in CoordJobs
      /\ At(p, "live") => j.sessions \subseteq gone
  BY <1>old, JobOfStep DEF Known, At, ReportsTrue
<1>sessions. \A w : SessionsOf(w) \subseteq DOMAIN db.sessions /\ DOMAIN db.sessions \subseteq SessionIds
  BY DEF SessionsOf, Known, HeldDocument, Coord!IsDocument
<1>1. ASSUME ReconcileSnapshot(p) PROVE Known'
  <2> DEFINE live == {w \in Worktrees : tree[w] # "none"}
             k == [step |-> "snapshot", live |-> live]
  <2>1. UNCHANGED <<now, db, kept, tree, locked, source, gone, host>> /\ Goto(p, k)
    BY <1>1 DEF ReconcileSnapshot
  <2>2. k \in SnapshotJobs /\ k.step # "live"
    BY DEF SnapshotJobs
  <2> HIDE DEF k
  <2>3. Framed' /\ Placed
    BY <2>1, <2>2, JobForms DEF Known, Framed, Placed, Host
  <2> QED
    BY <2>1, <2>3, UntouchedSessions, KnownKept
<1>2. ASSUME ReadCoord(p) PROVE Known'
  <2> DEFINE k == [step |-> "coord", live |-> j.live, sessions |-> ActiveSessions]
  <2>1. /\ UNCHANGED <<now, db, kept, tree, locked, source, gone, host>> /\ Goto(p, k)
        /\ j \in SnapshotJobs
    BY <1>0, <1>2, <1>old DEF ReadCoord
  <2>2. ActiveSessions \subseteq SessionIds
    BY DEF ActiveSessions, Known, HeldDocument, Coord!IsDocument
  <2>3. k \in CoordJobs /\ k.step # "live"
    BY <2>1, <2>2 DEF CoordJobs, SnapshotJobs
  <2> HIDE DEF k
  <2>4. Framed' /\ Placed
    BY <2>1, <2>3, JobForms DEF Known, Framed, Placed, Host
  <2> QED
    BY <2>1, <2>4, UntouchedSessions, KnownKept
<1>3. ASSUME ReadLive(p) PROVE Known'
  <2> DEFINE k == [step |-> "live", sessions |-> Missing(p)]
  <2>1. UNCHANGED <<now, db, kept, tree, locked, source, gone, host>> /\ Goto(p, k)
    BY <1>3 DEF ReadLive
  <2>2. Missing(p) \subseteq gone \cap DOMAIN db.sessions
    <3> SUFFICES ASSUME NEW s, NEW w \in Worktrees, s \in SessionsOf(w), tree[w] = "none"
                 PROVE  s \in gone \cap DOMAIN db.sessions
      BY DEF Missing
    <3> QED
      BY DEF SessionsOf, Known, RemovalsKnown
  <2>3. k \in LiveJobs /\ k.sessions = Missing(p)
    BY <1>sessions, <2>2 DEF LiveJobs
  <2> HIDE DEF k
  <2>4. Framed' /\ Placed
    BY <2>1, <2>2, <2>3, JobForms DEF Known, Framed, Placed, Host
  <2> QED
    BY <2>1, <2>4, UntouchedSessions, KnownKept
<1>4. ASSUME MarkMissing(p) PROVE Known'
  <2> DEFINE e == RetireAll(j.sessions, "stale_or_missing_worktree", "released_missing_worktree")
  <2>1. /\ UNCHANGED <<now, tree, locked, source, gone, host>> /\ Goto(p, Idle)
        /\ db' = e /\ kept' = kept \ j.sessions /\ j.sessions \subseteq gone
    BY <1>0, <1>4, <1>old DEF MarkMissing, Retire
  <2>2. /\ "stale_or_missing_worktree" \in Coord!SessionStatuses
        /\ "released_missing_worktree" \in Coord!LockStatuses \ {"active"}
    BY DEF Coord!SessionStatuses, Coord!LockStatuses
  <2>3. /\ HeldDocument(e, kept \ j.sessions) /\ Continues(db, e, gone)
        /\ DOMAIN e.sessions = DOMAIN db.sessions
    BY <2>1, <2>2, RetireAllIsHeld DEF Known
  <2> HIDE DEF e
  <2>4. Framed' /\ Placed
    BY <2>1, JobForms DEF Known, Framed, Placed, Host, Idle
  <2> QED
    BY <2>1, <2>3, <2>4, RewrittenSessions, KnownKept
<1> QED
  BY <1>1, <1>2, <1>3, <1>4 DEF Reconcile

\* What closeout-all stages and commits are heads.
LEMMA HeadsTyped ==
  ASSUME Known, GitTyped
  PROVE  /\ CurrentHead \in Heads
         /\ [host EXCEPT !.index = CurrentHead] \in Host
         /\ [host EXCEPT !.committed = host.index] \in Host
<1>1. CurrentHead \in Heads
  BY DEF CurrentHead, Heads, GitTyped
<1> HIDE DEF CurrentHead, Heads
<1> QED
  BY <1>1 DEF Known, Framed, Host

\* closeout-all.
LEMMA CloseoutKnows == ASSUME Known, GitTyped, NEW p \in Workers, CloseoutAll(p) PROVE Known'
<1> USE DEF gitVars, coordVars
<1>old. PICK j : j = job[p]
  OBVIOUS
<1>0. /\ j \in Jobs
      /\ At(p, "remove") \/ At(p, "sessions") \/ At(p, "branch") => j \in SettleJobs
      /\ At(p, "closeout") => j \in CloseoutJobs
      /\ At(p, "staged") => j \in HostJobs
  BY <1>old, JobOfStep DEF Known, At, SettledSteps
<1>idle. Idle \in Jobs /\ Idle.step # "live"
  BY JobForms DEF Idle
<1>1. ASSUME CloseoutPlan(p) PROVE Known'
  <2> DEFINE present == {w \in Worktrees : tree[w] # "none"}
             unmerged == {w \in present : ~MergedToTarget(w)}
             none == [step |-> "committed", ahead |-> << >>]
             ahead == [w \in unmerged |-> tip[w]]
             all == [step |-> "closeout", todo |-> present, ahead |-> ahead]
  <2>1. /\ UNCHANGED <<now, db, kept, tree, locked, source, gone, host>>
        /\ \A w \in present : tip[w] # NoBranch
        /\ Goto(p, none) \/ Goto(p, all)
    BY <1>1 DEF CloseoutPlan, Closable
  <2>2. << >> \in Ahead
    <3>1. << >> \in [{} -> 0..MaxCommits]
      OBVIOUS
    <3> QED
      BY <3>1 DEF Ahead
  <2>3. ahead \in Ahead
    <3>1. \A w \in unmerged : tip[w] \in 0..MaxCommits
      BY <2>1 DEF GitTyped
    <3>2. ahead \in [unmerged -> 0..MaxCommits] /\ unmerged \in SUBSET Worktrees
      BY <3>1
    <3> HIDE DEF ahead, unmerged
    <3> QED
      BY <3>2 DEF Ahead
  <2> HIDE DEF ahead
  <2>4. none \in HostJobs /\ none.step # "live" /\ all \in CloseoutJobs /\ all.step # "live"
    BY <2>2, <2>3 DEF HostJobs, CloseoutJobs
  <2> HIDE DEF none, all
  <2>5. Framed' /\ Placed
    BY <2>1, <2>4, JobForms DEF Known, Framed, Placed, Host
  <2> QED
    BY <2>1, <2>5, UntouchedSessions, KnownKept
<1>2. ASSUME NEW w \in Worktrees, CloseoutMerge(p, w) PROVE Known'
  <2> DEFINE k == [step |-> "remove", w |-> w, todo |-> j.todo \ {w}, ahead |-> j.ahead]
  <2>1. /\ UNCHANGED <<now, db, kept, tree, locked, source, gone, host>>
        /\ Goto(p, k) /\ j \in CloseoutJobs
    BY <1>0, <1>2, <1>old DEF CloseoutMerge, GitMerge
  <2>2. k \in SettleJobs /\ k.step # "live"
    BY <2>1 DEF SettleJobs, CloseoutJobs
  <2> HIDE DEF k
  <2>3. Framed' /\ Placed
    BY <2>1, <2>2, JobForms DEF Known, Framed, Placed, Host
  <2> QED
    BY <2>1, <2>3, UntouchedSessions, KnownKept
<1>3. ASSUME NEW w \in Worktrees, CloseoutConflict(p, w) PROVE Known'
  <2> DEFINE k == [step |-> "abort"]
  <2>1. /\ UNCHANGED <<now, db, kept, tree, locked, gone, host>> /\ source' \in Sources
        /\ Goto(p, k)
    BY <1>3 DEF CloseoutConflict, GitConflict, GitRefusal, Sources, Known, Framed
  <2>2. k \in AbortJobs /\ k.step # "live"
    BY DEF AbortJobs
  <2> HIDE DEF k
  <2>3. Framed' /\ Placed
    BY <2>1, <2>2, JobForms DEF Known, Framed, Placed, Host
  <2> QED
    BY <2>1, <2>3, UntouchedSessions, KnownKept
<1>4. ASSUME CloseoutAbort(p) PROVE Known'
  <2>1. /\ UNCHANGED <<now, db, kept, tree, locked, gone, host>>
        /\ source' = IF source \in InMerge THEN Aborted[source] ELSE source
        /\ Goto(p, Idle)
    BY <1>4 DEF CloseoutAbort
  <2>2. source' \in Sources
    BY <2>1 DEF InMerge, Aborted, Sources, Known, Framed
  <2>3. Framed' /\ Placed
    BY <1>idle, <2>1, <2>2 DEF Known, Framed, Placed, Host
  <2> QED
    BY <2>1, <2>3, UntouchedSessions, KnownKept
<1>moved. ASSUME j \in SettleJobs, NEW step \in {"sessions", "branch"}
          PROVE  [j EXCEPT !.step = step] \in Jobs /\ [j EXCEPT !.step = step].step # "live"
  <2>1. [j EXCEPT !.step = step] \in SettleJobs /\ [j EXCEPT !.step = step].step = step
    BY <1>moved DEF SettleJobs
  <2> QED
    BY <2>1, JobForms
<1>5. ASSUME CloseoutRemove(p) PROVE Known'
  <2> DEFINE k == [j EXCEPT !.step = "sessions"]
  <2>1. /\ UNCHANGED <<now, db, kept, locked, source, host>> /\ GitRemove(j.w, FALSE)
        /\ Goto(p, k) /\ j \in SettleJobs
    BY <1>0, <1>5, <1>old DEF CloseoutRemove, GitRemove
  <2>2. Remembered /\ gone' \subseteq SessionIds
    BY <2>1, RemovedWorktree
  <2>3. k \in Jobs /\ k.step # "live"
    BY <1>moved, <2>1
  <2> HIDE DEF k
  <2>4. Framed' /\ Placed
    BY <2>1, <2>2, <2>3 DEF Known, Framed, Placed, Host
  <2> QED
    BY <2>2, <2>4, KnownKept
<1>6. ASSUME CloseoutSessions(p) PROVE Known'
  <2> DEFINE sessions == SessionsOf(j.w) \cap ActiveSessions
             e == RetireAll(sessions, "closed_by_closeout", "released_by_closeout")
             k == [j EXCEPT !.step = "branch"]
  <2>1. /\ UNCHANGED <<now, tree, locked, source, gone, host>> /\ Goto(p, k)
        /\ db' = e /\ kept' = kept \ sessions /\ j \in SettleJobs
    BY <1>0, <1>6, <1>old DEF CloseoutSessions, Retire
  <2>2. /\ "closed_by_closeout" \in Coord!SessionStatuses
        /\ "released_by_closeout" \in Coord!LockStatuses \ {"active"}
    BY DEF Coord!SessionStatuses, Coord!LockStatuses
  <2> HIDE DEF sessions
  <2>3. /\ HeldDocument(e, kept \ sessions) /\ Continues(db, e, gone)
        /\ DOMAIN e.sessions = DOMAIN db.sessions
    BY <2>2, RetireAllIsHeld DEF Known
  <2> HIDE DEF e
  <2>4. k \in Jobs /\ k.step # "live"
    BY <1>moved, <2>1
  <2> HIDE DEF k
  <2>5. Framed' /\ Placed
    BY <2>1, <2>4 DEF Known, Framed, Placed, Host
  <2> QED
    BY <2>1, <2>3, <2>5, RewrittenSessions, KnownKept
<1>7. ASSUME CloseoutBranch(p) PROVE Known'
  <2> DEFINE k == [step |-> "closeout", todo |-> j.todo, ahead |-> j.ahead]
  <2>1. /\ UNCHANGED <<now, db, kept, tree, locked, source, gone, host>>
        /\ Goto(p, k) /\ j \in SettleJobs
    BY <1>0, <1>7, <1>old DEF CloseoutBranch, GitDeleteBranch
  <2>2. k \in CloseoutJobs /\ k.step # "live"
    BY <2>1 DEF SettleJobs, CloseoutJobs
  <2> HIDE DEF k
  <2>3. Framed' /\ Placed
    BY <2>1, <2>2, JobForms DEF Known, Framed, Placed, Host
  <2> QED
    BY <2>1, <2>3, UntouchedSessions, KnownKept
<1>8. ASSUME CloseoutStage(p) PROVE Known'
  <2> DEFINE k == [step |-> "staged", ahead |-> j.ahead]
  <2>1. /\ UNCHANGED <<now, db, kept, tree, locked, source, gone>>
        /\ host' = [host EXCEPT !.index = CurrentHead]
        /\ Goto(p, k) /\ j \in CloseoutJobs
    BY <1>0, <1>8, <1>old DEF CloseoutStage
  <2>2. k \in HostJobs /\ k.step # "live"
    BY <2>1 DEF CloseoutJobs, HostJobs
  <2> HIDE DEF k
  <2>3. Framed' /\ Placed
    BY <2>1, <2>2, JobForms, HeadsTyped DEF Known, Framed, Placed
  <2> QED
    BY <2>1, <2>3, UntouchedSessions, KnownKept
<1>9. ASSUME CloseoutCommit(p) PROVE Known'
  <2> DEFINE k == [j EXCEPT !.step = "committed"]
  <2>1. /\ UNCHANGED <<now, db, kept, tree, locked, source, gone>>
        /\ host' = [host EXCEPT !.committed = host.index]
        /\ Goto(p, k) /\ j \in HostJobs
    BY <1>0, <1>9, <1>old DEF CloseoutCommit
  <2>2. k \in HostJobs /\ k.step # "live"
    BY <2>1 DEF HostJobs
  <2> HIDE DEF k
  <2>3. Framed' /\ Placed
    BY <2>1, <2>2, JobForms, HeadsTyped DEF Known, Framed, Placed
  <2> QED
    BY <2>1, <2>3, UntouchedSessions, KnownKept
<1> QED
  BY <1>1, <1>2, <1>3, <1>4, <1>5, <1>6, <1>7, <1>8, <1>9 DEF CloseoutAll

\* finalize.
LEMMA FinalizeKnows ==
  ASSUME Known, GitTyped, NEW p \in Workers, Finalize(p) PROVE Known'
<1> USE DEF gitVars, coordVars
<1>1. PICK k \in HostJobs :
        UNCHANGED <<now, db, kept, tree, locked, source, gone, host>> /\ Goto(p, k)
  <2>1. ASSUME FinalizeLook(p)
        PROVE  \E k \in HostJobs :
                 UNCHANGED <<now, db, kept, tree, locked, source, gone, host>> /\ Goto(p, k)
    <3> DEFINE ahead == [w \in Settled |-> made[w]]
               k == [step |-> "looked", ahead |-> ahead]
    <3>1. Settled \in SUBSET Worktrees /\ ahead \in [Settled -> 0..MaxCommits]
      BY DEF Settled, Listed, GitTyped
    <3> HIDE DEF ahead
    <3>2. ahead \in Ahead
      BY <3>1 DEF Ahead
    <3>3. k \in HostJobs
      BY <3>2 DEF HostJobs
    <3>4. UNCHANGED <<now, db, kept, tree, locked, source, gone, host>> /\ Goto(p, k)
      BY <2>1 DEF FinalizeLook, ahead
    <3> HIDE DEF k
    <3> QED
      BY <3>3, <3>4
  <2>2. ASSUME FinalizeHost(p)
        PROVE  \E k \in HostJobs :
                 UNCHANGED <<now, db, kept, tree, locked, source, gone, host>> /\ Goto(p, k)
    <3>0. PICK j : j = job[p]
      OBVIOUS
    <3> DEFINE k == [j EXCEPT !.step = "finalized"]
    <3>1. /\ UNCHANGED <<now, db, kept, tree, locked, source, gone, host>>
          /\ Goto(p, k) /\ j.step = "looked" /\ j \in Jobs
      BY <2>2, <3>0 DEF FinalizeHost, At, Known
    <3>2. j \in HostJobs
      BY <3>1, JobOfStep DEF SettledSteps
    <3>3. k \in HostJobs
      BY <3>2 DEF HostJobs
    <3> HIDE DEF k
    <3> QED
      BY <3>1, <3>3
  <2> QED
    BY <2>1, <2>2 DEF Finalize
<1>2. k \in Jobs /\ k.step # "live"
  BY JobForms DEF HostJobs
<1>3. Framed' /\ Placed
  BY <1>1, <1>2 DEF Known, Framed, Placed, Host
<1> QED
  BY <1>1, <1>3, UntouchedSessions, KnownKept

LEMMA LeaveKnows == ASSUME Known, NEW p \in Workers, Leave(p) PROVE Known'
<1>1. UNCHANGED <<now, db, kept, tree, locked, source, gone, host>> /\ Goto(p, Idle)
  BY DEF Leave, gitVars, coordVars
<1>2. Framed' /\ Placed
  BY <1>1, JobForms DEF Known, Framed, Placed, Host, Idle
<1> QED
  BY <1>1, <1>2, UntouchedSessions, KnownKept

LEMMA StutterKnows == ASSUME Known, UNCHANGED taskVars PROVE Known'
<1>1. UNCHANGED <<now, db, kept, tree, locked, source, gone, host, job>>
  BY DEF taskVars
<1>2. Framed' /\ Placed
  BY <1>1 DEF Known, Framed, Placed, Host
<1> QED
  BY <1>1, <1>2, UntouchedSessions, KnownKept

-----------------------------------------------------------------------------
\* A commit is made on a branch whose length is bounded.
LEMMA CommitsBounded ==
  ASSUME Shape, WorkInvariant, GitTyped, [TaskNext]_taskVars, (Shape /\ WorkInvariant)'
  PROVE  GitTyped'
<1>1. made' \in [Worktrees -> 0..MaxCommits]
  <2>1. Change
    BY EveryStepChanges
  <2>2. ASSUME NEW w \in Worktrees, CommitWork(w) PROVE made' \in [Worktrees -> 0..MaxCommits]
    <3>1. tip[w] \in 0..(MaxCommits - 1) /\ made' = [made EXCEPT ![w] = @ + 1]
      BY <2>2 DEF CommitWork
    <3>2. tip[w] = made[w]
      BY <3>1, TaskAssumption DEF WorkInvariant, NoBranch
    <3> QED
      BY <3>1, <3>2, TaskAssumption DEF GitTyped
  <2>3. CASE UNCHANGED made
    BY <2>3 DEF GitTyped
  <2>4. (\E w \in Worktrees : CommitWork(w)) \/ UNCHANGED made
    <3> USE DEF gitVars, coordVars
    <3>1. CASE UNCHANGED taskVars
      BY <3>1 DEF taskVars
    <3>2. CASE Agents
      BY <3>2 DEF Agents, Edit, UseSource, Heartbeat, AcquireLock, Tick
    <3>3. CASE OneStep
      BY <3>3 DEF OneStep, CloseTask, QueueTask, Remove, GitRemove, CleanupBranch, GitDeleteBranch, Reset
    <3>4. ASSUME NEW p \in Workers, Create(p) PROVE UNCHANGED made
      BY <3>4 DEF Create, CreateTree, CreateRegister, CreateLock, DispatchPayload
    <3>5. ASSUME NEW p \in Workers, Merge(p) PROVE UNCHANGED made
      BY <3>5 DEF Merge, MergeCheck, MergeRun, MergeConflict, MergeMark, GitMerge, GitConflict
    <3>6. ASSUME NEW p \in Workers, Reconcile(p) \/ Finalize(p) \/ Leave(p) PROVE UNCHANGED made
      BY <3>6 DEF Reconcile, ReconcileSnapshot, ReadCoord, ReadLive, MarkMissing, Finalize,
         FinalizeLook, FinalizeHost, Leave
    <3>7. ASSUME NEW p \in Workers, CloseoutAll(p) PROVE UNCHANGED made
      BY <3>7 DEF CloseoutAll, CloseoutPlan, CloseoutMerge, CloseoutConflict, CloseoutAbort,
         CloseoutRemove, CloseoutSessions, CloseoutBranch, CloseoutStage, CloseoutCommit,
         GitMerge, GitConflict, GitRefusal, GitRemove, GitDeleteBranch
    <3> QED
      BY <3>1, <3>2, <3>3, <3>4, <3>5, <3>6, <3>7 DEF TaskNext
  <2> QED
    BY <2>2, <2>3, <2>4
<1>2. ASSUME NEW w \in Worktrees
      PROVE  /\ tree'[w] \in {"none", "clean", "dirty"}
             /\ merged'[w] \in 0..MaxCommits
             /\ tip'[w] \in {NoBranch} \cup 0..MaxCommits
  <2>1. made'[w] \in 0..MaxCommits
    BY <1>1
  <2>2. /\ tree'[w] \in {"none", "clean", "dirty"} /\ merged'[w] \in 0..made'[w]
        /\ tip'[w] = NoBranch \/ tip'[w] = made'[w]
    BY DEF WorkInvariant
  <2> QED
    BY <2>1, <2>2, TaskAssumption
<1> QED
  BY <1>1, <1>2 DEF GitTyped, Shape

LEMMA KnownAlways == TaskSpec => [](GitTyped /\ Known)
<1>1. TaskInit => GitTyped /\ Known
  <2> SUFFICES ASSUME TaskInit PROVE GitTyped /\ Known
    OBVIOUS
  <2>1. /\ db.sessions = [s \in {} |-> {}] /\ db.locks = << >> /\ HeldDocument(db, kept)
    BY DEF TaskInit, Coord!EmptyDocument, HeldDocument, LocksHeld, Coord!IsDocument
  <2>2. GitTyped /\ [w \in Worktrees |-> 0] \in Heads
    BY TaskAssumption DEF TaskInit, GitTyped, NoBranch, Heads
  <2>3. Framed
    BY <2>2, TaskAssumption DEF TaskInit, Framed, Sources, Host
  <2>4. job \in [Workers -> Jobs] /\ \A p \in Workers : ~At(p, "live")
    BY JobForms DEF TaskInit, At, Idle
  <2> QED
    BY <2>1, <2>2, <2>3, <2>4 DEF Known, RemovalsKnown, ReportsTrue
<1>2. /\ GitTyped /\ Known /\ (Shape /\ WorkInvariant) /\ (Shape /\ WorkInvariant)'
      /\ [TaskNext]_taskVars
      => (GitTyped /\ Known)'
  <2> SUFFICES ASSUME GitTyped, Known, Shape, WorkInvariant, (Shape /\ WorkInvariant)',
                      [TaskNext]_taskVars
               PROVE  (GitTyped /\ Known)'
    OBVIOUS
  <2>1. GitTyped'
    BY CommitsBounded
  <2>2. Known'
    BY AgentsKnow, OneStepKnows, CreateKnows, MergeKnows, ReconcileKnows, CloseoutKnows,
       FinalizeKnows, LeaveKnows, StutterKnows DEF TaskNext
  <2> QED
    BY <2>1, <2>2
<1> QED
  BY <1>1, <1>2, WorkIsHeld, PTL DEF TaskSpec

\* Every variable has its type, for any number of workers and worktrees: in
\* particular the document stays one that worktree-coord can read, whatever
\* create, close, merge, reconcile and closeout-all write into it in between.
THEOREM TaskTypeCorrect == TaskSpec => []TaskTypeOK
<1>1. GitTyped /\ Known => TaskTypeOK
  BY DEF GitTyped, Known, Framed, HeldDocument, Sources, TaskTypeOK
<1> QED
  BY <1>1, KnownAlways, PTL

\* reconcile marks no session whose worktree has been there ever since it
\* registered, although it reads document and worktrees one after the other, and
\* acts on them later, while create and closeout-all go on.
THEOREM FreshAreSpared == TaskSpec => []FreshSessionsAreSpared
<1>1. Known => FreshSessionsAreSpared
  BY DEF Known, RemovalsKnown, FreshSessionsAreSpared
<1> QED
  BY <1>1, KnownAlways, PTL

\* Whatever retires a session takes its active locks with it; only a close with
\* --keep-locks leaves them, until a later retirement of the same session takes them
\* too, and lock and create ask for an active session.
THEOREM NothingHeldByRetired == TaskSpec => []RetiredHoldNothing
<1>1. Known => RetiredHoldNothing
  BY DEF Known, HeldDocument, LocksHeld, RetiredHoldNothing
<1> QED
  BY <1>1, KnownAlways, PTL
=============================================================================
