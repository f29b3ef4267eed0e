# Verification of ai-client-governance

TLA+ models of the governance runtime in `src/src/ai_client_governance`, the TLC
configurations that check them on small instances, and proofs checked by TLAPS. Paths below
are relative to that package unless they start with `README.md`, which is the runtime's own
`src/README.md`. `PROJECT.json` maps every definition to the lines it models and lists the
runs, the hazards and the theorems.

## 1. The system

The runtime is a set of short-lived commands that AI clients and people call, several at the
same time, on one repository. No server exists: everything the commands agree on is in SQLite
databases, JSON and JSONL files, and Git. A command reads, decides, writes and exits. It may
fail or be killed between any two of these, and other commands may come in between unless a
transaction keeps them out. That is where the hard behaviour is; inside one command the code
is sequential, except for `task-run`, which runs batches on threads.

### Components

| Component | State | Operations | Interacts with | Hard behaviour | What makes it correct |
|---|---|---|---|---|---|
| Worktree coordination store, `worktree/coord.py` | one JSON document of sessions, locks and integration queue per repository, and an event table, in SQLite | register, heartbeat, close; lock acquire and release; queue add and mark | called by worktree-task as a subprocess | two transactions in overlap, death inside, leases that run out, reopened sessions | write locks of two sessions never overlap; nothing revives; the event table tells the truth |
| Task queue, `records/task_queue.py` | one JSON document of tasks with their status and approval; the status column of the task record | enqueue, request-approval, approve, start-next, wait, resume, complete, block, cancel, reject, transition | the entrypoint gateway, the task record, gate-pool | load and save are two transactions, the record a third | legal status changes, nothing runs unapproved, completed work is recorded, no update is lost |
| Task worktrees, `worktree/task.py` | Git: worktrees, branches, the target branch, the source checkout | create, dispatch, close, queue, merge, remove, cleanup-branch, reset, reconcile, closeout-all, host-closeout, finalize | Git, worktree-coord, the task record, the task queue | many subprocesses in a row by a plan that is out of date, conflicts, death half-way | no commit and no edit is lost, repairs spare the living, locks go with their session |
| Agent bus, `agents/comm.py` | JSON files of locks, groups and agents; JSONL mailboxes | init, register, send, ack, broadcast, heartbeat, artifact, lock | plain files | file rewrites that are truncated first, appends in several files | delivered messages are tracked until acknowledged, granted locks stay |
| Task run, `runtime/task_run.py` | a cache of results; telemetry rows | plan, run, diagnose | policy, telemetry, any command | threads, fail-fast, cache shared by runs, telemetry that fails | order, backed success, success that is true of the tree |
| Registry, `runtime/registry.py` | a table of components | matching, gate steps, manifest, reports | gate-pool, lifecycle | combinations of conditions | the gates of a final run are complete |
| Gate pool, `gates/gate_pool.py`, `records/tool_invocations.py`, `records/tool_flow.py` | rows of a trace, doc-impact facts | plan and run of all gates of a context | registry, every gate, telemetry, task record | rows that fail, several pools on one trace | a passed pool is backed, no gate twice, no closing gate left out |
| Task record, `records/task_record.py`, `records/state_store.py` | the rows of a task: requirements, outputs, worktrees, events, validations, gate runs | apply, append-*, design-package, gate, evidence graph | lifecycle, queue, dispatch, gate-pool, telemetry | a gate reads its tables one by one while writers append and replace | a pass is earned and stays earned; the final verdict asks for no less than preflight |
| Telemetry, `records/telemetry.py`, `records/tool_invocations.py` | execution spans | rows at the start and the end of a command, rows by hand, report | every wrapped command, the record's gate | a span is one row, written again by its own end or by hand | gate and report agree on what is unclassified |
| Lifecycle engine, `lifecycle/engine.py` | what it writes into the task record | input-filter, preflight, finalize; classify and status | registry, completion test, task record, gate-pool | its own checks, then commands in other processes | what it generates passes preflight; what it calls finalized is |
| Completion test, `validation/completion.py` | none | analysis contract, required checks, budget | lifecycle, gate-pool | options that one caller forgets to hand on | a verdict implies what its options ask for |
| Policy, `gates/policy.py` | none | allow, approval required, block, for commands and texts | task-run, gate-pool | one text shows several marks | the strictest finding decides |
| Shell adapter, tool gateway, `runtime/shell_adapter.py`, `runtime/tool_gateway.py` | spans, an event of the record | proxied execution, the gateway of the host | telemetry, task record | a command fails in a wrapper | failures are classified |
| Gates over Markdown, `gates/session_gate.py`, `gates/task_gate.py` | none | verdicts | gate-pool | many conditions | a verdict implies what its documents say |
| Sync check, `sync/check.py` | a state file with the time of the last fetch | check, fetch | Git | two checks that overlap | a warning, no decision |
| Skill sync, `io/skill_sync.py` | installed skill directories | install | file system | death half-way | a skill is whole or absent |
| Audits and documents: `gates/architecture_guard.py`, `audit/*`, `docs/*`, `validation/encoding.py` | none or an index | scans | gate-pool | - | the verdict matches the rules |
| Corrections and framework debt, `records/corrections.py`, `records/scan_corrections.py`, `records/framework_debt.py` | rows | add, update, scan | gate-pool | - | open items are reported |
| Probes, extracts, templates, helpers, self test | none | reports | - | - | - |

The rows from the coordination store to the shell adapter have modules, with the parts that section 8
names left out; the rest keeps no state, or none that another part decides by, and is listed with its
reason in `PROJECT.json`.

## 2. Plan

The modules in the order of what matters most, with what each is built on.

1. `WorktreeCoord` with its abstract specification `LeaseLock`; `WorktreeCoordProofs` and
   `CoordRefinement`.
2. `TaskQueue`; `TaskQueueProofs`.
3. `WorktreeTask` over the operators of `WorktreeCoord`, up to the host steps of closeout-all and the
   verdict of finalize; `WorktreeTaskProofs`.
4. `AgentComm`; `AgentCommProofs`.
5. `TaskRun` over `CommandPolicy`; `TaskRunProofs`.
6. `Registry`, `GatePool`; `GatePoolProofs`.
7. `RecordChecks` (the checks of a record), `Completion` over `Registry`, `Lifecycle` over both,
   `Telemetry`, and `TaskRecord`, which composes them; `RecordProofs`.

All of this is done, and every safety and action property of the passing runs is proved. What could still
be added: the life of an integration queue item over `merge --queue-item` and its retries; the
task-record rows that closeout-all and dispatch leave behind.

## 3. Modules and code

Conventions. A command is a process with a program counter or a `job`; a death is an action that
may come between any two steps. Data that no property tells apart (titles, messages, paths,
reasons, times of rows) is left out. A clock is a number of ticks. A definition named
`X_<Word>` directly above `X` is a faulty form of `X`, used to show that a property can fail; no
specification uses it. Variables named "history" in a module do not exist in the code; they
record what has happened so that a property can speak of it.

### WorktreeCoord, LeaseLock (worktree/coord.py)

`db` is the committed document with the event table's announced lock ids. `Begin` is `BEGIN
IMMEDIATE` and the read, `view` the copy on the connection, `SessionRegister` ... `QueueMark` the
bodies of the commands up to `StateStore.write`, `Commit` and `Rollback` the two ends of
`GuardedState.__exit__` (a kill is a rollback by SQLite). `LockAcquire` and `LockConflict` are the two
outcomes of lock acquire; `ValidationErrors` is what validate makes of the document; forced, renewed and
keep-locks options are booleans. `Tick` lets leases run out between any two steps. `LeaseLock` is the promise: owners are granted and drop scopes in one
step, and no two owners hold overlapping ones.

### TaskQueue (records/task_queue.py, runtime/host_capability_gateway.py)

`queue` is the committed document, `view` the list a process loaded. `Load`, then for start-next,
complete and transition the `Gateway`, then one command action with its save; transition has
`UpdateRecord` as a third transaction, and `TransitionRecordOnly` is the way of a task the queue does
not know. `RecordApply` is task-record apply from outside. `queue_lock` yields without a lock, hence the
overlap. `Leave` is a refusal, an error or a death. The views are operators: `LifecycleStatus` is the
status that lifecycle gives a task from queue and record, `TodoStatus` the box of the Todo list,
`Alignment` what `task-run diagnose` finds, `ValidationErrors` what validate says of a list. History:
`moved` is what the last save about a task gave it, `bypassed` the tasks that transition readied or ran
without a label, `overtaken` the processes that replaced a document they had not loaded.

### WorktreeTask (worktree/task.py)

A worktree stands for its slug. `tree`, `tip`, `merged`, `locked` and `source` are what the commands ask
Git; commits are counted. Each subcommand is a chain of `job` steps, one per Git or
worktree-coord command: `CreateTree`, `CreateRegister`, `CreateLock`, `DispatchPayload`;
`MergeCheck`, `MergeRun` or `MergeConflict`, `MergeMark`; `ReconcileSnapshot`, `ReadCoord`, `ReadLive`,
`MarkMissing`; `CloseoutPlan`, `CloseoutMerge` or `CloseoutConflict` and `CloseoutAbort`,
`CloseoutRemove`, `CloseoutSessions`, `CloseoutBranch`, then `CloseoutStage` (git add of the gitlink) and
`CloseoutCommit`. A merge fails too while another one is in progress in the checkout, and the abort that
follows is then an abort of that one. `host` is the gitlink in the host's index and in its last commit;
`Elsewhere` stands for a head that is not on the target. `HostIssues` and `FinalizeIssues` are the verdicts
of host-closeout and finalize, which looks at the worktrees first and at the host in a second step. `kept` is
history: the sessions whose last retirement was a close with `--keep-locks`. `remove`, `cleanup-branch`, `reset`, `close` and
`queue` are one step. The coordination document is edited with the operators of `WorktreeCoord`, one
command at a time, which is what that module shows of it. `Edit`, `CommitWork` and `UseSource` are
agents and people; Git's own refusals (removal of a dirty worktree, deletion of an unmerged
branch) are guards.

### AgentComm (agents/comm.py)

`file` holds the JSON files. A rewrite is `Truncate` and `Flush`, because `write_text` truncates
first; a reader in between fails. An append is `AppendRow`. `Post` (send and ack) writes the outbox,
`Deliver` the inbox; `Broadcast` appends to the broadcasts, the outbox and every inbox. `Register` makes the
agent's mailboxes and then, as `RegisterHeartbeat`, its first heartbeat if there is none. `InitGroupFiles`, `InitLocks`,
`InitGroup` and `InitAgents` are the looks that init takes before each file. `Heartbeat` rewrites the
file of one agent, `Artifact` appends. `Unacked`, `ReportFails`, `ValidationErrors` and `ValidationWarnings`
are what report and validate make of the files.

### TaskRun, CommandPolicy (runtime/task_run.py, gates/policy.py)

`Begin` is the plan: `Kept` drops duplicates and `Group` numbers the batches. Every position of the
request is a node that goes through `Announce` (started row), `Lookup` (cache), `Execute`, `WriteCache`
and `Close` (last row), or `Block` (policy). `Raise` is an exception that nothing catches. `Report` is the end
of `execute_plan`, with the `Diagnosis` that a report of the same trace would give. `CommandPolicy` takes
a command for the set of marks its text shows (a word, a prefix, a pattern of the code): `ClassifyCommand`
is the kind, `CapabilityOf` and `ApprovalRequired` what the plan says of it, `Assess` the policy's decision.
On which tree a command succeeds is a constant.

### Registry, GatePool (runtime/registry.py, gates/gate_pool.py, records/tool_invocations.py, records/tool_flow.py)

`Registry` holds the components with a gate step as sets of records, and `Matches`. `Plan` is
`build_steps` in its order: `Coordination`, `Validation`, `Reports`, `Closing`, `TraceSteps`. A step is
`Announce` (started row; without it the gate is not run), `RunGate` (any verdict, but tool-flow needs
its evidence) and `Record` (last row; without it the step fails); doc-index is followed by
`NoteEvent` and `NoteValidation`. `evidence` is what tool-flow would find in the trace, over all pools.

### RecordChecks, Completion, Lifecycle, Telemetry, TaskRecord (records/task_record.py, validation/completion.py, lifecycle/engine.py, records/telemetry.py, records/tool_invocations.py)

`RecordChecks` is `validate_task`: one operator per check, `Checks` their order, `Needed` which of them a
task's types and size and the final flag call for, `Holds` the verdict of one, `Failing` of all. A payload
is the set of facts it states; what a check looks for in it, a missing, empty or wrong field, is the
presence or absence of a fact. `Gaps` is the evidence graph, `Accepted` what apply refuses. `Completion` is
the contract, the checks a change requires and their seconds against the budget. `Lifecycle` is the engine:
`TypesOf`, `SizeOf` and the rest of the classification, `GeneratedRecord` the record input-filter writes,
`FinalCommands` what finalize starts, `OwnVerdict` what it finds itself and `PoolErrors` what the gate pool it
starts finds with the options that it is handed. An option is a set of at most one value, empty if not given. `Telemetry` has the upsert of a span, the categories of a failed
command, `SpanClasses` as the gate sees the spans of a task and `ReportedUnclassified` as the report does.

`TaskRecord` composes them over one task: `record` is its row with how it was made and how often it was
replaced, `tables` and `spans` its other rows, `runs` the gate_runs. Writers are one step, because each is one
transaction: `RunInputFilter`, `RunDispatch` and `ApplyPayload` (with and without --replace), `AppendEvent`,
`AppendEvidence`, `EnterGateway`, `SetStatus` (the queue), `CommandStarts`, `CommandEnds`, `RecordSpan`. A gate
is not: `StartGate` or `StartLifecycle` reads the task's row, each `Check` reads what its check reads, as it
is then, and `EndGate`, `EndPreflight` or `EndFinalize` ends it. `RunFinalGates` is finalize with --run-gates:
its own verdict, then the pool, whose record gate is a second pass over the checks (`EndPoolGate`).

## 4. Runs

| Run | Instance | What it shows |
|---|---|---|
| `coord_locks` | 2 processes, 2 sessions, 1 worktree, `docs` and `docs/a`, leases of 1 tick up to tick 2, 2 locks, 1 item id and 2 items | validate never finds an error (`ValidatesClean`); the event table equals the document; nothing revives; a closed session gains nothing; the integration queue keeps its items and ids; `LeaseLock` is implemented; the guard is given back and locks lapse |
| `queue_commands` | 2 processes, 1 task, 2 tracking paths, transitions to ready, active, done and blocked, forced or not | what overlapping commands may do, with refusals and deaths: only transition goes around the label (`OnlyTransitionBypasses`), records and ids survive, a save is undone only by a command that overtook it (`SavesAreKeptUnlessOvertaken`), changes of a loaded document are legal, and lifecycle tells how a transition ended, a death before its record update included (`EndsAreTold`) |
| `queue_lost_save` | 2 processes, 2 tasks | **violated**: a later save undoes an earlier one |
| `queue_unapproved` | 1 process, 1 task, transitions to ready and active, never forced | **violated**: a task runs without an approval label (`RunningIsApproved`) |
| `task` | 2 workers, 2 sessions, 2 worktrees, 1 lock, 1 commit each, 1 queue item, 1 tick, all subcommands, a source checkout that is clean or elsewhere | no commit is lost, edits go only by force; closeout-all and a finalize without issues are backed by the target and by the gitlink (`CompletionIsBacked`); repairs spare sessions that are being created; what is retired, unless by `close --keep-locks`, holds no lock (`RetiredHoldNothing`) |
| `task_residue` | 1 worker, 1 session, lease of 2 ticks, 3 ticks | **violated**: closeout-all leaves an active lock |
| `comm_bus` | 1 process that may die, 2 groups, 1 agent and main, 2 messages, 2 locks | validate warns of a delivered message until its ack is recorded (`WarnsUntilAcked`), forced overlaps only, nothing reported is lost |
| `task_run` | 2 runs of 3 requests over 5 commands, 2 contents, 2 heads, parallel with label and fail-fast, sequential without label | order, backed reports, batches without what wants approval, green means good |
| `task_run_stale` | 1 run: an ordered command, then a validation | **violated**: a cached success is stored under the inputs of before |
| `gate_pool` | 1 pool at a time on 1 trace, all 11 events, 6 classes of types, 5 of paths, final or not, both sources | what passes is backed, final pools satisfy tool-flow and close the task once (`PlanClosesOnce`) |
| `record_life` | 3 requests, 1 dispatch, 3 payloads, 2 events, 2 rows of evidence, 2 commands on 1 span, 2 rewrites, 3 writes, 1 row of gate_runs, 1 direct gate | a pass is earned however writers come in between (`PassIsEarned`), the final verdict covers preflight, a pass leaves no gap in the graph and no unclassified failure in the report (`PassLeavesNoGap`), generated records pass preflight, finalized is backed |
| `finalize_changes` | the same with 1 write | **violated**: a complete analysis given to `finalize --run-gates` does not reach the completion test of its pool (`AnalysisIsHandedOn`) |

Why the bounds are enough. Two processes are every overlap of a pair of transactions; the theorems
remove that bound where they exist. Nested scopes make conflicts of both directions. Two ticks
let a lease end, be renewed and be reopened. One commit per branch distinguishes a branch that is
ahead of the target from one that is not, before and after a merge, which is all the code compares; the
theorem is for any number. In `queue_commands` one task with two tracking paths is found by its id and
found, or missed, by its path; every property speaks of one task at a time, and its theorem is for any number.
The work in Git and the coordination store share the worktrees alone, so the
constraints of `MCWorktreeTask` keep a behaviour of `task` either to sessions and locks over one slug that comes
and goes (`SessionsOrWork`, `OneSlug`) or to commits, two slugs, the queue item and the source checkout
without sessions. `LocksOfOne` keeps locks to behaviours with one session, `OneBusy` lets one chain at a time run,
beside the subcommands of one step, where there are two slugs or the leases have run out, `SourceAlone` and
`QueueAlone` keep the second slug, a source checkout that is elsewhere and the item apart. What they cut off is
covered by the theorems, which prove each of the six properties of the run without them. Two groups are
needed for the lock rule of the bus, since locks of one group never
conflict. In `comm_bus` mail, locks and heartbeats share only the group files, so the constraints of
`MCAgentComm` keep a behaviour to one of them, mail to one group, and the clock to behaviours with locks,
since only locks have leases. The instances of
`MCTaskRun` contain a duplicate, a batch of two, an ordered command between two validations, a command
that the policy stops, one that begins like a look and deletes, and one that is never cached. In `gate_pool`
the six classes of types meet every distinction that the components make; the paths include a deleted one
and a correction record. In `record_life` one payload is complete for the final gate of a script change, one
lacks the plan of the proxy and one is the schema's sample; three writes are a record, a change of it and its
replacement, or a record and both rows of a command; one gate runs at a time, because gates
read and never write what another one reads.
`MaxNow`, `MaxLocks`, `MaxItems`, `MaxCommits`, `MaxMessages`, `MaxWrites` and `MaxRuns` are bounds of the model
only: they guard the actions that would go beyond them. A run that reaches them does not stop, because
commands may always begin or processes leave; no run turns the deadlock check off.

`task_run` keeps the tree still while a run is running (`Quiet`) and puts commands that change it last, and
`comm_bus` has one process: section 7 says what happens otherwise, and the theorems of section 6 name,
for any number of processes and any changes, the overlap or the stale key without which it does not.

## 5. Fairness

Only `coord_locks` has liveness properties, under `FairSpec`: weak fairness of the clock, and of
`Commit \/ Rollback` of each process. The clock runs by itself. A process inside the guard does
a bounded number of local reads and writes and leaves the `with` block by its end or by an exception;
if it is killed, SQLite rolls back. So one of the two must come, and which one is left
open. Nothing is assumed about new commands, so `LocksLapse` rests on leases alone, and it
holds because no command renews the lease of a lock. The other components have no liveness worth
stating: their commands may die and nobody is obliged to retry, and no document promises more.

## 6. Proofs

All for every value of the constants that satisfies the module's assumption. The proofs are in
modules of their own, one lemma per command and one step per action.

- `WorktreeCoordProofs`: `TypeCorrect` (`TypeOK`), `Exclusion` (`NoLockConflict` and `GuardInvariant`)
  and `ValidatesCleanly` (`ValidatesClean`). Exclusion alone is not inductive: a commit installs a view that
  was computed earlier. The invariant is `IInv == TypeOK /\ NoLockConflict /\ GuardInvariant`: at most one
  process is inside the guard, its view is the committed document until it writes, and what it has
  written is exclusive at the present time. Time only helps, because leases run out; sessions play no part,
  because a lock's owner never changes. `ValidatesCleanly` adds that every lock's session is in the
  document, which holds because no command removes a session.
- `CoordRefinement`: `Refinement` (`ImplementsLeaseLock`), `NoneRevives` (`LockNeverRevives`), `EventsMatch`
  (`AuditMatchesLocks`), `ClosedStaysBare` (`ClosedGainsNothing`) and `QueueIsKept` (`QueueOnlyGrows`). All
  five speak of what one commit may do. The argument is one invariant, `StagedSucceeds`: what a process has
  staged and not yet committed is a proper successor of the committed document, as far as locks, events,
  sessions and queue are concerned, and stays one while time passes. Each command is shown once to
  stage a successor (`CommandSucceeds`); the five results are read off it.
- `TaskQueueProofs`, all for any number of overlapping commands and every target of transition:
  `TypeCorrect`, `FinishedIsRecorded` (`CompletedHasRecord`), `IdsStayUnique` (`TaskIdsUnique`) and
  `BypassIsTransition` (`OnlyTransitionBypasses`). Since saves overwrite each other, the invariant `QInv` says
  of every list that any process holds what it says of the committed one, and `GateOK` that a gateway's answer
  stays true, which it does because record rows are replaced and never deleted. The lemma
  `CommandWrites` says once what every command does to its list (one entry replaced, one added, or
  nothing). From it, and since a process that saves either holds the document as it is or is put into
  `overtaken`: `OnlyOvertakingUndoes` (`SavesAreKeptUnlessOvertaken`) by `RewriteLands` and `InsertLands`, and
  `LoadedStepsAreLegal` (`StepsAreLegal`) by `CommandIsLegal`, whose `--force` is the only exception.
  `TransitionEndsAreTold` (`EndsAreTold`) needs that both names of a status mean the same (`NamesAgree`) and
  that a saved transition has its record row whatever comes in between (`RowsStay`).
- `WorktreeTaskProofs`: `WorkIsKept` (`NoWorkLost`) by `WorkInvariant` and the shape of the Git
  variables, and `EditsGoOnlyByForce` (`EditsAreKept`). The argument is that every step does one of five
  things to the work of one worktree; plans that are out of date do not matter because Git
  itself refuses to delete an unmerged branch or to remove a dirty worktree. `CloseoutIsBacked`
  (`CompletionIsBacked`) rests on it: `Backed` says of each step of a closeout which of its planned
  commits the target must hold by now and, from staging on, index and last commit of the host. Other
  workers only add to target, index and commit.
  `TaskTypeCorrect` (`TaskTypeOK`), `FreshAreSpared` (`FreshSessionsAreSpared`) and `NothingHeldByRetired`
  (`RetiredHoldNothing`) share the invariant `Known`: the document is typed, each lock's session is in it,
  an active lock belongs to a session that is active or is in `kept` (`HeldDocument`, `LocksHeld`; a close
  without the flag takes the session out of `kept` and its locks with it, `ClosedIsHeld`), a
  session that is marked missing or has no worktree lost it after it registered (`RemovalsKnown`), and so
  have all that a reconcile under way is about to mark (`ReportsTrue`), however old its report is. Every
  step writes the document at most once and moves at most one job (`KnownKept`). `TaskAssumption` says
  that the bounds are natural numbers and that leases and scopes have their types.
- `AgentCommProofs`: `TypeCorrect` (`TypeOK`) and `OverlapsForced` (`OverlapsAreForced`) for any number of
  processes: commands overwrite each other's lock list, but each list that is about to be written is itself
  free of unforced overlaps (`ForcedInv`), since a command is granted its lock on the list it has read.
  The other two properties fail when commands overlap in a certain way (section 7). Their theorems are for any
  number of processes and say that there is no other: `ReportsAreKept` is `Spec /\ []NoneOvertaken =>
  []ReportedIsKept`, where `NoneOvertaken` is that no two processes rewrite one file at once. `WriteKept` says
  that what is about to be written keeps what was told, and that the file of a group comes after the mailboxes.
  `AcksAreAwaited` is `Spec /\ []NoneMadeTwice => []WarnsUntilAcked`, where `NoneMadeTwice` is that a mailbox
  which init or register found missing, and is about to make, has got no line meanwhile; locks, heartbeats
  and sends overlap as they like. Whatever has been received is then in its sender's outbox (`Tracked`).
- `TaskRunProofs`: `TypeCorrect` (`TypeOK`), `OrderKept` (`OrderIsKept`) and `HarmlessBatches`
  (`BatchesAreHarmless`). `StepMoves` says that a step of a thread moves one node along; `StartsAfter` that it
  starts one only after those before it. For the batches, what the policy finds in a text is related to what
  the plan says of it, for every set of marks: if approval is required, the worst finding
  asks for it (`ApprovalIsAsked`), so with a policy no laxer than the default the node is blocked before
  it can be executing (`StartedIsAllowed`). `ReportBacked` (`ReportIsBacked`) says in `NodesBacked` which
  rows a node has at each of its steps if telemetry is on, and in `VerdictStands` that a success is never
  withdrawn; the summary of diagnose follows, since no two nodes write each other's rows. `GreenIsGood`
  (`GreenMeansGood`) lets everybody change the tree at any time: other runs, ordered commands of
  the run itself, and people. It says that green can be wrong in two ways only, which are its assumptions:
  `KeysAreCurrent`, a command that may be answered from or stored in the cache is looked up, and executed, on
  the tree that its key names; `ResultsStand`, the tree does not change under a success that is still to be
  reported. The first is what `task_run_stale` breaks; the second is a change that comes after the fact, which
  `execute_plan` cannot know of. The invariants are `CacheIsGood`, whatever a whole cache file vouches for
  succeeds on the tree of its key, and `ResultsAreSound`, whatever a node is done with succeeds on the
  tree there is.
- `GatePoolProofs`: `PassedIsBacked` (`PassedPoolIsBacked`), `PoolTypes` (`TypeOK`), `FlowSatisfied`
  (`FinalPoolSatisfiesFlow`) and `PlanClosed` (`PlanClosesOnce`), for every context: any set of files,
  components and events. A plan is never empty, because the steps that
  look at the trace are always in it (`PlanType`). The invariant `PoolInvariant` says that each step before
  the current one has its two rows and, for doc-index with a task id, that the facts are exactly
  the two passes; after a failed check the facts may say so, and then the pool can only end as failed.
  `TraceInvariant` adds that the evidence of each step that has its started row is in the trace, which
  other pools of the trace only add to. That a plan has each gate once, has session-gate and
  telemetry before tool-flow when it is final, and closes after the gates that look at the changes, is shown
  of the concatenation that `build_steps` makes: its pieces are sorted by a place that each gate
  has (`Place`, `Sorted`), whatever components the registry names.
- `RecordProofs`: `FinalAsksForMore` (`FinalCoversPreflight`), a statement about the checks that holds for
  every task and every content of the tables: what preflight needs the final gate needs too, and each
  check that depends on the flag is stricter with it. `FinalizeIsBacked` (`FinalizedIsBacked`) needs
  `GateInvariant`: a finalize that is ending without errors has a row of the gate that it started, unless the
  record was replaced, since `applied` only grows. `PassesAreEarned` (`PassIsEarned`): by `EarnedInvariant`
  each row of gate_runs is earned at the present time, and a gate under way has each check it needs still
  ahead of it, among its errors, or holding. A writer either only adds, which undoes none of the checks
  the property speaks of (`Grows`, `HoldsLater`), or replaces the record and its rows together. `PassIsClean`
  (`PassLeavesNoGap`) is again a statement about the checks, for every record and all spans: a pass leaves nothing for graph and report to complain about. The converse does not hold
  (section 7, Task record) and is not claimed. `RecordTypes` (`RecordTypeOK`) types rows, gates and
  runs one after the other. `GeneratedPasses` (`GeneratedPassesPreflight`) needs that whatever has been
  appended, the tables still hold the rows that input-filter or dispatch made of the request
  (`MadeInvariant`). They rest on `RecordAssumption`: every payload names the same tables and brings no
  spans, labels and statuses have their types, and the bound on the writes is a natural number.

Only model-checked: `GuardIsReturned` and `LocksLapse`, which are liveness under fairness and out of the
prover's reach. So is induction over data, which no theorem here needs. The properties of the five
violation runs are false of the code. Of three of them it is proved how far they hold: `SavesAreKept` unless a
command is overtaken, `GreenMeansGood` under its two assumptions, `RunningIsApproved` but for tasks that
transition has readied or run. `CloseoutLeavesNoResidue` and `AnalysisIsHandedOn` have no theorem.

## 7. Where the code and its words differ

Shown by a run that finds the violation:

- `queue_lost_save`: `queue_lock` excludes nobody (`records/task_queue.py`), so of two commands
  that overlap the later save undoes the earlier one, which has reported success.
- `queue_unapproved`: `transition --to ready` and `--to active` look at no approval label
  (`records/task_queue.py` line 1156), although the help of `--approval-label` says that it is required for
  them (line 165).
- `task_residue`: closeout-all skips sessions whose lease has run out, with their locks, although
  `README.md` lines 881-883 promise that nothing is left for `reconcile --strict`.
- `task_run_stale`: `execute_plan` hashes the declared inputs once, before the first command, so a
  validation after an ordered command is cached under the inputs of before it.
- `finalize_changes`: `finalize --run-gates` with changed paths can not pass, whatever analysis it is given: its
  gate pool gets no analysis, budget or profile options (`lifecycle/engine.py` lines 1306-1346), while gate-pool
  requires an analysis (`gates/gate_pool.py` line 533, `README.md` lines 1170-1171).

Reachable in the models, known from checking with other constants, and kept out of the runs or
not stated as a property:

- Task queue. `resume` does not look whether another task is active, and takes a ready task as well, so two
  tasks can be active. A death between the two transactions of transition leaves queue and record different,
  which lifecycle reports as a drift (`EndsAreTold`), and the table refuses the retry. start-next, complete and wait do not update the record, so
  lifecycle reports a drift of the status in normal use; only transition keeps both in step.
- Task worktrees. A fresh branch without commits counts as merged, so closeout-all removes the
  worktree of a task that has just begun (no work is lost). The repair of reconcile acts on a report
  that may be out of date: a slug that was created again in between loses its session. A `merge
  --queue-item` that dies after `git merge` never marks the item. A conflict of merge stays in the source
  checkout and stops every later merge until somebody resolves it.
- Closeout. The task is marked done before its final gate has run (`worktree/task.py` lines 1383-1438).
  After a death between the removal of the worktrees and the commit of the host, the retry finds no
  worktree, leaves the gitlink and still marks the task done. The commit takes whatever others have
  staged meanwhile. If the source checkout is elsewhere when it is staged, the gitlink names that other
  head. `README.md` line 640 says that closeout must not include aicg.db, line 900 adds it; the
  host-capability check of host-closeout and finalize writes to that file before it looks whether the host is
  clean. finalize with all its requirements looks at worktrees only, so a branch that has
  lost its worktree unmerged passes.
- Agent bus. With two processes the lock list is lost like the queue, and a mailbox found missing by
  `touch_bus_files` is emptied although another command has written to it. A torn heartbeat file of
  one registered agent makes report and validate fail for all.
- Task run. With `Quiet = FALSE` a commit between the cache key and the execution stores a result under the
  wrong HEAD. A validation that is asked for again after an ordered command is dropped as a
  duplicate of the one before. A command with a readonly prefix that goes on to delete, or to use shell
  operators, is of kind readonly: with a label it runs in a parallel batch and its success is cached
  (`README.md` lines 172-175). That the plan wants approval for a stateful command is not enforced by the policy.
- Gate pool. `README.md` lines 1062-1064 say that raw-shell-coverage, task-run-diagnostics,
  shell-adapter-diagnostics and task-record-queue-alignment become real steps, but
  `gate_step_ids_for_context` keeps only cross-cutting gates and those components are of other
  kinds. The gate step of the agent-review-result component is never asked for by `build_steps`. A
  pool that is not final and whose plan holds no gate with a final gate's name always fails at
  tool-flow. Tool-flow counts gates that failed or never ended, and those of earlier pools of the
  trace; `--require-trace` can not fail on rows that were selected by their trace. The record's gate is
  asked for its final verdict in a pool that is not final too.
- Lifecycle. With `--dry-run` the state is finalized though no gate has run. A small task without an id and without
  tracking finalizes with no command at all. The state of preflight is preflight_checked even with errors.
- Completion test. The checks of a resume cost 180 seconds, which the fast budget of 90 never allows without
  `--allow-expensive`; so do a frontend change with any text file (95) and a change of scripts and documents that uses Git (99).
- Task record. A requirement's status only changes by `apply --replace`, which drops gate runs and appended
  evidence with the old rows; a gate that runs across a replacement mixes two records and its
  row stays with the new one. A dispatched record never passes preflight without more: it has no
  facts of the input filter. Spans of failed task-run and tool-invocations commands carry no
  classification, so the final gate fails even with a complete analysis of the error (`README.md`
  lines 1090-1095), while the telemetry report classifies the same failure itself; a row written by hand
  replaces a span's attributes and task. An incomplete error analysis can only be undone by a new
  payload. In reviews "unresolved" is taken for "resolved", which it contains (`records/task_record.py` line
  2413). An identity that nobody gives is "unknown" and passes the identity check.
- Registry. data-confirmation comes before the component that produces a fact it requires.
- Parts without a model. The group status takes a word for "not completed" for "completed", which it
  contains; a skill whose copy died half-way is skipped by later installs (`io/skill_sync.py` line 230); two
  overlapping sync checks may put back the time of the last fetch.

## 8. Not modelled

Within modelled components: commands that only read, except where a property speaks of their verdict (the
views of the queue, report and validate of the bus, validate of the store, diagnose, finalize and
host-closeout, the evidence graph, the telemetry report); dry runs; the migration of version 1 queue
documents and of database schemas; the rows that closeout-all and dispatch leave in the task record beyond
the record dispatch writes; in lifecycle's view of the queue the matching by trace, the drift of trace ids and
the references to framework debt, because queue entries have no trace in `TaskQueue` and no property is about
them; the trace context, measures, effectiveness snapshots and trends of telemetry; the
registry's manifest and reports; policy findings about prompts and texts; the PowerShell proxy of the shell
adapter. A check of the record's gate that reads several tables, or one twice, is one read in `RecordChecks`:
those tables only grow while a record stands, and the reads of different checks are steps of their own.
SQLite, Git and the file system are assumed to do what their documentation says:
transactions are atomic and isolated, a killed process loses its transaction, one append of one line is one
step.

Whole components, with the reasons in `PROJECT.json`: gates over Markdown, audits, document scans and
encoding checks are functions from files to a verdict, which `GatePool` takes as a parameter; corrections
and framework debt write one row in one transaction; sync check, skill sync, probes, extracts, group
status, templates and the token usage skill keep nothing that another part decides by. The self test, the
longest file of the package, is a test of the other parts.
