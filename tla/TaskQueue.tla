----------------------------- MODULE TaskQueue -----------------------------
(***************************************************************************)
(* The task workflow of src/ai_client_governance/records/task_queue.py and *)
(* the task-record rows it is kept in step with.                           *)
(*                                                                         *)
(* Every command loads the whole queue document, edits its copy and saves  *)
(* the whole document in one transaction.  queue_lock takes no lock, so    *)
(* two commands may load the same document and the last save wins.  start  *)
(* next, complete and transition pass the host capability gateway between  *)
(* the load and the save; transition then updates the task-record row in a *)
(* transaction of its own.  A command may fail or die between any two of   *)
(* these steps.                                                            *)
(***************************************************************************)
EXTENDS Integers, Sequences, FiniteSets, SequencesExt

CONSTANTS
  Procs,              \* command processes that may run at the same time
  TaskIds,            \* identifiers of tasks, in the queue and in the records
  Trackings,          \* task-tracking paths
  ApplyStatuses,      \* statuses that task-record apply writes
  TransitionTargets,  \* values given to transition --to; {} if it is not used
  ForceFlags          \* values of its --force flag

IntakeStatuses == {"candidate", "awaiting_approval"}
RunningStatuses == {"active", "waiting", "verifying"}
ClosedStatuses == {"completed", "cancelled", "rejected"}

\* "waiting" stands for waiting_user, waiting_tool and waiting_agent, which
\* every table treats alike.
QueueStatuses ==
  IntakeStatuses \cup {"ready", "blocked"} \cup RunningStatuses \cup ClosedStatuses

RecordStatuses == {"candidate", "awaiting_approval", "ready", "active",
                   "verifying", "done", "blocked", "cancelled"}

\* Statuses of transition --to, which the queue and the records name alike but
\* for the last.
Lifecycle == RecordStatuses

AllowedTransitions ==
  [candidate         |-> {"awaiting_approval", "ready", "blocked", "cancelled", "rejected"},
   awaiting_approval |-> {"ready", "blocked", "cancelled", "rejected"},
   ready             |-> {"active", "blocked", "cancelled"},
   active            |-> {"waiting", "verifying", "blocked", "completed", "cancelled"},
   waiting           |-> {"active", "blocked", "cancelled"},
   verifying         |-> {"active", "blocked", "completed", "cancelled"},
   blocked           |-> {"candidate", "awaiting_approval", "ready", "cancelled"},
   completed         |-> {},
   cancelled         |-> {},
   rejected          |-> {}]

ASSUME QueueAssumption ==
  /\ ApplyStatuses \subseteq RecordStatuses
  /\ TransitionTargets \subseteq Lifecycle
  /\ ForceFlags \subseteq BOOLEAN

VARIABLES
  queue,   \* the committed list of tasks
  record,  \* per task id: the status of its task-record row, or "absent"
  view,    \* per process: the list it loaded
  job,     \* per process: how far its command is, and the task it is about
  moved,   \* history: per task id, the status that the last save about it gave it
  bypassed, \* history: the tasks that transition readied or ran without a label
  overtaken \* history: the processes that replaced a document they had not loaded

history == <<moved, bypassed, overtaken>>
vars == <<queue, record, view, job, history>>

\* approved says whether approval_label is explicit: not empty and not marked
\* as waiting for approval.
Task == [id : TaskIds, tracking : Trackings, status : QueueStatuses, approved : BOOLEAN]

Entry(t, tracking, status, approved) ==
  [id |-> t, tracking |-> tracking, status |-> status, approved |-> approved]

Idle == [step |-> "idle"]
Loaded == [step |-> "loaded"]
Gated(t) == [step |-> "gated", task |-> t]
Saved(t, to) == [step |-> "saved", task |-> t, to |-> to]

Jobs == {Idle, Loaded} \cup {Gated(t) : t \in TaskIds}
          \cup {Saved(t, to) : t \in TaskIds, to \in Lifecycle}

Positions(tasks, t) == {i \in DOMAIN tasks : tasks[i].id = t}

\* The first entry with the id, if there is one.
Find(tasks, t) == {i \in Positions(tasks, t) : \A j \in Positions(tasks, t) : i <= j}

Priority ==
  [active |-> 0, verifying |-> 1, waiting |-> 2, ready |-> 3, candidate |-> 4,
   awaiting_approval |-> 4, blocked |-> 5, completed |-> 6, cancelled |-> 7,
   rejected |-> 8]

\* Of the entries with the tracking path, the first one of the best status.
FindTracking(tasks, tracking) ==
  LET matches == {i \in DOMAIN tasks : tasks[i].tracking = tracking}
      Rank(i) == Priority[tasks[i].status]
  IN  {i \in matches : \A j \in matches : Rank(i) < Rank(j) \/ (Rank(i) = Rank(j) /\ i <= j)}

QueueStatusForLifecycle(status) == IF status = "done" THEN "completed" ELSE status

ActiveTasks(tasks) == {i \in DOMAIN tasks : tasks[i].status = "active"}

-----------------------------------------------------------------------------
\* The steps every command is made of.

Load(p) ==
  /\ job[p] = Idle
  /\ job' = [job EXCEPT ![p] = Loaded]
  /\ view' = [view EXCEPT ![p] = queue]
  /\ UNCHANGED <<queue, record, history>>

\* The capability gateway lets a command on only if the task has a record row.
Gateway(p, t) ==
  /\ job[p] = Loaded
  /\ record[t] # "absent"
  /\ job' = [job EXCEPT ![p] = Gated(t)]
  /\ UNCHANGED <<queue, record, view, history>>

\* Fault: closed tasks are dropped from the saved document.
Save_DropClosed(p, tasks, t, status, next) ==
  /\ queue' = SelectSeq(tasks, LAMBDA task : task.status \notin ClosedStatuses)
  /\ moved' = [moved EXCEPT ![t] = status]
  /\ overtaken' = overtaken \cup {q \in {p} : view[q] # queue}
  /\ job' = [job EXCEPT ![p] = next]
  /\ view' = [view EXCEPT ![p] = << >>]
  /\ UNCHANGED record

\* The save of the whole document, after which the process is at next.
Save(p, tasks, t, status, next) ==
  /\ queue' = tasks
  /\ moved' = [moved EXCEPT ![t] = status]
  /\ overtaken' = overtaken \cup {q \in {p} : view[q] # queue}
  /\ job' = [job EXCEPT ![p] = next]
  /\ view' = [view EXCEPT ![p] = << >>]
  /\ UNCHANGED record

\* A refusal, or the death of the process.
Leave(p) ==
  /\ job[p] # Idle
  /\ job' = [job EXCEPT ![p] = Idle]
  /\ view' = [view EXCEPT ![p] = << >>]
  /\ UNCHANGED <<queue, record, history>>

\* The loaded list with its i-th task replaced.
Replaced(p, i, task) == [view[p] EXCEPT ![i] = task]

\* transition_task on the loaded copy, then the save.
Move(p, i, to, approved) ==
  LET task == view[p][i] IN
  /\ to \in AllowedTransitions[task.status]
  /\ Save(p, Replaced(p, i, Entry(task.id, task.tracking, to, approved)), task.id, to, Idle)
  /\ UNCHANGED bypassed

-----------------------------------------------------------------------------
\* The commands.

Insert(p, t, tracking, status, approved) ==
  /\ Save(p, Append(view[p], Entry(t, tracking, status, approved)), t, status, Idle)
  /\ UNCHANGED bypassed

\* Fault: the refreshed status is not checked against the table.
Refresh_AnyStatus(p, i, tracking, status, approved) ==
  /\ Save(p, Replaced(p, i, Entry(view[p][i].id, tracking, status, approved)),
          view[p][i].id, status, Idle)
  /\ UNCHANGED bypassed

\* A refresh takes the new label and tracking path whatever the old ones were.
Refresh(p, i, tracking, status, approved) ==
  LET task == view[p][i] IN
  /\ status # task.status => status \in AllowedTransitions[task.status]
  /\ Save(p, Replaced(p, i, Entry(task.id, tracking, status, approved)),
          task.id, status, Idle)
  /\ UNCHANGED bypassed

\* Fault: the id is looked for among the open tasks only.
EnqueueId_OpenOnly(p, t, tracking, status, approved) ==
  LET open == {i \in Find(view[p], t) : view[p][i].status \notin ClosedStatuses} IN
  /\ job[p] = Loaded
  /\ status = "ready" => approved
  /\ \/ \E i \in open : Refresh(p, i, tracking, status, approved)
     \/ open = {} /\ Len(view[p]) < 3 /\ Insert(p, t, tracking, status, approved)

\* With --task-id the entry of that id is refreshed.
EnqueueId(p, t, tracking, status, approved) ==
  /\ job[p] = Loaded
  /\ status = "ready" => approved
  /\ \/ \E i \in Find(view[p], t) : Refresh(p, i, tracking, status, approved)
     \/ Find(view[p], t) = {} /\ Insert(p, t, tracking, status, approved)

\* Without it the best entry of the tracking path, or a new one of a new id.
EnqueueTracking(p, tracking, status, approved) ==
  /\ job[p] = Loaded
  /\ status = "ready" => approved
  /\ \/ \E i \in FindTracking(view[p], tracking) : Refresh(p, i, tracking, status, approved)
     \/ /\ FindTracking(view[p], tracking) = {}
        /\ \E t \in {u \in TaskIds : moved[u] = "none" /\ record[u] = "absent"} :
             Insert(p, t, tracking, status, approved)

\* Fault: the new label is saved although the transition is refused.
RequestApproval_KeepLabel(p, t, approved) ==
  /\ job[p] = Loaded
  /\ \E i \in Find(view[p], t) :
       LET refused == "awaiting_approval" \notin AllowedTransitions[view[p][i].status]
           to == IF refused THEN view[p][i].status ELSE "awaiting_approval"
       IN  Save(p, Replaced(p, i, Entry(t, view[p][i].tracking, to, approved)), t, to, Idle)
  /\ UNCHANGED bypassed

RequestApproval(p, t, approved) ==
  /\ job[p] = Loaded
  /\ \E i \in Find(view[p], t) : Move(p, i, "awaiting_approval", approved)

Approve(p, t) ==
  /\ job[p] = Loaded
  /\ \E i \in Find(view[p], t) : Move(p, i, "ready", TRUE)

StartNext(p, t) ==
  /\ job[p] = Gated(t)
  /\ ActiveTasks(view[p]) = {}
  /\ \E i \in Find(view[p], t) :
       /\ view[p][i].status = "ready"
       /\ view[p][i].approved
       /\ Move(p, i, "active", TRUE)

Wait(p, t, status) ==
  /\ job[p] = Loaded
  /\ \E i \in Find(view[p], t) : Move(p, i, status, view[p][i].approved)

Resume(p, t) ==
  /\ job[p] = Loaded
  /\ \E i \in Find(view[p], t) : Move(p, i, "active", view[p][i].approved)

\* Fault: complete does not pass the gateway.
Complete_NoGateway(p, t) ==
  /\ job[p] = Loaded
  /\ \E i \in Find(view[p], t) : Move(p, i, "completed", view[p][i].approved)

Complete(p, t) ==
  /\ job[p] = Gated(t)
  /\ \E i \in Find(view[p], t) : Move(p, i, "completed", view[p][i].approved)

Block(p, t) ==
  /\ job[p] = Loaded
  /\ \E i \in Find(view[p], t) : Move(p, i, "blocked", view[p][i].approved)

Cancel(p, t) ==
  /\ job[p] = Loaded
  /\ \E i \in Find(view[p], t) : Move(p, i, "cancelled", view[p][i].approved)

Reject(p, t) ==
  /\ job[p] = Loaded
  /\ \E i \in Find(view[p], t) : Move(p, i, "rejected", view[p][i].approved)

\* labels is {} when --approval-label is not given.
Transition(p, t, to, labels, force) ==
  /\ job[p] = Gated(t)
  /\ \E i \in Find(view[p], t) :
       LET status == QueueStatusForLifecycle(to) IN
       /\ force \/ status \in AllowedTransitions[view[p][i].status]
       /\ \E approved \in (IF labels = {} THEN {view[p][i].approved} ELSE labels) :
            /\ Save(p, Replaced(p, i, Entry(t, view[p][i].tracking, status, approved)),
                    t, status, Saved(t, to))
            /\ bypassed' = bypassed \cup
                 {u \in {t} : ~approved /\ status \in {"ready"} \cup RunningStatuses}

\* A task that only has a record row: nothing to save in the queue.
TransitionRecordOnly(p, t, to) ==
  /\ job[p] = Gated(t)
  /\ Find(view[p], t) = {}
  /\ job' = [job EXCEPT ![p] = Saved(t, to)]
  /\ view' = [view EXCEPT ![p] = << >>]
  /\ UNCHANGED <<queue, record, history>>

\* Fault: the record is given the queue's name of the status.
UpdateRecord_QueueName(p) ==
  /\ job[p].step = "saved"
  /\ record[job[p].task] # "absent"
  /\ record' = [record EXCEPT ![job[p].task] = QueueStatusForLifecycle(job[p].to)]
  /\ job' = [job EXCEPT ![p] = Idle]
  /\ UNCHANGED <<queue, view, history>>

\* update_task_record_status, in a transaction of its own.
UpdateRecord(p) ==
  /\ job[p].step = "saved"
  /\ record[job[p].task] # "absent"
  /\ record' = [record EXCEPT ![job[p].task] = job[p].to]
  /\ job' = [job EXCEPT ![p] = Idle]
  /\ UNCHANGED <<queue, view, history>>

\* task-record apply: a new row, or with --replace the old one deleted and the
\* new one inserted in one transaction.
RecordApply(t, status, replace) ==
  /\ record[t] # "absent" => replace
  /\ record' = [record EXCEPT ![t] = status]
  /\ UNCHANGED <<queue, view, job, history>>

-----------------------------------------------------------------------------
Init ==
  /\ queue = << >>
  /\ record = [t \in TaskIds |-> "absent"]
  /\ view = [p \in Procs |-> << >>]
  /\ job = [p \in Procs |-> Idle]
  /\ moved = [t \in TaskIds |-> "none"]
  /\ bypassed = {}
  /\ overtaken = {}

Intake(p) ==
  \E tracking \in Trackings, status \in IntakeStatuses \cup {"ready"}, approved \in BOOLEAN :
    \/ EnqueueTracking(p, tracking, status, approved)
    \/ \E t \in TaskIds : EnqueueId(p, t, tracking, status, approved)

Command(p) ==
  \/ Intake(p)
  \/ \E t \in TaskIds :
       \/ \E approved \in BOOLEAN : RequestApproval(p, t, approved)
       \/ Approve(p, t)
       \/ StartNext(p, t)
       \/ \E status \in {"waiting", "verifying"} : Wait(p, t, status)
       \/ Resume(p, t)
       \/ Complete(p, t)
       \/ Block(p, t)
       \/ Cancel(p, t)
       \/ Reject(p, t)
       \/ \E to \in TransitionTargets :
            \/ \E labels \in {{}, {TRUE}, {FALSE}}, force \in ForceFlags :
                 Transition(p, t, to, labels, force)
            \/ TransitionRecordOnly(p, t, to)

Next ==
  \/ \E p \in Procs :
       \/ Load(p) \/ Command(p) \/ UpdateRecord(p) \/ Leave(p)
       \/ \E t \in TaskIds : Gateway(p, t)
  \/ \E t \in TaskIds, status \in ApplyStatuses, replace \in BOOLEAN :
       RecordApply(t, status, replace)

Spec == Init /\ [][Next]_vars

-----------------------------------------------------------------------------
\* Properties.

\* Every variable has its type; every list a process loaded or saved holds
\* only tasks with the statuses of the transition table.
TypeOK ==
  /\ queue \in Seq(Task)
  /\ record \in [TaskIds -> RecordStatuses \cup {"absent"}]
  /\ view \in [Procs -> Seq(Task)]
  /\ job \in [Procs -> Jobs]
  /\ moved \in [TaskIds -> QueueStatuses \cup {"none"}]
  /\ bypassed \subseteq TaskIds /\ overtaken \subseteq Procs

Status(t) == {queue[i].status : i \in Positions(queue, t)}

\* What validate reports as an error of a task list; that every status is known
\* is a matter of its type.
ValidationErrors(tasks) ==
  LET found ==
    [more_active_tasks_than_allowed |-> Cardinality(ActiveTasks(tasks)) > 1,
     duplicate_task_ids |-> \E i, j \in DOMAIN tasks : i # j /\ tasks[i].id = tasks[j].id,
     running_without_approval |->
       \E i \in DOMAIN tasks : tasks[i].status \in RunningStatuses /\ ~tasks[i].approved]
  IN {error \in DOMAIN found : found[error]}

\* lifecycle brings the queue's and the record's names of a status together.
NormalizeLifecycleStatus(source, status) ==
  CASE source = "task-queue" /\ status = "completed" -> "done"
    [] status = "waiting" -> "active"
    [] status \in RecordStatuses \cup {"rejected"} -> status
    [] OTHER -> "unknown"

\* The tasks that lifecycle finds a row of.
RecordRows == {t \in TaskIds : record[t] # "absent"}

\* The status of a task as queue and records give it, if they do.
Queued(t) == {NormalizeLifecycleStatus("task-queue", status) : status \in Status(t)}
Recorded(t) == {NormalizeLifecycleStatus("task-record", record[u]) : u \in {t} \cap RecordRows}

\* What lifecycle says of the status of a task that has both an entry and a row;
\* it joins the two by their id, and by trace only what is left over.
LifecycleStatus(t) == IF Queued(t) # Recorded(t) THEN {"drift"} ELSE Recorded(t)

\* Whether task-run diagnose finds a task in records and queue.
Alignment(t) == [in_record |-> t \in RecordRows, in_queue |-> Positions(queue, t) # {}]

\* What the Todo list of a client shows of a task.
TodoStatus(status) ==
  CASE status \in IntakeStatuses \cup {"ready"} -> "pending"
    [] status \in RunningStatuses -> "in_progress"
    [] status \in {"cancelled", "rejected"} -> "cancelled"
    [] OTHER -> status

\* A completed task has a task-record row, however commands overlap and fail:
\* both ways to completed pass the gateway, and record rows are only replaced.
CompletedHasRecord == \A t \in TaskIds : "completed" \in Status(t) => t \in RecordRows

\* No two entries have the same id: "duplicate task ids found" of validate
\* never arises, even when enqueues overwrite each other's documents.
TaskIdsUnique == "duplicate_task_ids" \notin ValidationErrors(queue)

\* A running task has an explicit approval label, as the help of transition asks
\* ("required when transitioning to ready/active") and validate expects.
RunningIsApproved == "running_without_approval" \notin ValidationErrors(queue)

\* Transition is the only way around the label: a task that is ready or running
\* without one was once made so by transition, whatever refresh, request-approval
\* and the other commands have done to label and status since, and whichever of
\* them overwrote each other.
OnlyTransitionBypasses ==
  \A i \in DOMAIN queue :
    queue[i].status \in {"ready"} \cup RunningStatuses /\ ~queue[i].approved =>
      queue[i].id \in bypassed

\* However a transition ends whose save still stands, lifecycle tells: after the
\* update of the record it gives the status asked for, which the Todo list shares;
\* after a death or a failure in between it reports drift, unless the row said
\* so already.  Either way task-run diagnose finds the task on both sides.
EndsAreTold ==
  [][\A p \in Procs, t \in TaskIds, to \in Lifecycle :
       /\ job[p] = Saved(t, to) /\ Status(t) = {QueueStatusForLifecycle(to)}
       /\ UpdateRecord(p) \/ Leave(p)
       => /\ LifecycleStatus(t)' = IF UpdateRecord(p) \/ record[t] = to THEN {to} ELSE {"drift"}
          /\ \A status \in Status(t)' :
               TodoStatus(status) = "in_progress" <=> to \in {"active", "verifying"}
          /\ Alignment(t)' = [in_record |-> TRUE, in_queue |-> TRUE]]_vars

\* The step is a transition of the task with --force.
Forced(p, t) ==
  \E to \in TransitionTargets, labels \in {{}, {TRUE}, {FALSE}} :
    TRUE \in ForceFlags /\ Transition(p, t, to, labels, TRUE)

\* A save of the document that its process has loaded changes each task along the
\* transition table, unless it is forced, and no task disappears; so closed
\* tasks stay closed and nothing is started that was not ready.
StepsAreLegal ==
  [][\A p \in Procs, t \in TaskIds : \A old \in Status(t) :
       view[p] = queue /\ job'[p] # job[p] =>
         \E new \in Status(t)' :
           new = old \/ new \in AllowedTransitions[old] \/ Forced(p, t)]_queue

\* The document holds, for every task, what the last save that was about the
\* task wrote: no command undoes the work of another it never saw.
SavesAreKept ==
  \A t \in TaskIds : moved[t] # "none" => Status(t) = {moved[t]}

\* That is so as long as no command has overtaken another: refusals, failures and
\* deaths between load and save, and between save and update, undo nothing.
SavesAreKeptUnlessOvertaken == overtaken = {} => SavesAreKept

=============================================================================
