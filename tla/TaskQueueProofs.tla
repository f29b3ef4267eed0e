-------------------------- MODULE TaskQueueProofs --------------------------
(***************************************************************************)
(* Proofs about TaskQueue for any number of overlapping commands and any   *)
(* tasks: types, task-record rows of finished tasks, unique ids, how a     *)
(* task comes to run without approval, which saves are kept, which changes *)
(* are along the transition table, and what lifecycle says of a transition *)
(* that has ended or died.                                                 *)
(***************************************************************************)
EXTENDS TaskQueue, TLAPS

Runnable == {"ready"} \cup RunningStatuses

\* What may be saved about a task.
Fit(task) ==
  /\ task.status = "completed" => record[task.id] # "absent"
  /\ task.status \in Runnable => task.approved \/ task.id \in bypassed

\* The same of the state after a step.
WillFit(task) ==
  /\ task.status = "completed" => record'[task.id] # "absent"
  /\ task.status \in Runnable => task.approved \/ task.id \in bypassed'

\* What is true of every entry of a list that a process loaded or saved.
EntryOK(task) == Fit(task) /\ moved[task.id] # "none"

UniqueIds(tasks) == \A i, j \in DOMAIN tasks : tasks[i].id = tasks[j].id => i = j

ListOK(tasks) == UniqueIds(tasks) /\ \A i \in DOMAIN tasks : EntryOK(tasks[i])

\* The gateway's answer stays true: rows are replaced, never deleted.
GateOK == \A p \in Procs, t \in TaskIds : job[p] = Gated(t) => record[t] # "absent"

QInv == TypeOK /\ ListOK(queue) /\ (\A p \in Procs : ListOK(view[p])) /\ GateOK

-----------------------------------------------------------------------------
\* Where a command can be.
LEMMA JobsDiffer ==
  /\ Idle \in Jobs /\ Loaded \in Jobs
  /\ \A t \in TaskIds : Gated(t) \in Jobs /\ Gated(t) # Idle /\ Gated(t) # Loaded
  /\ \A t, u \in TaskIds : Gated(t) = Gated(u) => t = u
  /\ \A t, u \in TaskIds, to \in Lifecycle : Saved(t, to) \in Jobs /\ Saved(t, to) # Gated(u)
<1>1. \A t \in TaskIds : Gated(t).step = "gated" /\ Gated(t).task = t
  BY DEF Gated
<1>2. Idle.step = "idle" /\ Loaded.step = "loaded"
  BY DEF Idle, Loaded
<1>3. \A t \in TaskIds, to \in Lifecycle : Saved(t, to).step = "saved"
  BY DEF Saved
<1> QED
  BY <1>1, <1>2, <1>3 DEF Jobs

\* A command with a saved transition has its task and status.
LEMMA SavedJob ==
  ASSUME NEW j \in Jobs, j.step = "saved"
  PROVE  j.task \in TaskIds /\ j.to \in Lifecycle
<1>1. \A t \in TaskIds : Gated(t).step = "gated"
  BY DEF Gated
<1>2. Idle.step = "idle" /\ Loaded.step = "loaded"
  BY DEF Idle, Loaded
<1>3. \A t \in TaskIds, to \in Lifecycle : Saved(t, to).task = t /\ Saved(t, to).to = to
  BY DEF Saved
<1> QED
  BY <1>1, <1>2, <1>3 DEF Jobs

LEMMA EntryFields ==
  ASSUME NEW t \in TaskIds, NEW tracking \in Trackings, NEW status \in QueueStatuses,
         NEW approved \in BOOLEAN
  PROVE  /\ Entry(t, tracking, status, approved) \in Task
         /\ Entry(t, tracking, status, approved).id = t
         /\ Entry(t, tracking, status, approved).status = status
         /\ Entry(t, tracking, status, approved).approved = approved
BY DEF Entry, Task

LEMMA TaskFields ==
  ASSUME NEW task \in Task
  PROVE  /\ task.id \in TaskIds /\ task.tracking \in Trackings
         /\ task.status \in QueueStatuses /\ task.approved \in BOOLEAN
BY DEF Task

-----------------------------------------------------------------------------
\* Lists stay in order when records, moves and bypasses only grow.
Grow ==
  /\ \A t \in TaskIds : record[t] # "absent" => record'[t] # "absent"
  /\ \A t \in TaskIds : moved[t] # "none" => moved'[t] # "none"
  /\ bypassed \subseteq bypassed'

LEMMA ListSurvives ==
  ASSUME NEW tasks \in Seq(Task), ListOK(tasks), Grow
  PROVE  /\ UniqueIds(tasks)
         /\ \A i \in DOMAIN tasks : WillFit(tasks[i]) /\ moved'[tasks[i].id] # "none"
<1>1. \A i \in DOMAIN tasks : tasks[i].id \in TaskIds
  BY TaskFields
<1> QED
  BY <1>1 DEF ListOK, EntryOK, Fit, WillFit, Grow

\* A list that a command saves about task t.
SaveFit(tasks, t) ==
  /\ tasks \in Seq(Task)
  /\ UniqueIds(tasks)
  /\ \A i \in DOMAIN tasks : WillFit(tasks[i]) /\ (tasks[i].id = t \/ moved[tasks[i].id] # "none")

\* Bypasses are of tasks and are not forgotten.
MayBypass == bypassed \subseteq bypassed' /\ bypassed' \subseteq TaskIds

LEMMA SaveKeeps ==
  ASSUME QInv, NEW p \in Procs, NEW tasks, NEW t \in TaskIds, NEW status \in QueueStatuses,
         NEW next \in Jobs, \A u \in TaskIds : next # Gated(u),
         SaveFit(tasks, t), Save(p, tasks, t, status, next), MayBypass
  PROVE  QInv'
<1> USE DEF QInv
<1>1. /\ queue' = tasks /\ record' = record /\ moved' = [moved EXCEPT ![t] = status]
      /\ job' = [job EXCEPT ![p] = next] /\ view' = [view EXCEPT ![p] = << >>]
      /\ overtaken' \subseteq overtaken \cup {p}
  BY DEF Save
<1>2. "none" \notin QueueStatuses
  BY DEF QueueStatuses, IntakeStatuses, RunningStatuses, ClosedStatuses
<1>3. Grow
  BY <1>1, <1>2 DEF Grow, TypeOK, MayBypass
<1>4. TypeOK'
  BY <1>1 DEF TypeOK, SaveFit, MayBypass
<1>5. ListOK(queue)'
  <2>1. \A i \in DOMAIN tasks : tasks[i].id \in TaskIds
    BY TaskFields DEF SaveFit
  <2>2. \A i \in DOMAIN tasks : moved'[tasks[i].id] # "none"
    BY <1>1, <1>2, <2>1 DEF SaveFit, TypeOK
  <2> QED
    BY <1>1, <2>2 DEF ListOK, UniqueIds, EntryOK, Fit, WillFit, SaveFit
<1>6. ASSUME NEW q \in Procs PROVE ListOK(view[q])'
  <2>1. CASE q = p
    <3>1. view'[q] = << >>
      BY <1>1, <2>1 DEF TypeOK
    <3> QED
      BY <3>1 DEF ListOK, UniqueIds
  <2>2. CASE q # p
    <3>1. view'[q] = view[q] /\ view[q] \in Seq(Task)
      BY <1>1, <2>2 DEF TypeOK
    <3> QED
      BY <3>1, <1>3, ListSurvives DEF ListOK, UniqueIds, EntryOK, Fit, WillFit
  <2> QED
    BY <2>1, <2>2
<1>7. GateOK'
  BY <1>1 DEF GateOK, TypeOK
<1> QED
  BY <1>4, <1>5, <1>6, <1>7

LEMMA ReplacedFits ==
  ASSUME QInv, NEW p \in Procs, NEW i \in DOMAIN view[p],
         NEW e \in Task, e.id = view[p][i].id, WillFit(e), UNCHANGED record, MayBypass
  PROVE  SaveFit(Replaced(p, i, e), e.id)
<1>1. view[p] \in Seq(Task) /\ ListOK(view[p])
  BY DEF QInv, TypeOK
<1>2. DOMAIN Replaced(p, i, e) = DOMAIN view[p] /\ Replaced(p, i, e) \in Seq(Task)
  BY <1>1 DEF Replaced
<1>3. \A j \in DOMAIN view[p] :
        Replaced(p, i, e)[j] = IF j = i THEN e ELSE view[p][j]
  BY <1>1 DEF Replaced
<1> HIDE DEF Replaced
<1>4. UniqueIds(Replaced(p, i, e))
  BY <1>1, <1>2, <1>3 DEF UniqueIds, ListOK
<1> QED
  BY <1>1, <1>2, <1>3, <1>4 DEF SaveFit, ListOK, EntryOK, Fit, WillFit, MayBypass

LEMMA AddedFits ==
  ASSUME QInv, NEW p \in Procs, NEW e \in Task, WillFit(e), UNCHANGED record, MayBypass,
         \A j \in DOMAIN view[p] : view[p][j].id # e.id
  PROVE  SaveFit(Append(view[p], e), e.id)
<1>1. view[p] \in Seq(Task) /\ ListOK(view[p])
  BY DEF QInv, TypeOK
<1>3. Append(view[p], e) \in Seq(Task)
  BY <1>1
<1>4. \A j \in DOMAIN Append(view[p], e) :
        IF j \in DOMAIN view[p] THEN Append(view[p], e)[j] = view[p][j]
          ELSE j = Len(view[p]) + 1 /\ Append(view[p], e)[j] = e
  BY <1>1
<1>5. UniqueIds(Append(view[p], e))
  BY <1>1, <1>4 DEF UniqueIds, ListOK
<1> QED
  BY <1>1, <1>3, <1>4, <1>5 DEF SaveFit, ListOK, EntryOK, Fit, WillFit, MayBypass

\* With unique ids the entry found is the only one.
LEMMA NotFound ==
  ASSUME QInv, NEW p \in Procs, NEW t, Find(view[p], t) = {}
  PROVE  \A j \in DOMAIN view[p] : view[p][j].id # t
<1> SUFFICES ASSUME NEW j \in DOMAIN view[p], view[p][j].id = t PROVE j \in Find(view[p], t)
  OBVIOUS
<1>1. view[p] \in Seq(Task) /\ UniqueIds(view[p])
  BY DEF QInv, TypeOK, ListOK
<1>2. \A i \in Positions(view[p], t) : i = j
  BY <1>1 DEF Positions, UniqueIds
<1> QED
  BY <1>1, <1>2 DEF Find, Positions

LEMMA Found ==
  ASSUME NEW p, NEW t, NEW i \in Find(view[p], t)
  PROVE  i \in DOMAIN view[p] /\ view[p][i].id = t
BY DEF Find, Positions

\* An entry of a loaded list.
LEMMA ViewEntry ==
  ASSUME QInv, NEW p \in Procs, NEW i \in DOMAIN view[p]
  PROVE  /\ view[p][i] \in Task /\ EntryOK(view[p][i])
         /\ view[p][i].id \in TaskIds /\ view[p][i].tracking \in Trackings
         /\ view[p][i].status \in QueueStatuses /\ view[p][i].approved \in BOOLEAN
BY TaskFields DEF QInv, TypeOK, ListOK

\* A command that replaces an entry by one that may be saved, and then goes to
\* a place behind the gateway's answer.
LEMMA ReplaceKeeps ==
  ASSUME QInv, NEW p \in Procs, NEW i \in DOMAIN view[p], NEW tracking \in Trackings,
         NEW status \in QueueStatuses, NEW approved \in BOOLEAN,
         NEW next \in Jobs, \A u \in TaskIds : next # Gated(u),
         status = "completed" => record[view[p][i].id] # "absent",
         status \in Runnable => approved \/ view[p][i].id \in bypassed', MayBypass,
         Save(p, Replaced(p, i, Entry(view[p][i].id, tracking, status, approved)),
              view[p][i].id, status, next)
  PROVE  QInv'
<1> DEFINE e == Entry(view[p][i].id, tracking, status, approved)
<1>1. e \in Task /\ e.id = view[p][i].id /\ e.status = status /\ e.approved = approved
  BY ViewEntry, EntryFields
<1>2. view[p][i].id \in TaskIds
  BY ViewEntry
<1> HIDE DEF e
<1>3. UNCHANGED record /\ WillFit(e)
  BY <1>1 DEF WillFit, Save
<1>4. SaveFit(Replaced(p, i, e), view[p][i].id)
  BY <1>1, <1>3, ReplacedFits
<1>5. Save(p, Replaced(p, i, e), view[p][i].id, status, next)
  BY DEF e
<1> QED
  BY <1>2, <1>4, <1>5, SaveKeeps

LEMMA InsertKeeps ==
  ASSUME QInv, NEW p \in Procs, NEW t \in TaskIds, NEW tracking \in Trackings,
         NEW status \in IntakeStatuses \cup {"ready"}, NEW approved \in BOOLEAN,
         status = "ready" => approved,
         \A j \in DOMAIN view[p] : view[p][j].id # t,
         Insert(p, t, tracking, status, approved)
  PROVE  QInv'
<1> DEFINE e == Entry(t, tracking, status, approved)
<1>1. status \in QueueStatuses /\ status # "completed" /\ (status \in Runnable => approved)
  BY DEF QueueStatuses, IntakeStatuses, RunningStatuses, Runnable
<1>0. UNCHANGED record /\ MayBypass
  BY DEF Insert, Save, MayBypass, QInv, TypeOK
<1>2. e \in Task /\ e.id = t /\ e.status = status /\ e.approved = approved
  BY <1>1, EntryFields
<1> HIDE DEF e
<1>3. WillFit(e)
  BY <1>1, <1>2 DEF WillFit
<1>4. SaveFit(Append(view[p], e), t)
  BY <1>0, <1>2, <1>3, AddedFits
<1>5. Save(p, Append(view[p], e), t, status, Idle)
  BY DEF e, Insert
<1> QED
  BY <1>0, <1>1, <1>4, <1>5, SaveKeeps, JobsDiffer

LEMMA RefreshKeeps ==
  ASSUME QInv, NEW p \in Procs, NEW i \in DOMAIN view[p], NEW tracking \in Trackings,
         NEW status \in IntakeStatuses \cup {"ready"}, NEW approved \in BOOLEAN,
         status = "ready" => approved, Refresh(p, i, tracking, status, approved)
  PROVE  QInv'
<1>1. status \in QueueStatuses /\ status # "completed" /\ (status \in Runnable => approved)
  BY DEF QueueStatuses, IntakeStatuses, RunningStatuses, Runnable
<1>2. /\ Save(p, Replaced(p, i, Entry(view[p][i].id, tracking, status, approved)),
              view[p][i].id, status, Idle)
      /\ MayBypass
  BY DEF Refresh, MayBypass, QInv, TypeOK
<1> QED
  BY <1>1, <1>2, ReplaceKeeps, JobsDiffer

\* A transition of the table, to completed only for a task with a row and to
\* ready or a running status only with the label.
LEMMA MoveKeeps ==
  ASSUME QInv, NEW p \in Procs, NEW i \in DOMAIN view[p], NEW to \in QueueStatuses,
         NEW approved \in BOOLEAN,
         to = "completed" => record[view[p][i].id] # "absent",
         to \in Runnable => approved \/ view[p][i].id \in bypassed,
         Move(p, i, to, approved)
  PROVE  QInv'
<1>1. /\ Save(p, Replaced(p, i, Entry(view[p][i].id, view[p][i].tracking, to, approved)),
              view[p][i].id, to, Idle)
      /\ MayBypass /\ UNCHANGED bypassed
  BY DEF Move, MayBypass, QInv, TypeOK
<1> QED
  BY <1>1, ViewEntry, ReplaceKeeps, JobsDiffer

\* A task that goes to a running status from the table was ready or running.
LEMMA RunsFromApproved ==
  ASSUME QInv, NEW p \in Procs, NEW i \in DOMAIN view[p], NEW to \in RunningStatuses,
         to \in AllowedTransitions[view[p][i].status]
  PROVE  /\ to \in QueueStatuses /\ to # "completed"
         /\ view[p][i].approved \/ view[p][i].id \in bypassed
<1>1. view[p][i].status \in QueueStatuses /\ EntryOK(view[p][i])
  BY ViewEntry
<1>2. view[p][i].status \in Runnable
  BY <1>1 DEF Runnable, AllowedTransitions, RunningStatuses, QueueStatuses, IntakeStatuses, ClosedStatuses
<1> QED
  BY <1>1, <1>2 DEF EntryOK, Fit, QueueStatuses, RunningStatuses

-----------------------------------------------------------------------------
\* Each step keeps the invariant.

LEMMA IntakeKeeps == ASSUME QInv, NEW p \in Procs, Intake(p) PROVE QInv'
<1>1. PICK tracking \in Trackings, status \in IntakeStatuses \cup {"ready"}, approved \in BOOLEAN :
        \/ EnqueueTracking(p, tracking, status, approved)
        \/ \E t \in TaskIds : EnqueueId(p, t, tracking, status, approved)
  BY DEF Intake
<1>2. CASE EnqueueTracking(p, tracking, status, approved)
  <2>1. status = "ready" => approved
    BY <1>2 DEF EnqueueTracking
  <2>2. ASSUME NEW i \in FindTracking(view[p], tracking), Refresh(p, i, tracking, status, approved)
        PROVE  QInv'
    <3>1. i \in DOMAIN view[p]
      BY DEF FindTracking
    <3> QED
      BY <2>1, <2>2, <3>1, RefreshKeeps
  <2>3. ASSUME NEW t \in TaskIds, moved[t] = "none", Insert(p, t, tracking, status, approved)
        PROVE  QInv'
    <3>1. \A j \in DOMAIN view[p] : view[p][j].id # t
      BY <2>3, ViewEntry DEF EntryOK
    <3> QED
      BY <2>1, <2>3, <3>1, InsertKeeps
  <2> QED
    BY <1>2, <2>2, <2>3 DEF EnqueueTracking
<1>3. ASSUME NEW t \in TaskIds, EnqueueId(p, t, tracking, status, approved) PROVE QInv'
  <2>1. status = "ready" => approved
    BY <1>3 DEF EnqueueId
  <2>2. ASSUME NEW i \in Find(view[p], t), Refresh(p, i, tracking, status, approved)
        PROVE  QInv'
    BY <2>1, <2>2, Found, RefreshKeeps
  <2>3. CASE Find(view[p], t) = {} /\ Insert(p, t, tracking, status, approved)
    BY <2>1, <2>3, NotFound, InsertKeeps
  <2> QED
    BY <1>3, <2>2, <2>3 DEF EnqueueId
<1> QED
  BY <1>1, <1>2, <1>3

\* The commands that move a task to a status that is neither ready, nor
\* running, nor completed.
LEMMA ParkingKeeps ==
  ASSUME QInv, NEW p \in Procs, NEW t \in TaskIds,
         \/ \E approved \in BOOLEAN : RequestApproval(p, t, approved)
         \/ Block(p, t) \/ Cancel(p, t) \/ Reject(p, t)
  PROVE  QInv'
<1> DEFINE Parked == {"awaiting_approval", "blocked", "cancelled", "rejected"}
<1>1. \E i \in Find(view[p], t), to \in Parked, approved \in BOOLEAN : Move(p, i, to, approved)
  <2>1. \A i \in Find(view[p], t) : view[p][i].approved \in BOOLEAN
    BY Found, ViewEntry
  <2> QED
    BY <2>1 DEF RequestApproval, Block, Cancel, Reject
<1>2. Parked \subseteq QueueStatuses /\ Parked \cap ({"completed"} \cup Runnable) = {}
  BY DEF Runnable, QueueStatuses, IntakeStatuses, RunningStatuses, ClosedStatuses
<1> HIDE DEF Parked
<1>3. PICK i \in Find(view[p], t), to \in Parked, approved \in BOOLEAN : Move(p, i, to, approved)
  BY <1>1
<1> QED
  BY <1>2, <1>3, Found, MoveKeeps

LEMMA ApproveKeeps == ASSUME QInv, NEW p \in Procs, NEW t \in TaskIds, Approve(p, t) PROVE QInv'
<1>1. PICK i \in Find(view[p], t) : Move(p, i, "ready", TRUE)
  BY DEF Approve
<1>2. "ready" \in QueueStatuses
  BY DEF QueueStatuses
<1> QED
  BY <1>1, <1>2, Found, MoveKeeps

\* The commands that start a task or keep it running.
LEMMA RunningKeeps ==
  ASSUME QInv, NEW p \in Procs, NEW t \in TaskIds,
         \/ StartNext(p, t)
         \/ \E status \in {"waiting", "verifying"} : Wait(p, t, status)
         \/ Resume(p, t)
  PROVE  QInv'
<1>1. \E i \in Find(view[p], t), to \in RunningStatuses : Move(p, i, to, view[p][i].approved)
  BY DEF StartNext, Wait, Resume, RunningStatuses
<1>2. PICK i \in Find(view[p], t), to \in RunningStatuses : Move(p, i, to, view[p][i].approved)
  BY <1>1
<1>3. i \in DOMAIN view[p] /\ to \in AllowedTransitions[view[p][i].status]
  BY <1>2, Found DEF Move
<1>4. view[p][i].approved \in BOOLEAN
  BY <1>3, ViewEntry
<1>5. to \in QueueStatuses /\ to # "completed" /\ (view[p][i].approved \/ view[p][i].id \in bypassed)
  BY <1>3, RunsFromApproved
<1> QED
  BY <1>2, <1>3, <1>4, <1>5, MoveKeeps

LEMMA CompleteKeeps == ASSUME QInv, NEW p \in Procs, NEW t \in TaskIds, Complete(p, t) PROVE QInv'
<1>1. PICK i \in Find(view[p], t) : Move(p, i, "completed", view[p][i].approved)
  BY DEF Complete
<1>2. i \in DOMAIN view[p] /\ view[p][i].id = t
  BY Found
<1>3. record[t] # "absent"
  BY DEF Complete, QInv, GateOK
<1>4. "completed" \in QueueStatuses /\ "completed" \notin Runnable
  BY DEF QueueStatuses, ClosedStatuses, RunningStatuses, Runnable
<1>5. view[p][i].approved \in BOOLEAN
  BY <1>2, ViewEntry
<1> QED
  BY <1>1, <1>2, <1>3, <1>4, <1>5, MoveKeeps

LEMMA TransitionKeeps ==
  ASSUME QInv, NEW p \in Procs, NEW t \in TaskIds, NEW to \in TransitionTargets,
         NEW labels \in {{}, {TRUE}, {FALSE}}, NEW force \in ForceFlags,
         Transition(p, t, to, labels, force)
  PROVE  QInv'
<1> DEFINE status == QueueStatusForLifecycle(to)
<1>1. PICK i \in Find(view[p], t) :
        \E approved \in (IF labels = {} THEN {view[p][i].approved} ELSE labels) :
          /\ Save(p, Replaced(p, i, Entry(t, view[p][i].tracking, status, approved)),
                  t, status, Saved(t, to))
          /\ bypassed' = bypassed \cup {u \in {t} : ~approved /\ status \in Runnable}
  BY DEF Transition, Runnable
<1>2. i \in DOMAIN view[p] /\ view[p][i].id = t
  BY Found
<1>3. PICK approved \in BOOLEAN :
        /\ Save(p, Replaced(p, i, Entry(t, view[p][i].tracking, status, approved)),
                t, status, Saved(t, to))
        /\ bypassed' = bypassed \cup {u \in {t} : ~approved /\ status \in Runnable}
  <2>1. view[p][i].approved \in BOOLEAN
    BY <1>2, ViewEntry
  <2>2. (IF labels = {} THEN {view[p][i].approved} ELSE labels) \subseteq BOOLEAN
    BY <2>1
  <2> QED
    BY <1>1, <2>2
<1>4. to \in Lifecycle
  BY QueueAssumption
<1>5. status \in QueueStatuses
  BY <1>4 DEF QueueStatusForLifecycle, Lifecycle, RecordStatuses, QueueStatuses, IntakeStatuses,
              RunningStatuses, ClosedStatuses
<1>6. MayBypass /\ (status \in Runnable => approved \/ t \in bypassed')
  BY <1>3 DEF MayBypass, QInv, TypeOK
<1>7. record[t] # "absent"
  BY DEF Transition, QInv, GateOK
<1>8. view[p][i].tracking \in Trackings
  BY <1>2, ViewEntry
<1>9. Saved(t, to) \in Jobs /\ \A u \in TaskIds : Saved(t, to) # Gated(u)
  BY <1>4, JobsDiffer
<1> HIDE DEF status
<1> QED
  BY <1>2, <1>3, <1>5, <1>6, <1>7, <1>8, <1>9, ReplaceKeeps

LEMMA CommandKeeps == ASSUME QInv, NEW p \in Procs, Command(p) PROVE QInv'
<1>1. ASSUME NEW t \in TaskIds, NEW to \in TransitionTargets, TransitionRecordOnly(p, t, to)
      PROVE  QInv'
  <2>1. Saved(t, to) \in Jobs /\ \A u \in TaskIds : Saved(t, to) # Gated(u)
    BY QueueAssumption, JobsDiffer
  <2>2. /\ job' = [job EXCEPT ![p] = Saved(t, to)] /\ view' = [view EXCEPT ![p] = << >>]
        /\ UNCHANGED <<queue, record, history>>
    BY <1>1 DEF TransitionRecordOnly
  <2>3. TypeOK' /\ GateOK'
    BY <2>1, <2>2 DEF QInv, TypeOK, GateOK, history
  <2>4. \A q \in Procs : view'[q] = view[q] \/ view'[q] = << >>
    BY <2>2 DEF QInv, TypeOK
  <2> QED
    BY <2>2, <2>3, <2>4 DEF QInv, ListOK, UniqueIds, EntryOK, Fit, history
<1> QED
  BY <1>1, IntakeKeeps, ParkingKeeps, ApproveKeeps, RunningKeeps, CompleteKeeps, TransitionKeeps
     DEF Command

\* Steps that save nothing: the lists of a process come from the queue, and
\* rows of records are added or replaced.
LEMMA QuietKeeps ==
  ASSUME QInv, UNCHANGED <<queue, history>>,
         \A t \in TaskIds : record[t] # "absent" => record'[t] # "absent",
         \A q \in Procs : view'[q] \in {view[q], queue, << >>},
         \A q \in Procs, t \in TaskIds :
           job'[q] = Gated(t) => job[q] = Gated(t) \/ record'[t] # "absent",
         TypeOK'
  PROVE  QInv'
<1>1. Grow
  BY DEF Grow, history
<1>2. ListOK(queue)'
  BY <1>1, ListSurvives DEF QInv, TypeOK, ListOK, UniqueIds, EntryOK, Fit, WillFit, history
<1>3. ASSUME NEW q \in Procs PROVE ListOK(view[q])'
  <2>1. view'[q] \in Seq(Task) /\ ListOK(view'[q])
    <3>1. << >> \in Seq(Task) /\ ListOK(<< >>)
      BY DEF ListOK, UniqueIds
    <3>2. /\ view[q] \in Seq(Task) /\ ListOK(view[q])
          /\ queue \in Seq(Task) /\ ListOK(queue)
      BY DEF QInv, TypeOK
    <3> QED
      BY <3>1, <3>2
  <2> QED
    BY <1>1, <2>1, ListSurvives DEF ListOK, UniqueIds, EntryOK, Fit, WillFit, history
<1>4. GateOK'
  BY DEF GateOK, QInv
<1> QED
  BY <1>2, <1>3, <1>4 DEF QInv

LEMMA InitHolds == Init => QInv
BY JobsDiffer DEF Init, QInv, TypeOK, ListOK, UniqueIds, GateOK

LEMMA StepKeeps == QInv /\ [Next]_vars => QInv'
<1> SUFFICES ASSUME QInv, [Next]_vars PROVE QInv'
  OBVIOUS
<1> USE JobsDiffer
<1>1. ASSUME NEW p \in Procs, Load(p) PROVE QInv'
  BY <1>1, QuietKeeps DEF Load, QInv, TypeOK, history
<1>2. ASSUME NEW p \in Procs, UpdateRecord(p) PROVE QInv'
  <2>1. job[p].task \in TaskIds /\ job[p].to \in Lifecycle
    BY <1>2, SavedJob DEF UpdateRecord, QInv, TypeOK, history
  <2>2. job[p].to # "absent" /\ job[p].to \in RecordStatuses
    BY <2>1 DEF Lifecycle, RecordStatuses
  <2> QED
    BY <1>2, <2>1, <2>2, QuietKeeps DEF UpdateRecord, QInv, TypeOK, history
<1>3. ASSUME NEW p \in Procs, Leave(p) PROVE QInv'
  BY <1>3, QuietKeeps DEF Leave, QInv, TypeOK, history
<1>4. ASSUME NEW p \in Procs, NEW t \in TaskIds, Gateway(p, t) PROVE QInv'
  BY <1>4, QuietKeeps DEF Gateway, QInv, TypeOK, history
<1>5. ASSUME NEW t \in TaskIds, NEW status \in ApplyStatuses, NEW replace \in BOOLEAN,
             RecordApply(t, status, replace)
      PROVE  QInv'
  <2>1. status \in RecordStatuses /\ status # "absent"
    BY QueueAssumption DEF RecordStatuses
  <2> QED
    BY <1>5, <2>1, QuietKeeps DEF RecordApply, QInv, TypeOK, history
<1>6. CASE UNCHANGED vars
  BY <1>6, QuietKeeps DEF vars, QInv, TypeOK, history
<1> QED
  BY <1>1, <1>2, <1>3, <1>4, <1>5, <1>6, CommandKeeps DEF Next

THEOREM Invariance == Spec => []QInv
BY InitHolds, StepKeeps, PTL DEF Spec

-----------------------------------------------------------------------------
\* Every variable has its type: whatever lists commands load and overwrite,
\* the document holds well-formed tasks of known statuses.
THEOREM TypeCorrect == Spec => []TypeOK
<1>1. QInv => TypeOK
  BY DEF QInv
<1> QED
  BY <1>1, Invariance, PTL

\* A completed task has its task-record row, however commands overlap, fail
\* and overwrite each other's documents.
THEOREM FinishedIsRecorded == Spec => []CompletedHasRecord
<1>1. QInv => CompletedHasRecord
  BY DEF CompletedHasRecord, RecordRows, QInv, ListOK, EntryOK, Fit, Status, Positions
<1> QED
  BY <1>1, Invariance, PTL

\* No two tasks of the document have the same id.
THEOREM IdsStayUnique == Spec => []TaskIdsUnique
<1>1. QInv => TaskIdsUnique
  BY DEF QInv, TaskIdsUnique, ValidationErrors, ListOK, UniqueIds
<1> QED
  BY <1>1, Invariance, PTL

\* A task that is ready or running without an explicit approval label was made so
\* by transition, however the commands overlap and fail.
THEOREM BypassIsTransition == Spec => []OnlyTransitionBypasses
<1>1. QInv => OnlyTransitionBypasses
  BY DEF QInv, OnlyTransitionBypasses, ListOK, EntryOK, Fit, Runnable
<1> QED
  BY <1>1, Invariance, PTL

-----------------------------------------------------------------------------
\* What a command does to the document that it has loaded.

Legal(old, new) == new = old \/ new \in AllowedTransitions[old]

\* A command saves the loaded list with one entry replaced, or with one more,
\* or it has nothing to save.
Rewrites(p) ==
  \E i \in DOMAIN view[p], e \in Task, next \in Jobs :
    /\ e.id = view[p][i].id
    /\ Legal(view[p][i].status, e.status) \/ Forced(p, e.id)
    /\ Save(p, Replaced(p, i, e), e.id, e.status, next)

Inserts(p) ==
  \E e \in Task :
    /\ \A j \in DOMAIN view[p] : view[p][j].id # e.id
    /\ Save(p, Append(view[p], e), e.id, e.status, Idle)

Skips(p) ==
  /\ \E next \in Jobs : job' = [job EXCEPT ![p] = next]
  /\ UNCHANGED <<queue, record, history>>

Writes(p) == Rewrites(p) \/ Inserts(p) \/ Skips(p)

LEMMA RewriteIs ==
  ASSUME QInv, NEW p \in Procs, NEW i \in DOMAIN view[p], NEW tracking \in Trackings,
         NEW status \in QueueStatuses, NEW approved \in BOOLEAN, NEW next \in Jobs,
         Legal(view[p][i].status, status) \/ Forced(p, view[p][i].id),
         Save(p, Replaced(p, i, Entry(view[p][i].id, tracking, status, approved)),
              view[p][i].id, status, next)
  PROVE  Writes(p)
<1> DEFINE e == Entry(view[p][i].id, tracking, status, approved)
<1>1. e \in Task /\ e.id = view[p][i].id /\ e.status = status
  BY ViewEntry, EntryFields
<1>2. Save(p, Replaced(p, i, e), view[p][i].id, status, next)
  OBVIOUS
<1> HIDE DEF e
<1>3. Save(p, Replaced(p, i, e), e.id, e.status, next)
  BY <1>1, <1>2
<1>4. Legal(view[p][i].status, e.status) \/ Forced(p, e.id)
  BY <1>1
<1> QED
  BY <1>1, <1>3, <1>4 DEF Writes, Rewrites

LEMMA MoveWrites ==
  ASSUME QInv, NEW p \in Procs, NEW i \in DOMAIN view[p], NEW to \in QueueStatuses,
         NEW approved \in BOOLEAN, Move(p, i, to, approved)
  PROVE  Writes(p)
<1>1. /\ Legal(view[p][i].status, to)
      /\ Save(p, Replaced(p, i, Entry(view[p][i].id, view[p][i].tracking, to, approved)),
              view[p][i].id, to, Idle)
  BY DEF Move, Legal
<1> QED
  BY <1>1, ViewEntry, RewriteIs, JobsDiffer

LEMMA RefreshWrites ==
  ASSUME QInv, NEW p \in Procs, NEW i \in DOMAIN view[p], NEW tracking \in Trackings,
         NEW status \in IntakeStatuses \cup {"ready"}, NEW approved \in BOOLEAN,
         Refresh(p, i, tracking, status, approved)
  PROVE  Writes(p)
<1>1. status \in QueueStatuses
  BY DEF QueueStatuses
<1>2. /\ Legal(view[p][i].status, status)
      /\ Save(p, Replaced(p, i, Entry(view[p][i].id, tracking, status, approved)),
              view[p][i].id, status, Idle)
  BY DEF Refresh, Legal
<1> QED
  BY <1>1, <1>2, RewriteIs, JobsDiffer

LEMMA InsertWrites ==
  ASSUME QInv, NEW p \in Procs, NEW t \in TaskIds, NEW tracking \in Trackings,
         NEW status \in IntakeStatuses \cup {"ready"}, NEW approved \in BOOLEAN,
         \A j \in DOMAIN view[p] : view[p][j].id # t,
         Insert(p, t, tracking, status, approved)
  PROVE  Writes(p)
<1> DEFINE e == Entry(t, tracking, status, approved)
<1>1. e \in Task /\ e.id = t /\ e.status = status
  BY EntryFields DEF QueueStatuses
<1>2. Save(p, Append(view[p], e), t, status, Idle)
  BY DEF Insert
<1> HIDE DEF e
<1>3. Save(p, Append(view[p], e), e.id, e.status, Idle)
  BY <1>1, <1>2
<1>4. \A j \in DOMAIN view[p] : view[p][j].id # e.id
  BY <1>1
<1> QED
  BY <1>1, <1>3, <1>4 DEF Writes, Inserts

LEMMA IntakeWrites == ASSUME QInv, NEW p \in Procs, Intake(p) PROVE Writes(p)
<1>1. PICK tracking \in Trackings, status \in IntakeStatuses \cup {"ready"}, approved \in BOOLEAN :
        \/ EnqueueTracking(p, tracking, status, approved)
        \/ \E t \in TaskIds : EnqueueId(p, t, tracking, status, approved)
  BY DEF Intake
<1>2. ASSUME NEW i \in DOMAIN view[p], Refresh(p, i, tracking, status, approved) PROVE Writes(p)
  BY <1>2, RefreshWrites
<1>3. CASE EnqueueTracking(p, tracking, status, approved)
  <2>1. \A i \in FindTracking(view[p], tracking) : i \in DOMAIN view[p]
    BY DEF FindTracking
  <2>2. ASSUME NEW t \in TaskIds, moved[t] = "none", Insert(p, t, tracking, status, approved)
        PROVE  Writes(p)
    <3>1. \A j \in DOMAIN view[p] : view[p][j].id # t
      BY <2>2, ViewEntry DEF EntryOK
    <3> QED
      BY <2>2, <3>1, InsertWrites
  <2> QED
    BY <1>2, <1>3, <2>1, <2>2 DEF EnqueueTracking
<1>4. ASSUME NEW t \in TaskIds, EnqueueId(p, t, tracking, status, approved) PROVE Writes(p)
  <2>1. \A i \in Find(view[p], t) : i \in DOMAIN view[p]
    BY Found
  <2>2. CASE Find(view[p], t) = {} /\ Insert(p, t, tracking, status, approved)
    BY <2>2, NotFound, InsertWrites
  <2> QED
    BY <1>2, <1>4, <2>1, <2>2 DEF EnqueueId
<1> QED
  BY <1>1, <1>3, <1>4

\* The commands that move one task along the table.
LEMMA MovingWrites ==
  ASSUME QInv, NEW p \in Procs, NEW t \in TaskIds,
         \/ \E approved \in BOOLEAN : RequestApproval(p, t, approved)
         \/ Approve(p, t)
         \/ StartNext(p, t)
         \/ \E status \in {"waiting", "verifying"} : Wait(p, t, status)
         \/ Resume(p, t) \/ Complete(p, t) \/ Block(p, t) \/ Cancel(p, t) \/ Reject(p, t)
  PROVE  Writes(p)
<1>1. \A i \in Find(view[p], t) : i \in DOMAIN view[p] /\ view[p][i].approved \in BOOLEAN
  BY Found, ViewEntry
<1>2. ASSUME NEW i \in Find(view[p], t), NEW to \in QueueStatuses, NEW approved \in BOOLEAN,
             Move(p, i, to, approved)
      PROVE  Writes(p)
  BY <1>1, <1>2, MoveWrites
<1>3. {"awaiting_approval", "ready", "active", "waiting", "verifying", "completed", "blocked",
       "cancelled", "rejected"} \subseteq QueueStatuses
  BY DEF QueueStatuses, IntakeStatuses, RunningStatuses, ClosedStatuses
<1>4. \E i \in Find(view[p], t), to \in QueueStatuses, approved \in BOOLEAN : Move(p, i, to, approved)
  <2>1. CASE \E approved \in BOOLEAN : RequestApproval(p, t, approved)
    BY <2>1, <1>3 DEF RequestApproval
  <2>2. CASE Approve(p, t)
    BY <2>2, <1>3 DEF Approve
  <2>3. CASE StartNext(p, t)
    BY <2>3, <1>3 DEF StartNext
  <2>4. CASE \E status \in {"waiting", "verifying"} : Wait(p, t, status)
    BY <2>4, <1>1, <1>3 DEF Wait
  <2>5. CASE Resume(p, t) \/ Complete(p, t) \/ Block(p, t) \/ Cancel(p, t) \/ Reject(p, t)
    BY <2>5, <1>1, <1>3 DEF Resume, Complete, Block, Cancel, Reject
  <2> QED
    BY <2>1, <2>2, <2>3, <2>4, <2>5
<1> QED
  BY <1>2, <1>4

LEMMA TransitionWrites ==
  ASSUME QInv, NEW p \in Procs, NEW t \in TaskIds, NEW to \in TransitionTargets,
         NEW labels \in {{}, {TRUE}, {FALSE}}, NEW force \in ForceFlags,
         Transition(p, t, to, labels, force)
  PROVE  Writes(p)
<1> DEFINE status == QueueStatusForLifecycle(to)
<1>1. PICK i \in Find(view[p], t) :
        /\ force \/ status \in AllowedTransitions[view[p][i].status]
        /\ \E approved \in (IF labels = {} THEN {view[p][i].approved} ELSE labels) :
             Save(p, Replaced(p, i, Entry(t, view[p][i].tracking, status, approved)),
                  t, status, Saved(t, to))
  BY DEF Transition
<1>2. i \in DOMAIN view[p] /\ view[p][i].id = t
  BY Found
<1>3. PICK approved \in BOOLEAN :
        Save(p, Replaced(p, i, Entry(t, view[p][i].tracking, status, approved)),
             t, status, Saved(t, to))
  <2>1. view[p][i].approved \in BOOLEAN
    BY <1>2, ViewEntry
  <2>2. (IF labels = {} THEN {view[p][i].approved} ELSE labels) \subseteq BOOLEAN
    BY <2>1
  <2> QED
    BY <1>1, <2>2
<1>4. to \in Lifecycle
  BY QueueAssumption
<1>5. status \in QueueStatuses
  BY <1>4 DEF QueueStatusForLifecycle, Lifecycle, RecordStatuses, QueueStatuses, IntakeStatuses,
              RunningStatuses, ClosedStatuses
<1>6. Legal(view[p][i].status, status) \/ Forced(p, t)
  <2>1. CASE status \in AllowedTransitions[view[p][i].status]
    BY <2>1 DEF Legal
  <2>2. CASE force
    <3>1. force = TRUE
      BY <2>2, QueueAssumption
    <3>2. Transition(p, t, to, labels, TRUE) /\ TRUE \in ForceFlags
      BY <3>1
    <3> QED
      BY <3>2 DEF Forced
  <2> QED
    BY <1>1, <2>1, <2>2
<1>7. view[p][i].tracking \in Trackings
  BY <1>2, ViewEntry
<1> HIDE DEF status
<1> QED
  BY <1>2, <1>3, <1>4, <1>5, <1>6, <1>7, RewriteIs, JobsDiffer

LEMMA CommandWrites == ASSUME QInv, NEW p \in Procs, Command(p) PROVE Writes(p)
<1>1. ASSUME NEW t \in TaskIds, NEW to \in TransitionTargets, TransitionRecordOnly(p, t, to)
      PROVE  Writes(p)
  <2>1. Saved(t, to) \in Jobs
    BY QueueAssumption, JobsDiffer
  <2> QED
    BY <1>1, <2>1 DEF TransitionRecordOnly, Writes, Skips
<1> QED
  BY <1>1, IntakeWrites, MovingWrites, TransitionWrites DEF Command

\* With unique ids a task has the status of its only entry.
LEMMA StatusIs ==
  ASSUME QInv, NEW i \in DOMAIN queue
  PROVE  Status(queue[i].id) = {queue[i].status}
<1>1. Positions(queue, queue[i].id) = {i}
  BY DEF QInv, ListOK, UniqueIds, Positions
<1> QED
  BY <1>1 DEF Status

LEMMA StatusFrom ==
  ASSUME NEW t, NEW s \in Status(t)
  PROVE  \E i \in DOMAIN queue : queue[i].id = t /\ queue[i].status = s
BY DEF Status, Positions

\* What a save of the document as it is does: the task it is about gets its
\* status, the others keep theirs.
Lands(e) ==
  /\ Status(e.id)' = {e.status}
  /\ moved' = [moved EXCEPT ![e.id] = e.status]
  /\ \A t \in TaskIds : t # e.id => Status(t)' = Status(t)

LEMMA RewriteLands ==
  ASSUME QInv, NEW p \in Procs, view[p] = queue, NEW i \in DOMAIN view[p], NEW e \in Task,
         NEW next, e.id = view[p][i].id, Save(p, Replaced(p, i, e), e.id, e.status, next)
  PROVE  Lands(e) /\ Status(e.id) = {view[p][i].status}
<1>1. queue \in Seq(Task) /\ queue' = [queue EXCEPT ![i] = e]
      /\ moved' = [moved EXCEPT ![e.id] = e.status]
  BY DEF Save, Replaced, QInv, TypeOK
<1>2. DOMAIN queue' = DOMAIN queue /\ queue'[i] = e /\ \A j \in DOMAIN queue : j # i => queue'[j] = queue[j]
  BY <1>1
<1>3. \A j \in DOMAIN queue : queue[j].id = e.id <=> j = i
  BY DEF QInv, ListOK, UniqueIds
<1>4. Positions(queue', e.id) = {i}
  BY <1>2, <1>3 DEF Positions
<1>5. ASSUME NEW t \in TaskIds, t # e.id PROVE Status(t)' = Status(t)
  <2>1. Positions(queue', t) = Positions(queue, t) /\ i \notin Positions(queue, t)
    BY <1>2, <1>3, <1>5 DEF Positions
  <2>2. \A j \in Positions(queue, t) : queue'[j] = queue[j]
    BY <1>2, <2>1 DEF Positions
  <2> QED
    BY <2>1, <2>2 DEF Status
<1>6. Status(e.id)' = {e.status}
  BY <1>2, <1>4 DEF Status
<1>7. Status(e.id) = {view[p][i].status}
  BY StatusIs
<1> QED
  BY <1>1, <1>5, <1>6, <1>7 DEF Lands

LEMMA InsertLands ==
  ASSUME QInv, NEW p \in Procs, view[p] = queue, NEW e \in Task,
         \A j \in DOMAIN view[p] : view[p][j].id # e.id,
         Save(p, Append(view[p], e), e.id, e.status, Idle)
  PROVE  Lands(e) /\ Status(e.id) = {}
<1>1. queue \in Seq(Task) /\ queue' = Append(queue, e)
      /\ moved' = [moved EXCEPT ![e.id] = e.status]
  BY DEF Save, QInv, TypeOK
<1>2. /\ DOMAIN queue' = DOMAIN queue \cup {Len(queue) + 1}
      /\ queue'[Len(queue) + 1] = e
      /\ \A j \in DOMAIN queue : j # Len(queue) + 1 /\ queue'[j] = queue[j]
  BY <1>1
<1>3. Positions(queue, e.id) = {} /\ Positions(queue', e.id) = {Len(queue) + 1}
  BY <1>2 DEF Positions
<1>4. ASSUME NEW t \in TaskIds, t # e.id PROVE Status(t)' = Status(t)
  <2>1. Positions(queue', t) = Positions(queue, t)
    BY <1>2, <1>4 DEF Positions
  <2>2. \A j \in Positions(queue, t) : queue'[j] = queue[j]
    BY <1>2 DEF Positions
  <2> QED
    BY <2>1, <2>2 DEF Status
<1>5. Status(e.id)' = {e.status} /\ Status(e.id) = {}
  BY <1>2, <1>3 DEF Status
<1> QED
  BY <1>1, <1>4, <1>5 DEF Lands

-----------------------------------------------------------------------------
\* Which saves are kept, and which changes are legal.

LEMMA LandingKeeps ==
  ASSUME QInv, SavesAreKept, NEW e \in Task, Lands(e)
  PROVE  SavesAreKept'
<1> SUFFICES ASSUME NEW t \in TaskIds, moved'[t] # "none" PROVE Status(t)' = {moved'[t]}
  BY DEF SavesAreKept
<1>1. e.id \in TaskIds /\ moved \in [TaskIds -> QueueStatuses \cup {"none"}]
  BY TaskFields DEF QInv, TypeOK
<1>2. CASE t = e.id
  BY <1>1, <1>2 DEF Lands
<1>3. CASE t # e.id
  BY <1>1, <1>3 DEF Lands, SavesAreKept
<1> QED
  BY <1>2, <1>3

\* A command that has not overtaken another worked on the document as it is.
LEMMA CommandLands ==
  ASSUME QInv, SavesAreKept, NEW p \in Procs, Writes(p), overtaken' = {}
  PROVE  SavesAreKept'
<1>1. CASE Rewrites(p)
  <2>1. PICK i \in DOMAIN view[p], e \in Task, next \in Jobs :
          e.id = view[p][i].id /\ Save(p, Replaced(p, i, e), e.id, e.status, next)
    BY <1>1 DEF Rewrites
  <2>2. view[p] = queue
    BY <2>1 DEF Save
  <2> QED
    BY <2>1, <2>2, RewriteLands, LandingKeeps
<1>2. CASE Inserts(p)
  <2>1. PICK e \in Task :
          /\ \A j \in DOMAIN view[p] : view[p][j].id # e.id
          /\ Save(p, Append(view[p], e), e.id, e.status, Idle)
    BY <1>2 DEF Inserts
  <2>2. view[p] = queue
    BY <2>1 DEF Save
  <2> QED
    BY <2>1, <2>2, InsertLands, LandingKeeps
<1>3. CASE Skips(p)
  BY <1>3 DEF Skips, history, SavesAreKept, Status, Positions
<1> QED
  BY <1>1, <1>2, <1>3 DEF Writes

LEMMA WritesGrow == ASSUME NEW p \in Procs, Writes(p) PROVE overtaken \subseteq overtaken'
BY DEF Writes, Rewrites, Inserts, Skips, Save, history

\* As long as no command replaced a document it had not loaded, the document holds
\* for every task what the last save about it wrote, whatever commands were
\* refused, failed or died, and wherever.
THEOREM OnlyOvertakingUndoes == Spec => []SavesAreKeptUnlessOvertaken
<1>1. Init => SavesAreKeptUnlessOvertaken
  BY DEF Init, SavesAreKeptUnlessOvertaken, SavesAreKept
<1>2. QInv /\ SavesAreKeptUnlessOvertaken /\ [Next]_vars => SavesAreKeptUnlessOvertaken'
  <2> SUFFICES ASSUME QInv, SavesAreKeptUnlessOvertaken, [Next]_vars, overtaken' = {}
               PROVE  SavesAreKept'
    BY DEF SavesAreKeptUnlessOvertaken
  <2>1. ASSUME NEW p \in Procs, Command(p) PROVE SavesAreKept'
    <3>1. Writes(p) /\ overtaken \subseteq overtaken'
      BY <2>1, CommandWrites, WritesGrow
    <3>2. SavesAreKept
      BY <3>1 DEF SavesAreKeptUnlessOvertaken
    <3> QED
      BY <3>1, <3>2, CommandLands
  <2>2. ASSUME UNCHANGED <<queue, history>> PROVE SavesAreKept'
    BY <2>2 DEF SavesAreKeptUnlessOvertaken, SavesAreKept, Status, Positions, history
  <2>3. (\E p \in Procs : Command(p)) \/ UNCHANGED <<queue, history>>
    BY DEF Next, vars, Load, UpdateRecord, Leave, Gateway, RecordApply
  <2> QED
    BY <2>1, <2>2, <2>3
<1> QED
  BY <1>1, <1>2, Invariance, PTL DEF Spec

\* What becomes of task t when a command saves the document it has loaded.
LegalStep(p, t) ==
  \A old \in Status(t) :
    \E new \in Status(t)' : new = old \/ new \in AllowedTransitions[old] \/ Forced(p, t)

LEMMA CommandIsLegal ==
  ASSUME QInv, NEW p \in Procs, view[p] = queue, Command(p), NEW t \in TaskIds
  PROVE  LegalStep(p, t)
<1> SUFFICES ASSUME NEW old \in Status(t)
             PROVE  \E new \in Status(t)' :
                      new = old \/ new \in AllowedTransitions[old] \/ Forced(p, t)
  BY DEF LegalStep
<1>1. Writes(p)
  BY CommandWrites
<1>2. CASE Rewrites(p)
  <2>1. PICK i \in DOMAIN view[p], e \in Task, next \in Jobs :
          /\ e.id = view[p][i].id
          /\ Legal(view[p][i].status, e.status) \/ Forced(p, e.id)
          /\ Save(p, Replaced(p, i, e), e.id, e.status, next)
    BY <1>2 DEF Rewrites
  <2>2. Lands(e) /\ Status(e.id) = {view[p][i].status}
    BY <2>1, RewriteLands
  <2>3. CASE t = e.id
    <3>1. e.status \in Status(t)' /\ old = view[p][i].status
      BY <2>2, <2>3 DEF Lands
    <3>2. e.status = old \/ e.status \in AllowedTransitions[old] \/ Forced(p, t)
      BY <2>1, <2>3, <3>1 DEF Legal
    <3> QED
      BY <3>1, <3>2
  <2>4. CASE t # e.id
    BY <2>2, <2>4 DEF Lands
  <2> QED
    BY <2>3, <2>4
<1>3. CASE Inserts(p)
  <2>1. PICK e \in Task :
          /\ \A j \in DOMAIN view[p] : view[p][j].id # e.id
          /\ Save(p, Append(view[p], e), e.id, e.status, Idle)
    BY <1>3 DEF Inserts
  <2>2. Lands(e) /\ Status(e.id) = {}
    BY <2>1, InsertLands
  <2> QED
    BY <2>2 DEF Lands
<1>4. CASE Skips(p)
  BY <1>4 DEF Skips, Status, Positions
<1> QED
  BY <1>1, <1>2, <1>3, <1>4 DEF Writes

\* Only commands change the document, and each only its own job.
LEMMA OthersSpareQueue ==
  ASSUME QInv, [Next]_vars
  PROVE  \/ UNCHANGED queue
         \/ \E q \in Procs : Command(q) /\ \A p \in Procs : p # q => job'[p] = job[p]
<1>1. ASSUME NEW q \in Procs, Command(q) PROVE \A p \in Procs : p # q => job'[p] = job[p]
  BY <1>1, CommandWrites DEF Writes, Rewrites, Inserts, Skips, Save, QInv, TypeOK
<1>2. UNCHANGED queue \/ \E q \in Procs : Command(q)
  BY DEF Next, vars, Load, UpdateRecord, Leave, Gateway, RecordApply
<1> QED
  BY <1>1, <1>2

\* What a command checks on its copy is true of the document if that is what it
\* loaded: each change of a task is one of the transition table or forced, and no
\* task disappears.
THEOREM LoadedStepsAreLegal == Spec => StepsAreLegal
<1>1. QInv /\ [Next]_vars =>
        [\A p \in Procs, t \in TaskIds : \A old \in Status(t) :
           view[p] = queue /\ job'[p] # job[p] =>
             \E new \in Status(t)' :
               new = old \/ new \in AllowedTransitions[old] \/ Forced(p, t)]_queue
  <2> SUFFICES ASSUME QInv, [Next]_vars, queue' # queue, NEW p \in Procs, NEW t \in TaskIds,
                      view[p] = queue, job'[p] # job[p]
               PROVE  LegalStep(p, t)
    BY DEF LegalStep
  <2>1. Command(p)
    BY OthersSpareQueue
  <2> QED
    BY <2>1, CommandIsLegal
<1> QED
  BY <1>1, Invariance, PTL DEF Spec, StepsAreLegal

-----------------------------------------------------------------------------
\* What lifecycle, the Todo list and diagnose say when a transition has ended.

\* Both names of a status that a transition can ask for mean that status.
LEMMA NamesAgree ==
  ASSUME NEW to \in Lifecycle
  PROVE  /\ NormalizeLifecycleStatus("task-queue", QueueStatusForLifecycle(to)) = to
         /\ NormalizeLifecycleStatus("task-record", to) = to
         /\ TodoStatus(QueueStatusForLifecycle(to)) = "in_progress" <=> to \in {"active", "verifying"}
         /\ to # "absent"
BY DEF NormalizeLifecycleStatus, QueueStatusForLifecycle, TodoStatus, Lifecycle, RecordStatuses,
       QueueStatuses, IntakeStatuses, RunningStatuses, ClosedStatuses

\* The row of a transition that has saved is there: it was when the gateway
\* looked, and rows are replaced, never deleted.
SavedHasRow ==
  \A p \in Procs, t \in TaskIds, to \in Lifecycle : job[p] = Saved(t, to) => record[t] # "absent"

\* Where the commands leave their processes.
LEMMA SavedDiffers ==
  \A t, u \in TaskIds, to, s \in Lifecycle :
    /\ Saved(t, to) = Saved(u, s) => t = u
    /\ Saved(t, to) # Idle /\ Saved(t, to) # Loaded /\ Saved(t, to) # Gated(u)
<1>1. \A t \in TaskIds, to \in Lifecycle : Saved(t, to).step = "saved" /\ Saved(t, to).task = t
  BY DEF Saved
<1>2. \A t \in TaskIds : Gated(t).step = "gated"
  BY DEF Gated
<1>3. Idle.step = "idle" /\ Loaded.step = "loaded"
  BY DEF Idle, Loaded
<1> QED
  BY <1>1, <1>2, <1>3

\* A command ends idle, or saved with its gateway passed.
LEMMA CommandEnds ==
  ASSUME QInv, NEW p \in Procs, Command(p)
  PROVE  \/ job' = [job EXCEPT ![p] = Idle]
         \/ \E t \in TaskIds, to \in Lifecycle :
              job[p] = Gated(t) /\ job' = [job EXCEPT ![p] = Saved(t, to)]
<1>1. Intake(p) => job' = [job EXCEPT ![p] = Idle]
  BY DEF Intake, EnqueueTracking, EnqueueId, Refresh, Insert, Save
<1>2. ASSUME NEW t \in TaskIds,
             \/ \E approved \in BOOLEAN : RequestApproval(p, t, approved)
             \/ Approve(p, t) \/ StartNext(p, t)
             \/ \E status \in {"waiting", "verifying"} : Wait(p, t, status)
             \/ Resume(p, t) \/ Complete(p, t) \/ Block(p, t) \/ Cancel(p, t) \/ Reject(p, t)
      PROVE  job' = [job EXCEPT ![p] = Idle]
  BY <1>2 DEF RequestApproval, Approve, StartNext, Wait, Resume, Complete, Block, Cancel, Reject,
              Move, Save
<1>3. ASSUME NEW t \in TaskIds, NEW to \in TransitionTargets,
             \/ \E labels \in {{}, {TRUE}, {FALSE}}, force \in ForceFlags :
                  Transition(p, t, to, labels, force)
             \/ TransitionRecordOnly(p, t, to)
      PROVE  job[p] = Gated(t) /\ job' = [job EXCEPT ![p] = Saved(t, to)]
  BY <1>3 DEF Transition, TransitionRecordOnly, Save
<1> QED
  BY <1>1, <1>2, <1>3, QueueAssumption DEF Command

LEMMA RowsStay == Spec => []SavedHasRow
<1>1. Init => SavedHasRow
  BY SavedDiffers DEF Init, SavedHasRow
<1>2. QInv /\ SavedHasRow /\ [Next]_vars => SavedHasRow'
  <2> SUFFICES ASSUME QInv, SavedHasRow, [Next]_vars, NEW p \in Procs, NEW t \in TaskIds,
                      NEW to \in Lifecycle, job'[p] = Saved(t, to)
               PROVE  record'[t] # "absent"
    BY DEF SavedHasRow
  <2>1. CASE \E q \in Procs : Command(q)
    <3>1. PICK q \in Procs : Command(q)
      BY <2>1
    <3>2. UNCHANGED record
      BY <3>1, CommandWrites DEF Writes, Rewrites, Inserts, Skips, Save
    <3>3. job[p] = Saved(t, to) \/ job[p] = Gated(t)
      BY <3>1, CommandEnds, SavedDiffers DEF QInv, TypeOK
    <3> QED
      BY <3>2, <3>3 DEF SavedHasRow, QInv, GateOK
  <2>2. CASE ~ \E q \in Procs : Command(q)
    <3>1. job[p] = Saved(t, to)
      BY <2>2, SavedDiffers
         DEF Next, vars, Load, UpdateRecord, Leave, Gateway, RecordApply, QInv, TypeOK
    <3>2. record[t] # "absent"
      BY <3>1 DEF SavedHasRow
    <3>3. ASSUME NEW q \in Procs, UpdateRecord(q) PROVE record'[t] # "absent"
      <4>1. job[q].to \in Lifecycle
        BY <3>3, SavedJob DEF UpdateRecord, QInv, TypeOK
      <4> QED
        BY <3>2, <3>3, <4>1, NamesAgree DEF UpdateRecord, QInv, TypeOK
    <3>4. ASSUME NEW u \in TaskIds, NEW status \in ApplyStatuses, NEW replace \in BOOLEAN,
                 RecordApply(u, status, replace)
          PROVE  record'[t] # "absent"
      <4>1. status # "absent"
        BY QueueAssumption DEF RecordStatuses
      <4> QED
        BY <3>2, <3>4, <4>1 DEF RecordApply, QInv, TypeOK
    <3> QED
      BY <2>2, <3>2, <3>3, <3>4 DEF Next, vars, Load, Leave, Gateway
  <2> QED
    BY <2>1, <2>2
<1> QED
  BY <1>1, <1>2, Invariance, PTL DEF Spec

\* What lifecycle says of a task that the queue holds as a transition saved it.
LEMMA StatusGiven ==
  \A t \in TaskIds, to \in Lifecycle :
    record[t] \in RecordStatuses /\ Status(t) = {QueueStatusForLifecycle(to)} =>
      /\ LifecycleStatus(t) = IF record[t] = to THEN {to} ELSE {"drift"}
      /\ Alignment(t) = [in_record |-> TRUE, in_queue |-> TRUE]
<1> SUFFICES ASSUME NEW t \in TaskIds, NEW to \in Lifecycle, record[t] \in RecordStatuses,
                    Status(t) = {QueueStatusForLifecycle(to)}
             PROVE  /\ LifecycleStatus(t) = IF record[t] = to THEN {to} ELSE {"drift"}
                    /\ Alignment(t) = [in_record |-> TRUE, in_queue |-> TRUE]
  OBVIOUS
<1>1. {t} \cap RecordRows = {t} /\ t \in RecordRows
  BY DEF RecordRows, RecordStatuses
<1>2. NormalizeLifecycleStatus("task-record", record[t]) = record[t]
  BY NamesAgree DEF Lifecycle
<1>3. Recorded(t) = {record[t]}
  BY <1>1, <1>2 DEF Recorded
<1>4. Queued(t) = {to}
  BY NamesAgree DEF Queued
<1>5. Positions(queue, t) # {}
  BY DEF Status
<1> QED
  BY <1>1, <1>3, <1>4, <1>5 DEF LifecycleStatus, Alignment

LEMMA EndIsTold ==
  ASSUME QInv, SavedHasRow, NEW p \in Procs, NEW t \in TaskIds, NEW to \in Lifecycle,
         job[p] = Saved(t, to), Status(t) = {QueueStatusForLifecycle(to)},
         UpdateRecord(p) \/ Leave(p)
  PROVE  /\ record'[t] \in RecordStatuses /\ Status(t)' = {QueueStatusForLifecycle(to)}
         /\ record'[t] = to <=> UpdateRecord(p) \/ record[t] = to
<1>1. Status(t)' = Status(t)
  BY DEF UpdateRecord, Leave, Status, Positions
<1>2. record[t] \in RecordStatuses
  BY DEF SavedHasRow, QInv, TypeOK
<1>3. job[p].task = t /\ job[p].to = to
  BY DEF Saved
<1>4. UpdateRecord(p) => record'[t] = to
  BY <1>3 DEF UpdateRecord, QInv, TypeOK
<1>5. Leave(p) => record'[t] = record[t]
  BY DEF Leave
<1> QED
  BY <1>1, <1>2, <1>4, <1>5 DEF Lifecycle

\* However a transition ends whose save still stands, lifecycle gives the status
\* it asked for or reports drift, and Todo list and diagnose agree with it,
\* whatever other commands were at work.
THEOREM TransitionEndsAreTold == Spec => EndsAreTold
<1> DEFINE Given == \A t \in TaskIds, to \in Lifecycle :
             record[t] \in RecordStatuses /\ Status(t) = {QueueStatusForLifecycle(to)} =>
               /\ LifecycleStatus(t) = IF record[t] = to THEN {to} ELSE {"drift"}
               /\ Alignment(t) = [in_record |-> TRUE, in_queue |-> TRUE]
<1>1. Given
  BY StatusGiven
<1>2. QInv /\ SavedHasRow /\ Given' /\ [Next]_vars =>
      [\A p \in Procs, t \in TaskIds, to \in Lifecycle :
       /\ job[p] = Saved(t, to) /\ Status(t) = {QueueStatusForLifecycle(to)}
       /\ UpdateRecord(p) \/ Leave(p)
       => /\ LifecycleStatus(t)' = IF UpdateRecord(p) \/ record[t] = to THEN {to} ELSE {"drift"}
          /\ \A status \in Status(t)' :
               TodoStatus(status) = "in_progress" <=> to \in {"active", "verifying"}
          /\ Alignment(t)' = [in_record |-> TRUE, in_queue |-> TRUE]]_vars
  <2> SUFFICES ASSUME QInv, SavedHasRow, Given', NEW p \in Procs, NEW t \in TaskIds,
                      NEW to \in Lifecycle, job[p] = Saved(t, to),
                      Status(t) = {QueueStatusForLifecycle(to)}, UpdateRecord(p) \/ Leave(p)
               PROVE  /\ LifecycleStatus(t)' =
                           IF UpdateRecord(p) \/ record[t] = to THEN {to} ELSE {"drift"}
                      /\ \A status \in Status(t)' :
                           TodoStatus(status) = "in_progress" <=> to \in {"active", "verifying"}
                      /\ Alignment(t)' = [in_record |-> TRUE, in_queue |-> TRUE]
    BY Zenon
  <2>1. /\ record'[t] \in RecordStatuses /\ Status(t)' = {QueueStatusForLifecycle(to)}
        /\ record'[t] = to <=> UpdateRecord(p) \/ record[t] = to
    BY EndIsTold
  <2>2. /\ LifecycleStatus(t)' = IF record'[t] = to THEN {to} ELSE {"drift"}
        /\ Alignment(t)' = [in_record |-> TRUE, in_queue |-> TRUE]
    BY <2>1
  <2>3. LifecycleStatus(t)' = IF UpdateRecord(p) \/ record[t] = to THEN {to} ELSE {"drift"}
    <3>1. CASE record'[t] = to
      BY <2>1, <2>2, <3>1, Zenon
    <3>2. CASE record'[t] # to
      BY <2>1, <2>2, <3>2, Zenon
    <3> QED
      BY <3>1, <3>2
  <2>4. \A status \in Status(t)' :
          TodoStatus(status) = "in_progress" <=> to \in {"active", "verifying"}
    BY <2>1, NamesAgree
  <2> QED
    BY <2>2, <2>3, <2>4, Zenon
<1> QED
  BY <1>1, <1>2, Invariance, RowsStay, PTL DEF Spec, EndsAreTold
=============================================================================
