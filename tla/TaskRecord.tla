----------------------------- MODULE TaskRecord -----------------------------
(***************************************************************************)
(* The record of one task: who writes to it, the gates that read it and    *)
(* the lifecycle commands that ask the gates.                              *)
(*                                                                         *)
(* A gate is a process.  It reads the row of the task first and then, for  *)
(* one check after the other, the tables, each read by itself: the writers *)
(* of records/task_record.py, of the queue, of the entry points and of the *)
(* telemetry come in between.                                              *)
(***************************************************************************)
EXTENDS Lifecycle, Telemetry

CONSTANTS
  Requests,    \* the lifecycle calls made
  Dispatches,  \* the task types that worktree-task dispatch is called with
  Payloads,    \* what task-record apply is given: [task, tables]
  NewEvents,   \* what append-event, design-package and the agents append
  Evidence,    \* what append-validation and append-worktree write
  Statuses,    \* what the queue sets the task to
  Commands,    \* what runs on behalf of the task: [runner, command, code, file]
  Spans,       \* ids of spans
  Rewrites,    \* the rows written by hand for a span that exists: [status, task]
  Asked,       \* what task-record gate is called with: [final, types]
  MaxRuns,     \* the bound on the rows of gate_runs
  MaxWrites    \* the bound on what all writers together write

VARIABLES
  record,  \* the row of the task, how it was made and how often
  tables,  \* what its tables hold
  spans,   \* the execution spans
  writes,  \* the number of writes so far
  gate,    \* the gate or lifecycle command that runs
  runs,    \* the rows of gate_runs
  life     \* what preflight or finalize has just reported

recordVars == <<record, tables, spans, writes, gate, runs, life>>

NoTask == [types |-> {}, size |-> "none", status |-> "none", label |-> FALSE]
NoTables == [triggers |-> {}, outputs |-> {}, requirements |-> {}, approvals |-> {},
             worktrees |-> {}, validations |-> {}, events |-> {}, spans |-> {}]
NoRecord == [task |-> NoTask, made |-> "never", applied |-> 0]
NoGate == [phase |-> "idle"]
NoLife == [state |-> "none", errors |-> {}, option |-> "none", id |-> FALSE, analysed |-> FALSE,
           since |-> 0]

Exists == record.made # "never"

\* A payload speaks of a task and its tables; any size that is neither medium nor
\* large is a small one, and the spans are in a table of their own.  A status is
\* one that the queue knows.
ASSUME RecordAssumption ==
  /\ \A payload \in Payloads :
       /\ DOMAIN payload.tables = DOMAIN NoTables /\ payload.tables.spans = {}
       /\ payload.task \in [types : SUBSET STRING, size : {"small", "medium", "large"},
                            status : STRING, label : BOOLEAN]
  /\ \A request \in Requests : request.label \in BOOLEAN
  /\ Statuses \subseteq TaskStatuses
  /\ MaxWrites \in Nat

\* What a check reads at this moment.
Now == [tables EXCEPT !.spans = SpanClasses(spans)]

-----------------------------------------------------------------------------
(***************************************************************************)
(* The writers.                                                            *)
(***************************************************************************)
\* Fault: the gate runs of the record that is replaced are kept.
Apply_KeepRuns(task, new, made, replace) ==
  /\ Accepted(task, new) /\ (Exists => replace)
  /\ record' = [task |-> task, made |-> made, applied |-> record.applied + 1]
  /\ tables' = new
  /\ UNCHANGED <<spans, gate, runs>>

\* A record that is replaced takes all its rows with it, those of gate_runs
\* too; only the spans are in a table of their own.
Apply(task, new, made, replace) ==
  /\ Accepted(task, new) /\ (Exists => replace)
  /\ record' = [task |-> task, made |-> made, applied |-> record.applied + 1]
  /\ tables' = new
  /\ runs' = {}
  /\ UNCHANGED <<spans, gate>>

RunInputFilter(request, replace) ==
  /\ request.message
  /\ Apply(GeneratedTask(request), GeneratedRecord(request), "input-filter", replace)

ApplyPayload(payload, replace) == Apply(payload.task, payload.tables, "payload", replace)

\* Fault: the brief of the agents is left to them.
DispatchedRecord_NoBrief(types) ==
  [triggers |-> {"user-message"}, outputs |-> {"plan"}, requirements |-> {"open"},
   approvals |-> {{"approved", "label"}}, worktrees |-> {UsableWorktree},
   validations |-> {{"skipped"}}, spans |-> {}, events |-> {Event(1, "dispatch", {})}]

\* What worktree-task dispatch writes once it has created the worktree: the brief
\* is there when several agents are to work, nothing of what input-filter finds.
DispatchedRecord(types) ==
  [triggers |-> {"user-message"}, outputs |-> {"plan"}, requirements |-> {"open"},
   approvals |-> {{"approved", "label"}}, worktrees |-> {UsableWorktree},
   validations |-> {{"skipped"}}, spans |-> {},
   events |-> {Event(1, "dispatch", {})} \cup
     (IF "multi-agent" \in types
        THEN {Event(1, "dispatch-brief", {"task_id", "worktree_path", "write_scope", "forbidden_paths",
                                          "validation_commands", "return_capsule"})} ELSE {})]

\* It replaces a record that is there without asking.
RunDispatch(types) ==
  Apply([types |-> types, size |-> "medium", status |-> "active", label |-> TRUE],
        DispatchedRecord(types), "dispatch", TRUE)

AddRow == Exists /\ UNCHANGED <<record, spans, gate, runs>>

\* design-package refuses a package that is not complete, append-event does not.
AppendEvent(event, byPackage) ==
  /\ AddRow
  /\ byPackage => event.type = "design-package" /\ DesignComplete(event.says)
  /\ tables' = [tables EXCEPT !.events = @ \cup {event}]

\* A row with an id that is taken replaces the row that has it.
AppendEvidence(table, row, replaced) ==
  /\ AddRow
  /\ \/ /\ table = "validations" /\ replaced \subseteq tables.validations
        /\ tables' = [tables EXCEPT !.validations = (@ \ replaced) \cup {row}]
     \/ /\ table = "worktrees" /\ replaced \subseteq tables.worktrees
        /\ tables' = [tables EXCEPT !.worktrees = (@ \ replaced) \cup {row}]

\* Every command of the entry points leaves the facts of the gateway.
EnterGateway ==
  /\ AddRow
  /\ tables' = [tables EXCEPT !.events = @ \cup {Event(2, "capability-gateway", GatewayFacts)}]

\* task-queue transition.
SetStatus(status) ==
  /\ Exists
  /\ record' = [record EXCEPT !.task.status = status]
  /\ tables' = [tables EXCEPT !.events = @ \cup {Event(2, "task-queue.transition", {})}]
  /\ UNCHANGED <<spans, gate, runs>>

CommandStarts(s, c) ==
  /\ spans[s].status = "none"
  /\ spans' = [spans EXCEPT ![s] = Upserted(@, SpanRow("started", 0, TRUE, "none", c.command))]
  /\ UNCHANGED <<record, tables, gate, runs>>

CommandEnds(s, c) ==
  /\ spans[s].status = "started" /\ spans[s].command = c.command
  /\ spans' = [spans EXCEPT ![s] = Upserted(@, SpanRow(IF c.code = 0 THEN "succeeded" ELSE "failed",
       c.code, TRUE, RunnerError(c.runner, c.command, c.code, c.file), c.command))]
  /\ UNCHANGED <<record, tables, gate, runs>>

\* tool-invocations record and telemetry record with the id of a span that
\* exists: whether the row names the task is up to the caller.
RecordSpan(s, status, task) ==
  /\ spans[s].status # "none"
  /\ spans' = [spans EXCEPT ![s] = Upserted(@, HandRow(status, task, @.command))]
  /\ UNCHANGED <<record, tables, gate, runs>>

-----------------------------------------------------------------------------
(***************************************************************************)
(* The gates.  An option that only matters at the end is chosen there.     *)
(***************************************************************************)
GateOf(caller, request, final, types) ==
  LET task == [record.task EXCEPT !.types = @ \cup types] IN
  [phase |-> "checking", caller |-> caller, request |-> request, final |-> final,
   task |-> task, left |-> {i \in DOMAIN Checks : Checks[i] \in Needed(task, final)}, errors |-> {},
   before |-> {}, since |-> record.applied, began |-> record.applied]

\* task-record gate; without a record it only reports that there is none.
StartGate(final, types) ==
  /\ gate = NoGate /\ Exists /\ Cardinality(runs) < MaxRuns
  /\ gate' = GateOf("task-record", "none", final, types)
  /\ life' = NoLife
  /\ UNCHANGED <<record, tables, spans, writes, runs>>

\* The next check, on the task row read at the start and the tables as they are.
Check ==
  /\ gate # NoGate /\ gate.phase = "checking"
  /\ \E next \in gate.left :
       /\ \A i \in gate.left : next <= i
       /\ gate' = [gate EXCEPT !.left = @ \ {next},
                     !.errors = IF Holds(Checks[next], gate.task, Now, gate.final)
                                  THEN @ ELSE @ \cup {Checks[next]}]
  /\ UNCHANGED <<record, tables, spans, writes, runs, life>>

Checked(callers) ==
  gate # NoGate /\ gate.phase = "checking" /\ gate.left = {} /\ gate.caller \in callers

GateWarnings == Warnings(gate.task, Now, gate.final)

RunRow(result) ==
  [final |-> gate.final, result |-> result, task |-> gate.task, since |-> gate.since,
   at |-> record.applied]

\* Fault: a gate with errors leaves a row too.
RunRows_Always(strict) ==
  {RunRow(IF gate.errors # {} THEN "fail" ELSE IF GateWarnings # {} THEN "warn" ELSE "pass")}

\* Only a gate without errors leaves a row, and a strict one none with warnings.
RunRows(strict) ==
  IF gate.errors # {} \/ (strict /\ GateWarnings # {}) THEN {}
  ELSE {RunRow(IF GateWarnings # {} THEN "warn" ELSE "pass")}

EndGate(strict) ==
  /\ Checked({"task-record"})
  /\ runs' = runs \cup RunRows(strict)
  /\ gate' = NoGate
  /\ UNCHANGED <<record, tables, spans, writes, life>>

\* A gate, or the command that waits for it, may die anywhere.
GateDies ==
  /\ gate # NoGate
  /\ gate' = NoGate
  /\ UNCHANGED <<record, tables, spans, writes, runs, life>>

-----------------------------------------------------------------------------
(***************************************************************************)
(* lifecycle preflight and finalize: their own demands, the gate of the    *)
(* record in their own process, and for finalize the commands it starts.   *)
(***************************************************************************)
OwnErrors(command, request) ==
  {demand \in {"tracking", "record id", "contract"} :
     CASE demand = "tracking" -> ~ TrackingHolds(request)
       [] demand = "record id" -> ~ RecordIsNamed(request)
       [] OTHER -> command = "preflight" /\ ~ ContractHolds(request)}

\* Without a task id, or without the task, nothing is checked.
StartLifecycle(command, request) ==
  /\ gate = NoGate /\ (command = "finalize" => Cardinality(runs) < MaxRuns)
  /\ LET asked == [GateOf(command, request, command = "finalize", TypesOf(request))
                     EXCEPT !.before = OwnErrors(command, request)]
     IN  gate' = IF request.id /\ Exists THEN asked
                 ELSE [asked EXCEPT !.left = {}, !.errors = IF request.id THEN {"no task"} ELSE {}]
  /\ life' = NoLife
  /\ UNCHANGED <<record, tables, spans, writes, runs>>

Report(state, errors, option) ==
  [state |-> state, errors |-> errors, option |-> option, id |-> gate.request.id,
   analysed |-> OwnVerdict(gate.request), since |-> gate.began]

\* The state says "checked" whatever the errors were.
EndPreflight ==
  /\ Checked({"preflight"})
  /\ life' = Report("preflight_checked", gate.before \cup gate.errors, "none")
  /\ gate' = NoGate
  /\ UNCHANGED <<record, tables, spans, writes, runs>>

\* With --run-gates the commands run even if there are errors already.
RunFinalGates ==
  /\ Checked({"finalize"})
  /\ LET commands == FinalCommands(gate.request)
         found == gate.before \cup (IF gate.errors = {} THEN {} ELSE {"record"})
     IN  \E index \in SUBSET (commands \cap {"doc-index"}),
            pool \in IF "gate-pool" \in commands THEN PoolErrors(gate.request) ELSE {{}} :
           LET errors == found \cup index \cup pool
           IN  gate' = IF pool = {} /\ gate.request.id /\ Exists
                         THEN [GateOf("pool", gate.request, TRUE, {}) EXCEPT
                                 !.before = errors, !.began = gate.began]
                         ELSE [gate EXCEPT !.phase = "ending", !.before = errors]
  /\ UNCHANGED <<record, tables, spans, writes, runs, life>>

\* The record's gate as a step of the pool, on the types of the record; the
\* steps after it may fail as well.
EndPoolGate ==
  /\ Checked({"pool"})
  /\ runs' = runs \cup RunRows(FALSE)
  /\ \E ok \in BOOLEAN :
       gate' = [gate EXCEPT !.phase = "ending",
                  !.before = IF ok /\ RunRows(FALSE) # {} THEN @ ELSE @ \cup {"gate-pool"}]
  /\ UNCHANGED <<record, tables, spans, writes, life>>

\* Fault: the state is set before the commands have run.
FinalState_Early(errors, option) ==
  IF errors \ {"gate-pool", "completion-test", "doc-index"} # {} THEN "finalizing"
  ELSE IF option = "plan" THEN "final_gate_planned" ELSE "finalized"

\* --dry-run with --run-gates ends as finalized too, though no command has run.
FinalState(errors, option) ==
  IF errors # {} THEN "finalizing"
  ELSE IF option = "plan" THEN "final_gate_planned" ELSE "finalized"

EndFinalize(option) ==
  /\ gate # NoGate
  /\ IF gate.phase = "ending" THEN option = "run" ELSE Checked({"finalize"}) /\ option # "run"
  /\ LET errors == gate.before \cup (IF gate.phase = "ending" THEN {} ELSE gate.errors) IN
     life' = Report(FinalState(errors, option), errors, option)
  /\ gate' = NoGate
  /\ UNCHANGED <<record, tables, spans, writes, runs>>

-----------------------------------------------------------------------------
RecordInit ==
  /\ record = NoRecord /\ tables = NoTables
  /\ spans = [s \in Spans |-> NoSpan] /\ writes = 0
  /\ gate = NoGate /\ runs = {} /\ life = NoLife

Writes ==
  /\ writes < MaxWrites /\ writes' = writes + 1 /\ life' = NoLife
  /\ \/ \E request \in Requests, replace \in BOOLEAN : RunInputFilter(request, replace)
     \/ \E types \in Dispatches : RunDispatch(types)
     \/ \E payload \in Payloads, replace \in BOOLEAN : ApplyPayload(payload, replace)
     \/ \E event \in NewEvents, byPackage \in BOOLEAN : AppendEvent(event, byPackage)
     \/ \E e \in Evidence, all \in BOOLEAN :
          AppendEvidence(e.table, e.row, IF all THEN tables[e.table] ELSE {})
     \/ EnterGateway
     \/ \E status \in Statuses : SetStatus(status)
     \/ \E s \in Spans, c \in Commands : CommandStarts(s, c) \/ CommandEnds(s, c)
     \/ \E s \in Spans, r \in Rewrites : RecordSpan(s, r.status, r.task)

Gates ==
  \/ \E a \in Asked : StartGate(a.final, a.types)
  \/ \E request \in Requests, command \in {"preflight", "finalize"} : StartLifecycle(command, request)
  \/ Check \/ EndPreflight \/ RunFinalGates \/ EndPoolGate \/ GateDies
  \/ \E strict \in BOOLEAN : EndGate(strict)
  \/ \E option \in {"plan", "run", "dry run"} : EndFinalize(option)

RecordNext == Writes \/ Gates
RecordSpec == RecordInit /\ [][RecordNext]_recordVars

-----------------------------------------------------------------------------
(***************************************************************************)
(* Properties.                                                             *)
(***************************************************************************)
Task == [types : SUBSET KnownTypes, size : {"small", "medium", "large", "none"},
         status : TaskStatuses \cup {"none"}, label : BOOLEAN]

\* The shape of the state.
RecordTypeOK ==
  /\ record \in [task : Task, made : {"never", "input-filter", "dispatch", "payload"}, applied : 0..writes]
  /\ writes \in 0..MaxWrites
  /\ DOMAIN tables = DOMAIN NoTables /\ tables.spans = {}
  /\ DOMAIN spans = Spans /\ SpanClasses(spans) \subseteq {"classified", "unclassified"}
  /\ gate = NoGate \/ gate.errors \subseteq {Checks[i] : i \in DOMAIN Checks} \cup {"no task"}
  /\ \A run \in runs : run.since <= run.at /\ run.at <= record.applied /\ run.result \in {"pass", "warn"}
  /\ life.since <= record.applied

\* What is said of the rows is said where no gate runs.  That leaves nothing out:
\* a gate may die between any two writes, and it takes no row with it.
Idle == gate = NoGate

\* The checks that a row added later can undo: of the identities the last one
\* counts, every error analysis and every worktree must do, a worktree row can
\* be replaced, and with the first design package one has to be complete.
Revocable == {"input-filter", "command-errors", "prewrite", "worktrees", "design-package"}

\* A row of gate_runs stands for what it says: unless the record was made anew
\* while the gate ran, every check it passed that no added row can undo holds
\* as long as the row is there, however many writers came between the reads.
PassIsEarned ==
  \A run \in runs : Idle /\ run.since = run.at =>
    \A check \in Needed(run.task, run.final) \ Revocable : Holds(check, run.task, Now, run.final)

\* The final verdict asks for no less than preflight did: a record that passes
\* it would pass preflight too, but for the worktree that may be pushed by then.
FinalCoversPreflight ==
  Idle /\ Exists /\ Failing(record.task, Now, TRUE) = {} => Failing(record.task, Now, FALSE) \subseteq {"prewrite"}

\* A pass of the final gate leaves nothing for the other two accounts of the same
\* record to complain about: the evidence graph finds no gap in a gated record that
\* passes, and the telemetry report, which classifies by rules of its own, counts no
\* failure as unclassified.  The converse is not claimed, and it is not so.
PassLeavesNoGap ==
  Idle /\ Exists /\ IsGated(record.task) /\ Failing(record.task, Now, TRUE) = {} =>
    Gaps(Now) = {} /\ ReportedUnclassified(spans) = {}

\* What input-filter writes is what preflight asks for, whatever the request was:
\* what is left to be added is the brief and the worktree, and the approval when
\* there is no label.  What dispatch writes has just these three.  And neither of
\* the two passes the final gate, whatever is appended: only a payload that takes
\* the place of the record can close its requirements.
GeneratedPassesPreflight ==
  LET failing == Failing(record.task, Now, FALSE) IN
  /\ Idle /\ record.made = "input-filter" =>
       failing \subseteq Revocable \cup {"dispatch-brief"}
                            \cup (IF record.task.label THEN {} ELSE {"plan-approval"})
  /\ Idle /\ record.made = "dispatch" => failing \cap {"rows", "approval", "dispatch-brief"} = {}
  /\ record.made # "payload" => \A run \in runs : ~ run.final \/ run.since < run.at

\* A finalize that has run its gates for a task says "finalized" only if the
\* record's gate has passed meanwhile and left its row.
FinalizedIsBacked ==
  life.state = "finalized" /\ life.option = "run" /\ life.id =>
    record.applied > life.since \/ \E run \in runs : run.final /\ run.since = life.since

\* A finalize whose own options hold the whole analysis and a budget that is enough,
\* and which finds nothing else amiss, is not turned back by the completion-test of
\* the pool that it starts.
AnalysisIsHandedOn ==
  life.option = "run" /\ life.analysed => life.errors # {"gate-pool", "completion-test"}
=============================================================================
