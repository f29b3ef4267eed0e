------------------------------ MODULE GatePool ------------------------------
(***************************************************************************)
(* gates/gate_pool.py with the wrapper it runs every gate through          *)
(* (records/tool_invocations.py run) and the check of the trace that is    *)
(* its last gate (records/tool_flow.py).                                   *)
(*                                                                         *)
(* A pool is a process that plans its steps from the registry and runs     *)
(* them one after the other until one does not return zero.  A step is a   *)
(* wrapper: a started row, the gate, a last row; each row may fail to be   *)
(* written, and pool, wrapper or gate may die in between.  A trace id can  *)
(* be given to several pools, one after the other or at the same time.     *)
(***************************************************************************)
EXTENDS Registry, Integers, Sequences

CONSTANTS
  Pools,     \* gate-pool processes that may run at the same time
  Traces,    \* trace ids
  Contexts,  \* what a pool is asked to look at
  Sources    \* which of --task-tracking and --task-id are given

\* A pool takes its task for a medium one as soon as it has a type or a path.
ASSUME PoolAssumption ==
  /\ Contexts \subseteq Context
  /\ \A context \in Contexts :
       /\ context.sized = (context.types # {} \/ context.paths # {}) /\ ~ context.web
       /\ IsFiniteSet(context.paths)
  /\ Sources \subseteq (SUBSET {"task-tracking", "task-id"}) \ {{}}

VARIABLES
  pool,      \* per process: its phase, source, trace, plan, position and child
  rows,      \* per process: the rows <<position, status>> its steps have written
  facts,     \* per process: the doc-impact facts it has written
  evidence   \* per trace: what tool-flow finds in its rows

vars == <<pool, rows, facts, evidence>>

NoPool == [phase |-> "idle"]
StepNames ==
  {"worktree-creation-policy", "worktree-task reconcile", "worktree-task host-closeout", "py-compile",
   "validate-encoding", "policy assess", "validate-doc", "doc-index", "scan-corrections",
   "git-diff-check", "completion-test", "framework-debt report", "task-run diagnose",
   "shell-adapter diagnose", "git-state-audit", "file-ownership audit", "architecture-guard",
   "task-record gate", "task-gate", "session-gate", "task-queue lifecycle", "task-queue", "telemetry",
   "telemetry effectiveness snapshot", "telemetry effectiveness trend", "tool-flow"}
Step == [name : StepNames, final : BOOLEAN]
Pool == [phase : {"running", "passed", "failed"}, source : Sources, trace : Traces, final : BOOLEAN,
         plan : Seq(Step), at : Nat, child : {"none", "started", "ended", "event", "validation"},
         ok : BOOLEAN, noted : BOOLEAN]

-----------------------------------------------------------------------------
(***************************************************************************)
(* The plan: all steps in the order build_steps appends them, and whether  *)
(* it does.                                                                *)
(***************************************************************************)
Existing(context) == {path \in context.paths : path.exists}
WithSuffix(context, suffixes) == {path \in Existing(context) : path.suffix \in suffixes}

\* A step whose final_gate is args.final.
Flagged(condition, name, context) ==
  IF condition THEN <<[name |-> name, final |-> context.final]>> ELSE << >>

\* A step whose final_gate is left FALSE.
Plain(condition, name) == IF condition THEN <<[name |-> name, final |-> FALSE]>> ELSE << >>

Coordination(context, gates) ==
  Flagged("worktree-creation-policy" \in gates, "worktree-creation-policy", context)
    \o Flagged("worktree-live-state" \in gates, "worktree-task reconcile", context)
    \o Flagged("host-submodule-closeout" \in gates, "worktree-task host-closeout", context)

Validation(context, gates) ==
  LET text == WithSuffix(context, TextSuffixes) IN
  Plain("py-compile" \in gates /\ WithSuffix(context, {".py"}) # {}, "py-compile")
    \o Flagged("validate-encoding" \in gates /\ text # {}, "validate-encoding", context)
    \o [i \in 1..(IF "security-policy" \in gates THEN Cardinality(text) ELSE 0) |->
          [name |-> "policy assess", final |-> context.final]]
    \o Flagged("validate-doc" \in gates /\ WithSuffix(context, {".md"}) # {}, "validate-doc", context)
    \o Flagged("doc-index" \in gates /\ context.paths # {}, "doc-index", context)
    \o Flagged(/\ "scan-corrections" \in gates
          /\ ("correction" \in context.types \/ \E path \in context.paths : path.correction),
          "scan-corrections", context)
    \o Plain("git-diff-check" \in gates /\ context.paths # {}, "git-diff-check")

Reports(context, gates) ==
  Flagged("completion-test-plan" \in gates /\ context.paths # {}, "completion-test", context)
    \o Flagged("framework-debt" \in gates, "framework-debt report", context)
    \o Flagged({"raw-shell-coverage", "task-run-diagnostics", "task-record-queue-alignment"} \cap gates # {},
          "task-run diagnose", context)
    \o Flagged("shell-adapter-diagnostics" \in gates, "shell-adapter diagnose", context)
    \o Flagged("git-state-audit" \in gates, "git-state-audit", context)

\* A tracking file comes before a task id when both are given.
ById(source) == "task-tracking" \notin source

\* Fault: the record is gated again at the end although it was gated before.
Closing_Twice(context, gates, source) ==
  LET Final(step) == context.final /\ step \in gates IN
  Flagged(Final("file-ownership"), "file-ownership audit", context)
    \o Flagged(Final("architecture-guard"), "architecture-guard", context)
    \o Flagged("task-record" \in gates /\ ById(source), "task-record gate", context)
    \o Flagged(Final("task-gate") /\ ~ ById(source), "task-gate", context)
    \o Flagged(Final("session-gate"), "session-gate", context)
    \o Flagged(Final("task-queue"), "task-queue lifecycle", context)
    \o Flagged(Final("task-queue") /\ ~ ById(source), "task-queue", context)
    \o Flagged(Final("task-queue") /\ ById(source), "task-record gate", context)

\* Fault: the record is only gated when the registry asks for it.
Closing_AskedOnly(context, gates, source) ==
  LET Final(step) == context.final /\ step \in gates IN
  Flagged(Final("file-ownership"), "file-ownership audit", context)
    \o Flagged(Final("architecture-guard"), "architecture-guard", context)
    \o Flagged("task-record" \in gates /\ ById(source), "task-record gate", context)
    \o Flagged(Final("task-gate") /\ ~ ById(source), "task-gate", context)
    \o Flagged(Final("session-gate"), "session-gate", context)
    \o Flagged(Final("task-queue"), "task-queue lifecycle", context)
    \o Flagged(Final("task-queue") /\ ~ ById(source), "task-queue", context)

\* With a task id the record takes the place of task-gate and of the queue's
\* tracking path; it is gated once.
Closing(context, gates, source) ==
  LET Final(step) == context.final /\ step \in gates IN
  Flagged(Final("file-ownership"), "file-ownership audit", context)
    \o Flagged(Final("architecture-guard"), "architecture-guard", context)
    \o Flagged("task-record" \in gates /\ ById(source), "task-record gate", context)
    \o Flagged(Final("task-gate") /\ ~ ById(source), "task-gate", context)
    \o Flagged(Final("session-gate"), "session-gate", context)
    \o Flagged(Final("task-queue"), "task-queue lifecycle", context)
    \o Flagged(Final("task-queue") /\ ~ ById(source), "task-queue", context)
    \o Flagged(Final("task-queue") /\ ById(source) /\ "task-record" \notin gates, "task-record gate", context)

\* Fault: the trace is checked before the telemetry report.
TraceSteps_FlowFirst(context) ==
  LET Effectiveness == context.final \/ context.event = "final-output" IN
  Plain(TRUE, "tool-flow") \o Plain(TRUE, "telemetry")
    \o Plain(Effectiveness, "telemetry effectiveness snapshot")
    \o Plain(Effectiveness, "telemetry effectiveness trend")

TraceSteps(context) ==
  LET Effectiveness == context.final \/ context.event = "final-output" IN
  Plain(TRUE, "telemetry")
    \o Plain(Effectiveness, "telemetry effectiveness snapshot")
    \o Plain(Effectiveness, "telemetry effectiveness trend")
    \o Plain(TRUE, "tool-flow")

Plan(context, source) ==
  LET gates == GateSteps(context) IN
  Coordination(context, gates) \o Validation(context, gates) \o Reports(context, gates)
    \o Closing(context, gates, source) \o TraceSteps(context)

-----------------------------------------------------------------------------
(***************************************************************************)
(* What tool-flow makes of a row, of a step that has only started too: any *)
(* row is an invocation, some are final gates, by their flag or by name,   *)
(* and one is the telemetry report.                                        *)
(***************************************************************************)
FinalGateNames == {"session-gate", "task-gate", "task-record gate", "validate-doc", "validate-encoding",
                   "scan-corrections", "architecture-guard", "task-queue"}

Evidence(step) ==
  {"invocation"} \cup (IF step.final \/ step.name \in FinalGateNames THEN {"final gate"} ELSE {})
    \cup (IF step.name = "telemetry" THEN {"report"} ELSE {})

FlowIssues(found) == {"invocation", "final gate", "report"} \ found

FlowIsComplete(trace) == FlowIssues(evidence[trace]) = {}

-----------------------------------------------------------------------------
IsRunning(p) == pool[p].phase = "running"
Current(p) == pool[p].plan[pool[p].at]
At(p, child) == IsRunning(p) /\ pool[p].child = child

\* Fault: the last step is missed by one.
Advanced_Over(r, ok) ==
  CASE ~ok -> [r EXCEPT !.phase = "failed", !.child = "none"]
    [] ok /\ r.at > Len(r.plan) -> [r EXCEPT !.phase = "passed", !.child = "none"]
    [] OTHER -> [r EXCEPT !.at = @ + 1, !.child = "none"]

\* The pool after a step: the first failure ends it.
Advanced(r, ok) ==
  CASE ~ok -> [r EXCEPT !.phase = "failed", !.child = "none"]
    [] ok /\ r.at = Len(r.plan) -> [r EXCEPT !.phase = "passed", !.child = "none"]
    [] OTHER -> [r EXCEPT !.at = @ + 1, !.child = "none"]

\* The wrapper has returned: after doc-index its result is written to the
\* record of the task first, whatever it was.
Returned(r, ok) ==
  IF r.plan[r.at].name = "doc-index" /\ "task-id" \in r.source
    THEN [r EXCEPT !.child = "event", !.ok = ok]
    ELSE Advanced(r, ok)

Begin(p, context, source, trace) ==
  /\ pool[p] = NoPool
  /\ pool' = [pool EXCEPT ![p] =
       [phase |-> "running", source |-> source, trace |-> trace, final |-> context.final,
        plan |-> Plan(context, source), at |-> 1, child |-> "none", ok |-> TRUE, noted |-> TRUE]]
  /\ UNCHANGED <<rows, facts>>
  /\ evidence' \in {evidence, [evidence EXCEPT ![trace] = @ \cup {"invocation"}]}

\* The rows after one more of the current step.
Written(p, status) == [rows EXCEPT ![p] = @ \cup {<<pool[p].at, status>>}]

\* Without a started row the gate is not run.
Announce(p) ==
  /\ At(p, "none")
  /\ \/ /\ pool' = [pool EXCEPT ![p].child = "started"]
        /\ rows' = Written(p, "started")
        /\ evidence' = [evidence EXCEPT ![pool[p].trace] = @ \cup Evidence(Current(p))]
     \/ /\ pool' = [pool EXCEPT ![p] = Returned(@, FALSE)]
        /\ UNCHANGED <<rows, evidence>>
  /\ UNCHANGED facts

\* Any gate may pass or fail; tool-flow passes only a complete flow.
RunGate(p) ==
  /\ At(p, "started")
  /\ \E ok \in BOOLEAN :
       /\ ok /\ Current(p).name = "tool-flow" => FlowIsComplete(pool[p].trace)
       /\ pool' = [pool EXCEPT ![p].child = "ended", ![p].ok = ok]
  /\ UNCHANGED <<rows, facts, evidence>>

\* Fault: the gate's exit code is returned although its row was not written.
Record_Lenient(p) ==
  /\ At(p, "ended")
  /\ pool' = [pool EXCEPT ![p] = Returned(@, @.ok)]
  /\ rows' \in {rows, Written(p, IF pool[p].ok THEN "succeeded" ELSE "failed")}
  /\ UNCHANGED <<facts, evidence>>

\* Without a last row the wrapper fails, whatever the gate has returned.
Record(p) ==
  /\ At(p, "ended")
  /\ \/ /\ pool' = [pool EXCEPT ![p] = Returned(@, @.ok)]
        /\ rows' = Written(p, IF pool[p].ok THEN "succeeded" ELSE "failed")
     \/ /\ pool' = [pool EXCEPT ![p] = Returned(@, FALSE)]
        /\ UNCHANGED rows
  /\ UNCHANGED <<facts, evidence>>

\* What the impact of the changes on the documents is noted as.
Verdict(p) == IF pool[p].ok THEN "pass" ELSE "fail"

NoteEvent(p) ==
  /\ At(p, "event")
  /\ \E written \in BOOLEAN :
       /\ pool' = [pool EXCEPT ![p].child = "validation", ![p].noted = written]
       /\ facts' = IF written THEN [facts EXCEPT ![p] = @ \cup {<<"event", Verdict(p)>>}] ELSE facts
  /\ UNCHANGED <<rows, evidence>>

\* The validation is written even if the event was not.
NoteValidation(p) ==
  /\ At(p, "validation")
  /\ \E written \in BOOLEAN :
       /\ pool' = [pool EXCEPT ![p] = Advanced(@, @.ok /\ @.noted /\ written)]
       /\ facts' = IF written THEN [facts EXCEPT ![p] = @ \cup {<<"validation", Verdict(p)>>}]
                              ELSE facts
  /\ UNCHANGED <<rows, evidence>>

\* The process ends, or dies anywhere; its rows stay in the trace.
Leave(p) ==
  /\ pool[p] # NoPool
  /\ pool' = [pool EXCEPT ![p] = NoPool]
  /\ rows' = [rows EXCEPT ![p] = {}]
  /\ facts' = [facts EXCEPT ![p] = {}]
  /\ UNCHANGED evidence

Init ==
  /\ pool = [p \in Pools |-> NoPool]
  /\ rows = [p \in Pools |-> {}]
  /\ facts = [p \in Pools |-> {}]
  /\ evidence = [t \in Traces |-> {}]

Next ==
  \E p \in Pools :
    \/ \E context \in Contexts, source \in Sources, trace \in Traces : Begin(p, context, source, trace)
    \/ Announce(p) \/ RunGate(p) \/ Record(p)
    \/ NoteEvent(p) \/ NoteValidation(p)
    \/ Leave(p)

Spec == Init /\ [][Next]_vars

-----------------------------------------------------------------------------
(***************************************************************************)
(* Properties.                                                             *)
(***************************************************************************)
\* The shape of the state.
TypeOK ==
  /\ DOMAIN pool = Pools
  /\ \A p \in Pools :
       /\ \/ pool[p] = NoPool
          \/ pool[p] \in Pool /\ pool[p].at \in DOMAIN pool[p].plan
       /\ IsRunning(p) => \A row \in rows[p] : row[1] <= pool[p].at
       /\ facts[p] \subseteq {"event", "validation"} \X {"pass", "fail"}
  /\ evidence \in [Traces -> SUBSET {"invocation", "final gate", "report"}]

Names(p) == {pool[p].plan[i].name : i \in DOMAIN pool[p].plan}

\* A pool returns zero only if every gate it planned has run, has returned zero
\* and has the two rows that say so, and if the impact of the changes on the
\* documents is in the record of the task as passed: no row or fact that could
\* not be written is passed over.
PassedPoolIsBacked ==
  \A p \in Pools : pool[p].phase = "passed" =>
    /\ \A i \in DOMAIN pool[p].plan : {<<i, "started">>, <<i, "succeeded">>} \subseteq rows[p]
    /\ "doc-index" \in Names(p) /\ "task-id" \in pool[p].source =>
         facts[p] = {"event", "validation"} \X {"pass"}

\* The check of the trace that ends a final pool is never what fails it: when
\* it runs, the steps before it have left a final gate and the report in the
\* trace, in every context the registry knows.
FinalPoolSatisfiesFlow ==
  \A p \in Pools :
    At(p, "started") /\ Current(p).name = "tool-flow" /\ pool[p].final => FlowIsComplete(pool[p].trace)

\* However many components ask for a gate, a pool runs it once; only the policy
\* looks at each file apart.  And a final pool closes the task: it holds the gates
\* of the session, of the queue and of the record or the tracking file, at every
\* event and for every type of task, after the gates that look at the changes.
PlanClosesOnce ==
  \A p \in Pools : IsRunning(p) =>
    /\ \A i, j \in DOMAIN pool[p].plan :
         i < j /\ pool[p].plan[i].name = pool[p].plan[j].name => pool[p].plan[i].name = "policy assess"
    /\ pool[p].final =>
         /\ {"session-gate", "task-queue lifecycle"} \subseteq Names(p)
         /\ IF "task-tracking" \in pool[p].source THEN {"task-gate", "task-queue"} \subseteq Names(p)
                                                   ELSE "task-record gate" \in Names(p)
         /\ \A i, j \in DOMAIN pool[p].plan :
              /\ pool[p].plan[i].name \in {"session-gate", "task-record gate", "task-queue lifecycle"}
              /\ pool[p].plan[j].name \in {"doc-index", "validate-doc", "completion-test", "policy assess"}
              => j < i
=============================================================================
