---------------------------- MODULE RecordChecks ----------------------------
(***************************************************************************)
(* The verdict of the task-record gate over the rows of one task           *)
(* (validate_task of records/task_record.py and what it calls).            *)
(*                                                                         *)
(* A payload is the set of the facts it states: a field that has content   *)
(* of the right kind, or a value a check asks for.  A fault that a check   *)
(* looks for in the items of a list is a fact as well.                     *)
(***************************************************************************)
EXTENDS Integers, FiniteSets

MutatingTypes == {"code-debug", "correction", "rules-script", "docs", "git", "frontend", "resume",
                  "multi-agent", "long-running"}
KnownTypes == MutatingTypes \cup {"design-only"}

OutputTypes == {"plan", "status", "final", "script", "error", "git_worktree"}
OpenRequirement == {"open", "in_progress"}
RequirementStatuses == OpenRequirement \cup {"done", "blocked", "deferred", "cancelled"}
ValidationResults == {"pass", "fail", "warn", "skipped"}

(***************************************************************************)
(* now is what the tables hold: triggers and outputs by type, requirements *)
(* by status, validations, worktrees and approvals as the facts of each    *)
(* row, events as rows with the place of their id in the order of ids, and *)
(* of the failed spans of the task how each was classified.  task is the   *)
(* row of the task itself with the types the gate was asked for.           *)
(***************************************************************************)
Event(place, type, says) == [place |-> place, type |-> type, says |-> says]

SaidBy(now, type) == {e.says : e \in {f \in now.events : f.type = type}}
Stated(now, type, facts) == \E says \in SaidBy(now, type) : facts \subseteq says

IsMutating(task) == task.types \cap MutatingTypes # {}
IsGated(task) == IsMutating(task) \/ task.size \in {"medium", "large"}

-----------------------------------------------------------------------------
(***************************************************************************)
(* The checks of single facts.                                             *)
(***************************************************************************)
\* Of the identities only the row with the last id counts.
LastIdentity(now) ==
  {e \in now.events :
     /\ e.type = "client-identity" /\ {"client_type", "model_id"} \subseteq e.says
     /\ \A other \in now.events : other.type = "client-identity" => other.place <= e.place}

Identity(now) == LastIdentity(now) # {}

InputFilter(now) ==
  /\ now.triggers \cap {"input-filter", "user-message"} # {}
  /\ Stated(now, "input-filter", {})
  /\ Identity(now)

CommandCompression(now) ==
  \E says \in SaidBy(now, "command-compression") :
    "groups" \in says /\ says \cap {"decision", "selected_pattern"} # {}

\* Any event may state the scope.
ScopeClassification(now) ==
  /\ "scope-classification" \in now.triggers
  /\ \E e \in now.events : "scope_kind" \in e.says

PlanApproval(task, now) ==
  \E says \in SaidBy(now, "plan-approval") :
    /\ {"execution_policy", "push needs approval"} \subseteq says
    /\ IsMutating(task) => says \cap {"approved", "not_required"} # {}

UserClaims(now) ==
  \E says \in SaidBy(now, "user-claims") :
    {"claims", "claims policy"} \subseteq says /\ "incomplete claim" \notin says

StateOwnership(now) ==
  Stated(now, "state-ownership", {"generated_state_classes", "manual edits forbidden", "owner_policy"})

PatchPreflight(now) == Stated(now, "patch-preflight", {"anchors verified", "small steps"})

UsableWorktree == {"worktree-task", "active or done", "commit known", "not pushed"}

\* Writes need an active task and a worktree that worktree-task made and
\* nobody has pushed.
Prewrite(task, now) ==
  /\ task.status \in {"active", "verifying", "done"}
  /\ \E w \in now.worktrees : UsableWorktree \subseteq w

AgentDecision(task, now, final) ==
  \E says \in SaidBy(now, "agent-decision") :
    /\ {"decision", "context_pack_ref", "confirmation"} \subseteq says
    /\ "bad spawn count" \notin says
    /\ final /\ "multi-agent" \in task.types => says \cap {"spawned", "reused or merged"} # {}
    /\ "spawned" \in says => "spawn count" \in says
    /\ "spawn count" \notin says =>
         {"no_spawn_reason", "alternative_validation", "residual_risk"} \subseteq says

DataConfirmation(now) ==
  Stated(now, "data-confirmation", {"confirmation_sources", "checked_facts", "unverified_items"})

\* Fault: at the end only the outcome is looked at.
ShellProxy_Outcome(now, final) ==
  \E says \in SaidBy(now, "shell-proxy") :
    IF final THEN says \cap {"used_proxy", "exception_reason"} # {}
    ELSE {"policy", "planned_runner"} \subseteq says

ShellProxy(now, final) ==
  \E says \in SaidBy(now, "shell-proxy") :
    /\ {"policy", "planned_runner"} \subseteq says
    /\ says \cap {"profile touched", "other profile"} = {}
    /\ final => IF "used_proxy" \in says
                  THEN {"telemetry_evidence", "proxy mode", "no_profile", "profile not touched",
                        "no user impact"} \subseteq says
                  ELSE "exception_reason" \in says

HistoryRecovery(now) ==
  \E says \in SaidBy(now, "history-recovery") :
    \/ {"history_sources", "recovered", "not_adopted"} \subseteq says
    \/ {"no_history_source_reason", "no_action_reason"} \subseteq says

ReadonlySideEffect(now) ==
  \E says \in SaidBy(now, "readonly-side-effect") :
    /\ {"readonly_contract", "db_write_allowed", "record_state_allowed", "side_effect_class",
        "dry_run_supported"} \subseteq says
    /\ ~ ("is readonly" \in says /\ "may write" \in says)

\* An empty list of issues needs no_issue_policy to be a valid destination.
DiscoveredIssues(now) ==
  \E says \in SaidBy(now, "discovered-issues") :
    "issues" \in says /\ "issue without record" \notin says

DispatchBrief(now) ==
  Stated(now, "dispatch-brief", {"task_id", "worktree_path", "write_scope", "forbidden_paths",
                                 "validation_commands", "return_capsule"})

AnalysisContract(now) ==
  Stated(now, "analysis-contract", {"analysis_summary", "scope", "non_goals", "risks", "acceptance"})

-----------------------------------------------------------------------------
(***************************************************************************)
(* Agent reviews: the facts that every review of the event states, and the *)
(* words that are found in the text of one of them.                        *)
(***************************************************************************)
ReviewFacts ==
  {"executor", "executor_client", "reviewer", "reviewer_client", "reviewed id", "lifecycle facts",
   "commit facts", "evidence", "remediation_guidance", "retest_plan"}

\* A failure in the text is forgiven when a retest is said to have passed.
Passes(says, pass, fail, retested) == pass \in says /\ (fail \in says => retested \in says)

\* Words are looked for anywhere in the text: "unresolved" holds "resolved"
\* and is taken for it.
Settled(says, none, unresolved, resolved) == {none, unresolved, resolved} \cap says # {}

Review(says) ==
  /\ ReviewFacts \subseteq says
  /\ "same agent and client" \notin says
  /\ "lifecycle blocked" \in says => "lifecycle clean" \in says
  /\ Settled(says, "no unhandled items", "unhandled items unresolved", "unhandled items resolved")
  /\ Settled(says, "no low quality items", "low quality items unresolved", "low quality items resolved")
  /\ Passes(says, "decision pass", "decision fail", "decision retest pass")
  /\ Passes(says, "retest pass", "retest fail", "retest retest pass")

AgentReview(now) == \E says \in SaidBy(now, "agent-review") : Review(says)

-----------------------------------------------------------------------------
DesignFacts ==
  {"problem", "goals", "non_goals", "architecture", "data_model", "policy_gate", "migration",
   "validation", "risks", "implementation_tasks", "reviewer_acceptance", "handoff_capsule"}

DesignComplete(says) ==
  /\ DesignFacts \subseteq says
  /\ says \cap {"empty item", "list or object of another kind"} = {}
  /\ {"summary", "required_reading", "handoff_instructions"} \subseteq says

\* A task that is not design-only may do without a package.
DesignPackage(task, now) ==
  \/ \E says \in SaidBy(now, "design-package") : DesignComplete(says)
  \/ "design-only" \notin task.types /\ ~ Stated(now, "design-package", {})

GatewayFacts ==
  {"registration", "plugin", "audit_only", "no hard enforcement", "registration_event",
   "invocation telemetry required", "plugin-command-wrapper", "governed_commands_only",
   "no raw shell interception", "residual_risk", "lifecycle input filter enforced",
   "prewrite_runtime_adapter", "required components", "proxy mode", "no_profile",
   "profile not touched", "no user impact"}

CapabilityGateway(now) ==
  /\ \E says \in SaidBy(now, "shell-proxy") :
       IF "used_proxy" \in says THEN "telemetry_evidence" \in says ELSE "exception_reason" \in says
  /\ Stated(now, "capability-gateway", GatewayFacts)

CommandErrorFacts ==
  {"failed_command", "exit_code", "phase", "parser_or_shell", "failure_category", "root_cause",
   "corrected_command", "retry_count", "dedupe_key", "preventive_rule", "telemetry_evidence",
   "state_impact", "framework_debt_decision"}

CommandErrorComplete(says) == CommandErrorFacts \subseteq says /\ "unclassified" \notin says

\* Fault: a complete analysis stands for the classification of the spans.
CommandErrors_Analysed(now) ==
  /\ \A e \in now.events : e.type = "command-error" => CommandErrorComplete(e.says)
  /\ now.spans # {} => Stated(now, "command-error", {})

\* Every analysis is complete, and a span says itself what failed: an event
\* does not classify it.
CommandErrors(now) ==
  /\ \A e \in now.events : e.type = "command-error" => CommandErrorComplete(e.says)
  /\ now.spans # {} => Stated(now, "command-error", {})
  /\ "unclassified" \notin now.spans

-----------------------------------------------------------------------------
(***************************************************************************)
(* The order in which a gate makes its checks, each on what the tables     *)
(* hold when its turn comes.                                               *)
(***************************************************************************)
Checks ==
  <<"known types", "rows", "input-filter", "command-compression", "scope", "plan-approval",
    "user-claims", "state-ownership", "patch-preflight", "prewrite", "agent-decision",
    "data-confirmation", "shell-proxy", "history", "readonly", "discovered-issues",
    "dispatch-brief", "agent-review", "design-package", "analysis-contract", "capability-gateway",
    "command-errors", "outputs", "requirements", "worktrees", "validations", "approval">>

\* The checks that the types and the size of the task and the event ask for.
Needed(task, final) ==
  {"known types", "rows", "input-filter", "design-package"}
    \cup (IF IsGated(task)
            THEN {"command-compression", "scope", "plan-approval", "user-claims", "agent-decision",
                  "data-confirmation", "shell-proxy", "readonly", "analysis-contract"} ELSE {})
    \cup (IF IsGated(task) /\ final
            THEN {"discovered-issues", "capability-gateway", "command-errors"} ELSE {})
    \cup (IF "rules-script" \in task.types THEN {"state-ownership", "approval"} ELSE {})
    \cup (IF task.types \cap {"rules-script", "docs", "correction"} # {}
            THEN {"patch-preflight"} ELSE {})
    \cup (IF task.types \cap {"correction", "rules-script", "multi-agent", "long-running"} # {}
            THEN {"history"} ELSE {})
    \cup (IF "multi-agent" \in task.types
            THEN {"dispatch-brief"} \cup (IF final THEN {"agent-review"} ELSE {}) ELSE {})
    \cup (IF IsMutating(task) THEN {"worktrees"} \cup (IF final THEN {} ELSE {"prewrite"}) ELSE {})
    \cup (IF final THEN {"outputs", "requirements", "validations"} ELSE {})

Holds(check, task, now, final) ==
  \/ check = "known types" /\ task.types \subseteq KnownTypes
  \/ check = "rows" /\ now.requirements # {} /\ now.triggers # {} /\ now.outputs # {}
  \/ check = "input-filter" /\ InputFilter(now)
  \/ check = "command-compression" /\ CommandCompression(now)
  \/ check = "scope" /\ ScopeClassification(now)
  \/ check = "plan-approval" /\ PlanApproval(task, now)
  \/ check = "user-claims" /\ UserClaims(now)
  \/ check = "state-ownership" /\ StateOwnership(now)
  \/ check = "patch-preflight" /\ PatchPreflight(now)
  \/ check = "prewrite" /\ Prewrite(task, now)
  \/ check = "agent-decision" /\ AgentDecision(task, now, final)
  \/ check = "data-confirmation" /\ DataConfirmation(now)
  \/ check = "shell-proxy" /\ ShellProxy(now, final)
  \/ check = "history" /\ HistoryRecovery(now)
  \/ check = "readonly" /\ ReadonlySideEffect(now)
  \/ check = "discovered-issues" /\ DiscoveredIssues(now)
  \/ check = "dispatch-brief" /\ DispatchBrief(now)
  \/ check = "agent-review" /\ AgentReview(now)
  \/ check = "design-package" /\ DesignPackage(task, now)
  \/ check = "analysis-contract" /\ AnalysisContract(now)
  \/ check = "capability-gateway" /\ CapabilityGateway(now)
  \/ check = "command-errors" /\ CommandErrors(now)
  \/ check = "outputs" /\ OutputTypes \subseteq now.outputs
  \/ check = "requirements" /\ now.requirements \cap OpenRequirement = {}
  \/ check = "worktrees" /\ now.worktrees # {}
       /\ \A w \in now.worktrees : {"worktree-task", "break-glass"} \cap w # {}
  \/ check = "validations" /\ now.validations # {}
  \/ check = "approval" /\ task.label /\ {"approved", "label"} \in now.approvals

Failing(task, now, final) ==
  {check \in Needed(task, final) : ~ Holds(check, task, now, final)}

(***************************************************************************)
(* What a payload needs to be written and what the evidence graph misses.  *)
(***************************************************************************)
TaskStatuses ==
  {"candidate", "awaiting_approval", "ready", "active", "verifying", "done", "blocked", "cancelled"}

AcceptedTask(task) ==
  task.types # {} /\ task.types \subseteq KnownTypes /\ task.status \in TaskStatuses

\* Values outside their enumeration are refused.
AcceptedRows(tables) ==
  /\ tables.requirements \subseteq RequirementStatuses /\ tables.outputs \subseteq OutputTypes
  /\ \A v \in tables.validations : v \cap ValidationResults # {}

Accepted(task, tables) ==
  /\ AcceptedTask(task) /\ AcceptedRows(tables)
  /\ tables.requirements # {} /\ tables.triggers # {} /\ tables.outputs # {}
  /\ "rules-script" \in task.types => task.label /\ {"approved", "label"} \in tables.approvals

\* The payload that is handed out as an example.
SamplePayload ==
  [task |-> [types |-> {"rules-script"}, size |-> "small", status |-> "active", label |-> TRUE],
   tables |-> [triggers |-> {"input-filter"}, outputs |-> {"final"}, requirements |-> {"open"},
               approvals |-> {{"approved", "label"}}, worktrees |-> {UsableWorktree},
               validations |-> {{"skipped"}}, spans |-> {}, events |-> {Event(1, "sample", {})}]]

Gaps(now) ==
  {gap \in {"requirements", "triggers", "outputs", "events", "telemetry"} :
     CASE gap = "requirements" -> now.requirements = {}
       [] gap = "triggers" -> now.triggers = {}
       [] gap = "outputs" -> now.outputs = {}
       [] gap = "events" -> now.events = {}
       [] OTHER -> "unclassified" \in now.spans}

\* What a gate only warns of.
Warnings(task, now, final) ==
  {w \in {"unknown identity", "no passing validation", "no document check", "no doc-impact",
           "no layout check"} :
     CASE w = "unknown identity" -> \E e \in LastIdentity(now) : "unknown" \in e.says
       [] w = "no passing validation" ->
            now.validations # {} /\ \A v \in now.validations : "pass" \notin v
       [] w = "no document check" ->
            "docs" \in task.types /\ \A v \in now.validations : "document check" \notin v
       [] w = "no doc-impact" ->
            "docs" \in task.types /\ final /\ ~ Stated(now, "doc-impact", {})
       [] OTHER -> "resume" \in task.types /\ \A v \in now.validations : "layout check" \notin v}
=============================================================================
