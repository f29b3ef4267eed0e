---------------------------- MODULE MCTaskRecord ----------------------------
EXTENDS TaskRecord

Plain == [types |-> {}, words |-> {}, paths |-> {}, source |-> "user", broad |-> FALSE, long |-> FALSE,
          message |-> TRUE, label |-> FALSE, tracking |-> {}, id |-> FALSE, contract |-> {},
          full |-> FALSE, budget |-> {}, expensive |-> FALSE, event |-> {}, known |-> TRUE]

PathOf(suffix, area) == [suffix |-> suffix, correction |-> FALSE, exists |-> TRUE, area |-> area]

\* A task about documents without approval; a change of a script with the approval
\* and the whole contract; a design by several agents, with its tracking file.
MCRequests ==
  {[Plain EXCEPT !.types = {"docs"}, !.id = TRUE],
   [Plain EXCEPT !.types = {"rules-script"}, !.paths = {PathOf(".py", "runtime")}, !.label = TRUE,
                 !.id = TRUE, !.contract = ContractFields, !.expensive = TRUE],
   [Plain EXCEPT !.types = {"design-only"}, !.words = {"multi-agent"}, !.source = "web",
                 !.tracking = {"requirements", "trigger log", "task types"},
                 !.event = {"plan-output"}, !.known = FALSE]}

\* All that the final gate of a script change asks for, and the same without
\* the plan of the proxy.
CompleteEvents(proxy) ==
  {Event(1, "input-filter", {}), Event(1, "client-identity", {"client_type", "model_id"}),
   Event(1, "command-compression", {"decision", "groups", "scope_kind"}),
   Event(1, "plan-approval", {"execution_policy", "push needs approval", "approved"}),
   Event(1, "user-claims", {"claims", "claims policy"}),
   Event(1, "state-ownership", {"generated_state_classes", "manual edits forbidden", "owner_policy"}),
   Event(1, "patch-preflight", {"anchors verified", "small steps"}),
   Event(1, "agent-decision", GeneratedDecision),
   Event(1, "data-confirmation", {"confirmation_sources", "checked_facts", "unverified_items"}),
   Event(1, "shell-proxy", proxy),
   Event(1, "history-recovery", {"history_sources", "recovered", "not_adopted"}),
   Event(1, "readonly-side-effect", {"readonly_contract", "db_write_allowed", "record_state_allowed",
                                     "side_effect_class", "dry_run_supported", "may write"}),
   Event(1, "discovered-issues", {"issues"}),
   Event(1, "analysis-contract", {"analysis_summary", "scope", "non_goals", "risks", "acceptance"}),
   Event(1, "capability-gateway", GatewayFacts), Event(1, "command-error", CommandErrorFacts)}

CompleteTables(proxy) ==
  [triggers |-> {"user-message", "scope-classification"}, outputs |-> OutputTypes,
   requirements |-> {"done"}, approvals |-> {{"approved", "label"}},
   worktrees |-> {UsableWorktree}, validations |-> {{"pass"}}, events |-> CompleteEvents(proxy),
   spans |-> {}]

MCPayloads ==
  {[task |-> [types |-> {"rules-script"}, size |-> "medium", status |-> "active", label |-> TRUE],
    tables |-> CompleteTables(proxy)] :
     proxy \in {{"exception_reason"}, GeneratedShellProxy \cup {"exception_reason"}}}
    \cup {SamplePayload}

\* Documents written by several agents.
MCDispatches == {{"docs", "multi-agent"}}

MCEvents ==
  {Event(2, "command-error", {"failed_command"}), Event(2, "design-package", {"problem"})}

MCEvidence ==
  {[table |-> "validations", row |-> {"fail"}],
   [table |-> "worktrees", row |-> UsableWorktree \ {"not pushed"}]}

MCStatuses == {"blocked"}

\* git fails under the shell adapter and under task-run.
MCCommands ==
  {[runner |-> runner, command |-> {"git"}, code |-> 1, file |-> FALSE] :
     runner \in {"shell-adapter", "task-run"}}

MCRewrites == {[status |-> "failed", task |-> TRUE], [status |-> "started", task |-> FALSE]}

MCAsked == {[final |-> TRUE, types |-> {"docs"}]}
=============================================================================
