------------------------------ MODULE Lifecycle ------------------------------
(***************************************************************************)
(* lifecycle/engine.py: how a request is classified, the record that       *)
(* input-filter makes of it, and what preflight and finalize ask for apart *)
(* from the verdict of the record's gate.                                  *)
(*                                                                         *)
(* A request is one call with its options: the types given and those whose *)
(* keywords the message has, the changed paths (suffix, area), where the   *)
(* message came from, whether it is broad or long, the approval label, the *)
(* tracking file and the task id, who names client and model, and of the   *)
(* analysis options the fields that are filled in, the profile, the budget *)
(* and --allow-expensive.  An option left out is the empty set.            *)
(***************************************************************************)
EXTENDS Completion, RecordChecks

Areas == {"", "embedded", "adapter", "runtime", "worktree"}

TypesOf(request) ==
  request.types \cup request.words
    \cup (IF ".md" \in Suffixes(request.paths) THEN {"docs"} ELSE {})
    \cup (IF ".py" \in Suffixes(request.paths) \/ InArea(request.paths, {"embedded", "adapter"})
            THEN {"rules-script"} ELSE {})

Count(request, suffix) == Cardinality({path \in request.paths : path.suffix = suffix})

IsLarge(request) ==
  \/ Cardinality(TypesOf(request)) >= 3
  \/ Cardinality(request.paths) > 3
  \/ {"rules-script", "docs"} \subseteq TypesOf(request)
  \/ InArea(request.paths, {"embedded"})
  \/ request.broad
  \/ Count(request, ".md") >= 3 \/ Count(request, ".py") >= 2

SizeOf(request) ==
  IF IsLarge(request) THEN "large"
  ELSE IF \/ TypesOf(request) \cap MutatingTypes # {}
          \/ request.paths # {} \/ request.source = "web" \/ request.long
         THEN "medium" ELSE "small"

RequiresTracking(request) ==
  SizeOf(request) \in {"medium", "large"} \/ TypesOf(request) \cap NeedsTracking # {}

RequiresApproval(request) == request.paths # {} \/ TypesOf(request) \cap NeedsApproval # {}

\* What an option was given, or else its default.
Given(option, default) == IF option = {} THEN default ELSE CHOOSE value \in option : TRUE

\* preflight without a path or a type given is about the plan only.
EventOf(request, command) ==
  Given(request.event,
        CASE command = "preflight" ->
               IF request.paths # {} \/ request.types # {} THEN "write-intent" ELSE "plan-output"
          [] command = "finalize" -> "final-output"
          [] OTHER -> "user-message")

ContextOf(request, event, final) ==
  [types |-> TypesOf(request), paths |-> request.paths, final |-> final, event |-> event,
   sized |-> SizeOf(request) \in {"medium", "large"}, web |-> request.source = "web" /\ ~ final]

-----------------------------------------------------------------------------
(***************************************************************************)
(* The record input-filter makes.                                          *)
(***************************************************************************)
\* Each segment of the message becomes an open requirement and a claim.
GeneratedTask(request) ==
  [types |-> TypesOf(request), size |-> SizeOf(request), status |-> "active",
   label |-> request.label]

ApprovalStatus(request) ==
  IF request.label THEN "approved"
  ELSE IF RequiresApproval(request) THEN "missing" ELSE "not_required"

\* The proxy is planned and neither used nor excused yet.
GeneratedShellProxy ==
  {"policy", "planned_runner", "proxy mode", "no_profile", "profile not touched", "no user impact"}

GeneratedDecision ==
  {"decision", "context_pack_ref", "confirmation", "no_spawn_reason", "alternative_validation",
   "residual_risk"}

\* A client or a model that neither the options nor the environment name is
\* called "unknown", and that is a name, of which the gate only warns.
GeneratedIdentity(request) ==
  Event(1, "client-identity",
        {"client_type", "model_id"} \cup (IF request.known THEN {} ELSE {"unknown"}))

GeneratedAnalyses(request) ==
  {Event(1, "input-filter", {}),
   Event(1, "agent-decision", GeneratedDecision),
   Event(1, "data-confirmation", {"confirmation_sources", "checked_facts", "unverified_items"}),
   Event(1, "shell-proxy", GeneratedShellProxy),
   Event(1, "history-recovery", {"history_sources", "recovered", "not_adopted"}),
   Event(1, "readonly-side-effect", {"readonly_contract", "db_write_allowed", "record_state_allowed",
                                     "side_effect_class", "dry_run_supported", "may write"}),
   GeneratedIdentity(request),
   Event(1, "command-compression", {"decision", "selected_pattern", "groups", "scope_kind"})}

\* Fault: the claims are listed without the policy for them.
GeneratedBoundaries_NoPolicy(request) ==
  {Event(1, "plan-approval", {"execution_policy", "push needs approval", ApprovalStatus(request)}),
   Event(1, "user-claims", {"claims"}),
   Event(1, "state-ownership", {"generated_state_classes", "manual edits forbidden", "owner_policy"}),
   Event(1, "patch-preflight", {"anchors verified", "small steps"}),
   Event(1, "analysis-contract", {"analysis_summary", "scope", "non_goals", "risks", "acceptance"}),
   Event(1, "capability-gateway", GatewayFacts)}

\* One claim for each segment of the message.
GeneratedClaims(request) == {"claims policy"} \cup (IF request.message THEN {"claims"} ELSE {})

GeneratedBoundaries(request) ==
  {Event(1, "plan-approval", {"execution_policy", "push needs approval", ApprovalStatus(request)}),
   Event(1, "user-claims", GeneratedClaims(request)),
   Event(1, "state-ownership", {"generated_state_classes", "manual edits forbidden", "owner_policy"}),
   Event(1, "patch-preflight", {"anchors verified", "small steps"}),
   Event(1, "analysis-contract", {"analysis_summary", "scope", "non_goals", "risks", "acceptance"}),
   Event(1, "capability-gateway", GatewayFacts)}

\* Without a message there is no segment and so no requirement.
GeneratedRecord(request) ==
  [triggers |-> {"user-message", "input-filter", "client-identity", "command-compression",
                 "scope-classification", "plan-approval-boundary", "user-claim-validation"},
   outputs |-> OutputTypes,
   requirements |-> IF request.message THEN {"open"} ELSE {},
   approvals |-> IF request.label THEN {{"approved", "label"}} ELSE {},
   worktrees |-> {}, validations |-> {}, spans |-> {},
   events |-> GeneratedAnalyses(request) \cup GeneratedBoundaries(request)]

-----------------------------------------------------------------------------
(***************************************************************************)
(* What preflight and finalize look at besides the record.                 *)
(***************************************************************************)
TrackingSections(request) ==
  {"requirements", "trigger log", "task types"}
    \cup (IF "rules-script" \in TypesOf(request) THEN {"network check", "script capability"} ELSE {})
    \cup (IF "docs" \in TypesOf(request) THEN {"impact scan", "definition of done"} ELSE {})

\* tracking is the set of sections of the file given, or {"missing file"}.
TrackingHolds(request) ==
  /\ RequiresTracking(request) => request.tracking # {} \/ request.id
  /\ request.tracking # {} => TrackingSections(request) \subseteq request.tracking

\* A route that needs a record and names none is an error.
RecordIsNamed(request) == RequiresTracking(request) => request.id

\* A budget of no seconds is one, too.
BudgetOf(request) == Given(request.budget, Budget(request.full))

ContractHolds(request) ==
  "analysis-contract" \in GateSteps(ContextOf(request, EventOf(request, "preflight"), FALSE)) =>
    /\ MissingFields(request.contract, request.paths) = {}
    /\ ~ BlockedByBudget(TypesOf(request), request.paths, request.full, BudgetOf(request),
                         request.expensive)

\* The gate-pool that finalize starts.
PoolContext(request) ==
  [ContextOf(request, "final-output", TRUE) EXCEPT
     !.sized = TypesOf(request) # {} \/ request.paths # {}, !.web = FALSE]

\* What completion-test would say of the analysis options, the profile, the budget
\* and --allow-expensive that the call itself is given.
OwnVerdict(request) ==
  CompletionPasses(request.contract, TRUE, TypesOf(request), request.paths, request.full,
                   BudgetOf(request), request.expensive)

\* finalize hands its pool neither the analysis options nor profile, budget
\* and --allow-expensive: completion-test sees what it would see without them.
PoolContract(request) ==
  "completion-test-plan" \in GateSteps(PoolContext(request)) =>
    CompletionPasses({}, "analysis-contract" \in GateSteps(PoolContext(request)), TypesOf(request),
                     request.paths, FALSE, Budget(FALSE), FALSE)

FinalCommands(request) ==
  (IF "doc-index" \in GateSteps(ContextOf(request, "final-output", TRUE)) /\ request.tracking = {}
     THEN {"doc-index"} ELSE {})
    \cup (IF request.id \/ request.tracking # {} THEN {"gate-pool"} ELSE {})

\* What the pool may report: any of its gates may fail for itself, and it stops at
\* the first that does; the gate of the record comes after completion-test.
PoolErrors(request) ==
  (IF PoolContract(request) THEN {{}, {"gate-pool"}}
   ELSE {{"gate-pool"}, {"gate-pool", "completion-test"}})
=============================================================================
