------------------------------ MODULE Registry ------------------------------
(***************************************************************************)
(* The components of runtime/registry.py and the contexts in which each    *)
(* matches.  runtime-components.json, which is read first, holds the same  *)
(* components.                                                             *)
(*                                                                         *)
(* A changed path is its suffix, whether it is a correction record and     *)
(* whether the file exists.  ".json" stands for the suffixes that are text *)
(* and have an impact on documents, ".css" for those that are only text,   *)
(* "" for any other.                                                       *)
(***************************************************************************)
EXTENDS FiniteSets

Events == {"user-message", "plan-output", "status-output", "write-intent", "after-change",
           "completion-test", "final-output", "resume", "merge-cleanup", "session-start", "state-audit"}

\* The task types the components name together, and all of them.
ChangeTypes == {"code-debug", "correction", "rules-script", "docs", "git", "frontend", "resume",
                "multi-agent"}
TaskTypes == ChangeTypes \cup {"long-running"}

NeedsTracking == TaskTypes \ {"code-debug", "frontend"}
NeedsApproval == ChangeTypes \ {"code-debug", "frontend"}

ImpactSuffixes == {".py", ".md", ".json"}
TextSuffixes == ImpactSuffixes \cup {".css"}

Path == [suffix : TextSuffixes \cup {""}, correction : BOOLEAN, exists : BOOLEAN]
Context == [types : SUBSET TaskTypes, paths : SUBSET Path, final : BOOLEAN, event : Events,
            sized : BOOLEAN, web : BOOLEAN]

-----------------------------------------------------------------------------
(***************************************************************************)
(* A component: its kind, its step or, without one, its id, and its        *)
(* conditions; an empty set stands for no condition.                       *)
(***************************************************************************)
Gate == [id |-> "", kind |-> "cross-cutting-gate", step |-> "", types |-> {}, events |-> {},
         suffixes |-> {}, sized |-> FALSE, corrections |-> FALSE, needsPaths |-> FALSE,
         finalOnly |-> FALSE, webOnly |-> FALSE]
Interceptor == [Gate EXCEPT !.kind = "processing-interceptor"]
Filter == [Gate EXCEPT !.kind = "input-filter"]
Output == [Gate EXCEPT !.kind = "output-interceptor"]
Reporter == [Gate EXCEPT !.kind = "reporter"]

Reported == {"status-output", "resume", "final-output"}
Analysed == {"user-message", "plan-output", "write-intent", "resume", "final-output"}
Changing == {"write-intent", "after-change", "resume", "final-output"}

EntryFilters ==
  {[Filter EXCEPT !.step = "input-filter-preflight", !.events = {"user-message"}],
   [Interceptor EXCEPT !.step = "capability-gateway", !.types = ChangeTypes,
                       !.events = {"user-message"} \cup Changing],
   [Filter EXCEPT !.step = "client-identity", !.events = {"user-message", "resume"}],
   [Filter EXCEPT !.id = "classify-source", !.events = {"user-message", "resume"}]}

RecoveryFilters ==
  {[Filter EXCEPT !.step = step, !.events = {"user-message", "resume"}] :
     step \in {"user-claim-validation", "agent-decision", "data-confirmation",
               "history-requirement-recovery"}}

\* What medium and large tasks have to record before they go on.
Analysis(step) == [Interceptor EXCEPT !.step = step, !.sized = TRUE, !.events = Analysed]

UsageAnalyses == {Analysis("shell-proxy-usage"), Analysis("readonly-side-effect-policy")}

RequirementFilters ==
  {[Filter EXCEPT !.id = id, !.events = {"user-message"}] :
     id \in {"decompose-requirements", "recordability-judgement", "network-search-judgement",
             "skill-router"}}
    \cup {[Filter EXCEPT !.id = "acceptance-extract", !.events = {"user-message", "plan-output"}],
          [Filter EXCEPT !.id = "citation-boundary", !.webOnly = TRUE]}

TrackingComponents ==
  {Analysis("plan-approval-boundary"), Analysis("command-compression"),
   [Interceptor EXCEPT !.id = "task-tracking", !.sized = TRUE],
   [Interceptor EXCEPT !.id = "structured-contract", !.sized = TRUE,
                       !.events = Analysed \ {"final-output"}],
   [Gate EXCEPT !.step = "analysis-contract", !.sized = TRUE,
                !.events = {"plan-output", "write-intent", "resume", "final-output"}]}

ChangeInterceptors ==
  {[Analysis("command-compression") EXCEPT !.sized = FALSE, !.types = ChangeTypes],
   Analysis("scope-classification"),
   [Interceptor EXCEPT !.step = "state-artifact-ownership", !.types = {"rules-script"},
                       !.events = Changing],
   [Interceptor EXCEPT !.step = "patch-preflight", !.types = {"correction", "docs", "rules-script"},
                       !.events = Changing \ {"final-output"}]}

TaskGates ==
  {[Interceptor EXCEPT !.step = "task-run-diagnostics", !.sized = TRUE, !.events = Changing],
   [Gate EXCEPT !.step = "task-record", !.sized = TRUE,
                !.events = {"user-message", "write-intent", "final-output", "resume"}],
   [Interceptor EXCEPT !.id = "task-size", !.sized = TRUE],
   [Gate EXCEPT !.id = "task-gate.requirements", !.sized = TRUE],
   [Interceptor EXCEPT !.id = "approval", !.types = NeedsApproval,
                       !.events = {"write-intent", "plan-output"}],
   [Gate EXCEPT !.step = "task-gate", !.types = {"rules-script"}],
   [Gate EXCEPT !.step = "session-gate", !.types = {"rules-script"}],
   [Interceptor EXCEPT !.id = "external-practice-check", !.types = {"rules-script"}]}

WorktreeGates ==
  {[Interceptor EXCEPT !.id = "git-boundary", !.types = {"git"},
                       !.events = {"plan-output", "write-intent", "final-output"}],
   [Gate EXCEPT !.step = "worktree-creation-policy", !.types = ChangeTypes,
                !.events = {"plan-output", "write-intent", "resume"}],
   [Gate EXCEPT !.step = "worktree-live-state", !.types = ChangeTypes,
                !.events = {"write-intent", "resume", "merge-cleanup", "final-output"}],
   [Interceptor EXCEPT !.id = "worktree-isolation", !.types = ChangeTypes, !.events = {"write-intent"}],
   [Gate EXCEPT !.step = "task-record", !.types = ChangeTypes, !.events = {"write-intent"}],
   [Gate EXCEPT !.step = "host-submodule-closeout", !.types = {"git", "rules-script"},
                !.events = {"merge-cleanup", "final-output"}]}

AgentComponents ==
  {[Interceptor EXCEPT !.id = id, !.types = {"multi-agent"}] : id \in {"agent-context-reuse", "agent-brief"}}
    \cup {[Interceptor EXCEPT !.step = "task-record-queue-alignment", !.events = Reported],
          [Interceptor EXCEPT !.step = "task-gate", !.types = {"multi-agent"}]}

ReviewGates ==
  {[Gate EXCEPT !.step = "task-record gate", !.types = {"multi-agent"}, !.finalOnly = TRUE,
                !.events = {"final-output", "merge-cleanup"}]}

SessionComponents ==
  {[Interceptor EXCEPT !.id = "pending-recovery", !.types = {"long-running"}],
   [Interceptor EXCEPT !.id = "sync-check", !.types = {"long-running"},
                       !.events = {"session-start", "status-output"}],
   [Interceptor EXCEPT !.id = "session-audit", !.types = {"long-running"}, !.events = Reported]}
    \cup {[Reporter EXCEPT !.step = step, !.events = {"session-start", "status-output", "resume"}] :
            step \in {"session-bootstrap", "skill-sync"}}

PostChange ==
  {[Interceptor EXCEPT !.step = "git-diff-check", !.needsPaths = TRUE],
   [Interceptor EXCEPT !.step = "doc-index", !.types = {"docs"}],
   [Interceptor EXCEPT !.step = "doc-index", !.types = {"rules-script", "docs"},
                       !.suffixes = ImpactSuffixes, !.needsPaths = TRUE],
   [Interceptor EXCEPT !.step = "validate-doc", !.types = {"docs"}],
   [Interceptor EXCEPT !.step = "validate-doc", !.suffixes = {".md"}],
   [Interceptor EXCEPT !.id = "resume-export", !.types = {"resume"}]}

PostChangeGates ==
  {[Gate EXCEPT !.step = "doc-index", !.suffixes = {".md"}],
   [Gate EXCEPT !.step = "doc-index", !.types = {"rules-script", "docs"}, !.suffixes = ImpactSuffixes,
                !.needsPaths = TRUE]}

ValidationGates ==
  {[Gate EXCEPT !.step = "py-compile", !.suffixes = {".py"}],
   [Gate EXCEPT !.step = "validate-encoding", !.suffixes = TextSuffixes],
   [Gate EXCEPT !.step = "security-policy", !.types = ChangeTypes, !.suffixes = TextSuffixes,
                !.needsPaths = TRUE, !.events = {"after-change", "completion-test", "final-output"}],
   [Gate EXCEPT !.step = "validate-doc", !.suffixes = {".md"}],
   [Gate EXCEPT !.step = "scan-corrections", !.types = {"correction"}],
   [Gate EXCEPT !.step = "scan-corrections", !.corrections = TRUE],
   [Gate EXCEPT !.step = "git-diff-check", !.needsPaths = TRUE],
   [Gate EXCEPT !.step = "completion-test-plan", !.needsPaths = TRUE,
                !.events = {"completion-test", "final-output"}]}

OutputComponents ==
  {[Output EXCEPT !.id = id] : id \in {"answer-quality", "user-satisfaction", "finalize-closeout"}}
    \cup {[Output EXCEPT !.id = "document-sync", !.types = {"docs"}],
          [Output EXCEPT !.id = "runtime-effectiveness", !.types = {"docs", "rules-script"}]}

OutputGates ==
  {[Gate EXCEPT !.step = "git-state-audit", !.events = {"plan-output", "status-output", "final-output"}],
   [Gate EXCEPT !.step = "task-record", !.events = {"final-output"}, !.types = NeedsTracking]}

FinalGates ==
  {[Gate EXCEPT !.step = step, !.finalOnly = TRUE] :
     step \in {"architecture-guard", "file-ownership", "task-gate", "session-gate", "task-queue"}}

Reporters ==
  {[Reporter EXCEPT !.step = "tool-gateway", !.events = Reported],
   [Gate EXCEPT !.step = "framework-debt", !.events = {"plan-output", "resume", "final-output"}]}
    \cup {[Reporter EXCEPT !.step = step, !.events = Reported, !.finalOnly = TRUE] :
            step \in {"telemetry", "shell-adapter-diagnostics", "task-record-queue-alignment"}}

RunReporters ==
  {[Reporter EXCEPT !.step = "tool-flow", !.finalOnly = TRUE],
   [Reporter EXCEPT !.step = "task-run-diagnostics", !.events = Reported],
   [Interceptor EXCEPT !.step = "task-run-diagnostics", !.types = ChangeTypes, !.events = Changing],
   [Interceptor EXCEPT !.step = "raw-shell-coverage", !.types = ChangeTypes, !.events = Changing]}

Components ==
  UNION {EntryFilters, RecoveryFilters, UsageAnalyses, RequirementFilters, TrackingComponents,
         ChangeInterceptors, TaskGates, WorktreeGates, AgentComponents, ReviewGates,
         SessionComponents, PostChange, PostChangeGates, ValidationGates, OutputComponents,
         OutputGates, FinalGates, Reporters, RunReporters}

-----------------------------------------------------------------------------
Matches(c, context) ==
  /\ c.finalOnly => context.final
  /\ c.events # {} => context.event \in c.events
  /\ c.types # {} => c.types \cap context.types # {}
  /\ c.sized => context.sized
  /\ c.webOnly => context.web
  /\ c.needsPaths => context.paths # {}
  /\ c.suffixes # {} => \E path \in context.paths : path.suffix \in c.suffixes
  /\ c.corrections => \E path \in context.paths : path.correction

Matching(context) == {c \in Components : Matches(c, context)}

\* Only the cross-cutting gates count.
GateSteps(context) ==
  {c.step : c \in {m \in Matching(context) : m.kind = "cross-cutting-gate"}} \ {""}

=============================================================================
