----------------------------- MODULE Completion -----------------------------
(***************************************************************************)
(* The analysis contract, the planned checks and the validation budget of  *)
(* validation/completion.py.  A path is its suffix and the area it is in:  *)
(* "worktree" and "runtime" are the sources whose change asks for checks.  *)
(***************************************************************************)
EXTENDS Registry, Integers, FiniteSetsExt

Budget(full) == IF full THEN 600 ELSE 90

ContractFields == {"summary", "scope", "non-goal", "risk", "acceptance"}

\* Changed paths stand in for the scope.
MissingFields(stated, paths) ==
  ContractFields \ (stated \cup (IF paths # {} THEN {"scope"} ELSE {}))

-----------------------------------------------------------------------------
Seconds(check) ==
  CASE check \in {"py-compile", "validate-encoding", "runtime-components"} -> 5
    [] check \in {"gate-pool-dry-run", "worktree-reconcile", "worktree-status"} -> 8
    [] check = "host-closeout" -> 10
    [] check \in {"validate-doc", "doc-index"} -> 15
    [] check = "focused-regression" -> 20
    [] check = "browser-check" -> 90
    [] check = "resume-pdf-export" -> 180
    [] check = "selftest" -> 240
    [] check = "acceptance-review" -> 2

Suffixes(paths) == {path.suffix : path \in paths}
InArea(paths, areas) == \E path \in paths : path.area \in areas

PlannedBySurface(types, paths) ==
  (IF ".py" \in Suffixes(paths) THEN {"py-compile"} ELSE {})
    \cup (IF Suffixes(paths) \cap TextSuffixes # {} THEN {"validate-encoding"} ELSE {})
    \cup (IF ".md" \in Suffixes(paths) \/ "docs" \in types THEN {"validate-doc", "doc-index"} ELSE {})
    \cup (IF "rules-script" \in types \/ InArea(paths, {"runtime", "worktree"})
            THEN {"runtime-components", "gate-pool-dry-run", "focused-regression", "selftest"} ELSE {})
    \cup (IF "git" \in types \/ InArea(paths, {"worktree"})
            THEN {"worktree-reconcile", "worktree-status", "host-closeout"} ELSE {})
    \cup (IF "resume" \in types THEN {"resume-pdf-export"} ELSE {})
    \cup (IF "frontend" \in types THEN {"browser-check"} ELSE {})

PlannedChecks(types, paths) ==
  IF PlannedBySurface(types, paths) = {} THEN {"acceptance-review"} ELSE PlannedBySurface(types, paths)

\* The fast profile leaves the whole suite out.
RequiredChecks(types, paths, full) ==
  PlannedChecks(types, paths) \ ({"acceptance-review"} \cup (IF full THEN {} ELSE {"selftest"}))

RequiredSeconds(types, paths, full) == MapThenSumSet(Seconds, RequiredChecks(types, paths, full))

BlockedByBudget(types, paths, full, budget, allowExpensive) ==
  RequiredSeconds(types, paths, full) > budget /\ ~ allowExpensive

\* The verdict of completion-test when it is not asked for evidence: stated are the
\* fields of the contract it was given, which count only with --require-analysis.
CompletionPasses(stated, require, types, paths, full, budget, allowExpensive) ==
  /\ require => MissingFields(stated, paths) = {}
  /\ ~ BlockedByBudget(types, paths, full, budget, allowExpensive)
=============================================================================
