---------------------------- MODULE CommandPolicy ----------------------------
(***************************************************************************)
(* What src/ai_client_governance makes of the text of a command: the kind  *)
(* and capability that runtime/task_run.py plans by, and the decision of   *)
(* gates/policy.py.                                                        *)
(*                                                                         *)
(* A command is the set of the marks its text shows.  A mark stands for    *)
(* one list of words or prefixes, or one pattern, of the code; a text may  *)
(* show several, and begin like a look at something and go on to delete.   *)
(***************************************************************************)
EXTENDS Naturals, Sequences

Marks == {"stateful word", "validation word", "readonly prefix", "live prefix", "telemetry wrapper",
          "git push", "git write", "git rm or mv", "delete", "install", "network",
          "shell operator", "secret", "path escape"}

\* The answer that comes with the first mark of a list that the command shows.
FirstOf(list, marks, otherwise) ==
  LET shown == {i \in DOMAIN list : list[i][1] \in marks} IN
  IF shown = {} THEN otherwise
  ELSE list[CHOOSE i \in shown : \A j \in shown : i <= j][2]

ClassifyCommand(marks) ==
  FirstOf(<<<<"stateful word", "stateful">>, <<"validation word", "validation">>,
            <<"readonly prefix", "readonly">>, <<"telemetry wrapper", "telemetry-wrapped">>>>,
          marks, "sequential")

\* What the plan says the command does: what its kind says, unless a word says
\* otherwise.
CapabilityOf(marks) ==
  FirstOf(<<<<"git push", "git_push">>, <<"git write", "git_write">>, <<"delete", "delete">>,
            <<"install", "install">>, <<"network", "network">>>>,
          marks, ClassifyCommand(marks))

\* What the plan says wants approval, and what may be answered from the cache.
ApprovalRequired(marks) ==
  \/ ClassifyCommand(marks) = "stateful"
  \/ CapabilityOf(marks) \in {"git_push", "git_write", "delete", "install"}

CacheEligible(marks) ==
  ClassifyCommand(marks) \in {"readonly", "validation"} /\ "live prefix" \notin marks

-----------------------------------------------------------------------------
\* Fault: words that delete are no finding.
CommandFindings_NoDelete(marks) ==
  {finding \in {<<"git push", "approval_required">>, <<"git write", "approval_required">>,
                <<"secret", "block">>, <<"path escape", "warn">>} : finding[1] \in marks}

\* The findings about a command, each with the action it asks for.
CommandFindings(marks) ==
  {finding \in {<<"git push", "approval_required">>, <<"git write", "approval_required">>,
                <<"git rm or mv", "approval_required">>, <<"delete", "approval_required">>,
                <<"install", "approval_required">>, <<"network", "warn">>,
                <<"shell operator", "approval_required">>, <<"secret", "block">>,
                <<"path escape", "warn">>} : finding[1] \in marks}

Rank == [allow |-> 0, warn |-> 1, approval_required |-> 2, block |-> 3]

\* The decision is that of the worst finding.
CombineDecision(findings) ==
  LET actions == {finding[2] : finding \in findings} \cup {"allow"} IN
  CHOOSE decision \in actions : \A action \in actions : Rank[action] <= Rank[decision]

Assess(marks) == CombineDecision(CommandFindings(marks))

DecisionFails(decision, failOn) == failOn # "none" /\ Rank[decision] >= Rank[failOn]
=============================================================================
