----------------------------- MODULE MCTaskRun -----------------------------
\* Small instances of TaskRun: two validations, one of them of live state, an
\* ordered command the policy wants a label for, a look at the status, and a
\* command that begins like one and deletes what it finds.
EXTENDS TaskRun, TLC

MCCommands == {"status", "compileall", "diff-check", "merge", "clear"}
MCShows == [c \in MCCommands |->
  CASE c = "status" -> {"readonly prefix", "live prefix"}
    [] c = "merge" -> {"stateful word", "git write"}
    [] c = "diff-check" -> {"validation word", "live prefix"}
    [] c = "clear" -> {"readonly prefix", "delete"}
    [] OTHER -> {"validation word"}]

\* compileall needs the right inputs and the right HEAD, the others nothing.
MCGood == {k \in MCCommands \X Contents \X Heads : k[1] = "compileall" => k[2] = 1 /\ k[3] = 1}

MCOption(inParallel, stopEarly, withLabel) ==
  [parallel |-> inParallel, failFast |-> stopEarly, cache |-> TRUE, label |-> withLabel,
   telemetry |-> TRUE, failOn |-> "approval_required"]

MCAsked ==
  {[request |-> <<"compileall", "diff-check", "merge">>, option |-> MCOption(TRUE, TRUE, TRUE)],
   [request |-> <<"compileall", "status", "compileall">>, option |-> MCOption(FALSE, FALSE, FALSE)],
   [request |-> <<"clear">>, option |-> MCOption(FALSE, FALSE, FALSE)]}
MCEditAsked ==
  {[request |-> <<"merge", "compileall">>, option |-> MCOption(FALSE, FALSE, TRUE)]}

Symmetry == Permutations(Runs)
=============================================================================
