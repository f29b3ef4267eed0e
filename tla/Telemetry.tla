------------------------------ MODULE Telemetry ------------------------------
(***************************************************************************)
(* The spans of records/telemetry.py: how the rows of a command become one *)
(* span, how a failed command is classified, and who counts what.          *)
(*                                                                         *)
(* A command is the set of what its text shows: a pipe, python -c, a word  *)
(* for JSON, an option that takes JSON, braces, and so on.  A span holds   *)
(* its status, its exit code (0 also when there is none), whether it names *)
(* the task, the category its attributes give ("none" without one) and the *)
(* command.                                                                *)
(***************************************************************************)
EXTENDS Naturals, Sequences

Unclassified == "unclassified_command_failure"

JsonPipeline(command) == {"pipe", "python -c", "json word"} \subseteq command
InlineJson(command) == {"json option", "braces"} \subseteq command

\* A command file takes every risk away except the pipe into python.
InlineRisks(command, fromFile) ==
  IF fromFile /\ ~ JsonPipeline(command) THEN {}
  ELSE {risk \in {"json-stdin-postprocess", "python-c-inline", "inline-json", "powershell-backtick",
                  "mixed-quotes", "powershell-variable-assignment", "many-statements"} :
          CASE risk = "json-stdin-postprocess" -> JsonPipeline(command)
            [] risk = "python-c-inline" -> "python -c" \in command /\ ~ fromFile
            [] risk = "inline-json" -> InlineJson(command)
            [] risk = "powershell-backtick" -> "backtick" \in command
            [] risk = "mixed-quotes" -> "mixed quotes" \in command
            [] risk = "powershell-variable-assignment" -> {"assignment", "separator"} \subseteq command
            [] OTHER -> "many separators" \in command}

\* The first pattern that fits gives the category of a command that failed.
Patterns(command, code, fromFile) ==
  <<<<"pipeline_python_c_json_postprocess", JsonPipeline(command)>>,
    <<"python_c_inline_quoting", "python -c" \in command>>,
    <<"inline_json_quoting", InlineJson(command)>>,
    <<"powershell_inline_complex_command", InlineRisks(command, fromFile) # {}>>,
    <<"argparse_usage_error", "governance" \in command /\ code = 2>>,
    <<"git_command_failed", "git" \in command>>,
    <<"working_directory_command_failed", "cd" \in command>>,
    <<Unclassified, TRUE>>>>

\* Without an exit code nothing is classified.
Category(command, code, fromFile) ==
  LET Fits(pattern) == pattern[2] IN
  IF code = 0 THEN "none" ELSE Head(SelectSeq(Patterns(command, code, fromFile), Fits))[1]

-----------------------------------------------------------------------------
NoSpan == [status |-> "none", code |-> 0, task |-> FALSE, error |-> "none", command |-> {}]
SpanRow(status, code, task, error, command) ==
  [status |-> status, code |-> code, task |-> task, error |-> error, command |-> command]

\* Status and exit code only change with a row that is not "started"; task and
\* attributes are those of the last row, whatever it is.
Upserted(span, row) ==
  IF span.status = "none" THEN row
  ELSE [row EXCEPT !.status = IF row.status = "started" THEN span.status ELSE row.status,
                   !.code = IF row.status = "started" THEN span.code ELSE row.code]

\* Only the shell adapter classifies the commands that fail.
RunnerError(runner, command, code, fromFile) ==
  IF runner = "shell-adapter" THEN Category(command, code, fromFile) ELSE "none"

\* A row that is written by hand: what telemetry record is given as attributes are
\* words, and no category of a failure.
HandRow(status, task, command) == SpanRow(status, 0, task, "none", command)

\* The spans of the task, and those among them that failed.
OfTask(spans) == {s \in DOMAIN spans : spans[s].status # "none" /\ spans[s].task}
Failures(spans) == {s \in OfTask(spans) : spans[s].status = "failed" \/ spans[s].code # 0}

\* Fault: a failure that nobody has classified counts as classified.
GateCategory_Lenient(span) == span.error

\* The gate goes by the attributes alone.
GateCategory(span) == IF span.error = "none" THEN Unclassified ELSE span.error

\* The report classifies the command itself when the attributes say nothing,
\* and counts what it cannot classify with the unclassified.
ReportCategory(span) ==
  LET found == IF span.error = "none" THEN Category(span.command, span.code, FALSE) ELSE span.error IN
  IF found = "none" THEN Unclassified ELSE found

\* The failed spans of the task as the checks of its record see them.
SpanClasses(spans) ==
  {IF GateCategory(spans[s]) = Unclassified THEN "unclassified" ELSE "classified" :
     s \in Failures(spans)}

\* The failed spans that the telemetry report counts as unclassified.
ReportedUnclassified(spans) ==
  {s \in Failures(spans) : ReportCategory(spans[s]) = Unclassified}
=============================================================================
