------------------------------ MODULE TaskRun ------------------------------
(***************************************************************************)
(* task-run run of src/ai_client_governance/runtime/task_run.py: a list of *)
(* commands is deduplicated, grouped and executed, with telemetry rows     *)
(* around every command and a cache of the successes of read-only and      *)
(* validation commands.                                                    *)
(*                                                                         *)
(* A run is a process; the commands of a batch are its threads.  Several   *)
(* runs share the cache directory and the tree.  A run may be killed       *)
(* between any two steps, and a thread may raise where the code does not   *)
(* catch: at the SQLite errors of telemetry, and when it writes the cache. *)
(*                                                                         *)
(* The tree is what the declared input files hold and what HEAD is; a      *)
(* readonly or validation command can only succeed where Good says so.     *)
(***************************************************************************)
EXTENDS Integers, Sequences, FiniteSets, CommandPolicy

CONSTANTS
  Runs,       \* task-run processes
  Commands,   \* normalised commands
  Shows,      \* per command: the marks of CommandPolicy that its text shows
  Contents,   \* what the declared inputs can hold
  Heads,      \* what HEAD can be
  Good,       \* the <<command, inputs, head>> where the command succeeds
  Edits,      \* ordered commands that may change the inputs
  Commits,    \* ordered commands that may move HEAD
  Asked,      \* the command lists that are asked for, each with its options
  MaxWorkers, \* --max-workers
  Quiet       \* whether people leave the tree alone while a run is running

Batched == {"readonly", "validation"}
Ordered == {"stateful", "sequential", "telemetry-wrapped"}
Option == [parallel : BOOLEAN, failFast : BOOLEAN, cache : BOOLEAN, label : BOOLEAN,
           telemetry : BOOLEAN, failOn : {"none", "warn", "approval_required", "block"}]
Requests == {asked.request : asked \in Asked}
Keys == Commands \X Contents \X Heads
Kind == [c \in Commands |-> ClassifyCommand(Shows[c])]

ASSUME RunAssumption ==
  /\ Shows \in [Commands -> SUBSET Marks]
  /\ Good \subseteq Keys
  /\ Edits \cup Commits \subseteq {c \in Commands : Kind[c] \in Ordered}
  /\ Asked \subseteq [request : Seq(Commands), option : Option]
  /\ MaxWorkers \in Nat \ {0}
  /\ Quiet \in BOOLEAN

VARIABLES
  inputs, head,  \* the tree
  cache,         \* per key: the cache file is absent, torn or whole
  run,           \* per process: its phase, request, input hashes and option
  node,          \* per process: how far each position of its request is
  rows           \* per process: the telemetry rows <<position, status>> of its run

vars == <<inputs, head, cache, run, node, rows>>

NoKey == <<>>
NoRun == [phase |-> "idle"]
Run == [phase : {"running", "succeeded", "failed", "aborted"}, request : Requests,
        hashed : Contents, option : Option]
Results == {"none", "succeeded", "cache-hit", "failed", "policy-blocked", "raised"}
Node == [step : {"waiting", "announced", "missed", "caching", "torn", "closing", "done"},
         result : Results, key : Keys \cup {NoKey}]

Waiting == [step |-> "waiting", result |-> "none", key |-> NoKey]
Failing == {"failed", "policy-blocked"}

-----------------------------------------------------------------------------
(***************************************************************************)
(* The plan.  dedupe_commands keeps the first occurrence of a command, and *)
(* group_commands puts adjacent commands of one batched kind together.  A  *)
(* position of the request stands for its node.                            *)
(***************************************************************************)
Kept(request) == {i \in DOMAIN request : \A j \in 1..(i - 1) : request[j] # request[i]}

Group(request, i) ==
  {j \in Kept(request) :
     \/ j = i
     \/ /\ Kind[request[i]] \in Batched
        /\ \A k \in Kept(request) :
             k \in (i..j) \cup (j..i) => Kind[request[k]] = Kind[request[i]]}

\* Fault: the results of a batch are not awaited.
Earlier_Ordered(request, i) ==
  {j \in Kept(request) : j < i /\ Kind[request[j]] \in Ordered}

Earlier(request, i) == {j \in Kept(request) : j < i} \ Group(request, i)

\* A label lets through what wants approval, and never what is blocked.
PolicyFails(c, option) ==
  LET decision == Assess(Shows[c]) IN
  /\ ~(decision = "approval_required" /\ option.label)
  /\ DecisionFails(decision, option.failOn)

Cacheable(c) == CacheEligible(Shows[c])

\* Fault: the key does not name HEAD.
CacheKey_NoHead(r, i) == <<run[r].request[i], run[r].hashed, CHOOSE h \in Heads : TRUE>>

\* The inputs are hashed when the run begins; HEAD is read for every command.
CacheKey(r, i) == <<run[r].request[i], run[r].hashed, head>>

-----------------------------------------------------------------------------
IsRunning(r) == run[r].phase = "running"
At(r, i, step) == IsRunning(r) /\ i \in DOMAIN node[r] /\ node[r][i].step = step

\* A position after which the run goes on: fail-fast stops at a failure, an
\* exception stops every run.
Passed(r, j) ==
  /\ node[r][j].step = "done"
  /\ node[r][j].result # "raised"
  /\ run[r].option.failFast => node[r][j].result \notin Failing

\* The next positions: one of a batch at a time, or, in a parallel run, the
\* first ones of the batch, on at most MaxWorkers threads.
CanStart(r, i) ==
  LET request == run[r].request
      group == Group(request, i)
  IN
  /\ At(r, i, "waiting")
  /\ i \in Kept(request)
  /\ \A j \in Earlier(request, i) : Passed(r, j)
  /\ \/ \A j \in group : j < i => Passed(r, j)
     \/ /\ run[r].option.parallel
        /\ \A j \in group : j < i => node[r][j].step # "waiting"
        /\ Cardinality({j \in group : node[r][j].step \notin {"waiting", "done"}}) < MaxWorkers

Move(r, i, step, result) ==
  node' = [node EXCEPT ![r][i].step = step, ![r][i].result = result]

Raise(r, i) == Move(r, i, "done", "raised")

\* The rows after one more of node i.
Recorded(r, i, status) ==
  IF run[r].option.telemetry THEN [rows EXCEPT ![r] = @ \cup {<<i, status>>}] ELSE rows

\* Blocked by policy: no row says started.
Block(r, i) ==
  /\ CanStart(r, i)
  /\ PolicyFails(run[r].request[i], run[r].option)
  /\ Move(r, i, "closing", "policy-blocked")
  /\ UNCHANGED <<inputs, head, cache, run, rows>>

\* The started row, without which the command is not run.
Announce(r, i) ==
  /\ CanStart(r, i)
  /\ ~PolicyFails(run[r].request[i], run[r].option)
  /\ \/ /\ rows' = Recorded(r, i, "started")
        /\ Move(r, i, "announced", "none")
     \/ /\ run[r].option.telemetry
        /\ Move(r, i, "done", "failed") \/ Raise(r, i)
        /\ UNCHANGED rows
  /\ UNCHANGED <<inputs, head, cache, run>>

\* Only a whole cache file is a hit; one that does not parse is a miss.
Lookup(r, i) ==
  /\ At(r, i, "announced")
  /\ IF run[r].option.cache /\ Cacheable(run[r].request[i])
       THEN LET key == CacheKey(r, i) IN
            IF cache[key] = "whole"
              THEN Move(r, i, "closing", "cache-hit")
              ELSE node' = [node EXCEPT ![r][i] = [step |-> "missed", result |-> "none", key |-> key]]
       ELSE Move(r, i, "missed", "none")
  /\ UNCHANGED <<inputs, head, cache, run, rows>>

\* Any command may fail or time out; an ordered one may change the tree and fail.
Execute(r, i) ==
  LET c == run[r].request[i] IN
  /\ At(r, i, "missed")
  /\ \E result \in {"succeeded", "failed"} :
       /\ Kind[c] \in Batched /\ result = "succeeded" => <<c, inputs, head>> \in Good
       /\ Move(r, i, IF result = "succeeded" /\ node[r][i].key # NoKey THEN "caching" ELSE "closing",
               result)
  /\ inputs' \in (IF c \in Edits THEN Contents ELSE {inputs})
  /\ head' \in (IF c \in Commits THEN Heads ELSE {head})
  /\ UNCHANGED <<cache, run, rows>>

\* write_text truncates the cache file before it writes it.
WriteCache(r, i) ==
  \/ /\ At(r, i, "caching")
     /\ cache' = [cache EXCEPT ![node[r][i].key] = "torn"]
     /\ Move(r, i, "torn", "succeeded")
     /\ UNCHANGED <<inputs, head, run, rows>>
  \/ /\ At(r, i, "torn")
     /\ cache' = [cache EXCEPT ![node[r][i].key] = "whole"]
     /\ Move(r, i, "closing", "succeeded")
     /\ UNCHANGED <<inputs, head, run, rows>>
  \/ /\ At(r, i, "caching") \/ At(r, i, "torn")
     /\ Raise(r, i)
     /\ UNCHANGED <<inputs, head, cache, run, rows>>

\* Fault: a success that cannot be recorded is still a success.
Close_Lenient(r, i) ==
  /\ At(r, i, "closing")
  /\ rows' \in {rows, [rows EXCEPT ![r] = @ \cup {<<i, node[r][i].result>>}]}
  /\ Move(r, i, "done", node[r][i].result)
  /\ UNCHANGED <<inputs, head, cache, run>>

\* The last row of a command; a success that cannot be recorded is a failure.
Close(r, i) ==
  /\ At(r, i, "closing")
  /\ \/ /\ rows' = Recorded(r, i, node[r][i].result)
        /\ Move(r, i, "done", node[r][i].result)
     \/ /\ run[r].option.telemetry
        /\ Move(r, i, "done", "failed") \/ Raise(r, i)
        /\ UNCHANGED rows
  /\ UNCHANGED <<inputs, head, cache, run>>

\* Fault: the rows of the last run are taken for rows of this one.
Begin_OldRows(r, request, option) ==
  /\ ~IsRunning(r)
  /\ run' = [run EXCEPT ![r] = [phase |-> "running", request |-> request, hashed |-> inputs,
                                option |-> option]]
  /\ node' = [node EXCEPT ![r] = [i \in DOMAIN request |-> Waiting]]
  /\ UNCHANGED <<inputs, head, cache, rows>>

Begin(r, request, option) ==
  /\ ~IsRunning(r)
  /\ run' = [run EXCEPT ![r] = [phase |-> "running", request |-> request, hashed |-> inputs,
                                option |-> option]]
  /\ node' = [node EXCEPT ![r] = [i \in DOMAIN request |-> Waiting]]
  /\ rows' = [rows EXCEPT ![r] = {}]
  /\ UNCHANGED <<inputs, head, cache>>

\* The verdict of the run, when nothing is under way and nothing can start.
Verdict(r) ==
  LET results == {node[r][i].result : i \in DOMAIN node[r]} IN
  CASE "raised" \in results -> "aborted"
    [] "raised" \notin results /\ results \cap Failing # {} -> "failed"
    [] OTHER -> "succeeded"

\* The verdict is reported, or, when the diagnosis that goes with it raises, the
\* process ends as in Die.
Report(r) ==
  /\ IsRunning(r)
  /\ \A i \in DOMAIN node[r] : node[r][i].step \in {"waiting", "done"} /\ ~CanStart(r, i)
  /\ run' = [run EXCEPT ![r].phase = Verdict(r)]
  /\ UNCHANGED <<inputs, head, cache, node, rows>>

Die(r) ==
  /\ IsRunning(r)
  /\ run' = [run EXCEPT ![r] = NoRun]
  /\ node' = [node EXCEPT ![r] = <<>>]
  /\ rows' = [rows EXCEPT ![r] = {}]
  /\ UNCHANGED <<inputs, head, cache>>

\* What people and programs outside the model do to the tree, the children of
\* a command that timed out among them.
People ==
  /\ Quiet => \A r \in Runs : ~IsRunning(r)
  /\ inputs' \in Contents /\ head' \in Heads
  /\ UNCHANGED <<cache, run, node, rows>>

Init ==
  /\ inputs \in Contents
  /\ head \in Heads
  /\ cache = [key \in Keys |-> "absent"]
  /\ run = [r \in Runs |-> NoRun]
  /\ node = [r \in Runs |-> <<>>]
  /\ rows = [r \in Runs |-> {}]

Step(r, i) ==
  Block(r, i) \/ Announce(r, i) \/ Lookup(r, i) \/ Execute(r, i) \/ WriteCache(r, i) \/ Close(r, i)

Next ==
  \/ People
  \/ \E r \in Runs :
       \/ \E asked \in Asked : Begin(r, asked.request, asked.option)
       \/ \E i \in DOMAIN node[r] : Step(r, i)
       \/ Report(r)
       \/ Die(r)

Spec == Init /\ [][Next]_vars

-----------------------------------------------------------------------------
(***************************************************************************)
(* What the report says of its own run, and what diagnose finds in the     *)
(* trace of the run: the rows of a node are one event with its last status.*)
(***************************************************************************)
Nodes(r, results) == {i \in DOMAIN node[r] : node[r][i].result \in results}

Summary(r) ==
  [executed |-> Nodes(r, {"succeeded", "failed"}), blocked |-> Nodes(r, {"policy-blocked"}),
   hits |-> Nodes(r, {"cache-hit"}), failed |-> Nodes(r, Failing)]

Events(r, statuses) == {i \in DOMAIN node[r] : \E status \in statuses : <<i, status>> \in rows[r]}

Diagnosis(r) ==
  LET executed == Events(r, Results \ {"cache-hit"}) IN
  [failures |-> Events(r, Failing), executed |-> executed, hits |-> Events(r, {"cache-hit"}),
   duplicates |-> {run[r].request[i] : i \in {j \in executed : \E k \in executed \ {j} :
                                                  run[r].request[k] = run[r].request[j]}}]

-----------------------------------------------------------------------------
(***************************************************************************)
(* Properties.                                                             *)
(***************************************************************************)
\* The shape of the state.
TypeOK ==
  /\ inputs \in Contents /\ head \in Heads
  /\ cache \in [Keys -> {"absent", "torn", "whole"}]
  /\ DOMAIN run = Runs /\ DOMAIN node = Runs /\ DOMAIN rows = Runs
  /\ \A r \in Runs :
       \/ run[r] = NoRun /\ node[r] = <<>> /\ rows[r] = {}
       \/ /\ run[r] \in Run
          /\ node[r] \in [DOMAIN run[r].request -> Node]
          /\ rows[r] \subseteq Kept(run[r].request) \X (Results \cup {"started"})

\* A run that reports success is right about the tree: every readonly or
\* validation command that was asked for after the last ordered one succeeds
\* on the inputs and the HEAD of that moment, whether it was run, answered from
\* the cache of another run, or dropped as a duplicate.
GreenMeansGood ==
  [][\A r \in Runs :
       IsRunning(r) /\ run'[r].phase = "succeeded" =>
         \A i \in DOMAIN run[r].request :
           (\A j \in i..Len(run[r].request) : Kind[run[r].request[j]] \in Batched)
             => <<run[r].request[i], inputs, head>> \in Good]_vars

\* Commands i before j that may not overlap: all but those of one batch of a
\* parallel run.
Apart(r, i, j) ==
  \/ ~run[r].option.parallel
  \/ \E k \in Kept(run[r].request) \cap (i..j) :
       Kind[run[r].request[k]] \in Ordered \/ Kind[run[r].request[k]] # Kind[run[r].request[j]]

\* A command starts only when all before it that may not overlap it are done,
\* none of them raised, and none failed in a fail-fast run: writes settle
\* before validations, and a failure stops what comes after it.
OrderIsKept ==
  \A r \in Runs : IsRunning(r) =>
    \A i, j \in Kept(run[r].request) :
      i < j /\ node[r][j].step # "waiting" /\ Apart(r, i, j) => Passed(r, i)

\* A successful report is backed by telemetry: every command that was asked for
\* has a node that succeeded and whose started row and last row are recorded;
\* no command is under way without a started row; and what diagnose makes of the
\* trace is what the report says, with no command executed twice and no failure
\* in the trace that the report does not count.
ReportIsBacked ==
  \A r \in Runs : run[r] # NoRun /\ run[r].option.telemetry =>
    /\ run[r].phase = "succeeded" =>
         /\ \A p \in DOMAIN run[r].request : \E i \in Kept(run[r].request) :
              /\ run[r].request[i] = run[r].request[p]
              /\ node[r][i].result \in {"succeeded", "cache-hit"}
              /\ <<i, "started">> \in rows[r]
         /\ Diagnosis(r) = [failures |-> {}, executed |-> Summary(r).executed,
                            hits |-> Summary(r).hits, duplicates |-> {}]
    /\ run[r].phase = "failed" =>
         Diagnosis(r).failures \subseteq Summary(r).failed /\ Diagnosis(r).duplicates = {}
    /\ \A i \in DOMAIN node[r] :
         node[r][i].step \in {"announced", "missed", "caching", "torn"} => <<i, "started">> \in rows[r]

\* Without a label, and with a policy no laxer than the default, a command that
\* the plan says wants approval never starts in a batch, whatever it begins like
\* and whatever else is written in it: neither is it run beside others nor is its
\* success kept in the cache.
BatchesAreHarmless ==
  \A r \in Runs : IsRunning(r) /\ ~run[r].option.label /\ run[r].option.failOn \in {"warn", "approval_required"} =>
    \A i \in DOMAIN node[r] :
      /\ node[r][i].step \in {"announced", "missed", "caching", "torn"}
      /\ Kind[run[r].request[i]] \in Batched
      => ~ApprovalRequired(Shows[run[r].request[i]])
=============================================================================
