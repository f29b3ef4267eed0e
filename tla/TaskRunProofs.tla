--------------------------- MODULE TaskRunProofs ---------------------------
(***************************************************************************)
(* For any commands, requests and options and any number of runs: the      *)
(* order of the groups is kept, what wants approval never starts in a      *)
(* batch, a success is backed by telemetry, and it is right about the tree *)
(* where the keys of the cache and the results name the tree there is.     *)
(***************************************************************************)
EXTENDS TaskRun, WellFoundedInduction, TLAPS

-----------------------------------------------------------------------------
(***************************************************************************)
(* One step of one node.                                                   *)
(***************************************************************************)
\* Node i of run r becomes new, and nothing else of the nodes changes.
Becomes(r, i, new) == node' = [node EXCEPT ![r] = [node[r] EXCEPT ![i] = new]]

\* A node that exists is one of a run that has begun.
LEMMA NodesOfRuns ==
  ASSUME TypeOK, NEW r \in Runs, NEW i \in DOMAIN node[r]
  PROVE  /\ run[r] \in Run /\ node[r] \in [DOMAIN run[r].request -> Node]
         /\ rows[r] \subseteq Kept(run[r].request) \X (Results \cup {"started"})
         /\ DOMAIN node[r] = DOMAIN run[r].request
         /\ node[r][i] \in Node /\ i \in DOMAIN run[r].request /\ run[r].request[i] \in Commands
<1>1. node[r] # <<>>
  OBVIOUS
<1>2. /\ run[r] \in Run /\ node[r] \in [DOMAIN run[r].request -> Node]
      /\ rows[r] \subseteq Kept(run[r].request) \X (Results \cup {"started"})
  BY <1>1 DEF TypeOK
<1>3. run[r].request \in Seq(Commands)
  BY <1>2, RunAssumption DEF Run, Requests
<1> QED
  BY <1>2, <1>3

\* Moving a node on changes nothing else.
LEMMA MoveBecomes ==
  ASSUME TypeOK, NEW r \in Runs, NEW i \in DOMAIN node[r],
         NEW step \in {"waiting", "announced", "missed", "caching", "torn", "closing", "done"},
         NEW result \in Results, Move(r, i, step, result)
  PROVE  \E new \in Node : /\ Becomes(r, i, new)
                            /\ new.step = step /\ new.result = result /\ new.key = node[r][i].key
<1>1. PICK n : n = node[r][i]
  OBVIOUS
<1>2. n \in Node
  BY <1>1, NodesOfRuns
<1>3. PICK new : new = [n EXCEPT !.step = step, !.result = result]
  OBVIOUS
<1>4. new \in Node /\ new.step = step /\ new.result = result /\ new.key = n.key
  BY <1>2, <1>3 DEF Node
<1>5. node' = [node EXCEPT ![r] = [node[r] EXCEPT ![i] = new]]
  BY <1>1, <1>3 DEF Move
<1> QED
  BY <1>1, <1>4, <1>5 DEF Becomes

\* The nodes after that, one by one.
LEMMA Became ==
  ASSUME TypeOK, NEW r \in Runs, NEW i \in DOMAIN node[r], NEW new \in Node, Becomes(r, i, new)
  PROVE  /\ DOMAIN node' = Runs
         /\ \A q \in Runs \ {r} : node'[q] = node[q]
         /\ node'[r] \in [DOMAIN run[r].request -> Node] /\ DOMAIN node'[r] = DOMAIN node[r]
         /\ \A j \in DOMAIN node[r] \ {i} : node'[r][j] = node[r][j]
         /\ node'[r][i] = new
<1>1. node[r] \in [DOMAIN run[r].request -> Node] /\ DOMAIN node = Runs
  <2>1. node[r] \in [DOMAIN run[r].request -> Node]
    BY NodesOfRuns
  <2> QED
    BY <2>1 DEF TypeOK
<1>2. [node[r] EXCEPT ![i] = new] \in [DOMAIN run[r].request -> Node]
  BY <1>1
<1>3. node'[r] = [node[r] EXCEPT ![i] = new]
  BY <1>1 DEF Becomes
<1> QED
  BY <1>1, <1>2, <1>3 DEF Becomes

\* What a step of a node is: the node is not done before, and one that waits
\* starts only where it can.
LEMMA StepMoves ==
  ASSUME TypeOK, NEW r \in Runs, NEW i \in DOMAIN node[r], Step(r, i)
  PROVE  /\ run' = run /\ IsRunning(r)
         /\ node[r][i].step # "done"
         /\ node[r][i].step = "waiting" => CanStart(r, i)
         /\ inputs' \in Contents /\ head' \in Heads
         /\ cache' \in [Keys -> {"absent", "torn", "whole"}]
         /\ DOMAIN rows' = Runs
         /\ \A q \in Runs \ {r} : rows'[q] = rows[q]
         /\ rows'[r] \subseteq rows[r] \cup ({i} \X (Results \cup {"started"}))
         /\ \E new \in Node : Becomes(r, i, new)
<1> USE RunAssumption
<1>0. /\ node[r][i] \in Node /\ run[r] \in Run /\ run[r].request[i] \in Commands
      /\ inputs \in Contents /\ head \in Heads /\ cache \in [Keys -> {"absent", "torn", "whole"}]
      /\ DOMAIN rows = Runs
  <2>1. node[r][i] \in Node /\ run[r] \in Run /\ run[r].request[i] \in Commands
    BY NodesOfRuns
  <2> QED
    BY <2>1 DEF TypeOK
<1>m. ASSUME NEW step \in {"waiting", "announced", "missed", "caching", "torn", "closing", "done"},
             NEW result \in Results, Move(r, i, step, result)
      PROVE  \E new \in Node : Becomes(r, i, new)
  BY <1>m, MoveBecomes
<1>r. ASSUME NEW status \in Results \cup {"started"}, rows' = rows \/ rows' = Recorded(r, i, status)
      PROVE  /\ DOMAIN rows' = Runs
             /\ \A q \in Runs \ {r} : rows'[q] = rows[q]
             /\ rows'[r] \subseteq rows[r] \cup ({i} \X (Results \cup {"started"}))
  BY <1>0, <1>r DEF Recorded
<1>1. CASE Block(r, i)
  <2>1. /\ CanStart(r, i) /\ Move(r, i, "closing", "policy-blocked")
        /\ UNCHANGED <<inputs, head, cache, run, rows>>
    BY <1>1 DEF Block
  <2>2. \E new \in Node : Becomes(r, i, new)
    BY <2>1, <1>m DEF Results
  <2>3. "none" \in Results
    BY DEF Results
  <2> QED
    BY <1>0, <2>1, <2>2, <2>3, <1>r DEF CanStart, At
<1>2. CASE Announce(r, i)
  <2>1. /\ CanStart(r, i) /\ UNCHANGED <<inputs, head, cache, run>>
        /\ rows' = rows \/ rows' = Recorded(r, i, "started")
        /\ \/ Move(r, i, "announced", "none")
           \/ Move(r, i, "done", "failed") \/ Move(r, i, "done", "raised")
    BY <1>2 DEF Announce, Raise
  <2>2. \E new \in Node : Becomes(r, i, new)
    BY <2>1, <1>m DEF Results
  <2> QED
    BY <1>0, <2>1, <2>2, <1>r DEF CanStart, At
<1>3. CASE Lookup(r, i)
  <2>1. /\ At(r, i, "announced") /\ UNCHANGED <<inputs, head, cache, run, rows>>
        /\ \/ Move(r, i, "closing", "cache-hit")
           \/ Move(r, i, "missed", "none")
           \/ node' = [node EXCEPT ![r][i] =
                [step |-> "missed", result |-> "none", key |-> CacheKey(r, i)]]
    BY <1>3 DEF Lookup
  <2>2. CacheKey(r, i) \in Keys
    BY <1>0 DEF CacheKey, Keys, Run
  <2>3. \E new \in Node : Becomes(r, i, new)
    <3>1. CASE node' = [node EXCEPT ![r][i] =
                 [step |-> "missed", result |-> "none", key |-> CacheKey(r, i)]]
      <4>1. [step |-> "missed", result |-> "none", key |-> CacheKey(r, i)] \in Node
        BY <2>2 DEF Node, Results
      <4>2. Becomes(r, i, [step |-> "missed", result |-> "none", key |-> CacheKey(r, i)])
        BY <3>1 DEF Becomes
      <4> QED
        BY <4>1, <4>2
    <3> QED
      BY <2>1, <3>1, <1>m DEF Results
  <2>4. "none" \in Results
    BY DEF Results
  <2> QED
    BY <1>0, <2>1, <2>3, <2>4, <1>r DEF At
<1>4. CASE Execute(r, i)
  <2>1. PICK result \in {"succeeded", "failed"} :
          Move(r, i, "caching", result) \/ Move(r, i, "closing", result)
    BY <1>4 DEF Execute
  <2>2. /\ At(r, i, "missed") /\ UNCHANGED <<cache, run, rows>>
        /\ inputs' \in Contents /\ head' \in Heads
    BY <1>0, <1>4 DEF Execute
  <2>3. \E new \in Node : Becomes(r, i, new)
    BY <2>1, <1>m DEF Results
  <2>4. "none" \in Results
    BY DEF Results
  <2> QED
    BY <1>0, <2>2, <2>3, <2>4, <1>r DEF At
<1>5. CASE WriteCache(r, i)
  <2>1. /\ At(r, i, "caching") \/ At(r, i, "torn")
        /\ UNCHANGED <<inputs, head, run, rows>>
        /\ \/ UNCHANGED cache
           \/ \E content \in {"torn", "whole"} : cache' = [cache EXCEPT ![node[r][i].key] = content]
        /\ \/ Move(r, i, "torn", "succeeded") \/ Move(r, i, "closing", "succeeded")
           \/ Move(r, i, "done", "raised")
    BY <1>5 DEF WriteCache, Raise
  <2>2. \E new \in Node : Becomes(r, i, new)
    BY <2>1, <1>m DEF Results
  <2>3. "none" \in Results
    BY DEF Results
  <2>4. cache' \in [Keys -> {"absent", "torn", "whole"}]
    BY <1>0, <2>1
  <2> QED
    BY <1>0, <2>1, <2>2, <2>3, <2>4, <1>r DEF At
<1>6. CASE Close(r, i)
  <2>1. /\ At(r, i, "closing") /\ UNCHANGED <<inputs, head, cache, run>>
        /\ rows' = rows \/ rows' = Recorded(r, i, node[r][i].result)
        /\ \/ Move(r, i, "done", node[r][i].result)
           \/ Move(r, i, "done", "failed") \/ Move(r, i, "done", "raised")
    BY <1>6 DEF Close, Raise
  <2>2. node[r][i].result \in Results
    BY <1>0 DEF Node
  <2>3. \E new \in Node : Becomes(r, i, new)
    BY <2>1, <2>2, <1>m DEF Results
  <2> QED
    BY <1>0, <2>1, <2>2, <2>3, <1>r DEF At
<1> QED
  BY <1>1, <1>2, <1>3, <1>4, <1>5, <1>6 DEF Step

-----------------------------------------------------------------------------
(***************************************************************************)
(* The invariants.                                                         *)
(***************************************************************************)
\* Only what deduplication keeps is ever begun.
OnlyKeptBegin ==
  \A r \in Runs : \A i \in DOMAIN node[r] :
    node[r][i].step # "waiting" => i \in Kept(run[r].request)

\* What a new run begins with.
LEMMA BeginFacts ==
  ASSUME TypeOK, NEW r \in Runs, NEW asked \in Asked, Begin(r, asked.request, asked.option)
  PROVE  /\ run' = [run EXCEPT ![r] = run'[r]] /\ node' = [node EXCEPT ![r] = node'[r]]
         /\ rows' = [rows EXCEPT ![r] = {}]
         /\ run'[r] \in Run /\ run'[r].phase = "running" /\ run'[r].hashed = inputs
         /\ node'[r] \in [DOMAIN run'[r].request -> Node]
         /\ \A i \in DOMAIN node'[r] : node'[r][i] = Waiting
         /\ UNCHANGED <<inputs, head, cache>>
<1> USE RunAssumption
<1>1. asked.request \in Requests /\ asked.option \in Option
  BY DEF Requests
<1>2. Waiting \in Node
  BY DEF Waiting, Node, Results
<1>3. /\ run' = [run EXCEPT ![r] = [phase |-> "running", request |-> asked.request,
                                    hashed |-> inputs, option |-> asked.option]]
      /\ node' = [node EXCEPT ![r] = [i \in DOMAIN asked.request |-> Waiting]]
      /\ rows' = [rows EXCEPT ![r] = {}] /\ UNCHANGED <<inputs, head, cache>>
  BY DEF Begin
<1>4. DOMAIN run = Runs /\ DOMAIN node = Runs /\ inputs \in Contents
  BY DEF TypeOK
<1>5. run'[r] = [phase |-> "running", request |-> asked.request, hashed |-> inputs, option |-> asked.option]
  BY <1>3, <1>4
<1>6. node'[r] = [i \in DOMAIN asked.request |-> Waiting]
  BY <1>3, <1>4
<1> QED
  BY <1>1, <1>2, <1>3, <1>4, <1>5, <1>6 DEF Run

\* The type and what the rows rest on.
Shape == TypeOK /\ OnlyKeptBegin

LEMMA ShapeKept ==
  ASSUME Shape, [Next]_vars
  PROVE  Shape'
<1> USE RunAssumption DEF Shape
<1>1. CASE UNCHANGED vars
  BY <1>1 DEF vars, TypeOK, OnlyKeptBegin
<1>2. CASE People
  BY <1>2 DEF People, TypeOK, OnlyKeptBegin
<1>3. ASSUME NEW r \in Runs, NEW asked \in Asked, Begin(r, asked.request, asked.option)
      PROVE  Shape'
  <2>1. /\ run' = [run EXCEPT ![r] = run'[r]] /\ node' = [node EXCEPT ![r] = node'[r]]
        /\ rows' = [rows EXCEPT ![r] = {}]
        /\ run'[r] \in Run /\ node'[r] \in [DOMAIN run'[r].request -> Node]
        /\ \A i \in DOMAIN node'[r] : node'[r][i] = Waiting
        /\ UNCHANGED <<inputs, head, cache>>
    BY <1>3, BeginFacts
  <2>2. TypeOK'
    <3>1. ASSUME NEW q \in Runs, q # r
          PROVE  run'[q] = run[q] /\ node'[q] = node[q] /\ rows'[q] = rows[q]
      BY <2>1, <3>1 DEF TypeOK
    <3>2. rows'[r] = {} /\ DOMAIN run' = Runs /\ DOMAIN node' = Runs /\ DOMAIN rows' = Runs
      BY <2>1 DEF TypeOK
    <3> QED
      BY <2>1, <3>1, <3>2 DEF TypeOK
  <2>3. OnlyKeptBegin'
    <3>1. ASSUME NEW q \in Runs, q # r
          PROVE  run'[q] = run[q] /\ node'[q] = node[q]
      BY <2>1, <3>1 DEF TypeOK
    <3> QED
      BY <2>1, <3>1 DEF OnlyKeptBegin, Waiting
  <2> QED
    BY <2>2, <2>3
<1>4. ASSUME NEW r \in Runs, NEW i \in DOMAIN node[r], Step(r, i)
      PROVE  Shape'
  <2>1. PICK new \in Node : Becomes(r, i, new)
    BY <1>4, StepMoves
  <2>2. /\ run' = run /\ inputs' \in Contents /\ head' \in Heads
        /\ cache' \in [Keys -> {"absent", "torn", "whole"}] /\ DOMAIN rows' = Runs
        /\ \A q \in Runs \ {r} : rows'[q] = rows[q]
        /\ rows'[r] \subseteq rows[r] \cup ({i} \X (Results \cup {"started"}))
        /\ node[r][i].step = "waiting" => CanStart(r, i)
    BY <1>4, StepMoves
  <2>3. /\ run[r] \in Run /\ node[r] \in [DOMAIN run[r].request -> Node]
        /\ rows[r] \subseteq Kept(run[r].request) \X (Results \cup {"started"})
        /\ i \in DOMAIN run[r].request
    BY NodesOfRuns
  <2>4. i \in Kept(run[r].request)
    BY <2>2 DEF OnlyKeptBegin, CanStart
  <2>5. rows'[r] \subseteq Kept(run'[r].request) \X (Results \cup {"started"})
    BY <2>2, <2>3, <2>4
  <2>6. /\ node'[r] \in [DOMAIN run'[r].request -> Node] /\ DOMAIN node' = Runs
        /\ DOMAIN node'[r] = DOMAIN node[r] /\ \A q \in Runs \ {r} : node'[q] = node[q]
        /\ \A j \in DOMAIN node[r] \ {i} : node'[r][j] = node[r][j]
    BY <2>1, <2>2, Became
  <2>7. TypeOK'
    BY <2>2, <2>3, <2>5, <2>6 DEF TypeOK
  <2>8. OnlyKeptBegin'
    BY <2>2, <2>4, <2>6 DEF OnlyKeptBegin
  <2> QED
    BY <2>7, <2>8
<1>5. ASSUME NEW r \in Runs, Report(r) PROVE Shape'
  <2>1. PICK verdict \in {"aborted", "failed", "succeeded"} : run' = [run EXCEPT ![r].phase = verdict]
    BY <1>5 DEF Report, Verdict
  <2>2. run[r] \in Run /\ UNCHANGED <<inputs, head, cache, node, rows>>
    BY <1>5 DEF Report, IsRunning, NoRun, TypeOK
  <2>3. PICK old : old = run[r]
    OBVIOUS
  <2>4. [old EXCEPT !.phase = verdict] \in Run /\ [old EXCEPT !.phase = verdict].request = old.request
    BY <2>2, <2>3 DEF Run
  <2>5. /\ DOMAIN run' = Runs /\ run'[r] = [old EXCEPT !.phase = verdict]
        /\ \A q \in Runs \ {r} : run'[q] = run[q]
    BY <2>1, <2>3 DEF TypeOK
  <2>6. run'[r] \in Run /\ \A q \in Runs : run'[q] # run[q] => q = r /\ run'[q].request = run[q].request
    BY <2>3, <2>4, <2>5
  <2>7. TypeOK'
    BY <2>2, <2>5, <2>6 DEF TypeOK, NoRun, Run
  <2> QED
    BY <2>2, <2>6, <2>7 DEF OnlyKeptBegin
<1>6. ASSUME NEW r \in Runs, Die(r) PROVE Shape'
  BY <1>6 DEF Die, TypeOK, OnlyKeptBegin
<1> QED
  BY <1>1, <1>2, <1>3, <1>4, <1>5, <1>6 DEF Next

\* The variables keep their types: the nodes of a run are those of its request,
\* and only what deduplication keeps has rows (run of runtime/task_run.py).
THEOREM TypeCorrect == Spec => [](TypeOK /\ OnlyKeptBegin)
<1>1. Init => Shape
  BY RunAssumption DEF Init, Shape, TypeOK, OnlyKeptBegin
<1>2. Shape /\ [Next]_vars => Shape'
  BY ShapeKept
<1> QED
  BY <1>1, <1>2, PTL DEF Spec, Shape

-----------------------------------------------------------------------------
(***************************************************************************)
(* The order of the groups.                                                *)
(***************************************************************************)
\* A run that is reported on or dies runs no more.
LEMMA Ends ==
  ASSUME TypeOK, NEW r \in Runs, Report(r) \/ Die(r)
  PROVE  ~ IsRunning(r)'
<1>1. CASE Report(r)
  <2>1. PICK verdict \in {"aborted", "failed", "succeeded"} : run' = [run EXCEPT ![r].phase = verdict]
    BY <1>1 DEF Report, Verdict
  <2>2. run[r] \in Run
    BY <1>1 DEF Report, IsRunning, NoRun, TypeOK
  <2> QED
    BY <2>1, <2>2 DEF IsRunning, TypeOK, Run
<1>2. CASE Die(r)
  BY <1>2 DEF Die, IsRunning, NoRun, TypeOK
<1> QED
  BY <1>1, <1>2

\* A position that may not overlap an earlier one and can start finds it passed.
LEMMA StartsAfter ==
  ASSUME NEW r \in Runs, NEW i, NEW a \in Kept(run[r].request), a < i,
         run[r].request \in Seq(Commands), CanStart(r, i), Apart(r, a, i)
  PROVE  Passed(r, a)
<1> DEFINE request == run[r].request
<1>1. CASE a \notin Group(request, i)
  BY <1>1 DEF CanStart, Earlier
<1>2. CASE a \in Group(request, i)
  <2>1. CASE \A j \in Group(request, i) : j < i => Passed(r, j)
    BY <1>2, <2>1
  <2>2. CASE run[r].option.parallel
    <3>1. PICK k \in Kept(request) \cap (a..i) :
            Kind[request[k]] \in Ordered \/ Kind[request[k]] # Kind[request[i]]
      BY <2>2 DEF Apart
    <3>2. a # i
      <4>1. a \in DOMAIN request /\ i \in DOMAIN request
        BY DEF CanStart, Kept
      <4>2. DOMAIN request = 1..Len(request) /\ Len(request) \in Nat
        OBVIOUS
      <4> QED
        BY <4>1, <4>2
    <3>3. Kind[request[i]] \in Batched /\ Kind[request[k]] = Kind[request[i]]
      BY <1>2, <3>1, <3>2 DEF Group
    <3> QED
      BY <3>1, <3>3 DEF Batched, Ordered
  <2> QED
    BY <2>1, <2>2 DEF CanStart
<1> QED
  BY <1>1, <1>2

\* A command starts only when all before it that may not overlap it are done,
\* none of them raised, and none failed in a fail-fast run: for any request,
\* however its commands are grouped and however the threads of a batch interleave
\* (group_commands and run of runtime/task_run.py).
THEOREM OrderKept == Spec => []OrderIsKept
<1>1. Init => OrderIsKept
  BY DEF Init, OrderIsKept, IsRunning, NoRun
<1>2. Shape /\ OrderIsKept /\ [Next]_vars => OrderIsKept'
  <2> SUFFICES ASSUME Shape, OrderIsKept, [Next]_vars PROVE OrderIsKept'
    OBVIOUS
  <2> USE DEF Shape
  <2>1. CASE UNCHANGED vars \/ People
    BY <2>1 DEF vars, People, OrderIsKept, IsRunning, Apart, Passed
  <2>2. ASSUME NEW r \in Runs, NEW asked \in Asked, Begin(r, asked.request, asked.option)
        PROVE  OrderIsKept'
    <3>1. /\ run' = [run EXCEPT ![r] = run'[r]] /\ node' = [node EXCEPT ![r] = node'[r]]
          /\ \A i \in DOMAIN node'[r] : node'[r][i] = Waiting
          /\ node'[r] \in [DOMAIN run'[r].request -> Node]
      BY <2>2, BeginFacts
    <3>2. \A q \in Runs \ {r} : run'[q] = run[q] /\ node'[q] = node[q]
      BY <3>1 DEF TypeOK
    <3>3. \A i \in Kept(run'[r].request) : node'[r][i].step = "waiting"
      BY <3>1 DEF Kept, Waiting
    <3> QED
      BY <3>2, <3>3 DEF OrderIsKept, IsRunning, Apart, Passed
  <2>3. ASSUME NEW r \in Runs, NEW i \in DOMAIN node[r], Step(r, i)
        PROVE  OrderIsKept'
    <3>1. PICK new \in Node : Becomes(r, i, new)
      BY <2>3, StepMoves
    <3>2. /\ run' = run /\ IsRunning(r) /\ node[r][i].step # "done"
          /\ node[r][i].step = "waiting" => CanStart(r, i)
      BY <2>3, StepMoves
    <3>3. /\ DOMAIN node'[r] = DOMAIN node[r] /\ \A q \in Runs \ {r} : node'[q] = node[q]
          /\ \A j \in DOMAIN node[r] \ {i} : node'[r][j] = node[r][j]
          /\ DOMAIN node[r] = DOMAIN run[r].request /\ run[r] \in Run
      BY <3>1, Became, NodesOfRuns
    <3>s. run[r].request \in Seq(Commands)
      BY <3>3, RunAssumption DEF Run, Requests
    <3>4. ASSUME NEW a \in Kept(run[r].request), NEW b \in Kept(run[r].request), a < b,
                 node'[r][b].step # "waiting", Apart(r, a, b)
          PROVE  Passed(r, a)'
      <4>1. Passed(r, a)
        <5>1. CASE node[r][b].step # "waiting"
          BY <3>2, <3>4, <5>1 DEF OrderIsKept
        <5>2. CASE node[r][b].step = "waiting"
          <6>1. b = i
            BY <3>3, <3>4, <5>2 DEF Kept
          <6> QED
            BY <3>2, <3>s, <3>4, <5>2, <6>1, StartsAfter
        <5> QED
          BY <5>1, <5>2
      <4>2. a # i /\ a \in DOMAIN node[r]
        BY <3>2, <3>3, <4>1 DEF Passed, Kept
      <4> QED
        BY <3>2, <3>3, <4>1, <4>2 DEF Passed
    <3> QED
      BY <3>2, <3>3, <3>4 DEF OrderIsKept, IsRunning, Apart, Passed
  <2>4. ASSUME NEW r \in Runs, Report(r) \/ Die(r) PROVE OrderIsKept'
    <3>1. \A q \in Runs \ {r} : run'[q] = run[q] /\ node'[q] = node[q]
      BY <2>4 DEF Report, Die, TypeOK
    <3>2. ~ IsRunning(r)'
      BY <2>4, Ends
    <3> QED
      BY <3>1, <3>2 DEF OrderIsKept, IsRunning, Apart, Passed
  <2> QED
    BY <2>1, <2>2, <2>3, <2>4 DEF Next
<1> QED
  BY <1>1, <1>2, TypeCorrect, PTL DEF Spec, Shape

-----------------------------------------------------------------------------
(***************************************************************************)
(* What starts in a batch.                                                 *)
(***************************************************************************)
\* Some first mark of a list is shown, or none is.
LEMMA FirstIsShown ==
  ASSUME NEW list, DOMAIN list \in {1..4, 1..5}, NEW marks, NEW otherwise
  PROVE  \/ FirstOf(list, marks, otherwise) = otherwise
         \/ \E i \in DOMAIN list : list[i][1] \in marks /\ FirstOf(list, marks, otherwise) = list[i][2]
<1> DEFINE shown == {i \in DOMAIN list : list[i][1] \in marks}
<1>1. CASE shown = {}
  BY <1>1 DEF FirstOf
<1>2. CASE shown # {}
  <2>1. \E i \in shown : \A j \in shown : i <= j
    <3>1. shown \subseteq {1, 2, 3, 4, 5}
      OBVIOUS
    <3> HIDE DEF shown
    <3>2. CASE 1 \in shown
      <4>1. \A j \in shown : 1 <= j
        BY <3>1, <3>2
      <4> QED
        BY <3>2, <4>1
    <3>3. CASE 1 \notin shown /\ 2 \in shown
      <4>1. \A j \in shown : 2 <= j
        BY <3>1, <3>3
      <4> QED
        BY <3>3, <4>1
    <3>4. CASE shown \subseteq {3, 4, 5} /\ 3 \in shown
      <4>1. \A j \in shown : 3 <= j
        BY <3>1, <3>4
      <4> QED
        BY <3>4, <4>1
    <3>5. CASE shown \subseteq {4, 5} /\ 4 \in shown
      <4>1. \A j \in shown : 4 <= j
        BY <3>1, <3>5
      <4> QED
        BY <3>5, <4>1
    <3>6. CASE shown = {5}
      BY <3>6
    <3> QED
      BY <1>2, <3>1, <3>2, <3>3, <3>4, <3>5, <3>6
  <2>2. PICK i \in shown : i = CHOOSE k \in shown : \A j \in shown : k <= j
    BY <2>1
  <2>3. FirstOf(list, marks, otherwise) = list[i][2]
    BY <1>2, <2>2 DEF FirstOf
  <2> QED
    BY <2>3
<1> QED
  BY <1>1, <1>2

\* What the plan says wants approval is a finding of the policy, unless the kind
\* says so.
LEMMA ApprovalIsFound ==
  ASSUME NEW marks, ClassifyCommand(marks) \in Batched, ApprovalRequired(marks)
  PROVE  \E finding \in CommandFindings(marks) : finding[2] = "approval_required"
<1> DEFINE list == <<<<"git push", "git_push">>, <<"git write", "git_write">>, <<"delete", "delete">>,
                     <<"install", "install">>, <<"network", "network">>>>
<1>1. CapabilityOf(marks) \in {"git_push", "git_write", "delete", "install"}
  BY DEF ApprovalRequired, Batched
<1>2. CapabilityOf(marks) = FirstOf(list, marks, ClassifyCommand(marks))
  BY DEF CapabilityOf
<1>3. /\ DOMAIN list = 1..5
      /\ list[1][1] = "git push" /\ list[2][1] = "git write" /\ list[3][1] = "delete"
      /\ list[4][1] = "install" /\ list[5][2] = "network"
  OBVIOUS
<1> HIDE DEF list
<1>4. PICK i \in DOMAIN list : list[i][1] \in marks /\ CapabilityOf(marks) = list[i][2]
  <2>1. CapabilityOf(marks) # ClassifyCommand(marks)
    BY <1>1 DEF Batched
  <2>2. DOMAIN list \in {1..4, 1..5}
    BY <1>3
  <2>3. \/ FirstOf(list, marks, ClassifyCommand(marks)) = ClassifyCommand(marks)
        \/ \E i \in DOMAIN list : /\ list[i][1] \in marks
                                   /\ FirstOf(list, marks, ClassifyCommand(marks)) = list[i][2]
    BY <2>2, FirstIsShown
  <2> QED
    BY <1>2, <2>1, <2>3
<1>5. i \in {1, 2, 3, 4, 5}
  <2>1. DOMAIN list = 1..5
    BY <1>3
  <2>2. i \in 1..5
    BY <2>1, Zenon
  <2> QED
    BY <2>2
<1>6. list[i][1] \in {"git push", "git write", "delete", "install"}
  <2>1. i # 5
    BY <1>1, <1>3, <1>4
  <2> QED
    BY <1>3, <1>5, <2>1
<1>7. <<list[i][1], "approval_required">> \in CommandFindings(marks)
  BY <1>4, <1>6 DEF CommandFindings
<1> QED
  BY <1>7

\* The decision is at least as strict as any finding.
LEMMA WorstDecides ==
  ASSUME NEW marks, NEW finding \in CommandFindings(marks), finding[2] = "approval_required"
  PROVE  Assess(marks) \in {"approval_required", "block"}
<1> DEFINE actions == {f[2] : f \in CommandFindings(marks)} \cup {"allow"}
<1>1. actions \subseteq {"allow", "warn", "approval_required", "block"} /\ "approval_required" \in actions
  <2>1. ASSUME NEW f \in CommandFindings(marks)
        PROVE  f[2] \in {"warn", "approval_required", "block"}
    <3>1. \E mark, action : f = <<mark, action>> /\ action \in {"warn", "approval_required", "block"}
      BY DEF CommandFindings
    <3> QED
      BY <3>1
  <2> QED
    BY <2>1
<1>2. Assess(marks) = CHOOSE decision \in actions : \A action \in actions : Rank[action] <= Rank[decision]
  BY DEF Assess, CombineDecision
<1> HIDE DEF actions
<1>r. Rank["allow"] = 0 /\ Rank["warn"] = 1 /\ Rank["approval_required"] = 2 /\ Rank["block"] = 3
  BY DEF Rank
<1>3. \E decision \in actions : \A action \in actions : Rank[action] <= Rank[decision]
  <2>1. CASE "block" \in actions
    <3>1. \A action \in actions : Rank[action] <= Rank["block"]
      BY <1>1, <1>r
    <3> QED
      BY <2>1, <3>1
  <2>2. CASE "block" \notin actions
    <3>1. \A action \in actions : Rank[action] <= Rank["approval_required"]
      BY <1>1, <1>r, <2>2
    <3> QED
      BY <1>1, <3>1
  <2> QED
    BY <2>1, <2>2
<1>4. Assess(marks) \in actions /\ \A action \in actions : Rank[action] <= Rank[Assess(marks)]
  BY <1>2, <1>3
<1>5. Rank["approval_required"] <= Rank[Assess(marks)]
  BY <1>1, <1>4
<1>6. PICK decision : decision = Assess(marks)
  OBVIOUS
<1>7. decision \in {"allow", "warn", "approval_required", "block"}
  BY <1>1, <1>4, <1>6
<1>8. decision # "allow" /\ decision # "warn"
  BY <1>5, <1>6, <1>r
<1> QED
  BY <1>6, <1>7, <1>8

\* So without a label it does not pass a policy that is no laxer than the default.
LEMMA ApprovalIsAsked ==
  ASSUME NEW c \in Commands, Kind[c] \in Batched, ApprovalRequired(Shows[c]), NEW option,
         ~ option.label, option.failOn \in {"warn", "approval_required"}
  PROVE  PolicyFails(c, option)
<1>1. ClassifyCommand(Shows[c]) \in Batched
  BY DEF Kind
<1>2. Assess(Shows[c]) \in {"approval_required", "block"}
  BY <1>1, ApprovalIsFound, WorstDecides
<1> QED
  BY <1>2 DEF PolicyFails, DecisionFails, Rank

\* A node in the hands of its command.
Executing == {"announced", "missed", "caching", "torn"}

\* What has started has passed the policy.
StartedIsAllowed ==
  \A r \in Runs : IsRunning(r) => \A i \in DOMAIN node[r] :
    node[r][i].step \in Executing => ~ PolicyFails(run[r].request[i], run[r].option)

\* A step that leaves a node in those hands found it there, or the policy let it
\* through.
LEMMA StepIsAllowed ==
  ASSUME TypeOK, NEW r \in Runs, NEW i \in DOMAIN node[r], Step(r, i)
  PROVE  \/ node[r][i].step \in Executing
         \/ ~ PolicyFails(run[r].request[i], run[r].option)
         \/ node'[r][i].step \notin Executing
<1>1. CASE Block(r, i) \/ Close(r, i)
  <2>1. node[r][i].result \in Results
    BY NodesOfRuns DEF Node
  <2>2. PICK step \in {"closing", "done"}, result \in Results : Move(r, i, step, result)
    BY <1>1, <2>1 DEF Block, Close, Raise, Results
  <2>3. PICK new \in Node : Becomes(r, i, new) /\ new.step = step
    BY <2>2, MoveBecomes
  <2>4. node'[r][i].step = step
    BY <2>3, Became
  <2> QED
    BY <2>4 DEF Executing
<1>2. CASE Announce(r, i)
  BY <1>2 DEF Announce
<1>3. CASE Lookup(r, i) \/ Execute(r, i) \/ WriteCache(r, i)
  BY <1>3 DEF Lookup, Execute, WriteCache, At, Executing
<1> QED
  BY <1>1, <1>2, <1>3 DEF Step

\* Without a label, and with a policy no laxer than the default, a command that
\* the plan says wants approval never starts in a batch, whatever marks its text
\* shows (classify_command and execute_node of runtime/task_run.py, assess of
\* gates/policy.py).
THEOREM HarmlessBatches == Spec => []BatchesAreHarmless
<1>1. Init => StartedIsAllowed
  BY DEF Init, StartedIsAllowed, IsRunning, NoRun
<1>2. Shape /\ StartedIsAllowed /\ [Next]_vars => StartedIsAllowed'
  <2> SUFFICES ASSUME Shape, StartedIsAllowed, [Next]_vars PROVE StartedIsAllowed'
    OBVIOUS
  <2> USE DEF Shape
  <2>1. CASE UNCHANGED vars \/ People
    BY <2>1 DEF vars, People, StartedIsAllowed, IsRunning
  <2>2. ASSUME NEW r \in Runs, NEW asked \in Asked, Begin(r, asked.request, asked.option)
        PROVE  StartedIsAllowed'
    <3>1. /\ run' = [run EXCEPT ![r] = run'[r]] /\ node' = [node EXCEPT ![r] = node'[r]]
          /\ \A i \in DOMAIN node'[r] : node'[r][i] = Waiting
      BY <2>2, BeginFacts
    <3>2. \A q \in Runs \ {r} : run'[q] = run[q] /\ node'[q] = node[q]
      BY <3>1 DEF TypeOK
    <3> QED
      BY <3>1, <3>2 DEF StartedIsAllowed, IsRunning, Waiting, Executing
  <2>3. ASSUME NEW r \in Runs, NEW i \in DOMAIN node[r], Step(r, i)
        PROVE  StartedIsAllowed'
    <3>1. PICK new \in Node : Becomes(r, i, new)
      BY <2>3, StepMoves
    <3>2. run' = run /\ IsRunning(r)
      BY <2>3, StepMoves
    <3>3. /\ DOMAIN node'[r] = DOMAIN node[r] /\ \A q \in Runs \ {r} : node'[q] = node[q]
          /\ \A j \in DOMAIN node[r] \ {i} : node'[r][j] = node[r][j]
      BY <3>1, Became
    <3>4. node'[r][i].step \in Executing => ~ PolicyFails(run[r].request[i], run[r].option)
      BY <2>3, <3>2, StepIsAllowed DEF StartedIsAllowed
    <3>5. \A j \in DOMAIN node[r] :
            node'[r][j].step \in Executing => ~ PolicyFails(run[r].request[j], run[r].option)
      BY <3>2, <3>3, <3>4 DEF StartedIsAllowed
    <3> QED
      BY <3>2, <3>3, <3>5 DEF StartedIsAllowed, IsRunning
  <2>4. ASSUME NEW r \in Runs, Report(r) \/ Die(r) PROVE StartedIsAllowed'
    <3>1. \A q \in Runs \ {r} : run'[q] = run[q] /\ node'[q] = node[q]
      BY <2>4 DEF Report, Die, TypeOK
    <3>2. ~ IsRunning(r)'
      BY <2>4, Ends
    <3> QED
      BY <3>1, <3>2 DEF StartedIsAllowed, IsRunning
  <2> QED
    BY <2>1, <2>2, <2>3, <2>4 DEF Next
<1>3. Shape /\ StartedIsAllowed => BatchesAreHarmless
  <2> SUFFICES ASSUME Shape, StartedIsAllowed, NEW r \in Runs, IsRunning(r), ~ run[r].option.label,
                      run[r].option.failOn \in {"warn", "approval_required"},
                      NEW i \in DOMAIN node[r], node[r][i].step \in Executing,
                      Kind[run[r].request[i]] \in Batched, ApprovalRequired(Shows[run[r].request[i]])
               PROVE  FALSE
    BY DEF BatchesAreHarmless, Executing
  <2>1. run[r].request[i] \in Commands
    BY NodesOfRuns DEF Shape
  <2>2. ~ PolicyFails(run[r].request[i], run[r].option)
    BY DEF StartedIsAllowed
  <2> QED
    BY <2>1, <2>2, ApprovalIsAsked
<1> QED
  BY <1>1, <1>2, <1>3, TypeCorrect, PTL DEF Spec, Shape

-----------------------------------------------------------------------------
(***************************************************************************)
(* What a report rests on: the result of a node, its rows and the verdict. *)
(***************************************************************************)
\* The rows of one node.
RowsOf(r, i) == {status \in Results \cup {"started"} : <<i, status>> \in rows[r]}

\* The result that a node has at each step.
Settled(n) ==
  /\ n.step \in {"waiting", "announced", "missed"} => n.result = "none"
  /\ n.step \in {"caching", "torn"} => n.result = "succeeded"
  /\ n.step = "closing" => n.result \in {"succeeded", "cache-hit", "failed", "policy-blocked"}
  /\ n.step = "done" => n.result # "none"

\* The rows that go with it: a success has both of its rows, a failure may lack
\* the last one, and what is blocked or raises has no row of a success.
Backed(n, own) ==
  /\ n.step = "waiting" => own = {}
  /\ n.step \in {"announced", "missed", "caching", "torn"} => own = {"started"}
  /\ n.step = "closing" => own = IF n.result = "policy-blocked" THEN {} ELSE {"started"}
  /\ n.step = "done" /\ n.result \in {"succeeded", "cache-hit"} => own = {"started", n.result}
  /\ n.step = "done" /\ n.result \in Failing => own \subseteq {"started", n.result}
  /\ n.step = "done" /\ n.result = "raised" => own \subseteq {"started"}

NodeBacked(r, i) ==
  Settled(node[r][i]) /\ (run[r].option.telemetry => Backed(node[r][i], RowsOf(r, i)))

NodesBacked == \A r \in Runs : \A i \in DOMAIN node[r] : NodeBacked(r, i)

\* A step of a node leaves the rows of the others alone.
LEMMA RowsAfter ==
  ASSUME TypeOK, NEW r \in Runs, NEW i \in DOMAIN node[r], NEW status \in Results \cup {"started"},
         rows' = Recorded(r, i, status)
  PROVE  /\ \A j \in DOMAIN node[r] \ {i} : RowsOf(r, j)' = RowsOf(r, j)
         /\ run[r].option.telemetry => RowsOf(r, i)' = RowsOf(r, i) \cup {status}
<1>1. CASE run[r].option.telemetry
  <2>1. rows'[r] = rows[r] \cup {<<i, status>>}
    BY <1>1 DEF Recorded, TypeOK
  <2>2. \A j, other : <<j, other>> \in rows'[r] <=> <<j, other>> \in rows[r] \/ (j = i /\ other = status)
    BY <2>1
  <2> QED
    BY <2>2 DEF RowsOf
<1>2. CASE ~ run[r].option.telemetry
  BY <1>2 DEF Recorded, RowsOf
<1> QED
  BY <1>1, <1>2

\* One step of a node keeps its result and its rows together.
LEMMA StepBacks ==
  ASSUME TypeOK, NEW r \in Runs, NEW i \in DOMAIN node[r], Step(r, i), NodeBacked(r, i)
  PROVE  /\ NodeBacked(r, i)'
         /\ \A j \in DOMAIN node[r] \ {i} : RowsOf(r, j)' = RowsOf(r, j)
<1>0. /\ run' = run /\ node[r][i] \in Node
      /\ {"none", "succeeded", "cache-hit", "failed", "policy-blocked", "raised"} = Results
  BY StepMoves, NodesOfRuns DEF Results
<1>1. ASSUME NEW step \in {"waiting", "announced", "missed", "caching", "torn", "closing", "done"},
             NEW result \in Results, Move(r, i, step, result)
      PROVE  node'[r][i].step = step /\ node'[r][i].result = result
  <2>1. PICK new \in Node : Becomes(r, i, new) /\ new.step = step /\ new.result = result
    BY <1>1, MoveBecomes
  <2> QED
    BY <2>1, Became
<1>2. ASSUME UNCHANGED rows
      PROVE  \A j \in DOMAIN node[r] : RowsOf(r, j)' = RowsOf(r, j)
  BY <1>2 DEF RowsOf
<1>3. CASE Block(r, i)
  <2>1. /\ node[r][i].step = "waiting" /\ UNCHANGED rows
        /\ node'[r][i].step = "closing" /\ node'[r][i].result = "policy-blocked"
    BY <1>0, <1>1, <1>3 DEF Block, CanStart, At
  <2> QED
    BY <1>0, <1>2, <2>1 DEF NodeBacked, Settled, Backed
<1>4. CASE Announce(r, i)
  <2>0. node[r][i].step = "waiting"
    BY <1>4 DEF Announce, CanStart, At
  <2>1. CASE rows' = Recorded(r, i, "started") /\ Move(r, i, "announced", "none")
    <3>1. node'[r][i].step = "announced" /\ node'[r][i].result = "none"
      BY <1>0, <1>1, <2>1
    <3>2. /\ \A j \in DOMAIN node[r] \ {i} : RowsOf(r, j)' = RowsOf(r, j)
          /\ run[r].option.telemetry => RowsOf(r, i)' = RowsOf(r, i) \cup {"started"}
      BY <2>1, RowsAfter
    <3> QED
      BY <1>0, <2>0, <3>1, <3>2 DEF NodeBacked, Settled, Backed
  <2>2. CASE /\ Move(r, i, "done", "failed") \/ Raise(r, i)
             /\ UNCHANGED rows
    <3>1. node'[r][i].step = "done" /\ node'[r][i].result \in {"failed", "raised"}
      BY <1>0, <1>1, <2>2 DEF Raise
    <3> QED
      BY <1>0, <1>2, <2>0, <2>2, <3>1 DEF NodeBacked, Settled, Backed, Failing
  <2> QED
    BY <1>4, <2>1, <2>2 DEF Announce
<1>5. CASE Lookup(r, i)
  <2>1. node[r][i].step = "announced" /\ UNCHANGED rows
    BY <1>5 DEF Lookup, At
  <2>2. \/ node'[r][i].step = "closing" /\ node'[r][i].result = "cache-hit"
        \/ node'[r][i].step = "missed" /\ node'[r][i].result = "none"
    <3>1. CASE node' = [node EXCEPT ![r][i] =
                 [step |-> "missed", result |-> "none", key |-> CacheKey(r, i)]]
      <4>1. node'[r][i] = [step |-> "missed", result |-> "none", key |-> CacheKey(r, i)]
        BY <3>1 DEF TypeOK
      <4> QED
        BY <4>1
    <3> QED
      BY <1>0, <1>1, <1>5, <3>1 DEF Lookup
  <2> QED
    BY <1>0, <1>2, <2>1, <2>2 DEF NodeBacked, Settled, Backed
<1>6. CASE Execute(r, i)
  <2>1. node[r][i].step = "missed" /\ UNCHANGED rows
    BY <1>6 DEF Execute, At
  <2>2. \/ node'[r][i].step \in {"caching", "closing"} /\ node'[r][i].result = "succeeded"
        \/ node'[r][i].step = "closing" /\ node'[r][i].result = "failed"
    BY <1>0, <1>1, <1>6 DEF Execute
  <2> QED
    BY <1>0, <1>2, <2>1, <2>2 DEF NodeBacked, Settled, Backed
<1>7. CASE WriteCache(r, i)
  <2>1. node[r][i].step \in {"caching", "torn"} /\ UNCHANGED rows
    BY <1>7 DEF WriteCache, At
  <2>2. \/ node'[r][i].step \in {"torn", "closing"} /\ node'[r][i].result = "succeeded"
        \/ node'[r][i].step = "done" /\ node'[r][i].result = "raised"
    BY <1>0, <1>1, <1>7 DEF WriteCache, Raise
  <2> QED
    BY <1>0, <1>2, <2>1, <2>2 DEF NodeBacked, Settled, Backed, Failing
<1>8. CASE Close(r, i)
  <2>0. PICK result \in Results : result = node[r][i].result
    BY <1>0 DEF Node
  <2>1. node[r][i].step = "closing" /\ result \in {"succeeded", "cache-hit", "failed", "policy-blocked"}
    BY <1>8, <2>0 DEF Close, At, NodeBacked, Settled
  <2>2. CASE rows' = Recorded(r, i, result) /\ Move(r, i, "done", result)
    <3>1. node'[r][i].step = "done" /\ node'[r][i].result = result
      BY <1>0, <1>1, <2>2
    <3>2. /\ \A j \in DOMAIN node[r] \ {i} : RowsOf(r, j)' = RowsOf(r, j)
          /\ run[r].option.telemetry => RowsOf(r, i)' = RowsOf(r, i) \cup {result}
      BY <2>2, RowsAfter
    <3> QED
      BY <1>0, <2>0, <2>1, <3>1, <3>2 DEF NodeBacked, Settled, Backed, Failing
  <2>3. CASE /\ Move(r, i, "done", "failed") \/ Raise(r, i)
             /\ UNCHANGED rows
    <3>1. node'[r][i].step = "done" /\ node'[r][i].result \in {"failed", "raised"}
      BY <1>0, <1>1, <2>3 DEF Raise
    <3> QED
      BY <1>0, <1>2, <2>0, <2>1, <2>3, <3>1 DEF NodeBacked, Settled, Backed, Failing
  <2> QED
    BY <1>8, <2>0, <2>2, <2>3 DEF Close
<1> QED
  BY <1>3, <1>4, <1>5, <1>6, <1>7, <1>8 DEF Step

\* A set of numbers that is not empty has a least one.
LEMMA Least ==
  ASSUME NEW S \in SUBSET Nat, S # {}
  PROVE  \E m \in S : \A k \in S : m <= k
<1> DEFINE R == OpToRel(<, Nat)
<1>1. IsWellFoundedOn(R, Nat)
  BY NatLessThanWellFounded
<1>2. \A a, b \in Nat : <<a, b>> \notin R => b <= a
  BY DEF OpToRel
<1> HIDE DEF R
<1>3. \E m \in S : \A k \in S : ~ (<<k, m>> \in R)
  BY <1>1, WFMin
<1>4. PICK m \in S : \A k \in S : ~ (<<k, m>> \in R)
  BY <1>3
<1>5. ASSUME NEW k \in S PROVE m <= k
  <2>1. <<k, m>> \notin R /\ k \in Nat /\ m \in Nat
    BY <1>4
  <2> QED
    BY <1>2, <2>1
<1> QED
  BY <1>5

\* A command that is asked for has a first occurrence.
LEMMA FirstIsKept ==
  ASSUME NEW request \in Seq(Commands), NEW p \in DOMAIN request
  PROVE  \E i \in Kept(request) : i <= p /\ request[i] = request[p]
<1>1. DOMAIN request = 1..Len(request) /\ Len(request) \in Nat
  OBVIOUS
<1> DEFINE same == {n \in DOMAIN request : request[n] = request[p]}
<1>2. PICK m \in same : \A k \in same : m <= k
  <2>1. same \in SUBSET Nat /\ p \in same
    BY <1>1
  <2> HIDE DEF same
  <2> QED
    BY <2>1, Least
<1>3. m \in DOMAIN request /\ request[m] = request[p] /\ m <= p
  BY <1>2
<1>4. \A k \in 1..(m - 1) : request[k] # request[m]
  <2> SUFFICES ASSUME NEW k \in 1..(m - 1), request[k] = request[m] PROVE FALSE
    OBVIOUS
  <2>1. k \in same /\ k < m
    BY <1>1, <1>3
  <2>2. m <= k
    BY <1>2, <2>1
  <2> QED
    BY <1>1, <1>3, <2>1, <2>2
<1> QED
  BY <1>3, <1>4 DEF Kept

\* When nothing is under way, nothing can start and nothing has failed, every node
\* is done: the first that waits could start.
LEMMA NothingWaits ==
  ASSUME TypeOK, NEW r \in Runs, IsRunning(r),
         \A i \in DOMAIN node[r] : node[r][i].step \in {"waiting", "done"} /\ ~ CanStart(r, i),
         \A i \in DOMAIN node[r] : node[r][i].result \notin Failing \cup {"raised"}
  PROVE  \A i \in Kept(run[r].request) : node[r][i].step = "done"
<1>0. run[r] \in Run /\ node[r] \in [DOMAIN run[r].request -> Node]
  BY DEF TypeOK, IsRunning, NoRun
<1>1. PICK request : request = run[r].request
  OBVIOUS
<1>2. request \in Seq(Commands) /\ DOMAIN node[r] = DOMAIN request
  BY <1>0, <1>1, RunAssumption DEF Run, Requests
<1>3. DOMAIN request = 1..Len(request) /\ Len(request) \in Nat
  BY <1>2
<1> DEFINE waits == {n \in Kept(request) : node[r][n].step = "waiting"}
<1> SUFFICES ASSUME NEW i \in Kept(request), node[r][i].step # "done" PROVE FALSE
  BY <1>1
<1>4. waits \in SUBSET Nat /\ i \in waits
  BY <1>2, <1>3 DEF Kept
<1>5. PICK m \in waits : \A k \in waits : m <= k
  <2> HIDE DEF waits
  <2> QED
    BY <1>4, Least
<1>7. m \in Kept(request) /\ node[r][m].step = "waiting" /\ m \in DOMAIN node[r] /\ m \in Nat
  BY <1>2, <1>3 DEF Kept
<1>8. ASSUME NEW j \in Kept(request), j < m
      PROVE  Passed(r, j)
  <2>1. j \in DOMAIN node[r] /\ j \in Nat
    BY <1>2, <1>3 DEF Kept
  <2>2. node[r][j].step = "done"
    <3>1. j \notin waits
      BY <1>5, <1>7, <1>8, <2>1
    <3> QED
      BY <2>1, <3>1
  <2> QED
    BY <2>1, <2>2 DEF Passed
<1>9. CanStart(r, m)
  <2>1. Group(request, m) \subseteq Kept(request) /\ Earlier(request, m) \subseteq {j \in Kept(request) : j < m}
    BY DEF Group, Earlier
  <2> QED
    BY <1>1, <1>7, <1>8, <2>1 DEF CanStart, At
<1> QED
  BY <1>7, <1>9

\* A run that has reported success has no failed node, and none that waits but a
\* duplicate.
VerdictStands ==
  \A r \in Runs : run[r].phase = "succeeded" =>
    \A i \in DOMAIN node[r] :
      /\ node[r][i].result \notin Failing \cup {"raised"}
      /\ i \in Kept(run[r].request) => node[r][i].step = "done"

LEMMA BackingKept ==
  ASSUME Shape, NodesBacked, VerdictStands, [Next]_vars
  PROVE  NodesBacked' /\ VerdictStands'
<1> USE DEF Shape
<1>1. CASE UNCHANGED vars \/ People
  BY <1>1 DEF vars, People, NodesBacked, NodeBacked, RowsOf, VerdictStands
<1>2. ASSUME NEW r \in Runs, NEW asked \in Asked, Begin(r, asked.request, asked.option)
      PROVE  NodesBacked' /\ VerdictStands'
  <2>1. /\ run' = [run EXCEPT ![r] = run'[r]] /\ node' = [node EXCEPT ![r] = node'[r]]
        /\ rows' = [rows EXCEPT ![r] = {}] /\ run'[r].phase = "running"
        /\ \A i \in DOMAIN node'[r] : node'[r][i] = Waiting
    BY <1>2, BeginFacts
  <2>2. /\ \A q \in Runs \ {r} : run'[q] = run[q] /\ node'[q] = node[q] /\ rows'[q] = rows[q]
        /\ rows'[r] = {}
    BY <2>1 DEF TypeOK
  <2>3. \A i \in DOMAIN node'[r] : NodeBacked(r, i)'
    BY <2>1, <2>2 DEF NodeBacked, RowsOf, Waiting, Settled, Backed
  <2>4. \A q \in Runs \ {r} : \A i \in DOMAIN node'[q] : NodeBacked(q, i)'
    BY <2>2 DEF NodesBacked, NodeBacked, RowsOf
  <2> QED
    BY <2>1, <2>2, <2>3, <2>4 DEF NodesBacked, VerdictStands
<1>3. ASSUME NEW r \in Runs, NEW i \in DOMAIN node[r], Step(r, i)
      PROVE  NodesBacked' /\ VerdictStands'
  <2>1. PICK new \in Node : Becomes(r, i, new)
    BY <1>3, StepMoves
  <2>2. run' = run /\ IsRunning(r) /\ \A q \in Runs \ {r} : rows'[q] = rows[q]
    BY <1>3, StepMoves
  <2>3. /\ DOMAIN node'[r] = DOMAIN node[r] /\ \A q \in Runs \ {r} : node'[q] = node[q]
        /\ \A j \in DOMAIN node[r] \ {i} : node'[r][j] = node[r][j]
    BY <2>1, Became
  <2>4. NodeBacked(r, i)' /\ \A j \in DOMAIN node[r] \ {i} : RowsOf(r, j)' = RowsOf(r, j)
    BY <1>3, StepBacks DEF NodesBacked
  <2>5. \A j \in DOMAIN node'[r] : NodeBacked(r, j)'
    BY <2>2, <2>3, <2>4 DEF NodesBacked, NodeBacked
  <2>6. \A q \in Runs \ {r} : \A j \in DOMAIN node'[q] : NodeBacked(q, j)'
    BY <2>2, <2>3 DEF NodesBacked, NodeBacked, RowsOf
  <2>7. VerdictStands'
    BY <2>2, <2>3 DEF VerdictStands, IsRunning
  <2> QED
    BY <2>5, <2>6, <2>7 DEF NodesBacked
<1>4. ASSUME NEW r \in Runs, Report(r)
      PROVE  NodesBacked' /\ VerdictStands'
  <2>1. /\ IsRunning(r) /\ UNCHANGED <<node, rows>> /\ run' = [run EXCEPT ![r].phase = Verdict(r)]
        /\ \A i \in DOMAIN node[r] : node[r][i].step \in {"waiting", "done"} /\ ~ CanStart(r, i)
    BY <1>4 DEF Report
  <2>2. PICK old \in Run : old = run[r]
    BY <2>1 DEF TypeOK, IsRunning, NoRun
  <2>3. /\ run'[r] = [old EXCEPT !.phase = Verdict(r)] /\ \A q \in Runs \ {r} : run'[q] = run[q]
    BY <2>1, <2>2 DEF TypeOK
  <2>4. run'[r].request = old.request /\ run'[r].option = old.option /\ run'[r].phase = Verdict(r)
    BY <2>2, <2>3 DEF Run
  <2>5. NodesBacked'
    BY <2>1, <2>2, <2>3, <2>4 DEF NodesBacked, NodeBacked, RowsOf
  <2>6. ASSUME Verdict(r) = "succeeded"
        PROVE  \A i \in DOMAIN node[r] : /\ node[r][i].result \notin Failing \cup {"raised"}
                                         /\ i \in Kept(run[r].request) => node[r][i].step = "done"
    <3>1. \A i \in DOMAIN node[r] : node[r][i].result \notin Failing \cup {"raised"}
      BY <2>6 DEF Verdict
    <3> QED
      BY <2>1, <3>1, NothingWaits
  <2>7. VerdictStands'
    BY <2>1, <2>2, <2>3, <2>4, <2>6 DEF VerdictStands
  <2> QED
    BY <2>5, <2>7
<1>5. ASSUME NEW r \in Runs, Die(r)
      PROVE  NodesBacked' /\ VerdictStands'
  <2>1. /\ \A q \in Runs \ {r} : run'[q] = run[q] /\ node'[q] = node[q] /\ rows'[q] = rows[q]
        /\ run'[r] = NoRun /\ node'[r] = <<>>
    BY <1>5 DEF Die, TypeOK
  <2>2. \A q \in Runs \ {r} : \A i \in DOMAIN node'[q] : NodeBacked(q, i)'
    BY <2>1 DEF NodesBacked, NodeBacked, RowsOf
  <2> QED
    BY <2>1, <2>2 DEF NodesBacked, VerdictStands, NoRun
<1> QED
  BY <1>1, <1>2, <1>3, <1>4, <1>5 DEF Next

\* The last row of a kept node that is done tells its result.
LEMMA RowsTell ==
  ASSUME Shape, NodesBacked, NEW r \in Runs, run[r].option.telemetry, NEW i \in DOMAIN node[r],
         NEW status \in Results, <<i, status>> \in rows[r]
  PROVE  node[r][i].step = "done" /\ node[r][i].result = status
<1>1. NodeBacked(r, i) /\ node[r][i] \in Node /\ status \in RowsOf(r, i)
  BY NodesOfRuns DEF NodesBacked, RowsOf, Shape
<1>2. status # "started"
  BY DEF Results
<1> QED
  BY <1>1, <1>2 DEF NodeBacked, Settled, Backed, Node, Results, Failing

\* No command is executed twice: what has rows is kept.
LEMMA NoDuplicates ==
  ASSUME Shape, NEW r \in Runs, run[r] # NoRun
  PROVE  Diagnosis(r).duplicates = {}
<1>0. /\ run[r] \in Run /\ node[r] \in [DOMAIN run[r].request -> Node]
      /\ rows[r] \subseteq Kept(run[r].request) \X (Results \cup {"started"})
  BY DEF Shape, TypeOK
<1>1. PICK request \in Seq(Commands) : request = run[r].request
  BY <1>0, RunAssumption DEF Run, Requests
<1>2. DOMAIN request = 1..Len(request) /\ Len(request) \in Nat
  BY <1>1
<1>3. ASSUME NEW j \in Kept(request), NEW k \in Kept(request), request[k] = request[j]
      PROVE  k = j
  <2>1. j \in 1..Len(request) /\ k \in 1..Len(request)
    BY <1>2 DEF Kept
  <2>2. ~ (j < k) /\ ~ (k < j)
    BY <1>3, <2>1 DEF Kept
  <2> QED
    BY <1>2, <2>1, <2>2
<1>4. Events(r, Results \ {"cache-hit"}) \subseteq Kept(request)
  BY <1>0, <1>1 DEF Events
<1> QED
  BY <1>1, <1>3, <1>4 DEF Diagnosis

\* A successful report is backed by telemetry: every command that was asked for
\* has a node that succeeded, with its started row and its last row, no command is
\* under way without a started row, and what diagnose makes of the trace is what
\* the report says; however telemetry fails, threads interleave and runs die
\* (run_one_command, with_final_telemetry and build_diagnostics of
\* runtime/task_run.py).
THEOREM ReportBacked == Spec => []ReportIsBacked
<1>1. Init => NodesBacked /\ VerdictStands
  BY DEF Init, NodesBacked, VerdictStands, NoRun
<1>2. Shape /\ NodesBacked /\ VerdictStands /\ [Next]_vars => NodesBacked' /\ VerdictStands'
  BY BackingKept
<1>3. Shape /\ NodesBacked /\ VerdictStands => ReportIsBacked
  <2> SUFFICES ASSUME Shape, NodesBacked, VerdictStands, NEW r \in Runs, run[r] # NoRun,
                      run[r].option.telemetry
               PROVE  /\ run[r].phase = "succeeded" =>
                           /\ \A p \in DOMAIN run[r].request : \E i \in Kept(run[r].request) :
                                /\ run[r].request[i] = run[r].request[p]
                                /\ node[r][i].result \in {"succeeded", "cache-hit"}
                                /\ <<i, "started">> \in rows[r]
                           /\ Diagnosis(r) = [failures |-> {}, executed |-> Summary(r).executed,
                                              hits |-> Summary(r).hits, duplicates |-> {}]
                      /\ run[r].phase = "failed" =>
                           Diagnosis(r).failures \subseteq Summary(r).failed
                             /\ Diagnosis(r).duplicates = {}
                      /\ \A i \in DOMAIN node[r] :
                           node[r][i].step \in {"announced", "missed", "caching", "torn"}
                             => <<i, "started">> \in rows[r]
    BY DEF ReportIsBacked
  <2>0. /\ run[r] \in Run /\ node[r] \in [DOMAIN run[r].request -> Node]
        /\ DOMAIN node[r] = DOMAIN run[r].request
    BY DEF Shape, TypeOK
  <2>1. ASSUME NEW i \in DOMAIN node[r], node[r][i].step \in {"announced", "missed", "caching", "torn"}
        PROVE  <<i, "started">> \in rows[r]
    BY <2>1 DEF NodesBacked, NodeBacked, Backed, RowsOf
  <2>2. Diagnosis(r).duplicates = {}
    BY NoDuplicates
  <2>3. Events(r, Failing) \subseteq Nodes(r, Failing)
    BY RowsTell DEF Events, Nodes, Failing, Results
  <2>4. ASSUME run[r].phase = "succeeded", NEW p \in DOMAIN run[r].request
        PROVE  \E i \in Kept(run[r].request) :
                 /\ run[r].request[i] = run[r].request[p]
                 /\ node[r][i].result \in {"succeeded", "cache-hit"}
                 /\ <<i, "started">> \in rows[r]
    <3>1. PICK i \in Kept(run[r].request) : run[r].request[i] = run[r].request[p]
      <4>1. run[r].request \in Seq(Commands)
        BY <2>0, RunAssumption DEF Run, Requests
      <4> QED
        BY <2>4, <4>1, FirstIsKept
    <3>2. i \in DOMAIN node[r]
      BY <2>0 DEF Kept
    <3>3. /\ node[r][i].step = "done" /\ node[r][i].result \notin Failing \cup {"raised"}
          /\ NodeBacked(r, i) /\ node[r][i] \in Node
      BY <2>0, <2>4, <3>2 DEF VerdictStands, NodesBacked
    <3>4. node[r][i].result \in {"succeeded", "cache-hit"}
      BY <3>3 DEF NodeBacked, Settled, Node, Results, Failing
    <3> QED
      BY <3>1, <3>3, <3>4 DEF NodeBacked, Backed, RowsOf
  <2>5. ASSUME run[r].phase = "succeeded"
        PROVE  /\ Events(r, Failing) = {}
               /\ Events(r, Results \ {"cache-hit"}) = Nodes(r, {"succeeded", "failed"})
               /\ Events(r, {"cache-hit"}) = Nodes(r, {"cache-hit"})
    <3>1. ASSUME NEW i \in DOMAIN node[r]
          PROVE  /\ node[r][i].result \notin Failing \cup {"raised"}
                 /\ node[r][i].result \in {"succeeded", "cache-hit"} =>
                      <<i, node[r][i].result>> \in rows[r]
      <4>1. node[r][i].result \notin Failing \cup {"raised"} /\ NodeBacked(r, i)
        BY <2>5 DEF VerdictStands, NodesBacked
      <4>2. i \in Kept(run[r].request) => node[r][i].step = "done"
        BY <2>5 DEF VerdictStands
      <4>3. node[r][i].step # "waiting" => i \in Kept(run[r].request)
        BY DEF Shape, OnlyKeptBegin
      <4> QED
        BY <4>1, <4>2, <4>3 DEF NodeBacked, Settled, Backed, RowsOf
    <3>2. ASSUME NEW i \in DOMAIN node[r], NEW status \in Results, <<i, status>> \in rows[r]
          PROVE  node[r][i].result = status /\ status \in {"succeeded", "cache-hit"}
      <4>1. node[r][i].step = "done" /\ node[r][i].result = status
        BY <3>2, RowsTell
      <4>2. NodeBacked(r, i) /\ status \notin Failing \cup {"raised"}
        BY <3>1, <4>1 DEF NodesBacked
      <4> QED
        BY <4>1, <4>2 DEF NodeBacked, Settled, Results, Failing
    <3> QED
      BY <3>1, <3>2 DEF Events, Nodes, Results, Failing
  <2> QED
    BY <2>1, <2>2, <2>3, <2>4, <2>5 DEF Diagnosis, Summary
<1> QED
  BY <1>1, <1>2, <1>3, TypeCorrect, PTL DEF Spec, Shape

-----------------------------------------------------------------------------
(***************************************************************************)
(* What success says of the tree.                                          *)
(***************************************************************************)
Trusted == {"succeeded", "cache-hit"}

\* The result of position k stands for a command that was asked for after the last
\* ordered one, its own occurrence or, when that was dropped, a later one.
Vouches(r, k) ==
  \E i \in DOMAIN run[r].request :
    /\ run[r].request[i] = run[r].request[k]
    /\ \A j \in i..Len(run[r].request) : Kind[run[r].request[j]] \in Batched

\* A run that uses the cache looks up and executes a batched command in the tree
\* that it has hashed, and HEAD is still the one in the key.
KeysAreCurrent ==
  \A r \in Runs : IsRunning(r) => \A i \in DOMAIN node[r] :
    LET c == run[r].request[i] IN
    /\ node[r][i].step = "announced" /\ Kind[c] \in Batched /\ run[r].option.cache => run[r].hashed = inputs
    /\ node[r][i].step = "missed" /\ node[r][i].key # NoKey => node[r][i].key = <<c, inputs, head>>

\* Whoever changes the tree finds no run with a result that it is going to report
\* of that tree.
ResultsStand ==
  ~ UNCHANGED <<inputs, head>> =>
    \A r \in Runs : IsRunning(r) => \A k \in DOMAIN node[r] : Vouches(r, k) => node[r][k].result \notin Trusted

\* What the cache holds, or is about to hold, is good.
CacheIsGood ==
  /\ \A key \in Keys : cache[key] = "whole" => key \in Good
  /\ \A r \in Runs : IsRunning(r) => \A i \in DOMAIN node[r] :
       /\ node[r][i].step \in {"caching", "torn"} => node[r][i].key \in Good
       /\ node[r][i].key # NoKey => Kind[run[r].request[i]] \in Batched

\* The results that runs are going to report are good in the tree there is.
Sound(r, k) ==
  Vouches(r, k) /\ node[r][k].result \in Trusted => <<run[r].request[k], inputs, head>> \in Good

ResultsAreSound == \A r \in Runs : IsRunning(r) => \A k \in DOMAIN node[r] : Sound(r, k)

\* What vouches is batched, for its command is asked for after the last ordered one.
LEMMA VouchersAreBatched ==
  ASSUME TypeOK, NEW r \in Runs, NEW k \in DOMAIN node[r], Vouches(r, k)
  PROVE  Kind[run[r].request[k]] \in Batched
<1>1. PICK i \in DOMAIN run[r].request :
        /\ run[r].request[i] = run[r].request[k]
        /\ \A j \in i..Len(run[r].request) : Kind[run[r].request[j]] \in Batched
  BY DEF Vouches
<1>2. run[r].request \in Seq(Commands)
  BY NodesOfRuns, RunAssumption DEF Run, Requests
<1>3. i \in i..Len(run[r].request)
  BY <1>2
<1> QED
  BY <1>1, <1>3

\* What one step of a node does to the tree, to the cache and to the node.
LEMMA StepStands ==
  ASSUME KeysAreCurrent, Shape, NodesBacked, CacheIsGood,
         NEW r \in Runs, NEW i \in DOMAIN node[r], Step(r, i)
  PROVE  /\ \A key \in Keys : cache'[key] = "whole" => key \in Good
         /\ node'[r][i].step \in {"caching", "torn"} => node'[r][i].key \in Good
         /\ node'[r][i].key # NoKey => Kind[run[r].request[i]] \in Batched
         /\ Kind[run[r].request[i]] \in Batched =>
              /\ UNCHANGED <<inputs, head>>
              /\ node'[r][i].result \in Trusted =>
                   node[r][i].result \in Trusted \/ <<run[r].request[i], inputs, head>> \in Good
<1> DEFINE c == run[r].request[i]
<1>0. /\ run' = run /\ node[r][i] \in Node /\ c \in Commands /\ run[r] \in Run /\ IsRunning(r)
      /\ {"none", "succeeded", "cache-hit", "failed", "policy-blocked", "raised"} = Results
      /\ node[r][i].step \in {"caching", "torn"} => node[r][i].key \in Good
      /\ node[r][i].key # NoKey => Kind[c] \in Batched
      /\ \A key \in Keys : cache[key] = "whole" => key \in Good
      /\ Settled(node[r][i])
  BY StepMoves, NodesOfRuns DEF Results, Shape, CacheIsGood, NodesBacked, NodeBacked
<1>1. ASSUME NEW step \in {"waiting", "announced", "missed", "caching", "torn", "closing", "done"},
             NEW result \in Results, Move(r, i, step, result)
      PROVE  node'[r][i].step = step /\ node'[r][i].result = result /\ node'[r][i].key = node[r][i].key
  <2>1. PICK new \in Node : /\ Becomes(r, i, new)
                            /\ new.step = step /\ new.result = result /\ new.key = node[r][i].key
    BY <1>1, MoveBecomes DEF Shape
  <2> QED
    BY <2>1, Became DEF Shape
<1>2. CASE Block(r, i) \/ Announce(r, i)
  <2>1. /\ UNCHANGED <<inputs, head, cache>> /\ node'[r][i].key = node[r][i].key
        /\ \/ node'[r][i].step \in {"closing", "done"} /\ node'[r][i].result \in Failing \cup {"raised"}
           \/ node'[r][i].step = "announced" /\ node'[r][i].result = "none"
    BY <1>0, <1>1, <1>2 DEF Block, Announce, CanStart, At, Raise, Failing
  <2> QED
    BY <1>0, <2>1 DEF Trusted, Failing
<1>3. CASE Lookup(r, i)
  <2>1. node[r][i].step = "announced" /\ UNCHANGED <<inputs, head, cache>>
    BY <1>3 DEF Lookup, At
  <2>2. CASE Move(r, i, "closing", "cache-hit") /\ run[r].option.cache /\ cache[CacheKey(r, i)] = "whole"
    <3>1. CacheKey(r, i) \in Keys
      BY <1>0 DEF CacheKey, Keys, Run, Shape, TypeOK
    <3>2. Kind[c] \in Batched => <<c, inputs, head>> \in Good
      BY <1>0, <2>1, <2>2, <3>1 DEF CacheKey, KeysAreCurrent
    <3>3. /\ node'[r][i].step = "closing" /\ node'[r][i].key = node[r][i].key
      BY <1>0, <1>1, <2>2
    <3> QED
      BY <1>0, <2>1, <3>2, <3>3
  <2>3. CASE /\ Cacheable(c)
             /\ node' = [node EXCEPT ![r][i] =
                           [step |-> "missed", result |-> "none", key |-> CacheKey(r, i)]]
    <3>1. node'[r][i] = [step |-> "missed", result |-> "none", key |-> CacheKey(r, i)]
      BY <2>3 DEF Shape, TypeOK
    <3>2. node'[r][i].step = "missed" /\ node'[r][i].result = "none"
      BY <3>1
    <3>3. Kind[c] \in Batched
      BY <1>0, <2>3 DEF Cacheable, CacheEligible, Kind, Batched
    <3> QED
      BY <1>0, <2>1, <3>2, <3>3 DEF Trusted
  <2>4. CASE Move(r, i, "missed", "none")
    <3>1. /\ node'[r][i].step = "missed" /\ node'[r][i].result = "none"
          /\ node'[r][i].key = node[r][i].key
      BY <1>0, <1>1, <2>4
    <3> QED
      BY <1>0, <2>1, <3>1 DEF Trusted
  <2> QED
    BY <1>3, <2>2, <2>3, <2>4 DEF Lookup
<1>4. CASE Execute(r, i)
  <2>1. node[r][i].step = "missed" /\ UNCHANGED cache
    BY <1>4 DEF Execute, At
  <2>2. Kind[c] \in Batched => UNCHANGED <<inputs, head>>
    <3>1. Kind[c] \in Batched => c \notin Edits /\ c \notin Commits
      BY RunAssumption DEF Batched, Ordered
    <3> QED
      BY <1>4, <3>1 DEF Execute
  <2>3. PICK result \in {"succeeded", "failed"} :
          /\ Kind[c] \in Batched /\ result = "succeeded" => <<c, inputs, head>> \in Good
          /\ Move(r, i, IF result = "succeeded" /\ node[r][i].key # NoKey THEN "caching" ELSE "closing",
                  result)
    BY <1>4 DEF Execute
  <2>4. CASE result = "succeeded" /\ node[r][i].key # NoKey
    <3>1. node'[r][i].step = "caching" /\ node'[r][i].key = node[r][i].key
      BY <1>0, <1>1, <2>3, <2>4
    <3>2. <<c, inputs, head>> \in Good /\ node[r][i].key = <<c, inputs, head>>
      BY <1>0, <2>1, <2>3, <2>4 DEF KeysAreCurrent
    <3> QED
      BY <1>0, <2>1, <2>2, <3>1, <3>2
  <2>5. CASE ~ (result = "succeeded" /\ node[r][i].key # NoKey)
    <3>1. /\ node'[r][i].step = "closing" /\ node'[r][i].result = result
          /\ node'[r][i].key = node[r][i].key
      BY <1>0, <1>1, <2>3, <2>5
    <3> QED
      BY <1>0, <2>1, <2>2, <2>3, <3>1 DEF Trusted
  <2> QED
    BY <2>4, <2>5
<1>5. CASE WriteCache(r, i)
  <2>1. /\ UNCHANGED <<inputs, head>>
        /\ node[r][i].result \in Trusted /\ node[r][i].key \in Good
    BY <1>0, <1>5 DEF WriteCache, At, Settled, Trusted
  <2>2. node'[r][i].key = node[r][i].key
    BY <1>0, <1>1, <1>5 DEF WriteCache, Raise
  <2>3. \A key \in Keys : cache'[key] = "whole" => key \in Good
    BY <1>0, <1>5, <2>1 DEF WriteCache, Shape, TypeOK
  <2> QED
    BY <1>0, <2>1, <2>2, <2>3
<1>6. CASE Close(r, i)
  <2>1. /\ node[r][i].step = "closing" /\ UNCHANGED <<inputs, head, cache>>
        /\ node[r][i].result \in Results
    BY <1>0, <1>6 DEF Close, At, Node
  <2>2. /\ node'[r][i].key = node[r][i].key /\ node'[r][i].step = "done"
        /\ node'[r][i].result \in {node[r][i].result, "failed", "raised"}
    BY <1>0, <1>1, <1>6, <2>1 DEF Close, Raise
  <2> QED
    BY <1>0, <2>1, <2>2 DEF Trusted
<1> QED
  BY <1>2, <1>3, <1>4, <1>5, <1>6 DEF Step

LEMMA TreeKept ==
  ASSUME KeysAreCurrent, [ResultsStand]_vars, Shape, NodesBacked, CacheIsGood, ResultsAreSound,
         [Next]_vars
  PROVE  CacheIsGood' /\ ResultsAreSound'
<1> USE DEF Shape
<1>1. CASE UNCHANGED vars
  BY <1>1 DEF vars, CacheIsGood, ResultsAreSound, Sound, Vouches, IsRunning
<1>0. ASSUME ~ UNCHANGED vars PROVE ResultsStand
  BY <1>0
<1>2. ASSUME NEW q \in Runs, run'[q] = run[q], node'[q] = node[q], IsRunning(q)', NEW k \in DOMAIN node'[q]
      PROVE  Sound(q, k)'
  <2>1. IsRunning(q) /\ k \in DOMAIN node[q] /\ Sound(q, k) /\ (Vouches(q, k)' <=> Vouches(q, k))
    BY <1>2 DEF IsRunning, ResultsAreSound, Vouches
  <2>2. CASE UNCHANGED <<inputs, head>>
    BY <1>2, <2>1, <2>2 DEF Sound
  <2>3. CASE ~ UNCHANGED <<inputs, head>>
    <3>1. Vouches(q, k) => node[q][k].result \notin Trusted
      BY <1>0, <2>1, <2>3 DEF ResultsStand, vars
    <3> QED
      BY <1>2, <2>1, <3>1 DEF Sound
  <2> QED
    BY <2>2, <2>3
<1>3. CASE People
  <2>1. UNCHANGED <<cache, run, node>>
    BY <1>3 DEF People
  <2>2. CacheIsGood'
    BY <2>1 DEF CacheIsGood, IsRunning
  <2>3. ResultsAreSound'
    BY <1>2, <2>1 DEF ResultsAreSound
  <2> QED
    BY <2>2, <2>3
<1>4. ASSUME NEW r \in Runs, NEW asked \in Asked, Begin(r, asked.request, asked.option)
      PROVE  CacheIsGood' /\ ResultsAreSound'
  <2>1. /\ run' = [run EXCEPT ![r] = run'[r]] /\ node' = [node EXCEPT ![r] = node'[r]]
        /\ \A i \in DOMAIN node'[r] : node'[r][i] = Waiting
        /\ UNCHANGED cache
    BY <1>4, BeginFacts
  <2>2. \A q \in Runs \ {r} : run'[q] = run[q] /\ node'[q] = node[q]
    BY <2>1 DEF TypeOK
  <2>3. CacheIsGood'
    BY <2>1, <2>2 DEF CacheIsGood, IsRunning, Waiting
  <2>4. \A i \in DOMAIN node'[r] : Sound(r, i)'
    BY <2>1 DEF Sound, Waiting, Trusted
  <2>5. ResultsAreSound'
    BY <1>2, <2>2, <2>4 DEF ResultsAreSound
  <2> QED
    BY <2>3, <2>5
<1>5. ASSUME NEW r \in Runs, NEW i \in DOMAIN node[r], Step(r, i)
      PROVE  CacheIsGood' /\ ResultsAreSound'
  <2>1. PICK new \in Node : Becomes(r, i, new)
    BY <1>5, StepMoves
  <2>2. run' = run /\ IsRunning(r)
    BY <1>5, StepMoves
  <2>3. /\ DOMAIN node'[r] = DOMAIN node[r] /\ \A q \in Runs \ {r} : node'[q] = node[q]
        /\ \A j \in DOMAIN node[r] \ {i} : node'[r][j] = node[r][j]
    BY <2>1, Became
  <2>4. /\ \A key \in Keys : cache'[key] = "whole" => key \in Good
        /\ node'[r][i].step \in {"caching", "torn"} => node'[r][i].key \in Good
        /\ node'[r][i].key # NoKey => Kind[run[r].request[i]] \in Batched
        /\ Kind[run[r].request[i]] \in Batched =>
             /\ UNCHANGED <<inputs, head>>
             /\ node'[r][i].result \in Trusted =>
                  node[r][i].result \in Trusted \/ <<run[r].request[i], inputs, head>> \in Good
    BY <1>5, StepStands
  <2>5. CacheIsGood'
    BY <2>2, <2>3, <2>4 DEF CacheIsGood, IsRunning
  <2>6. Sound(r, i)'
    <3> SUFFICES ASSUME Vouches(r, i)', node'[r][i].result \in Trusted
                 PROVE  <<run[r].request[i], inputs', head'>> \in Good
      BY <2>2 DEF Sound
    <3>1. Vouches(r, i)
      BY <2>2 DEF Vouches
    <3>2. Kind[run[r].request[i]] \in Batched
      BY <3>1, VouchersAreBatched
    <3> QED
      BY <2>2, <2>4, <3>1, <3>2 DEF ResultsAreSound, Sound
  <2>7. ASSUME NEW k \in DOMAIN node[r] \ {i} PROVE Sound(r, k)'
    <3>1. /\ Sound(r, k) /\ (Vouches(r, k)' <=> Vouches(r, k))
          /\ node'[r][k] = node[r][k]
      BY <2>2, <2>3 DEF ResultsAreSound, Vouches
    <3>2. CASE UNCHANGED <<inputs, head>>
      BY <2>2, <3>1, <3>2 DEF Sound
    <3>3. CASE ~ UNCHANGED <<inputs, head>>
      <4>1. Vouches(r, k) => node[r][k].result \notin Trusted
        BY <1>0, <2>2, <3>3 DEF ResultsStand, vars
      <4> QED
        BY <3>1, <4>1 DEF Sound
    <3> QED
      BY <3>2, <3>3
  <2>8. ResultsAreSound'
    BY <1>2, <2>2, <2>3, <2>6, <2>7 DEF ResultsAreSound
  <2> QED
    BY <2>5, <2>8
<1>6. ASSUME NEW r \in Runs, Report(r) \/ Die(r)
      PROVE  CacheIsGood' /\ ResultsAreSound'
  <2>1. /\ UNCHANGED cache
        /\ \A q \in Runs \ {r} : run'[q] = run[q] /\ node'[q] = node[q]
    BY <1>6 DEF Report, Die, TypeOK
  <2>2. ~ IsRunning(r)'
    BY <1>6, Ends
  <2>3. CacheIsGood'
    BY <2>1, <2>2 DEF CacheIsGood, IsRunning
  <2>4. ResultsAreSound'
    BY <1>2, <2>1, <2>2 DEF ResultsAreSound
  <2> QED
    BY <2>3, <2>4
<1> QED
  BY <1>1, <1>3, <1>4, <1>5, <1>6 DEF Next

\* A run that reports success is right about the tree: every readonly or
\* validation command asked for after the last ordered one succeeds on the inputs
\* and the HEAD of that moment, whether it was run, answered from the cache of
\* another run or dropped as a duplicate.  This holds for any number of runs, and
\* while they, their ordered commands and other people change the tree, as long as
\* no cached command is looked up or executed in a tree other than the one in its
\* key, and nobody changes the tree under a result that is still to be reported
\* (cache_key_for, read_cache and execute_plan of runtime/task_run.py).  The code
\* sees to neither: it hashes the inputs once and dedupes across ordered commands.
THEOREM GreenIsGood ==
  Spec /\ []KeysAreCurrent /\ [][ResultsStand]_vars => GreenMeansGood
<1> DEFINE Inv == NodesBacked /\ VerdictStands /\ CacheIsGood /\ ResultsAreSound
<1>1. Init => Inv
  BY RunAssumption DEF Init, NodesBacked, VerdictStands, CacheIsGood, ResultsAreSound, IsRunning, NoRun
<1>2. KeysAreCurrent /\ [ResultsStand]_vars /\ Shape /\ Inv /\ [Next]_vars => Inv'
  BY BackingKept, TreeKept
<1> DEFINE Right(r) ==
      IsRunning(r) /\ run'[r].phase = "succeeded" =>
        \A i \in DOMAIN run[r].request :
          (\A j \in i..Len(run[r].request) : Kind[run[r].request[j]] \in Batched)
            => <<run[r].request[i], inputs, head>> \in Good
<1>3. Shape /\ Inv /\ [Next]_vars => [\A r \in Runs : Right(r)]_vars
  <2> SUFFICES ASSUME Shape, Inv, [Next]_vars, NEW r \in Runs, IsRunning(r), run'[r].phase = "succeeded",
                      NEW i \in DOMAIN run[r].request,
                      \A j \in i..Len(run[r].request) : Kind[run[r].request[j]] \in Batched
               PROVE  <<run[r].request[i], inputs, head>> \in Good
    OBVIOUS
  <2> USE DEF Shape
  <2>0. run[r] \in Run /\ node[r] \in [DOMAIN run[r].request -> Node]
    BY DEF TypeOK, IsRunning, NoRun
  <2>1. Report(r)
    <3>1. run[r].phase = "running"
      BY DEF IsRunning
    <3>2. ASSUME NEW q \in Runs, NEW asked \in Asked, Begin(q, asked.request, asked.option)
          PROVE  FALSE
      BY <3>1, <3>2 DEF Begin, IsRunning, TypeOK
    <3>3. ASSUME NEW q \in Runs, NEW k \in DOMAIN node[q], Step(q, k)
          PROVE  FALSE
      BY <3>1, <3>3, StepMoves
    <3>4. ASSUME NEW q \in Runs, Die(q)
          PROVE  FALSE
      BY <3>1, <3>4 DEF Die, TypeOK, NoRun
    <3>5. ASSUME NEW q \in Runs \ {r}, Report(q)
          PROVE  FALSE
      BY <3>1, <3>5 DEF Report, TypeOK
    <3>6. ~ People /\ ~ UNCHANGED vars
      BY <3>1 DEF People, vars
    <3> QED
      BY <3>2, <3>3, <3>4, <3>5, <3>6 DEF Next
  <2>2. run[r].request \in Seq(Commands)
    BY <2>0, RunAssumption DEF Run, Requests
  <2>4. PICK k \in Kept(run[r].request) : run[r].request[k] = run[r].request[i]
    BY <2>2, FirstIsKept
  <2>5. k \in DOMAIN node[r] /\ Vouches(r, k)
    BY <2>0, <2>4 DEF Kept, Vouches
  <2>6. \A j \in DOMAIN node[r] : node[r][j].result \notin Failing \cup {"raised"}
    <3>1. Verdict(r) = "succeeded"
      BY <2>0, <2>1 DEF Report, TypeOK
    <3> QED
      BY <3>1 DEF Verdict
  <2>7. node[r][k].step = "done"
    BY <2>1, <2>4, <2>6, NothingWaits DEF Report
  <2>8. node[r][k].result \in {"succeeded", "cache-hit"}
    <3>1. Settled(node[r][k]) /\ node[r][k] \in Node
      BY <2>0, <2>5 DEF NodesBacked, NodeBacked
    <3> QED
      BY <2>5, <2>6, <2>7, <3>1 DEF Settled, Node, Results, Failing
  <2> QED
    BY <2>4, <2>5, <2>8 DEF ResultsAreSound, Sound, Trusted
<1> QED
  BY <1>1, <1>2, <1>3, TypeCorrect, PTL DEF Spec, Shape, GreenMeansGood
=============================================================================
