---------------------------- MODULE RecordProofs ----------------------------
(***************************************************************************)
(* Proofs about the record of a task, for every value of the constants.    *)
(***************************************************************************)
EXTENDS TaskRecord, TLAPS

-----------------------------------------------------------------------------
(***************************************************************************)
(* The verdict at the end asks for no less than the one before.            *)
(***************************************************************************)
\* Whatever preflight looks at is looked at in the end, but for the worktree
\* that is to be written to.
LEMMA NeededAtTheEnd ==
  ASSUME NEW task
  PROVE  Needed(task, FALSE) \subseteq Needed(task, TRUE) \cup {"prewrite"}
<1> SUFFICES ASSUME NEW check \in Needed(task, FALSE)
             PROVE  check \in Needed(task, TRUE) \/ check = "prewrite"
  OBVIOUS
<1>1. CASE IsGated(task) /\ IsMutating(task)
  BY <1>1 DEF Needed
<1>2. CASE IsGated(task) /\ ~ IsMutating(task)
  BY <1>2 DEF Needed
<1>3. CASE ~ IsGated(task)
  BY <1>3 DEF Needed
<1> QED
  BY <1>1, <1>2, <1>3

\* A decision about agents that holds at the end holds before.
LEMMA DecisionHolds ==
  ASSUME NEW task, NEW now, AgentDecision(task, now, TRUE)
  PROVE  AgentDecision(task, now, FALSE)
  BY DEF AgentDecision

\* The same of the plan for the proxy.
LEMMA ProxyHolds ==
  ASSUME NEW now, ShellProxy(now, TRUE)
  PROVE  ShellProxy(now, FALSE)
  BY DEF ShellProxy

\* So whatever a check finds at the end it would have found before.
LEMMA HoldsBefore ==
  ASSUME NEW task, NEW now, NEW check, Holds(check, task, now, TRUE)
  PROVE  Holds(check, task, now, FALSE)
  BY DecisionHolds, ProxyHolds DEF Holds

\* The final verdict asks for no less than preflight did (validate_task): for
\* every task and every content of its tables a record that passes the final
\* gate would pass preflight, but for the worktree.
THEOREM FinalAsksForMore == RecordSpec => []FinalCoversPreflight
<1>1. FinalCoversPreflight
  <2> SUFFICES ASSUME Failing(record.task, Now, TRUE) = {}, NEW check \in Failing(record.task, Now, FALSE)
               PROVE  check = "prewrite"
    BY DEF FinalCoversPreflight
  <2>1. check \in Needed(record.task, FALSE) /\ ~ Holds(check, record.task, Now, FALSE)
    BY DEF Failing
  <2>2. check \in Needed(record.task, TRUE) => Holds(check, record.task, Now, TRUE)
    BY DEF Failing
  <2>3. Holds(check, record.task, Now, TRUE) => Holds(check, record.task, Now, FALSE)
    BY HoldsBefore
  <2>4. check \in Needed(record.task, TRUE) \/ check = "prewrite"
    BY <2>1, NeededAtTheEnd
  <2> QED
    BY <2>1, <2>2, <2>3, <2>4
<1> QED
  BY <1>1, PTL

-----------------------------------------------------------------------------
(***************************************************************************)
(* finalize says "finalized" only with the gate behind it.                 *)
(***************************************************************************)
\* A gate that runs, by its fields.
Running(g) ==
  g = [phase |-> g.phase, caller |-> g.caller, request |-> g.request, final |-> g.final,
       task |-> g.task, left |-> g.left, errors |-> g.errors, before |-> g.before,
       since |-> g.since, began |-> g.began]

\* Since then the record has been replaced or has passed its final gate.
Backed(began) == record.applied > began \/ \E run \in runs : run.final /\ run.since = began

\* What a gate or a finalize that runs has behind it: the task was there when it
\* began, or it has found an error; the pool asks for the final verdict; and when
\* the commands of the final gate have ended without an error, the gate has passed.
GateInvariant ==
  /\ record.applied \in Nat
  /\ record = [task |-> record.task, made |-> record.made, applied |-> record.applied]
  /\ gate # NoGate =>
       /\ Running(gate)
       /\ gate.began \in Nat /\ gate.since \in Nat
       /\ gate.began <= gate.since /\ gate.since <= record.applied
       /\ gate.caller = "finalize" /\ gate.phase = "checking" /\ gate.request.id =>
            Exists \/ gate.errors # {}
       /\ gate.caller = "pool" => gate.final = TRUE
       /\ gate.phase = "ending" /\ gate.before = {} /\ gate.request.id => Backed(gate.began)

RecordInvariant == GateInvariant /\ FinalizedIsBacked

\* The writers leave a gate that runs alone, and either keep the record and the
\* rows of its gates or put another record in place.
LEMMA WritersKeep ==
  ASSUME RecordInvariant, Writes
  PROVE  RecordInvariant'
<1> DEFINE Kept == /\ UNCHANGED <<gate, runs>> /\ record'.applied = record.applied
                   /\ record' = [task |-> record'.task, made |-> record'.made, applied |-> record'.applied]
                   /\ Exists => Exists'
           Replaced == /\ UNCHANGED gate /\ record'.applied = record.applied + 1
                       /\ record' = [task |-> record'.task, made |-> record'.made, applied |-> record'.applied]
                       /\ Exists'
<1>1. life' = NoLife
  BY DEF Writes
<1>2. ASSUME NEW task, NEW new, NEW made, NEW replace, made # "never", Apply(task, new, made, replace)
      PROVE  Replaced
  BY <1>2 DEF Apply, Exists
<1>3. ASSUME UNCHANGED <<record, gate, runs>> PROVE Kept
  BY <1>3 DEF RecordInvariant, GateInvariant, Exists
<1>4. ASSUME NEW status, SetStatus(status) PROVE Kept
  BY <1>4 DEF RecordInvariant, GateInvariant, SetStatus, Exists
<1>5. Kept \/ Replaced
  BY <1>2, <1>3, <1>4
     DEF Writes, RunInputFilter, RunDispatch, ApplyPayload, AddRow, AppendEvent, AppendEvidence,
         EnterGateway, CommandStarts, CommandEnds, RecordSpan
<1>6. FinalizedIsBacked'
  BY <1>1 DEF FinalizedIsBacked, NoLife
<1>7. CASE Kept
  BY <1>6, <1>7 DEF RecordInvariant, GateInvariant, Backed, Running
<1>8. CASE Replaced
  BY <1>6, <1>8 DEF RecordInvariant, GateInvariant, Backed, Running
<1> QED
  BY <1>5, <1>7, <1>8

\* A gate begins with the record as it is.
LEMMA NewGate ==
  ASSUME NEW caller, NEW request, NEW final, NEW types, NEW new,
         new = GateOf(caller, request, final, types)
  PROVE  /\ Running(new) /\ new.began = record.applied /\ new.since = record.applied
         /\ new.phase = "checking" /\ new.caller = caller /\ new.request = request
         /\ new.final = final /\ new.before = {} /\ new.errors = {}
  BY DEF GateOf, Running

\* A gate that starts has nothing behind it yet.
LEMMA StartsKeep ==
  ASSUME RecordInvariant,
         \/ \E final, types : StartGate(final, types)
         \/ \E command \in {"preflight", "finalize"}, request \in Requests :
              StartLifecycle(command, request)
  PROVE  RecordInvariant'
<1>1. life' = NoLife /\ UNCHANGED <<record, runs>>
  BY DEF StartGate, StartLifecycle
<1>2. FinalizedIsBacked'
  BY <1>1 DEF FinalizedIsBacked, NoLife
<1>3. ASSUME NEW final, NEW types, StartGate(final, types) PROVE GateInvariant'
  BY <1>1, <1>3 DEF RecordInvariant, GateInvariant, StartGate, GateOf, Running
<1>4. ASSUME NEW command \in {"preflight", "finalize"}, NEW request, StartLifecycle(command, request)
      PROVE  GateInvariant'
  <2>0. PICK new : new = GateOf(command, request, command = "finalize", TypesOf(request))
    OBVIOUS
  <2>n. /\ Running(new) /\ new.began = record.applied /\ new.since = record.applied
        /\ new.phase = "checking" /\ new.caller = command /\ new.request = request
    BY <2>0, NewGate
  <2>a. PICK asked : asked = [new EXCEPT !.before = OwnErrors(command, request)]
    OBVIOUS
  <2>r. PICK refused : refused = [asked EXCEPT !.left = {},
                                     !.errors = IF request.id THEN {"no task"} ELSE {}]
    OBVIOUS
  <2>1. (gate' = asked /\ (request.id => Exists)) \/ gate' = refused
    BY <1>4, <2>0, <2>a, <2>r DEF StartLifecycle
  <2>2. /\ Running(asked) /\ asked.began = record.applied /\ asked.since = record.applied
        /\ asked.phase = "checking" /\ asked.caller = command /\ asked.request = request
    BY <2>n, <2>a DEF Running
  <2>3. /\ Running(refused) /\ refused.began = record.applied /\ refused.since = record.applied
        /\ refused.phase = "checking" /\ refused.caller = command /\ refused.request = request
        /\ request.id => refused.errors # {}
    BY <2>2, <2>r DEF Running
  <2>4. command # "pool"
    BY <1>4
  <2> QED
    BY <1>1, <2>1, <2>2, <2>3, <2>4 DEF RecordInvariant, GateInvariant, Exists
<1> QED
  BY <1>2, <1>3, <1>4 DEF RecordInvariant

\* One more check: errors are only added.
LEMMA CheckKeeps ==
  ASSUME RecordInvariant, Check
  PROVE  RecordInvariant'
<1>1. UNCHANGED <<record, runs, life>> /\ gate # NoGate /\ gate.phase = "checking"
  BY DEF Check
<1>2. PICK left, errors : gate' = [gate EXCEPT !.left = left, !.errors = errors]
                          /\ (gate.errors # {} => errors # {})
  BY DEF Check
<1>3. Running(gate) /\ Running(gate')
  BY <1>1, <1>2 DEF RecordInvariant, GateInvariant, Running
<1>4. /\ gate'.began = gate.began /\ gate'.since = gate.since /\ gate'.caller = gate.caller
      /\ gate'.request = gate.request /\ gate'.phase = gate.phase /\ gate'.final = gate.final
      /\ gate'.errors = errors
  BY <1>2, <1>3 DEF Running
<1> QED
  BY <1>1, <1>2, <1>3, <1>4 DEF RecordInvariant, GateInvariant, FinalizedIsBacked, Exists

\* The end of a gate or of preflight, and a death, leave no gate behind.
LEMMA EndsKeep ==
  ASSUME RecordInvariant,
         (\E strict : EndGate(strict)) \/ GateDies \/ EndPreflight
  PROVE  RecordInvariant'
<1>1. gate' = NoGate /\ UNCHANGED record /\ runs \subseteq runs'
  BY DEF EndGate, GateDies, EndPreflight
<1>2. UNCHANGED life \/ life'.state = "preflight_checked"
  BY DEF EndGate, GateDies, EndPreflight, Report
<1> QED
  BY <1>1, <1>2 DEF RecordInvariant, GateInvariant, FinalizedIsBacked

\* finalize starts the commands of the final gate: if none of them has the gate
\* of the record in it, there is an error or no task.
LEMMA FinalGatesKeep ==
  ASSUME RecordInvariant, RunFinalGates
  PROVE  RecordInvariant'
<1> DEFINE found == gate.before \cup (IF gate.errors = {} THEN {} ELSE {"record"})
<1>1. /\ UNCHANGED <<record, runs, life>>
      /\ gate # NoGate /\ gate.phase = "checking" /\ gate.caller = "finalize"
  BY DEF RunFinalGates, Checked
<1>2. PICK index, pool :
        LET errors == found \cup index \cup pool
        IN  gate' = IF pool = {} /\ gate.request.id /\ Exists
                      THEN [GateOf("pool", gate.request, TRUE, {}) EXCEPT
                              !.before = errors, !.began = gate.began]
                      ELSE [gate EXCEPT !.phase = "ending", !.before = errors]
  BY DEF RunFinalGates
<1>3. PICK errors : errors = found \cup index \cup pool
  OBVIOUS
<1>4. CASE pool = {} /\ gate.request.id /\ Exists
  <2>1. PICK new : new = GateOf("pool", gate.request, TRUE, {})
    OBVIOUS
  <2>2. gate' = [new EXCEPT !.before = errors, !.began = gate.began]
    BY <1>2, <1>3, <1>4, <2>1
  <2>3. Running(new) /\ new.since = record.applied /\ new.phase = "checking" /\ new.caller = "pool"
        /\ new.final = TRUE
    BY <2>1 DEF GateOf, Running
  <2>4. Running(gate') /\ gate'.began = gate.began /\ gate'.since = record.applied
        /\ gate'.phase = "checking" /\ gate'.caller = "pool" /\ gate'.final = TRUE
    BY <2>2, <2>3 DEF Running
  <2> QED
    BY <1>1, <2>4 DEF RecordInvariant, GateInvariant, FinalizedIsBacked
<1>5. CASE ~ (pool = {} /\ gate.request.id /\ Exists)
  <2>1. gate' = [gate EXCEPT !.phase = "ending", !.before = errors]
    BY <1>2, <1>3, <1>5
  <2>2. Running(gate') /\ gate'.began = gate.began /\ gate'.since = gate.since
        /\ gate'.phase = "ending" /\ gate'.caller = "finalize" /\ gate'.before = errors
        /\ gate'.request = gate.request
    BY <1>1, <2>1 DEF RecordInvariant, GateInvariant, Running
  <2>3. errors = {} => pool = {} /\ gate.errors = {}
    BY <1>3
  <2>4. errors = {} => ~ gate.request.id
    BY <1>1, <1>5, <2>3 DEF RecordInvariant, GateInvariant
  <2> QED
    BY <1>1, <2>2, <2>4 DEF RecordInvariant, GateInvariant, FinalizedIsBacked
<1> QED
  BY <1>4, <1>5

\* The gate of the record ends as a step of the pool: without an error it leaves
\* its row.
LEMMA PoolGateKeeps ==
  ASSUME RecordInvariant, EndPoolGate
  PROVE  RecordInvariant'
<1>1. /\ UNCHANGED <<record, life>> /\ gate # NoGate /\ gate.caller = "pool"
      /\ runs' = runs \cup RunRows(FALSE)
  BY DEF EndPoolGate, Checked
<1>2. PICK before : /\ gate' = [gate EXCEPT !.phase = "ending", !.before = before]
                    /\ before = {} => RunRows(FALSE) # {}
  BY DEF EndPoolGate
<1>3. Running(gate) /\ gate.final = TRUE
  BY <1>1 DEF RecordInvariant, GateInvariant
<1>4. /\ Running(gate') /\ gate'.began = gate.began /\ gate'.since = gate.since
      /\ gate'.phase = "ending" /\ gate'.caller = "pool" /\ gate'.before = before /\ gate'.final = TRUE
  BY <1>1, <1>2, <1>3 DEF Running
<1>5. \A run \in RunRows(FALSE) : run.final = TRUE /\ run.since = gate.since
  BY <1>3 DEF RunRows, RunRow
<1>6. PICK began : began = gate.began
  OBVIOUS
<1>7. before = {} => Backed(began)'
  <2> SUFFICES ASSUME before = {} PROVE Backed(began)'
    OBVIOUS
  <2>1. PICK run \in RunRows(FALSE) : TRUE
    BY <1>2
  <2>2. run \in runs' /\ run.final = TRUE /\ run.since = gate.since
    BY <1>1, <1>5, <2>1
  <2>3. gate.since = began \/ record.applied > began
    BY <1>1, <1>6 DEF RecordInvariant, GateInvariant
  <2> QED
    BY <1>1, <2>2, <2>3 DEF Backed
<1>8. FinalizedIsBacked'
  BY <1>1 DEF RecordInvariant, FinalizedIsBacked
<1>9. GateInvariant'
  BY <1>1, <1>4, <1>6, <1>7 DEF RecordInvariant, GateInvariant, Backed
<1> QED
  BY <1>8, <1>9 DEF RecordInvariant

\* finalize ends: as finalized only without an error.
LEMMA FinalizeKeeps ==
  ASSUME RecordInvariant, NEW option, EndFinalize(option)
  PROVE  RecordInvariant'
<1>1. gate' = NoGate /\ UNCHANGED <<record, runs>> /\ gate # NoGate
  BY DEF EndFinalize
<1>2. CASE gate.phase = "ending"
  <2>1. option = "run" /\ life' = Report(FinalState(gate.before, "run"), gate.before, "run")
    BY <1>2 DEF EndFinalize
  <2>2. life'.state = FinalState(gate.before, "run") /\ life'.since = gate.began
        /\ life'.id = gate.request.id
    BY <2>1 DEF Report
  <2>3. life'.state = "finalized" => gate.before = {}
    BY <2>2 DEF FinalState
  <2> QED
    BY <1>1, <1>2, <2>2, <2>3 DEF RecordInvariant, GateInvariant, FinalizedIsBacked, Backed
<1>3. CASE gate.phase # "ending"
  <2>1. life'.option # "run"
    BY <1>3 DEF EndFinalize, Report
  <2> QED
    BY <1>1, <2>1 DEF RecordInvariant, GateInvariant, FinalizedIsBacked
<1> QED
  BY <1>2, <1>3

LEMMA StepKeeps ==
  ASSUME RecordInvariant, [RecordNext]_recordVars
  PROVE  RecordInvariant'
<1>1. CASE UNCHANGED recordVars
  BY <1>1 DEF RecordInvariant, GateInvariant, FinalizedIsBacked, Backed, Exists, recordVars
<1>2. CASE Writes
  BY <1>2, WritersKeep
<1>3. CASE Gates
  BY <1>3, StartsKeep, CheckKeeps, EndsKeep, FinalGatesKeep, PoolGateKeeps, FinalizeKeeps DEF Gates
<1> QED
  BY <1>1, <1>2, <1>3 DEF RecordNext

\* However the writers and the gates of a task interleave, a finalize that has run
\* its gates for a task ends as finalized only if the gate of its record has
\* passed, or the record has been replaced since (main and run_final_gates of
\* lifecycle/engine.py, build_steps of gates/gate_pool.py).
THEOREM FinalizeIsBacked == RecordSpec => []FinalizedIsBacked
<1>1. RecordInit => RecordInvariant
  BY DEF RecordInit, RecordInvariant, GateInvariant, FinalizedIsBacked, NoRecord, NoTask, NoGate, NoLife
<1>2. RecordInvariant /\ [RecordNext]_recordVars => RecordInvariant'
  BY StepKeeps
<1> QED
  BY <1>1, <1>2, PTL DEF RecordSpec, RecordInvariant

-----------------------------------------------------------------------------
(***************************************************************************)
(* A pass is earned, and stays earned while rows are added.                *)
(***************************************************************************)
\* What the writers do to a record they do not replace, as a check sees it.
Grows(now, later) ==
  /\ later.triggers = now.triggers /\ later.outputs = now.outputs
  /\ later.requirements = now.requirements /\ later.approvals = now.approvals
  /\ now.events \subseteq later.events
  /\ now.validations # {} => later.validations # {}

LEMMA SaidLater ==
  ASSUME NEW now, NEW later, now.events \subseteq later.events, NEW type
  PROVE  SaidBy(now, type) \subseteq SaidBy(later, type)
  BY DEF SaidBy

\* A check that no added row can undo goes on to hold.
LEMMA HoldsLater ==
  ASSUME NEW r, NEW now, NEW later, Grows(now, later), NEW check, check \notin Revocable,
         Holds(check, r.task, now, r.final)
  PROVE  Holds(check, r.task, later, r.final)
<1>1. \A type : SaidBy(now, type) \subseteq SaidBy(later, type)
  BY SaidLater DEF Grows
<1>2. \A type, facts : Stated(now, type, facts) => Stated(later, type, facts)
  BY <1>1 DEF Stated
<1>3. CommandCompression(now) => CommandCompression(later)
  BY <1>1 DEF CommandCompression
<1>4. ScopeClassification(now) => ScopeClassification(later)
  BY DEF ScopeClassification, Grows
<1>5. PlanApproval(r.task, now) => PlanApproval(r.task, later)
  BY <1>1 DEF PlanApproval
<1>6. UserClaims(now) => UserClaims(later)
  BY <1>1 DEF UserClaims
<1>7. AgentDecision(r.task, now, r.final) => AgentDecision(r.task, later, r.final)
  BY <1>1 DEF AgentDecision
<1>8. ShellProxy(now, r.final) => ShellProxy(later, r.final)
  BY <1>1 DEF ShellProxy
<1>9. HistoryRecovery(now) => HistoryRecovery(later)
  BY <1>1 DEF HistoryRecovery
<1>10. ReadonlySideEffect(now) => ReadonlySideEffect(later)
  BY <1>1 DEF ReadonlySideEffect
<1>11. DiscoveredIssues(now) => DiscoveredIssues(later)
  BY <1>1 DEF DiscoveredIssues
<1>12. AgentReview(now) => AgentReview(later)
  BY <1>1 DEF AgentReview
<1>13. CapabilityGateway(now) => CapabilityGateway(later)
  BY <1>1, <1>2 DEF CapabilityGateway
<1>14. /\ StateOwnership(now) => StateOwnership(later)
       /\ PatchPreflight(now) => PatchPreflight(later)
       /\ DataConfirmation(now) => DataConfirmation(later)
       /\ DispatchBrief(now) => DispatchBrief(later)
       /\ AnalysisContract(now) => AnalysisContract(later)
  BY <1>2 DEF StateOwnership, PatchPreflight, DataConfirmation, DispatchBrief, AnalysisContract
<1>15. CASE check \in {"known types", "rows", "outputs", "requirements", "validations", "approval"}
  BY <1>15 DEF Holds, Grows
<1>16. CASE check \in {"state-ownership", "patch-preflight", "data-confirmation", "dispatch-brief",
                      "analysis-contract"}
  BY <1>14, <1>16 DEF Holds
<1>17. CASE check = "scope"
  BY <1>4, <1>17 DEF Holds
<1>18. CASE check = "plan-approval"
  BY <1>5, <1>18 DEF Holds
<1>19. CASE check = "user-claims"
  BY <1>6, <1>19 DEF Holds
<1>20. CASE check = "agent-decision"
  BY <1>7, <1>20 DEF Holds
<1>21. CASE check = "shell-proxy"
  BY <1>8, <1>21 DEF Holds
<1>22. CASE check = "history"
  BY <1>9, <1>22 DEF Holds
<1>23. CASE check = "readonly"
  BY <1>10, <1>23 DEF Holds
<1>24. CASE check = "discovered-issues"
  BY <1>11, <1>24 DEF Holds
<1>25. CASE check = "agent-review"
  BY <1>12, <1>25 DEF Holds
<1>26. CASE check = "capability-gateway"
  BY <1>13, <1>26 DEF Holds
<1>27. CASE check = "command-compression"
  BY <1>3, <1>27 DEF Holds
<1> QED
  BY <1>15, <1>16, <1>17, <1>18, <1>19, <1>20, <1>21, <1>22, <1>23,
     <1>24, <1>25, <1>26, <1>27 DEF Holds, Revocable

\* A check reads the tables, and of the spans their classes.
LEMMA Reads ==
  ASSUME NEW t, NEW classes, DOMAIN t = DOMAIN NoTables
  PROVE  LET now == [t EXCEPT !.spans = classes] IN
         /\ now.triggers = t.triggers /\ now.outputs = t.outputs
         /\ now.requirements = t.requirements /\ now.approvals = t.approvals
         /\ now.events = t.events /\ now.validations = t.validations
  BY DEF NoTables

\* What is said of the tables is said of what a check reads.
LEMMA NowGrows ==
  ASSUME DOMAIN tables = DOMAIN NoTables, DOMAIN tables' = DOMAIN NoTables, Grows(tables, tables')
  PROVE  Grows(Now, Now')
<1>1. PICK t, c : t = tables /\ c = SpanClasses(spans)
  OBVIOUS
<1>2. PICK u, d : u = tables' /\ d = SpanClasses(spans)'
  OBVIOUS
<1>3. PICK now : now = [t EXCEPT !.spans = c]
  OBVIOUS
<1>4. PICK later : later = [u EXCEPT !.spans = d]
  OBVIOUS
<1>5. Now = now /\ Now' = later
  BY <1>1, <1>2, <1>3, <1>4 DEF Now
<1>6. Grows(now, later)
  BY <1>1, <1>2, <1>3, <1>4, Reads DEF Grows
<1> QED
  BY <1>5, <1>6

\* Every writer adds to the tables or puts another record in place.
LEMMA WritersAdd ==
  ASSUME DOMAIN tables = DOMAIN NoTables, record.applied \in Nat,
         record = [task |-> record.task, made |-> record.made, applied |-> record.applied], Writes
  PROVE  /\ DOMAIN tables' = DOMAIN NoTables /\ UNCHANGED gate
         /\ \/ Grows(tables, tables') /\ record'.applied = record.applied /\ runs' = runs
            \/ record'.applied = record.applied + 1 /\ runs' = {}
<1> DEFINE Adds == /\ DOMAIN tables' = DOMAIN NoTables /\ UNCHANGED <<gate, runs>>
                   /\ Grows(tables, tables') /\ record'.applied = record.applied
           Replaces == /\ DOMAIN tables' = DOMAIN NoTables /\ UNCHANGED gate
                       /\ record'.applied = record.applied + 1 /\ runs' = {}
<1>1. ASSUME NEW task, NEW new, NEW made, NEW replace, DOMAIN new = DOMAIN NoTables,
             Apply(task, new, made, replace)
      PROVE  Replaces
  BY <1>1 DEF Apply
<1>2. ASSUME NEW request, NEW replace, RunInputFilter(request, replace) PROVE Replaces
  <2>1. DOMAIN GeneratedRecord(request) = DOMAIN NoTables
    BY DEF GeneratedRecord, NoTables
  <2> QED
    BY <1>1, <1>2, <2>1 DEF RunInputFilter
<1>3. ASSUME NEW types, RunDispatch(types) PROVE Replaces
  <2>1. DOMAIN DispatchedRecord(types) = DOMAIN NoTables
    BY DEF DispatchedRecord, NoTables
  <2> QED
    BY <1>1, <1>3, <2>1 DEF RunDispatch
<1>4. ASSUME NEW payload \in Payloads, NEW replace, ApplyPayload(payload, replace) PROVE Replaces
  BY <1>1, <1>4, RecordAssumption DEF ApplyPayload
<1>5. ASSUME NEW event, tables' = [tables EXCEPT !.events = @ \cup {event}],
             UNCHANGED <<gate, runs>>, record'.applied = record.applied
      PROVE  Adds
  BY <1>5 DEF NoTables, Grows
<1>6. ASSUME NEW event, NEW byPackage, AppendEvent(event, byPackage) PROVE Adds
  BY <1>5, <1>6 DEF AppendEvent, AddRow
<1>7. ASSUME EnterGateway PROVE Adds
  BY <1>5, <1>7 DEF EnterGateway, AddRow
<1>8. ASSUME NEW status, SetStatus(status) PROVE Adds
  BY <1>5, <1>8 DEF SetStatus
<1>9. ASSUME NEW table, NEW row, NEW replaced, AppendEvidence(table, row, replaced) PROVE Adds
  BY <1>9 DEF AppendEvidence, AddRow, NoTables, Grows
<1>10. ASSUME UNCHANGED <<record, tables, gate, runs>> PROVE Adds
  BY <1>10 DEF Grows
<1>11. Adds \/ Replaces
  BY <1>2, <1>3, <1>4, <1>6, <1>7, <1>8, <1>9, <1>10 DEF Writes, CommandStarts, CommandEnds, RecordSpan
<1> QED
  BY <1>11

\* Of a run or a gate: what it has to show for itself.
Earned(r) ==
  \A check \in Needed(r.task, r.final) \ Revocable : Holds(check, r.task, Now, r.final)

\* The same of a gate on its way, in as far as it has come without an error.
EarnedSoFar(g) ==
  \A i \in DOMAIN Checks :
    Checks[i] \in Needed(g.task, g.final) \ Revocable =>
      i \in g.left \/ Checks[i] \in g.errors \/ Holds(Checks[i], g.task, Now, g.final)

EarnedInvariant ==
  /\ DOMAIN tables = DOMAIN NoTables
  /\ \A run \in runs : run.since = run.at => Earned(run)
  /\ /\ gate # NoGate /\ gate.phase = "checking" /\ gate.caller \in {"task-record", "pool"}
     /\ gate.since = record.applied
     => EarnedSoFar(gate)

\* All the checks that can be needed are in the list.
LEMMA NeededIsListed ==
  ASSUME NEW task, NEW final, NEW check \in Needed(task, final)
  PROVE  \E i \in DOMAIN Checks : Checks[i] = check
<1>1. DOMAIN Checks = 1..27
  BY DEF Checks
<1>2. SUFFICES ASSUME \A i \in 1..27 : Checks[i] # check
               PROVE  FALSE
  BY <1>1
<1>3. check \notin {"known types", "rows", "input-filter", "command-compression", "scope",
                  "plan-approval"}
  <2>1. /\ Checks[1] = "known types" /\ Checks[2] = "rows" /\ Checks[3] = "input-filter"
        /\ Checks[4] = "command-compression" /\ Checks[5] = "scope" /\ Checks[6] = "plan-approval"
    BY DEF Checks
  <2> HIDE DEF Checks
  <2>2. \A i \in {1, 2, 3, 4, 5, 6} : Checks[i] # check
    BY <1>2
  <2> QED
    BY <2>1, <2>2
<1>4. check \notin {"user-claims", "state-ownership", "patch-preflight", "prewrite",
                  "agent-decision", "data-confirmation"}
  <2>1. /\ Checks[7] = "user-claims" /\ Checks[8] = "state-ownership"
        /\ Checks[9] = "patch-preflight" /\ Checks[10] = "prewrite" /\ Checks[11] = "agent-decision"
        /\ Checks[12] = "data-confirmation"
    BY DEF Checks
  <2> HIDE DEF Checks
  <2> QED
    BY ONLY <1>2, <2>1
<1>5. check \notin {"shell-proxy", "history", "readonly", "discovered-issues", "dispatch-brief",
                  "agent-review"}
  <2>1. /\ Checks[13] = "shell-proxy" /\ Checks[14] = "history" /\ Checks[15] = "readonly"
        /\ Checks[16] = "discovered-issues" /\ Checks[17] = "dispatch-brief"
        /\ Checks[18] = "agent-review"
    BY DEF Checks
  <2> HIDE DEF Checks
  <2> QED
    BY ONLY <1>2, <2>1
<1>6. check \notin {"design-package", "analysis-contract", "capability-gateway", "command-errors",
                  "outputs", "requirements"}
  <2>1. /\ Checks[19] = "design-package" /\ Checks[20] = "analysis-contract"
        /\ Checks[21] = "capability-gateway" /\ Checks[22] = "command-errors"
        /\ Checks[23] = "outputs" /\ Checks[24] = "requirements"
    BY DEF Checks
  <2> HIDE DEF Checks
  <2> QED
    BY ONLY <1>2, <2>1
<1>7. check \notin {"worktrees", "validations", "approval"}
  <2>1. /\ Checks[25] = "worktrees" /\ Checks[26] = "validations" /\ Checks[27] = "approval"
    BY DEF Checks
  <2> HIDE DEF Checks
  <2> QED
    BY ONLY <1>2, <2>1
<1> QED
  BY <1>3, <1>4, <1>5, <1>6, <1>7 DEF Needed

\* A gate that begins has all of them before it.
LEMMA NewIsEarned ==
  ASSUME NEW caller, NEW request, NEW final, NEW types, NEW new,
         new = GateOf(caller, request, final, types)
  PROVE  \A i \in DOMAIN Checks : Checks[i] \in Needed(new.task, new.final) => i \in new.left
  BY DEF GateOf

\* A gate that has come to its end without an error has earned its row.
LEMMA EndIsEarned ==
  ASSUME NEW g, EarnedSoFar(g), g.left = {}, g.errors = {}
  PROVE  Earned(g)
<1> SUFFICES ASSUME NEW check \in Needed(g.task, g.final) \ Revocable
             PROVE  Holds(check, g.task, Now, g.final)
  BY DEF Earned
<1>1. PICK i \in DOMAIN Checks : Checks[i] = check
  BY NeededIsListed
<1>2. i \notin g.left /\ Checks[i] \notin g.errors
  OBVIOUS
<1> QED
  BY <1>1, <1>2 DEF EarnedSoFar

\* What is earned stays earned while rows are only added.
LEMMA EarnedLater ==
  ASSUME Grows(Now, Now'), NEW r
  PROVE  /\ Earned(r) => \A check \in Needed(r.task, r.final) \ Revocable :
                            Holds(check, r.task, Now', r.final)
         /\ EarnedSoFar(r) => \A i \in DOMAIN Checks :
              Checks[i] \in Needed(r.task, r.final) \ Revocable =>
                i \in r.left \/ Checks[i] \in r.errors \/ Holds(Checks[i], r.task, Now', r.final)
<1>1. PICK now, later : now = Now /\ later = Now'
  OBVIOUS
<1>2. Grows(now, later)
  BY <1>1
<1>3. \A check : check \notin Revocable /\ Holds(check, r.task, now, r.final)
                  => Holds(check, r.task, later, r.final)
  BY <1>2, HoldsLater
<1>4. ASSUME Earned(r), NEW check \in Needed(r.task, r.final) \ Revocable
      PROVE  Holds(check, r.task, later, r.final)
  BY <1>1, <1>3, <1>4 DEF Earned
<1>5. ASSUME EarnedSoFar(r), NEW i \in DOMAIN Checks, Checks[i] \in Needed(r.task, r.final) \ Revocable,
             i \notin r.left, Checks[i] \notin r.errors
      PROVE  Holds(Checks[i], r.task, later, r.final)
  BY <1>1, <1>3, <1>5 DEF EarnedSoFar
<1> QED
  BY <1>1, <1>4, <1>5

LEMMA WritersEarn ==
  ASSUME RecordInvariant, EarnedInvariant, Writes
  PROVE  EarnedInvariant'
<1>1. /\ DOMAIN tables' = DOMAIN NoTables /\ UNCHANGED gate
      /\ \/ Grows(tables, tables') /\ record'.applied = record.applied /\ runs' = runs
         \/ record'.applied = record.applied + 1 /\ runs' = {}
  BY WritersAdd DEF RecordInvariant, GateInvariant, EarnedInvariant
<1>2. CASE Grows(tables, tables') /\ record'.applied = record.applied /\ runs' = runs
  <2>1. Grows(Now, Now')
    BY <1>1, <1>2, NowGrows DEF EarnedInvariant
  <2>2. \A run \in runs : run.since = run.at => Earned(run)'
    <3> SUFFICES ASSUME NEW run \in runs, run.since = run.at PROVE Earned(run)'
      OBVIOUS
    <3>1. Earned(run)
      BY DEF EarnedInvariant
    <3> QED
      BY <2>1, <3>1, EarnedLater DEF Earned
  <2>3. PICK g : g = gate
    OBVIOUS
  <2>4. EarnedSoFar(g) => EarnedSoFar(g)'
    BY <2>1, EarnedLater DEF EarnedSoFar
  <2> QED
    BY <1>1, <1>2, <2>2, <2>3, <2>4 DEF EarnedInvariant, Earned, EarnedSoFar
<1>3. CASE record'.applied = record.applied + 1 /\ runs' = {}
  BY <1>1, <1>3 DEF EarnedInvariant, RecordInvariant, GateInvariant
<1> QED
  BY <1>1, <1>2, <1>3

\* A gate that begins, and one that goes on, has each of its checks before it, or
\* has made it.
LEMMA GatesEarn ==
  ASSUME RecordInvariant, EarnedInvariant, Gates
  PROVE  EarnedInvariant'
<1>0. UNCHANGED <<record, tables, spans>> /\ Now' = Now
  BY DEF Gates, StartGate, StartLifecycle, Check, EndPreflight, RunFinalGates, EndPoolGate, GateDies,
         EndGate, EndFinalize, Now
<1>k. \A r : Earned(r) => Earned(r)'
  BY <1>0 DEF Earned
<1>r. ASSUME UNCHANGED runs PROVE \A run \in runs' : run.since = run.at => Earned(run)'
  BY <1>r, <1>k DEF EarnedInvariant
<1>1. ASSUME gate' = NoGate \/ gate'.phase = "ending" \/ gate'.caller \notin {"task-record", "pool"},
             UNCHANGED runs
      PROVE  EarnedInvariant'
  BY <1>0, <1>1, <1>r DEF EarnedInvariant
<1>2. ASSUME NEW g, gate' = g, EarnedSoFar(g), UNCHANGED runs PROVE EarnedInvariant'
  <2>1. EarnedSoFar(g)'
    BY <1>0, <1>2 DEF EarnedSoFar
  <2> QED
    BY <1>0, <1>2, <1>r, <2>1 DEF EarnedInvariant, EarnedSoFar
<1>3. ASSUME NEW final, NEW types, StartGate(final, types) PROVE EarnedInvariant'
  <2>1. PICK new : new = GateOf("task-record", "none", final, types)
    OBVIOUS
  <2>2. EarnedSoFar(new)
    BY <2>1, NewIsEarned DEF EarnedSoFar
  <2> QED
    BY <1>2, <1>3, <2>1, <2>2 DEF StartGate
<1>4. ASSUME NEW command \in {"preflight", "finalize"}, NEW request, StartLifecycle(command, request)
      PROVE  EarnedInvariant'
  <2>1. gate'.caller = command
    <3>1. PICK new : new = GateOf(command, request, command = "finalize", TypesOf(request))
      OBVIOUS
    <3>2. Running(new) /\ new.caller = command
      BY <3>1, NewGate
    <3>3. PICK asked : asked = [new EXCEPT !.before = OwnErrors(command, request)]
      OBVIOUS
    <3>4. Running(asked) /\ asked.caller = command
      BY <3>2, <3>3 DEF Running
    <3>5. \/ gate' = asked
          \/ gate' = [asked EXCEPT !.left = {}, !.errors = IF request.id THEN {"no task"} ELSE {}]
      BY <1>4, <3>1, <3>3 DEF StartLifecycle
    <3> QED
      BY <3>4, <3>5 DEF Running
  <2> QED
    BY <1>1, <1>4, <2>1 DEF StartLifecycle
<1>5. ASSUME Check PROVE EarnedInvariant'
  <2>0. gate # NoGate /\ gate.phase = "checking" /\ UNCHANGED runs /\ Running(gate)
    BY <1>5 DEF Check, RecordInvariant, GateInvariant
  <2>1. PICK next \in gate.left :
          gate' = [gate EXCEPT !.left = @ \ {next},
                     !.errors = IF Holds(Checks[next], gate.task, Now, gate.final)
                                  THEN @ ELSE @ \cup {Checks[next]}]
    BY <1>5 DEF Check
  <2>2. PICK errors : errors = IF Holds(Checks[next], gate.task, Now, gate.final)
                                 THEN gate.errors ELSE gate.errors \cup {Checks[next]}
    OBVIOUS
  <2>3. PICK g : g = [gate EXCEPT !.left = gate.left \ {next}, !.errors = errors]
    OBVIOUS
  <2>4. gate' = g
    BY <2>1, <2>2, <2>3
  <2>5. /\ g.left = gate.left \ {next} /\ g.errors = errors /\ g.task = gate.task
        /\ g.final = gate.final /\ g.caller = gate.caller /\ g.since = gate.since /\ g.phase = gate.phase
    BY <2>0, <2>3 DEF Running
  <2>6. EarnedSoFar(gate) => EarnedSoFar(g)
    BY <2>2, <2>5 DEF EarnedSoFar
  <2>7. CASE EarnedSoFar(gate)
    BY <1>2, <2>0, <2>4, <2>6, <2>7
  <2>8. CASE ~ EarnedSoFar(gate)
    BY <1>0, <1>r, <2>0, <2>4, <2>5, <2>8 DEF EarnedInvariant
  <2> QED
    BY <2>7, <2>8
<1>6. ASSUME RunFinalGates PROVE EarnedInvariant'
  <2>1. PICK errors, began :
          \/ gate' = [GateOf("pool", gate.request, TRUE, {}) EXCEPT !.before = errors, !.began = began]
          \/ gate' = [gate EXCEPT !.phase = "ending", !.before = errors]
    BY <1>6 DEF RunFinalGates
  <2>2. CASE gate' = [GateOf("pool", gate.request, TRUE, {}) EXCEPT !.before = errors, !.began = began]
    <3>1. PICK new : new = GateOf("pool", gate.request, TRUE, {})
      OBVIOUS
    <3>2. PICK g : g = [new EXCEPT !.before = errors, !.began = began]
      OBVIOUS
    <3>3. g.left = new.left /\ g.errors = new.errors /\ g.task = new.task /\ g.final = new.final
      BY <3>1, <3>2 DEF GateOf
    <3>4. EarnedSoFar(g)
      BY <3>1, <3>3, NewIsEarned DEF EarnedSoFar
    <3> QED
      BY <1>2, <1>6, <2>2, <3>1, <3>2, <3>4 DEF RunFinalGates
  <2>3. CASE gate' = [gate EXCEPT !.phase = "ending", !.before = errors]
    <3>1. Running(gate)
      BY <1>6 DEF RunFinalGates, Checked, RecordInvariant, GateInvariant
    <3>2. gate'.phase = "ending"
      BY <2>3, <3>1 DEF Running
    <3> QED
      BY <1>1, <1>6, <3>2 DEF RunFinalGates
  <2> QED
    BY <2>1, <2>2, <2>3
\* The row that a gate leaves.
<1>7. ASSUME NEW strict, NEW run \in RunRows(strict), Checked({"task-record", "pool"}), run.since = run.at
      PROVE  Earned(run)
  <2>1. gate.errors = {} /\ \E result : run = RunRow(result)
    BY <1>7 DEF RunRows
  <2>2. run.task = gate.task /\ run.final = gate.final /\ gate.since = record.applied
    BY <1>7, <2>1 DEF RunRow
  <2>3. EarnedSoFar(gate) /\ gate.left = {}
    BY <1>7, <2>2 DEF Checked, EarnedInvariant
  <2>4. Earned(gate)
    BY <2>1, <2>3, EndIsEarned
  <2> QED
    BY <2>2, <2>4 DEF Earned
<1>8. ASSUME NEW strict, runs' = runs \cup RunRows(strict), Checked({"task-record", "pool"}),
             gate' = NoGate \/ gate'.phase = "ending"
      PROVE  EarnedInvariant'
  <2>1. \A run \in runs' : run.since = run.at => Earned(run)
    BY <1>7, <1>8 DEF EarnedInvariant
  <2> QED
    BY <1>0, <1>8, <1>k, <2>1 DEF EarnedInvariant
<1>9. ASSUME NEW strict, EndGate(strict) PROVE EarnedInvariant'
  BY <1>8, <1>9 DEF EndGate, Checked
<1>10. ASSUME EndPoolGate PROVE EarnedInvariant'
  <2>1. Running(gate)
    BY <1>10 DEF EndPoolGate, Checked, RecordInvariant, GateInvariant
  <2>2. gate'.phase = "ending"
    BY <1>10, <2>1 DEF EndPoolGate, Running
  <2> QED
    BY <1>8, <1>10, <2>2 DEF EndPoolGate, Checked
<1>11. ASSUME EndPreflight \/ GateDies \/ \E option : EndFinalize(option) PROVE EarnedInvariant'
  BY <1>1, <1>11 DEF EndPreflight, GateDies, EndFinalize
<1> QED
  BY <1>3, <1>4, <1>5, <1>6, <1>9, <1>10, <1>11 DEF Gates

\* A row of gate_runs stands for what it says, however many writers come between
\* the reads of its gate and after it: unless the record was made anew while the
\* gate ran, every check that no added row can undo holds as long as the row is
\* there (validate_task and the append commands of records/task_record.py).
THEOREM PassesAreEarned == RecordSpec => []PassIsEarned
<1>1. RecordInit => RecordInvariant /\ EarnedInvariant
  BY DEF RecordInit, RecordInvariant, GateInvariant, FinalizedIsBacked, EarnedInvariant, NoRecord,
         NoTask, NoGate, NoLife
<1>2. RecordInvariant /\ EarnedInvariant /\ [RecordNext]_recordVars => (RecordInvariant /\ EarnedInvariant)'
  <2> SUFFICES ASSUME RecordInvariant, EarnedInvariant, [RecordNext]_recordVars
               PROVE  EarnedInvariant'
    BY StepKeeps
  <2>1. CASE UNCHANGED recordVars
    BY <2>1 DEF EarnedInvariant, Earned, EarnedSoFar, Now, recordVars
  <2>2. CASE RecordNext
    BY <2>2, WritersEarn, GatesEarn DEF RecordNext
  <2> QED
    BY <2>1, <2>2
<1>3. EarnedInvariant => PassIsEarned
  BY DEF EarnedInvariant, Earned, PassIsEarned
<1> QED
  BY <1>1, <1>2, <1>3, PTL DEF RecordSpec

-----------------------------------------------------------------------------
(***************************************************************************)
(* The shape of the state.                                                 *)
(***************************************************************************)
RowsTyped ==
  /\ record \in [task : Task, made : {"never", "input-filter", "dispatch", "payload"}, applied : 0..writes]
  /\ writes \in 0..MaxWrites
  /\ DOMAIN tables = DOMAIN NoTables /\ tables.spans = {}
  /\ DOMAIN spans = Spans

\* A gate makes only checks of the list.
GateTyped ==
  gate # NoGate =>
    /\ gate.left \subseteq DOMAIN Checks
    /\ gate.errors \subseteq {Checks[i] : i \in DOMAIN Checks} \cup {"no task"}

RunsTyped ==
  /\ \A run \in runs : /\ run.since \in Nat /\ run.at \in Nat /\ run.since <= run.at /\ run.at <= record.applied
                       /\ run.result \in {"pass", "warn"}
  /\ life.since \in Nat /\ life.since <= record.applied

\* A task that is accepted has types and a status that are known.
LEMMA AcceptedTyped ==
  ASSUME NEW task, NEW size \in {"small", "medium", "large"}, NEW label \in BOOLEAN, AcceptedTask(task),
         task = [types |-> task.types, size |-> size, status |-> task.status, label |-> label]
  PROVE  task \in Task
<1>1. task.status \in TaskStatuses
  BY DEF AcceptedTask
<1>2. task.types \in SUBSET KnownTypes
  BY DEF AcceptedTask
<1> QED
  BY <1>1, <1>2 DEF Task

LEMMA ApplyTyped ==
  ASSUME RowsTyped, NEW task \in Task, NEW new, NEW made \in {"input-filter", "dispatch", "payload"}, NEW replace,
         DOMAIN new = DOMAIN NoTables, new.spans = {}, Apply(task, new, made, replace),
         writes < MaxWrites, writes' = writes + 1
  PROVE  RowsTyped'
<1>0. record.applied \in 0..writes /\ writes \in 0..MaxWrites /\ MaxWrites \in Nat
  BY RecordAssumption DEF RowsTyped
<1>1. PICK applied : applied = record.applied + 1
  OBVIOUS
<1>2. applied \in 0..writes' /\ writes' \in 0..MaxWrites
  BY <1>0, <1>1
<1>3. record' = [task |-> task, made |-> made, applied |-> applied]
  BY <1>1 DEF Apply
<1>4. tables' = new /\ UNCHANGED spans
  BY DEF Apply
<1> QED
  BY <1>2, <1>3, <1>4 DEF RowsTyped

LEMMA RowsAreTyped ==
  ASSUME RowsTyped, Writes
  PROVE  RowsTyped'
<1>0. /\ writes < MaxWrites /\ writes' = writes + 1
      /\ record.applied \in 0..writes /\ writes \in 0..MaxWrites /\ MaxWrites \in Nat
  BY RecordAssumption DEF RowsTyped, Writes
<1>w. record.applied \in 0..writes' /\ writes' \in 0..MaxWrites
  BY <1>0
<1>1. ASSUME NEW request \in Requests, NEW replace, RunInputFilter(request, replace) PROVE RowsTyped'
  <2>1. PICK task, new : task = GeneratedTask(request) /\ new = GeneratedRecord(request)
    OBVIOUS
  <2>2. SizeOf(request) \in {"small", "medium", "large"}
    BY DEF SizeOf
  <2>3. request.label \in BOOLEAN
    BY RecordAssumption
  <2>4. AcceptedTask(task) /\ Apply(task, new, "input-filter", replace)
    BY <1>1, <2>1 DEF RunInputFilter, Apply, Accepted
  <2>5. task = [types |-> task.types, size |-> SizeOf(request), status |-> task.status, label |-> request.label]
    BY <2>1 DEF GeneratedTask
  <2>6. task \in Task
    BY <2>2, <2>3, <2>4, <2>5, AcceptedTyped
  <2>7. DOMAIN new = DOMAIN NoTables /\ new.spans = {}
    BY <2>1 DEF GeneratedRecord, NoTables
  <2> QED
    BY <1>0, <2>4, <2>6, <2>7, ApplyTyped
<1>2. ASSUME NEW types \in Dispatches, RunDispatch(types) PROVE RowsTyped'
  <2>1. PICK task, new : /\ task = [types |-> types, size |-> "medium", status |-> "active", label |-> TRUE]
                         /\ new = DispatchedRecord(types)
    OBVIOUS
  <2>2. AcceptedTask(task) /\ Apply(task, new, "dispatch", TRUE)
    BY <1>2, <2>1 DEF RunDispatch, Apply, Accepted
  <2>3. task \in Task
    BY <2>1, <2>2 DEF AcceptedTask, Task
  <2>4. DOMAIN new = DOMAIN NoTables /\ new.spans = {}
    BY <2>1 DEF DispatchedRecord, NoTables
  <2> QED
    BY <1>0, <2>2, <2>3, <2>4, ApplyTyped
<1>3. ASSUME NEW payload \in Payloads, NEW replace, ApplyPayload(payload, replace) PROVE RowsTyped'
  <2>1. PICK task, new : task = payload.task /\ new = payload.tables
    OBVIOUS
  <2>2. AcceptedTask(task) /\ Apply(task, new, "payload", replace)
    BY <1>3, <2>1 DEF ApplyPayload, Apply, Accepted
  <2>3. /\ DOMAIN new = DOMAIN NoTables /\ new.spans = {}
        /\ task \in [types : SUBSET STRING, size : {"small", "medium", "large"}, status : STRING, label : BOOLEAN]
    BY <2>1, RecordAssumption
  <2>4. task \in Task
    BY <2>2, <2>3 DEF AcceptedTask, Task
  <2> QED
    BY <1>0, <2>2, <2>3, <2>4, ApplyTyped
<1>4. ASSUME UNCHANGED <<record, spans>>, NEW events, tables' = [tables EXCEPT !.events = events]
      PROVE  RowsTyped'
  BY <1>4, <1>w DEF RowsTyped, NoTables
<1>5. ASSUME NEW event, NEW byPackage, AppendEvent(event, byPackage) PROVE RowsTyped'
  BY <1>4, <1>5 DEF AppendEvent, AddRow
<1>6. ASSUME EnterGateway PROVE RowsTyped'
  BY <1>4, <1>6 DEF EnterGateway, AddRow
<1>7. ASSUME NEW table, NEW row, NEW replaced, AppendEvidence(table, row, replaced) PROVE RowsTyped'
  <2>1. PICK rows : \/ tables' = [tables EXCEPT !.validations = rows]
                    \/ tables' = [tables EXCEPT !.worktrees = rows]
    BY <1>7 DEF AppendEvidence
  <2>2. DOMAIN tables' = DOMAIN NoTables /\ tables'.spans = {}
    BY <2>1 DEF RowsTyped, NoTables
  <2> QED
    BY <1>7, <1>w, <2>2 DEF RowsTyped, AppendEvidence, AddRow
<1>8. ASSUME NEW status \in Statuses, SetStatus(status) PROVE RowsTyped'
  <2>1. status \in TaskStatuses
    BY RecordAssumption
  <2>2. record.task \in Task /\ record' = [record EXCEPT !.task.status = status] /\ UNCHANGED spans
    BY <1>8 DEF SetStatus, RowsTyped
  <2>3. PICK task : task = [record.task EXCEPT !.status = status]
    OBVIOUS
  <2>4. task \in Task
    BY <2>1, <2>2, <2>3 DEF Task
  <2>5. record' = [record EXCEPT !.task = task]
    BY <2>2, <2>3
  <2>6. record' \in [task : Task, made : {"never", "input-filter", "dispatch", "payload"}, applied : 0..writes']
    BY <1>w, <2>4, <2>5 DEF RowsTyped
  <2>7. DOMAIN tables' = DOMAIN NoTables /\ tables'.spans = {}
    BY <1>8 DEF SetStatus, RowsTyped, NoTables
  <2> QED
    BY <1>w, <2>2, <2>6, <2>7 DEF RowsTyped
<1>9. ASSUME UNCHANGED <<record, tables>>, NEW s, NEW span, spans' = [spans EXCEPT ![s] = span]
      PROVE  RowsTyped'
  BY <1>9, <1>w DEF RowsTyped
<1>10. ASSUME NEW s, NEW c, CommandStarts(s, c) \/ CommandEnds(s, c) PROVE RowsTyped'
  BY <1>9, <1>10 DEF CommandStarts, CommandEnds
<1>11. ASSUME NEW s, NEW status, NEW task, RecordSpan(s, status, task) PROVE RowsTyped'
  BY <1>9, <1>11 DEF RecordSpan
<1> QED
  BY <1>1, <1>2, <1>3, <1>5, <1>6, <1>7, <1>8, <1>10, <1>11 DEF Writes

\* Of the gate, every step but a check keeps the errors or begins without any.
LEMMA GateIsTyped ==
  ASSUME RecordInvariant, GateTyped, [RecordNext]_recordVars
  PROVE  GateTyped'
<1>0. gate # NoGate => Running(gate)
  BY DEF RecordInvariant, GateInvariant
<1>1. ASSUME UNCHANGED gate PROVE GateTyped'
  BY <1>1 DEF GateTyped
<1>2. ASSUME NEW new, gate' = new, new.left \subseteq DOMAIN Checks,
             new.errors \subseteq {Checks[i] : i \in DOMAIN Checks} \cup {"no task"}
      PROVE  GateTyped'
  BY <1>2 DEF GateTyped
<1>3. CASE Writes
  <2>1. gate' = gate
    BY <1>3 DEF Writes, RunInputFilter, RunDispatch, ApplyPayload, Apply, AddRow, AppendEvent,
                AppendEvidence, EnterGateway, SetStatus, CommandStarts, CommandEnds, RecordSpan
  <2> QED
    BY <1>1, <2>1
<1>4. ASSUME NEW final, NEW types, StartGate(final, types) PROVE GateTyped'
  <2>1. PICK new : new = GateOf("task-record", "none", final, types)
    OBVIOUS
  <2>2. new.left \subseteq DOMAIN Checks /\ new.errors = {}
    BY <2>1 DEF GateOf
  <2> QED
    BY <1>2, <1>4, <2>1, <2>2 DEF StartGate
<1>5. ASSUME NEW command \in {"preflight", "finalize"}, NEW request, StartLifecycle(command, request)
      PROVE  GateTyped'
  <2>1. PICK new : new = GateOf(command, request, command = "finalize", TypesOf(request))
    OBVIOUS
  <2>2. new.left \subseteq DOMAIN Checks /\ new.errors = {}
    BY <2>1 DEF GateOf
  <2>3. PICK asked : asked = [new EXCEPT !.before = OwnErrors(command, request)]
    OBVIOUS
  <2>4. PICK refused : refused = [asked EXCEPT !.left = {}, !.errors = IF request.id THEN {"no task"} ELSE {}]
    OBVIOUS
  <2>5. gate' = asked \/ gate' = refused
    BY <1>5, <2>1, <2>3, <2>4 DEF StartLifecycle
  <2>6. asked.left = new.left /\ asked.errors = new.errors /\ Running(asked)
    BY <2>1, <2>3, NewGate DEF Running
  <2>7. refused.left = {} /\ refused.errors \subseteq {"no task"}
    BY <2>4, <2>6 DEF Running
  <2>8. CASE gate' = asked
    BY <1>2, <2>2, <2>6, <2>8
  <2>9. CASE gate' = refused
    BY <1>2, <2>7, <2>9
  <2> QED
    BY <2>5, <2>8, <2>9
<1>6. ASSUME Check PROVE GateTyped'
  <2>1. PICK next \in gate.left :
          gate' = [gate EXCEPT !.left = @ \ {next},
                     !.errors = IF Holds(Checks[next], gate.task, Now, gate.final)
                                  THEN @ ELSE @ \cup {Checks[next]}]
    BY <1>6 DEF Check
  <2>2. PICK errors : errors = IF Holds(Checks[next], gate.task, Now, gate.final)
                                 THEN gate.errors ELSE gate.errors \cup {Checks[next]}
    OBVIOUS
  <2>3. PICK new : new = [gate EXCEPT !.left = gate.left \ {next}, !.errors = errors]
    OBVIOUS
  <2>4. gate # NoGate /\ gate' = new
    BY <1>6, <2>1, <2>2, <2>3 DEF Check
  <2>5. new.left = gate.left \ {next} /\ new.errors = errors
    BY <1>0, <2>3, <2>4 DEF Running
  <2>6. /\ next \in DOMAIN Checks /\ gate.left \subseteq DOMAIN Checks
        /\ gate.errors \subseteq {Checks[i] : i \in DOMAIN Checks} \cup {"no task"}
    BY <2>4 DEF GateTyped
  <2>7. errors \subseteq {Checks[i] : i \in DOMAIN Checks} \cup {"no task"}
    <3>1. PICK all : all = {Checks[i] : i \in DOMAIN Checks} \cup {"no task"}
      OBVIOUS
    <3>2. gate.errors \subseteq all /\ Checks[next] \in all
      BY <2>6, <3>1, Zenon
    <3>3. errors \subseteq all
      BY <2>2, <3>2
    <3> QED
      BY <3>1, <3>3, Zenon
  <2>8. new.left \subseteq DOMAIN Checks
    BY <2>5, <2>6
  <2> QED
    BY <1>2, <2>4, <2>5, <2>7, <2>8, Zenon
<1>7. ASSUME gate' = NoGate PROVE GateTyped'
  BY <1>7 DEF GateTyped
<1>8. ASSUME gate # NoGate, NEW before, gate' = [gate EXCEPT !.phase = "ending", !.before = before]
      PROVE  GateTyped'
  <2>1. PICK new : new = [gate EXCEPT !.phase = "ending", !.before = before]
    OBVIOUS
  <2>2. new.left = gate.left /\ new.errors = gate.errors
    BY <1>0, <1>8, <2>1 DEF Running
  <2> QED
    BY <1>2, <1>8, <2>1, <2>2 DEF GateTyped
<1>9. ASSUME RunFinalGates PROVE GateTyped'
  <2>1. PICK errors, began :
          \/ gate' = [GateOf("pool", gate.request, TRUE, {}) EXCEPT !.before = errors, !.began = began]
          \/ gate' = [gate EXCEPT !.phase = "ending", !.before = errors]
    BY <1>9 DEF RunFinalGates
  <2>2. CASE gate' = [GateOf("pool", gate.request, TRUE, {}) EXCEPT !.before = errors, !.began = began]
    <3>1. PICK new : new = GateOf("pool", gate.request, TRUE, {})
      OBVIOUS
    <3>2. PICK g : g = [new EXCEPT !.before = errors, !.began = began]
      OBVIOUS
    <3>3. g.left \subseteq DOMAIN Checks /\ g.errors = {}
      BY <3>1, <3>2 DEF GateOf
    <3> QED
      BY <1>2, <2>2, <3>1, <3>2, <3>3
  <2>3. CASE gate' = [gate EXCEPT !.phase = "ending", !.before = errors]
    BY <1>8, <1>9, <2>3 DEF RunFinalGates, Checked
  <2> QED
    BY <2>1, <2>2, <2>3
<1>10. ASSUME EndPoolGate PROVE GateTyped'
  BY <1>8, <1>10 DEF EndPoolGate, Checked
<1>11. ASSUME EndPreflight \/ GateDies \/ (\E strict : EndGate(strict)) \/ (\E option : EndFinalize(option))
       PROVE  GateTyped'
  BY <1>7, <1>11 DEF EndPreflight, GateDies, EndGate, EndFinalize
<1>12. CASE Gates
  BY <1>4, <1>5, <1>6, <1>9, <1>10, <1>11, <1>12 DEF Gates
<1>13. CASE UNCHANGED recordVars
  BY <1>1, <1>13 DEF recordVars
<1> QED
  BY <1>3, <1>12, <1>13 DEF RecordNext

\* A row is left by a gate that read the task before it; a report speaks of a
\* record that was there.
LEMMA RunsAreTyped ==
  ASSUME RecordInvariant, RowsTyped, RunsTyped, [RecordNext]_recordVars
  PROVE  RunsTyped'
<1>0. record.applied \in Nat
  BY DEF RecordInvariant, GateInvariant
<1>1. CASE UNCHANGED recordVars
  BY <1>1 DEF RunsTyped, recordVars
<1>2. CASE Writes
  <2>1. life' = NoLife
    BY <1>2 DEF Writes
  <2>2. \/ UNCHANGED runs /\ record'.applied = record.applied
        \/ runs' = {} /\ record'.applied = record.applied + 1
    BY <1>2, WritersAdd DEF RecordInvariant, GateInvariant, RowsTyped
  <2>3. record'.applied \in Nat
    BY <1>0, <2>2
  <2> QED
    BY <1>0, <2>1, <2>2, <2>3 DEF RunsTyped, NoLife
<1>3. ASSUME UNCHANGED record, runs' = runs, life' = life \/ life' = NoLife PROVE RunsTyped'
  BY <1>0, <1>3 DEF RunsTyped, NoLife
<1>4. ASSUME NEW strict, runs' = runs \cup RunRows(strict), UNCHANGED <<record, life>>, gate # NoGate
      PROVE  RunsTyped'
  <2>1. \A run \in RunRows(strict) : \E result \in {"pass", "warn"} : run = RunRow(result)
    BY DEF RunRows
  <2>2. \A result : /\ RunRow(result).since = gate.since /\ RunRow(result).at = record.applied
                    /\ RunRow(result).result = result
    BY DEF RunRow
  <2>3. gate.since \in Nat /\ gate.since <= record.applied /\ record.applied <= record.applied
    BY <1>0, <1>4 DEF RecordInvariant, GateInvariant
  <2>4. \A run \in RunRows(strict) : /\ run.since = gate.since /\ run.at = record.applied
                                     /\ run.result \in {"pass", "warn"}
    BY <2>1, <2>2
  <2> QED
    BY <1>0, <1>4, <2>3, <2>4 DEF RunsTyped
<1>5. ASSUME NEW state, NEW errors, NEW option, life' = Report(state, errors, option),
             UNCHANGED <<record, runs>>, gate # NoGate
      PROVE  RunsTyped'
  <2>1. life'.since = gate.began
    BY <1>5 DEF Report
  <2>2. gate.began \in Nat /\ gate.began <= record.applied
    <3>1. gate.began \in Nat /\ gate.since \in Nat /\ gate.began <= gate.since /\ gate.since <= record.applied
      BY <1>5 DEF RecordInvariant, GateInvariant
    <3> QED
      BY <1>0, <3>1
  <2> QED
    BY <1>5, <2>1, <2>2 DEF RunsTyped
<1>6. ASSUME NEW strict, EndGate(strict) PROVE RunsTyped'
  BY <1>4, <1>6 DEF EndGate, Checked
<1>7. ASSUME EndPoolGate PROVE RunsTyped'
  BY <1>4, <1>7 DEF EndPoolGate, Checked
<1>8. ASSUME EndPreflight PROVE RunsTyped'
  BY <1>5, <1>8 DEF EndPreflight, Checked
<1>9. ASSUME NEW option, EndFinalize(option) PROVE RunsTyped'
  BY <1>5, <1>9 DEF EndFinalize
<1>10. ASSUME \/ \E final, types : StartGate(final, types)
              \/ \E command, request : StartLifecycle(command, request)
              \/ Check \/ RunFinalGates \/ GateDies
       PROVE  RunsTyped'
  BY <1>3, <1>10 DEF StartGate, StartLifecycle, Check, RunFinalGates, GateDies
<1>11. CASE Gates
  BY <1>6, <1>7, <1>8, <1>9, <1>10, <1>11 DEF Gates
<1> QED
  BY <1>1, <1>2, <1>11 DEF RecordNext

\* The task of a record has known types, size and status, whoever wrote it, the
\* record is replaced no more often than there are writes, a gate finds no errors
\* but those of its checks, and what a row or a report says of a record it says of
\* one that was there when the gate began.
THEOREM RecordTypes == RecordSpec => []RecordTypeOK
<1>1. RecordInit => RecordInvariant /\ RowsTyped /\ GateTyped /\ RunsTyped
  <2> SUFFICES ASSUME RecordInit
               PROVE  RecordInvariant /\ RowsTyped /\ GateTyped /\ RunsTyped
    OBVIOUS
  <2>1. RecordInvariant
    BY DEF RecordInit, RecordInvariant, GateInvariant, FinalizedIsBacked, NoRecord, NoTask, NoGate, NoLife
  <2>2. RowsTyped
    <3>1. NoTask \in Task
      BY DEF NoTask, Task
    <3>2. 0 \in 0..0 /\ 0 \in 0..MaxWrites
      BY RecordAssumption
    <3> QED
      BY <3>1, <3>2 DEF RecordInit, RowsTyped, NoRecord, NoTables
  <2>3. GateTyped
    BY DEF RecordInit, GateTyped
  <2>4. RunsTyped
    BY DEF RecordInit, RunsTyped, NoLife, NoRecord
  <2> QED
    BY <2>1, <2>2, <2>3, <2>4
<1>2. RecordInvariant /\ RowsTyped /\ GateTyped /\ RunsTyped /\ [RecordNext]_recordVars
        => (RecordInvariant /\ RowsTyped /\ GateTyped /\ RunsTyped)'
  <2> SUFFICES ASSUME RecordInvariant, RowsTyped, GateTyped, RunsTyped, [RecordNext]_recordVars
               PROVE  RowsTyped'
    BY StepKeeps, GateIsTyped, RunsAreTyped
  <2>1. ASSUME UNCHANGED <<record, writes, tables, spans>> PROVE RowsTyped'
    BY <2>1 DEF RowsTyped
  <2>2. CASE Gates
    BY <2>1, <2>2 DEF Gates, StartGate, StartLifecycle, Check, EndPreflight, RunFinalGates, EndPoolGate,
                      GateDies, EndGate, EndFinalize
  <2>3. CASE UNCHANGED recordVars
    BY <2>1, <2>3 DEF recordVars
  <2> QED
    BY <2>2, <2>3, RowsAreTyped DEF RecordNext
<1>3. RowsTyped /\ GateTyped /\ RunsTyped => RecordTypeOK
  <2>1. SpanClasses(spans) \subseteq {"classified", "unclassified"}
    BY DEF SpanClasses
  <2> QED
    BY <2>1 DEF RowsTyped, GateTyped, RunsTyped, RecordTypeOK
<1> QED
  BY <1>1, <1>2, <1>3, PTL DEF RecordSpec

-----------------------------------------------------------------------------
(***************************************************************************)
(* What a pass says of the other accounts of the record.                   *)
(***************************************************************************)
\* A failure that the report cannot classify is one the gate does not either.
LEMMA ReportedIsSeen ==
  ASSUME NEW s \in ReportedUnclassified(spans)
  PROVE  "unclassified" \in SpanClasses(spans)
<1>1. s \in Failures(spans) /\ ReportCategory(spans[s]) = Unclassified
  BY DEF ReportedUnclassified
<1>2. GateCategory(spans[s]) = Unclassified
  BY <1>1 DEF ReportCategory, GateCategory
<1> QED
  BY <1>1, <1>2 DEF SpanClasses

\* For every record and all spans: a gated record that passes the final gate of
\* validate_task has no gap in the evidence graph and no failure that the telemetry
\* report counts as unclassified.  Nothing is said of a record that does not pass.
THEOREM PassIsClean == RecordSpec => []PassLeavesNoGap
<1>1. RecordTypeOK => PassLeavesNoGap
  <2> SUFFICES ASSUME RecordTypeOK, IsGated(record.task), Failing(record.task, Now, TRUE) = {}
               PROVE  Gaps(Now) = {} /\ ReportedUnclassified(spans) = {}
    BY DEF PassLeavesNoGap
  <2>1. \A check \in Needed(record.task, TRUE) : Holds(check, record.task, Now, TRUE)
    BY DEF Failing
  <2>2. {"rows", "input-filter", "command-errors"} \subseteq Needed(record.task, TRUE)
    BY DEF Needed
  <2>3. /\ Holds("rows", record.task, Now, TRUE) /\ Holds("input-filter", record.task, Now, TRUE)
        /\ Holds("command-errors", record.task, Now, TRUE)
    BY <2>1, <2>2
  <2>4. Now.requirements # {} /\ Now.triggers # {} /\ Now.outputs # {}
    BY <2>3 DEF Holds
  <2>5. Now.events # {}
    BY <2>3 DEF Holds, InputFilter, Identity, LastIdentity
  <2>6. "unclassified" \notin Now.spans
    BY <2>3 DEF Holds, CommandErrors
  <2>7. Gaps(Now) = {}
    BY <2>4, <2>5, <2>6 DEF Gaps
  <2>8. Now.spans = SpanClasses(spans)
    BY DEF Now, RecordTypeOK, NoTables
  <2> QED
    BY <2>6, <2>7, <2>8, ReportedIsSeen
<1> QED
  BY <1>1, RecordTypes, PTL

-----------------------------------------------------------------------------
(***************************************************************************)
(* What the records hold that the program itself makes.                    *)
(***************************************************************************)
\* A record goes back to the call that made it: to what that call wrote the
\* writers have only added.
FromRequest(task, rows) ==
  \E request \in Requests :
    /\ request.message /\ task.types = TypesOf(request) /\ task.label = request.label
    /\ Grows(GeneratedRecord(request), rows)

FromDispatch(task, rows) ==
  \E types \in Dispatches : task.types = types /\ task.label = TRUE /\ Grows(DispatchedRecord(types), rows)

MadeInvariant ==
  /\ record.made # "never" => record.task.types \subseteq KnownTypes
  /\ record.made = "never" => tables.requirements = {}
  /\ record.made = "input-filter" =>
       /\ FromRequest(record.task, tables)
       /\ "rules-script" \in record.task.types => record.task.label
  /\ record.made = "dispatch" => FromDispatch(record.task, tables)
  /\ record.made \in {"never", "input-filter", "dispatch", "payload"}

LEMMA GrowsOn ==
  ASSUME NEW a, NEW b, NEW c, Grows(a, b), Grows(b, c)
  PROVE  Grows(a, c)
  BY DEF Grows

\* A writer that does not replace the record leaves its types and its label.
LEMMA WritersMake ==
  ASSUME RowsTyped, Writes
  PROVE  \/ /\ Grows(tables, tables') /\ record'.made = record.made
            /\ record'.task.types = record.task.types /\ record'.task.label = record.task.label
            /\ record.made # "never" \/ tables' = tables
         \/ \E request \in Requests, replace \in BOOLEAN : RunInputFilter(request, replace)
         \/ \E types \in Dispatches : RunDispatch(types)
         \/ \E payload \in Payloads, replace \in BOOLEAN : ApplyPayload(payload, replace)
<1> DEFINE Adds == /\ Grows(tables, tables') /\ record'.made = record.made
                   /\ record'.task.types = record.task.types /\ record'.task.label = record.task.label
                   /\ record.made # "never" \/ tables' = tables
<1>0. DOMAIN tables = DOMAIN NoTables
  BY DEF RowsTyped
<1>1. ASSUME NEW events, tables.events \subseteq events, tables' = [tables EXCEPT !.events = events],
             UNCHANGED record, Exists
      PROVE  Adds
  BY <1>0, <1>1 DEF NoTables, Grows, Exists
<1>2. ASSUME NEW event, NEW byPackage, AppendEvent(event, byPackage) PROVE Adds
  BY <1>1, <1>2 DEF AppendEvent, AddRow
<1>3. ASSUME EnterGateway PROVE Adds
  BY <1>1, <1>3 DEF EnterGateway, AddRow
<1>4. ASSUME NEW table, NEW row, NEW replaced, AppendEvidence(table, row, replaced) PROVE Adds
  <2>1. PICK rows : \/ tables' = [tables EXCEPT !.validations = rows] /\ rows # {}
                    \/ tables' = [tables EXCEPT !.worktrees = rows]
    BY <1>4 DEF AppendEvidence
  <2>2. Grows(tables, tables')
    BY <1>0, <2>1 DEF NoTables, Grows
  <2> QED
    BY <1>4, <2>2 DEF AppendEvidence, AddRow, Exists
<1>5. ASSUME NEW status, SetStatus(status) PROVE Adds
  <2>1. Grows(tables, tables')
    BY <1>0, <1>5 DEF SetStatus, NoTables, Grows
  <2>2. PICK task : task = [record.task EXCEPT !.status = status]
    OBVIOUS
  <2>3. record.task \in Task /\ record' = [record EXCEPT !.task = task] /\ Exists
    BY <1>5, <2>2 DEF SetStatus, RowsTyped
  <2>4. task.types = record.task.types /\ task.label = record.task.label
    BY <2>2, <2>3 DEF Task
  <2>5. record'.task = task /\ record'.made = record.made
    BY <2>3 DEF RowsTyped
  <2> QED
    BY <2>1, <2>3, <2>4, <2>5 DEF Exists
<1>6. ASSUME UNCHANGED <<record, tables>> PROVE Adds
  BY <1>6 DEF Grows
<1> QED
  BY <1>2, <1>3, <1>4, <1>5, <1>6 DEF Writes, CommandStarts, CommandEnds, RecordSpan

LEMMA MadeKept ==
  ASSUME RowsTyped, MadeInvariant, [RecordNext]_recordVars
  PROVE  MadeInvariant'
<1>1. ASSUME UNCHANGED <<record, tables>> PROVE MadeInvariant'
  BY <1>1 DEF MadeInvariant
<1>2. CASE UNCHANGED recordVars
  BY <1>1, <1>2 DEF recordVars
<1>3. CASE Gates
  BY <1>1, <1>3 DEF Gates, StartGate, StartLifecycle, Check, EndPreflight, RunFinalGates, EndPoolGate,
                    GateDies, EndGate, EndFinalize
<1>4. ASSUME Grows(tables, tables'), record'.made = record.made,
             record'.task.types = record.task.types, record'.task.label = record.task.label,
             record.made # "never" \/ tables' = tables
      PROVE  MadeInvariant'
  <2>1. FromRequest(record.task, tables) => FromRequest(record'.task, tables')
    BY <1>4, GrowsOn DEF FromRequest
  <2>2. FromDispatch(record.task, tables) => FromDispatch(record'.task, tables')
    BY <1>4, GrowsOn DEF FromDispatch
  <2> QED
    BY <1>4, <2>1, <2>2 DEF MadeInvariant
<1>5. ASSUME NEW request \in Requests, NEW replace, RunInputFilter(request, replace) PROVE MadeInvariant'
  <2>1. PICK task, new : task = GeneratedTask(request) /\ new = GeneratedRecord(request)
    OBVIOUS
  <2>2. request.message /\ Accepted(task, new) /\ record'.task = task /\ record'.made = "input-filter"
        /\ tables' = new
    BY <1>5, <2>1 DEF RunInputFilter, Apply
  <2>3. task.types = TypesOf(request) /\ task.label = request.label
    BY <2>1 DEF GeneratedTask
  <2>4. Grows(new, new)
    BY DEF Grows
  <2>5. FromRequest(record'.task, tables')
    BY <2>1, <2>2, <2>3, <2>4 DEF FromRequest
  <2>6. task.types \subseteq KnownTypes /\ ("rules-script" \in task.types => task.label)
    BY <2>2 DEF Accepted, AcceptedTask
  <2> QED
    BY <2>2, <2>5, <2>6 DEF MadeInvariant
<1>6. ASSUME NEW types \in Dispatches, RunDispatch(types) PROVE MadeInvariant'
  <2>1. PICK task, new : /\ task = [types |-> types, size |-> "medium", status |-> "active", label |-> TRUE]
                         /\ new = DispatchedRecord(types)
    OBVIOUS
  <2>2. Accepted(task, new) /\ record'.task = task /\ record'.made = "dispatch" /\ tables' = new
    BY <1>6, <2>1 DEF RunDispatch, Apply
  <2>3. Grows(new, new)
    BY DEF Grows
  <2>4. FromDispatch(record'.task, tables')
    BY <2>1, <2>2, <2>3 DEF FromDispatch
  <2>5. task.types \subseteq KnownTypes
    BY <2>2 DEF Accepted, AcceptedTask
  <2> QED
    BY <2>2, <2>4, <2>5 DEF MadeInvariant
<1>7. ASSUME NEW payload \in Payloads, NEW replace, ApplyPayload(payload, replace) PROVE MadeInvariant'
  <2>1. AcceptedTask(payload.task) /\ record'.task = payload.task /\ record'.made = "payload"
    BY <1>7 DEF ApplyPayload, Apply, Accepted
  <2> QED
    BY <2>1 DEF MadeInvariant, AcceptedTask
<1>8. CASE Writes
  BY <1>4, <1>5, <1>6, <1>7, <1>8, WritersMake
<1> QED
  BY <1>2, <1>3, <1>8 DEF RecordNext

LEMMA Said ==
  ASSUME NEW now, NEW place, NEW type, NEW says, Event(place, type, says) \in now.events
  PROVE  says \in SaidBy(now, type)
<1>1. PICK e : e = Event(place, type, says)
  OBVIOUS
<1>2. e \in now.events /\ e.type = type /\ e.says = says
  BY <1>1 DEF Event
<1> QED
  BY <1>2 DEF SaidBy

LEMMA StatedOf ==
  ASSUME NEW now, NEW place, NEW type, NEW says, Event(place, type, says) \in now.events
  PROVE  Stated(now, type, says)
  BY Said DEF Stated

\* What input-filter writes satisfies each check that is asked for before the end
\* and that it is there to satisfy.
LEMMA GeneratedHolds ==
  ASSUME NEW request, request.message, NEW task, task.label = request.label, task.types \subseteq KnownTypes,
         "rules-script" \in task.types => task.label,
         NEW check \in Needed(task, FALSE), check \notin Revocable \cup {"dispatch-brief"},
         check = "plan-approval" => task.label
  PROVE  Holds(check, task, GeneratedRecord(request), FALSE)
<1> DEFINE now == GeneratedRecord(request)
<1>0. /\ now.events = GeneratedAnalyses(request) \cup GeneratedBoundaries(request)
      /\ now.requirements = {"open"} /\ "user-message" \in now.triggers
      /\ "scope-classification" \in now.triggers /\ now.outputs = OutputTypes
      /\ request.label => {"approved", "label"} \in now.approvals
  BY DEF GeneratedRecord
<1> HIDE DEF now
<1>1. Event(1, "command-compression", {"decision", "selected_pattern", "groups", "scope_kind"}) \in now.events
  BY <1>0, Zenon DEF GeneratedAnalyses
<1>2. CommandCompression(now)
  <2>1. {"decision", "selected_pattern", "groups", "scope_kind"} \in SaidBy(now, "command-compression")
    BY <1>1, Said
  <2> QED
    BY <2>1 DEF CommandCompression
<1>3. ScopeClassification(now)
  <2>1. PICK e : e = Event(1, "command-compression", {"decision", "selected_pattern", "groups", "scope_kind"})
    OBVIOUS
  <2>2. e \in now.events /\ "scope_kind" \in e.says
    BY <1>1, <2>1 DEF Event
  <2> QED
    BY <1>0, <2>2 DEF ScopeClassification
<1>4. task.label => PlanApproval(task, now)
  <2> SUFFICES ASSUME task.label PROVE PlanApproval(task, now)
    OBVIOUS
  <2>1. ApprovalStatus(request) = "approved"
    BY DEF ApprovalStatus
  <2>2. Event(1, "plan-approval", {"execution_policy", "push needs approval", ApprovalStatus(request)})
          \in now.events
    BY <1>0, Zenon DEF GeneratedBoundaries
  <2>3. {"execution_policy", "push needs approval", "approved"} \in SaidBy(now, "plan-approval")
    BY <2>1, <2>2, Said, Zenon
  <2>4. /\ {"execution_policy", "push needs approval"} \subseteq {"execution_policy", "push needs approval", "approved"}
        /\ {"execution_policy", "push needs approval", "approved"} \cap {"approved", "not_required"} # {}
    BY Zenon
  <2> QED
    BY <2>3, <2>4, Zenon DEF PlanApproval
<1>5. UserClaims(now)
  <2>1. Event(1, "user-claims", GeneratedClaims(request)) \in now.events
    BY <1>0, Zenon DEF GeneratedBoundaries
  <2>2. GeneratedClaims(request) \in SaidBy(now, "user-claims")
    BY <2>1, Said, Zenon
  <2>3. /\ {"claims", "claims policy"} \subseteq GeneratedClaims(request)
        /\ "incomplete claim" \notin GeneratedClaims(request)
    BY Zenon DEF GeneratedClaims
  <2> QED
    BY <2>2, <2>3, Zenon DEF UserClaims
<1>6. StateOwnership(now)
  <2>1. Event(1, "state-ownership", {"generated_state_classes", "manual edits forbidden", "owner_policy"})
          \in now.events
    BY <1>0, Zenon DEF GeneratedBoundaries
  <2> QED
    BY <2>1, StatedOf, Zenon DEF StateOwnership
<1>7. PatchPreflight(now)
  <2>1. Event(1, "patch-preflight", {"anchors verified", "small steps"}) \in now.events
    BY <1>0, Zenon DEF GeneratedBoundaries
  <2> QED
    BY <2>1, StatedOf, Zenon DEF PatchPreflight
<1>8. AgentDecision(task, now, FALSE)
  <2>1. Event(1, "agent-decision", GeneratedDecision) \in now.events
    BY <1>0, Zenon DEF GeneratedAnalyses
  <2>2. GeneratedDecision \in SaidBy(now, "agent-decision")
    BY <2>1, Said
  <2>3. /\ {"decision", "context_pack_ref", "confirmation"} \subseteq GeneratedDecision
        /\ "bad spawn count" \notin GeneratedDecision /\ "spawned" \notin GeneratedDecision
        /\ {"no_spawn_reason", "alternative_validation", "residual_risk"} \subseteq GeneratedDecision
    BY Zenon DEF GeneratedDecision
  <2> QED
    BY <2>2, <2>3, Zenon DEF AgentDecision
<1>9. DataConfirmation(now)
  <2>1. Event(1, "data-confirmation", {"confirmation_sources", "checked_facts", "unverified_items"})
          \in now.events
    BY <1>0, Zenon DEF GeneratedAnalyses
  <2> QED
    BY <2>1, StatedOf DEF DataConfirmation
<1>10. ShellProxy(now, FALSE)
  <2>1. Event(1, "shell-proxy", GeneratedShellProxy) \in now.events
    BY <1>0, Zenon DEF GeneratedAnalyses
  <2>2. GeneratedShellProxy \in SaidBy(now, "shell-proxy")
    BY <2>1, Said
  <2>3. /\ {"policy", "planned_runner"} \subseteq GeneratedShellProxy
        /\ GeneratedShellProxy \cap {"profile touched", "other profile"} = {}
    BY Zenon DEF GeneratedShellProxy
  <2> QED
    BY <2>2, <2>3, Zenon DEF ShellProxy
<1>11. HistoryRecovery(now)
  <2>1. Event(1, "history-recovery", {"history_sources", "recovered", "not_adopted"}) \in now.events
    BY <1>0, Zenon DEF GeneratedAnalyses
  <2>2. {"history_sources", "recovered", "not_adopted"} \in SaidBy(now, "history-recovery")
    BY <2>1, Said
  <2> QED
    BY <2>2 DEF HistoryRecovery
<1>12. ReadonlySideEffect(now)
  <2> DEFINE facts == {"readonly_contract", "db_write_allowed", "record_state_allowed", "side_effect_class",
                       "dry_run_supported"}
             says == {"readonly_contract", "db_write_allowed", "record_state_allowed", "side_effect_class",
                      "dry_run_supported", "may write"}
  <2>1. Event(1, "readonly-side-effect", says) \in now.events
    BY <1>0, Zenon DEF GeneratedAnalyses
  <2>2. says \in SaidBy(now, "readonly-side-effect")
    BY <2>1, Said, Zenon
  <2>3. facts \subseteq says /\ "is readonly" \notin says
    BY Zenon
  <2> QED
    BY <2>2, <2>3, Zenon DEF ReadonlySideEffect
<1>13. AnalysisContract(now)
  <2>1. Event(1, "analysis-contract", {"analysis_summary", "scope", "non_goals", "risks", "acceptance"})
          \in now.events
    BY <1>0, Zenon DEF GeneratedBoundaries
  <2> QED
    BY <2>1, StatedOf DEF AnalysisContract
<1>14. check \in {"known types", "rows", "command-compression", "scope", "plan-approval", "user-claims",
                  "agent-decision", "data-confirmation", "shell-proxy", "readonly", "analysis-contract",
                  "state-ownership", "approval", "patch-preflight", "history"}
  BY DEF Needed, Revocable
<1>15. check = "approval" => "rules-script" \in task.types
  BY DEF Needed
<1>16. CASE check = "known types"
  BY <1>16, Zenon DEF Holds
<1>17. CASE check = "rows"
  <2>1. now.requirements # {} /\ now.triggers # {} /\ now.outputs # {}
    BY <1>0 DEF OutputTypes
  <2> QED
    BY <1>17, <2>1, Zenon DEF Holds, now
<1>18. CASE check = "approval"
  BY <1>0, <1>15, <1>18, Zenon DEF Holds, now
<1>19. CASE check \in {"command-compression", "scope", "user-claims"}
  BY <1>2, <1>3, <1>5, <1>19, Zenon DEF Holds, now
<1>20. CASE check \in {"plan-approval", "agent-decision", "data-confirmation", "shell-proxy"}
  BY <1>4, <1>8, <1>9, <1>10, <1>20, Zenon DEF Holds, now
<1>21. CASE check \in {"readonly", "analysis-contract", "state-ownership", "patch-preflight", "history"}
  BY <1>6, <1>7, <1>11, <1>12, <1>13, <1>21, Zenon DEF Holds, now
<1> QED
  BY <1>14, <1>16, <1>17, <1>18, <1>19, <1>20, <1>21, Zenon

\* A check reads at least what the tables hold.
LEMMA NowHolds ==
  ASSUME RowsTyped, NEW rows, Grows(rows, tables)
  PROVE  Grows(rows, Now)
<1>1. PICK t, c : t = tables /\ c = SpanClasses(spans)
  OBVIOUS
<1>2. PICK now : now = [t EXCEPT !.spans = c]
  OBVIOUS
<1>3. Now = now
  BY <1>1, <1>2 DEF Now
<1>4. DOMAIN t = DOMAIN NoTables /\ Grows(rows, t)
  BY <1>1 DEF RowsTyped
<1>5. /\ now.triggers = t.triggers /\ now.outputs = t.outputs
      /\ now.requirements = t.requirements /\ now.approvals = t.approvals
      /\ now.events = t.events /\ now.validations = t.validations
  BY <1>2, <1>4, Reads
<1> QED
  BY <1>3, <1>4, <1>5 DEF Grows

LEMMA DispatchHolds ==
  ASSUME NEW types, NEW task, task.types = types, task.label = TRUE,
         NEW check \in Needed(task, FALSE), check \in {"rows", "approval", "dispatch-brief"}
  PROVE  Holds(check, task, DispatchedRecord(types), FALSE)
<1> DEFINE now == DispatchedRecord(types)
           brief == {"task_id", "worktree_path", "write_scope", "forbidden_paths",
                     "validation_commands", "return_capsule"}
<1>1. /\ now.requirements # {} /\ now.triggers # {} /\ now.outputs # {}
      /\ {"approved", "label"} \in now.approvals
      /\ "multi-agent" \in types => Event(1, "dispatch-brief", brief) \in now.events
  BY DEF DispatchedRecord
<1> HIDE DEF now
<1>2. check = "dispatch-brief" => "multi-agent" \in types
  BY DEF Needed
<1>3. "multi-agent" \in types => DispatchBrief(now)
  BY <1>1, StatedOf DEF DispatchBrief
<1>4. CASE check = "rows"
  BY <1>1, <1>4, Zenon DEF Holds, now
<1>5. CASE check = "approval"
  BY <1>1, <1>5, Zenon DEF Holds, now
<1>6. CASE check = "dispatch-brief"
  BY <1>2, <1>3, <1>6, Zenon DEF Holds, now
<1> QED
  BY <1>4, <1>5, <1>6

\* Whatever the request was and however many rows have been added, a record that
\* input-filter has made fails before the end at most on what an added row can
\* undo, on the brief and, without a label, on the approval of the plan; one of
\* dispatch has its rows, its approval and its brief.  Neither passes the final
\* gate: its requirements are open, and no writer but apply closes them.
THEOREM GeneratedPasses == RecordSpec => []GeneratedPassesPreflight
<1> DEFINE Inv == RecordInvariant /\ EarnedInvariant /\ RowsTyped /\ RunsTyped /\ MadeInvariant
<1>1. RecordInit => Inv
  <2> SUFFICES ASSUME RecordInit
               PROVE  Inv
    OBVIOUS
  <2>1. RecordInvariant /\ EarnedInvariant
    BY DEF RecordInit, RecordInvariant, GateInvariant, FinalizedIsBacked, EarnedInvariant, NoRecord,
           NoTask, NoGate, NoLife
  <2>2. RowsTyped
    <3>1. NoTask \in Task
      BY DEF NoTask, Task
    <3>2. 0 \in 0..0 /\ 0 \in 0..MaxWrites
      BY RecordAssumption
    <3> QED
      BY <3>1, <3>2 DEF RecordInit, RowsTyped, NoRecord, NoTables
  <2>3. RunsTyped
    BY DEF RecordInit, RunsTyped, NoLife, NoRecord
  <2>4. MadeInvariant
    BY DEF RecordInit, MadeInvariant, NoRecord, NoTables
  <2> QED
    BY <2>1, <2>2, <2>3, <2>4
<1>2. Inv /\ [RecordNext]_recordVars => Inv'
  <2> SUFFICES ASSUME Inv, [RecordNext]_recordVars
               PROVE  Inv'
    OBVIOUS
  <2>1. RecordInvariant' /\ RunsTyped' /\ MadeInvariant'
    BY StepKeeps, RunsAreTyped, MadeKept
  <2>2. EarnedInvariant'
    <3>1. CASE UNCHANGED recordVars
      BY <3>1 DEF EarnedInvariant, Earned, EarnedSoFar, Now, recordVars
    <3> QED
      BY <3>1, WritersEarn, GatesEarn DEF RecordNext
  <2>3. RowsTyped'
    <3>1. ASSUME UNCHANGED <<record, writes, tables, spans>> PROVE RowsTyped'
      BY <3>1 DEF RowsTyped
    <3>2. CASE Gates
      BY <3>1, <3>2 DEF Gates, StartGate, StartLifecycle, Check, EndPreflight, RunFinalGates, EndPoolGate,
                        GateDies, EndGate, EndFinalize
    <3>3. CASE UNCHANGED recordVars
      BY <3>1, <3>3 DEF recordVars
    <3> QED
      BY <3>2, <3>3, RowsAreTyped DEF RecordNext
  <2> QED
    BY <2>1, <2>2, <2>3
<1>3. Inv => GeneratedPassesPreflight
  <2> SUFFICES ASSUME Inv
               PROVE  GeneratedPassesPreflight
    OBVIOUS
  <2>1. ASSUME record.made = "input-filter", NEW check \in Failing(record.task, Now, FALSE),
               check \notin Revocable \cup {"dispatch-brief"}
        PROVE  check = "plan-approval" /\ ~ record.task.label
    <3>1. PICK request \in Requests :
            /\ request.message /\ record.task.types = TypesOf(request) /\ record.task.label = request.label
            /\ Grows(GeneratedRecord(request), tables)
      BY <2>1 DEF MadeInvariant, FromRequest
    <3>2. record.task.types \subseteq KnownTypes /\ ("rules-script" \in record.task.types => record.task.label)
      BY <2>1 DEF MadeInvariant
    <3>3. check \in Needed(record.task, FALSE) /\ ~ Holds(check, record.task, Now, FALSE)
      BY <2>1 DEF Failing
    <3>4. Grows(GeneratedRecord(request), Now)
      BY <3>1, NowHolds
    <3>5. PICK r, now, later : /\ r = [task |-> record.task, final |-> FALSE]
                               /\ now = GeneratedRecord(request) /\ later = Now
      OBVIOUS
    <3>6. r.task = record.task /\ r.final = FALSE
      BY <3>5
    <3>7. Holds(check, r.task, now, r.final) => Holds(check, r.task, later, r.final)
      BY <2>1, <3>4, <3>5, HoldsLater
    <3>8. ~ Holds(check, r.task, now, r.final)
      BY <3>3, <3>5, <3>6, <3>7
    <3>9. ~ (check = "plan-approval" => record.task.label)
      BY <2>1, <3>1, <3>2, <3>3, <3>5, <3>6, <3>8, GeneratedHolds
    <3> QED
      BY <3>9
  <2>2. ASSUME record.made = "dispatch", NEW check \in Failing(record.task, Now, FALSE)
        PROVE  check \notin {"rows", "approval", "dispatch-brief"}
    <3> SUFFICES ASSUME check \in {"rows", "approval", "dispatch-brief"}
                 PROVE  FALSE
      OBVIOUS
    <3>1. PICK types \in Dispatches :
            record.task.types = types /\ record.task.label = TRUE /\ Grows(DispatchedRecord(types), tables)
      BY <2>2 DEF MadeInvariant, FromDispatch
    <3>2. check \in Needed(record.task, FALSE) /\ ~ Holds(check, record.task, Now, FALSE)
      BY <2>2 DEF Failing
    <3>3. Grows(DispatchedRecord(types), Now)
      BY <3>1, NowHolds
    <3>4. PICK r, now, later : /\ r = [task |-> record.task, final |-> FALSE]
                               /\ now = DispatchedRecord(types) /\ later = Now
      OBVIOUS
    <3>5. r.task = record.task /\ r.final = FALSE /\ check \notin Revocable
      BY <3>4 DEF Revocable
    <3>6. Holds(check, record.task, now, FALSE)
      BY <3>1, <3>2, <3>4, DispatchHolds
    <3>7. Holds(check, r.task, later, r.final)
      BY <3>3, <3>4, <3>5, <3>6, HoldsLater
    <3> QED
      BY <3>2, <3>4, <3>5, <3>7
  <2>3. ASSUME record.made # "payload", NEW run \in runs, run.final
        PROVE  run.since < run.at
    <3>1. run.since \in Nat /\ run.at \in Nat /\ run.since <= run.at
      BY <2>3 DEF RunsTyped
    <3> SUFFICES ASSUME run.since = run.at
                 PROVE  FALSE
      BY <3>1
    <3>2. Earned(run)
      BY <2>3 DEF EarnedInvariant
    <3>3. {"rows", "requirements"} \subseteq Needed(run.task, run.final) \ Revocable
      BY <2>3 DEF Needed, Revocable
    <3>4. Holds("rows", run.task, Now, run.final) /\ Holds("requirements", run.task, Now, run.final)
      BY <3>2, <3>3 DEF Earned
    <3>5. Now.requirements # {} /\ Now.requirements \cap OpenRequirement = {}
      BY <3>4 DEF Holds
    <3>6. Grows(tables, Now)
      BY NowHolds DEF Grows
    <3>7. Now.requirements = tables.requirements
      BY <3>6 DEF Grows
    <3>8. tables.requirements = {} \/ tables.requirements = {"open"}
      <4>1. CASE record.made = "never"
        BY <4>1 DEF MadeInvariant
      <4>2. CASE record.made = "input-filter"
        <5>1. PICK request \in Requests : request.message /\ Grows(GeneratedRecord(request), tables)
          BY <4>2 DEF MadeInvariant, FromRequest
        <5> QED
          BY <5>1 DEF Grows, GeneratedRecord
      <4>3. CASE record.made = "dispatch"
        <5>1. PICK types \in Dispatches : Grows(DispatchedRecord(types), tables)
          BY <4>3 DEF MadeInvariant, FromDispatch
        <5> QED
          BY <5>1 DEF Grows, DispatchedRecord
      <4> QED
        BY <2>3, <4>1, <4>2, <4>3 DEF MadeInvariant
    <3> QED
      BY <3>5, <3>7, <3>8 DEF OpenRequirement
  <2> QED
    BY <2>1, <2>2, <2>3 DEF GeneratedPassesPreflight
<1> QED
  BY <1>1, <1>2, <1>3, PTL DEF RecordSpec
=============================================================================
