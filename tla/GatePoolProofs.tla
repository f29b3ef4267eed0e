--------------------------- MODULE GatePoolProofs ---------------------------
(***************************************************************************)
(* For any contexts, any number of pools and traces and any failures: what *)
(* stands behind a pool that has passed.                                   *)
(***************************************************************************)
EXTENDS GatePool, FiniteSetTheorems, TLAPS

-----------------------------------------------------------------------------
(***************************************************************************)
(* The plan.                                                               *)
(***************************************************************************)
LEMMA JoinedType ==
  ASSUME NEW s \in Seq(Step), NEW t \in Seq(Step)
  PROVE  s \o t \in Seq(Step)
OBVIOUS

\* The steps are as many as it takes, and the last ones are those of the trace.
LEMMA PlanType ==
  ASSUME NEW context \in Contexts, NEW source
  PROVE  Plan(context, source) \in Seq(Step) /\ Len(Plan(context, source)) \in Nat \ {0}
<1> DEFINE gates == GateSteps(context)
<1>0. context.final \in BOOLEAN /\ IsFiniteSet(context.paths)
  BY PoolAssumption DEF Context
<1>s. \A name \in StepNames : /\ [name |-> name, final |-> context.final] \in Step
                              /\ [name |-> name, final |-> FALSE] \in Step
  BY <1>0 DEF Step
<1> HIDE DEF Step
<1>e. \A step \in Step : <<step>> \in Seq(Step)
  OBVIOUS
<1>a. \A name \in StepNames : /\ <<[name |-> name, final |-> context.final]>> \in Seq(Step)
                              /\ <<[name |-> name, final |-> FALSE]>> \in Seq(Step)
  <2> TAKE name \in StepNames
  <2>1. PICK v, w : v = [name |-> name, final |-> context.final] /\ w = [name |-> name, final |-> FALSE]
    OBVIOUS
  <2>2. v \in Step /\ w \in Step
    BY <1>s, <2>1
  <2>3. <<v>> \in Seq(Step) /\ <<w>> \in Seq(Step)
    BY <1>e, <2>2
  <2> QED
    BY <2>1, <2>3
<1>b. << >> \in Seq(Step)
  OBVIOUS
<1> HIDE DEF gates
<1>1. Coordination(context, gates) \in Seq(Step)
  BY <1>a, <1>b, JoinedType DEF Coordination, Flagged, StepNames
<1>3. Reports(context, gates) \in Seq(Step)
  BY <1>a, <1>b, JoinedType DEF Reports, Flagged, StepNames
<1>4. Closing(context, gates, source) \in Seq(Step)
  BY <1>a, <1>b, JoinedType DEF Closing, Flagged, StepNames
<1>5. TraceSteps(context) \in Seq(Step)
  BY <1>a, <1>b, JoinedType DEF TraceSteps, Plain, StepNames
<1>2. Validation(context, gates) \in Seq(Step)
  <2> DEFINE text == WithSuffix(context, TextSuffixes)
             n == IF "security-policy" \in gates THEN Cardinality(text) ELSE 0
             policy == [i \in 1..n |-> [name |-> "policy assess", final |-> context.final]]
             before == Plain("py-compile" \in gates /\ WithSuffix(context, {".py"}) # {}, "py-compile")
               \o Flagged("validate-encoding" \in gates /\ text # {}, "validate-encoding", context)
             doc == Flagged("validate-doc" \in gates /\ WithSuffix(context, {".md"}) # {},
                            "validate-doc", context)
             index == Flagged("doc-index" \in gates /\ context.paths # {}, "doc-index", context)
             scan == Flagged(/\ "scan-corrections" \in gates
                             /\ \/ "correction" \in context.types
                                \/ \E path \in context.paths : path.correction,
                             "scan-corrections", context)
             diff == Plain("git-diff-check" \in gates /\ context.paths # {}, "git-diff-check")
  <2>1. IsFiniteSet(text)
    BY <1>0, FS_Subset DEF WithSuffix, Existing
  <2>2. n \in Nat
    BY <2>1, FS_CardinalityType
  <2>3. policy \in Seq(Step)
    <3>1. PICK v : v = [name |-> "policy assess", final |-> context.final]
      OBVIOUS
    <3>2. v \in Step
      BY <3>1, <1>s DEF StepNames
    <3>3. policy = [i \in 1..n |-> v]
      BY <3>1
    <3> HIDE DEF n, policy
    <3> QED
      BY <2>2, <3>2, <3>3
  <2>4. before \in Seq(Step)
    BY <1>a, <1>b, JoinedType DEF Flagged, Plain, StepNames
  <2>5. doc \in Seq(Step) /\ index \in Seq(Step) /\ scan \in Seq(Step) /\ diff \in Seq(Step)
    BY <1>a, <1>b DEF Flagged, Plain, StepNames
  <2>6. Validation(context, gates) = before \o policy \o doc \o index \o scan \o diff
    BY DEF Validation
  <2> HIDE DEF before, policy, doc, index, scan, diff
  <2> QED
    BY <2>3, <2>4, <2>5, <2>6, JoinedType
<1>6. Plan(context, source) = Coordination(context, gates) \o Validation(context, gates)
         \o Reports(context, gates) \o Closing(context, gates, source) \o TraceSteps(context)
  BY DEF Plan, gates
<1>7. PICK start : /\ start \in Seq(Step)
                   /\ Plan(context, source) = start \o TraceSteps(context)
  BY <1>1, <1>2, <1>3, <1>4, <1>6, JoinedType
<1>8. Len(TraceSteps(context)) \in Nat \ {0}
  <2> DEFINE first == Plain(TRUE, "telemetry")
             snapshot == Plain(context.final \/ context.event = "final-output", "telemetry effectiveness snapshot")
             trend == Plain(context.final \/ context.event = "final-output", "telemetry effectiveness trend")
             last == Plain(TRUE, "tool-flow")
  <2>1. first \in Seq(Step) /\ snapshot \in Seq(Step) /\ trend \in Seq(Step) /\ last \in Seq(Step)
    BY <1>a, <1>b DEF Plain, StepNames
  <2>2. Len(last) = 1
    BY DEF Plain
  <2>3. TraceSteps(context) = first \o snapshot \o trend \o last
    BY DEF TraceSteps
  <2> HIDE DEF first, snapshot, trend, last
  <2>4. first \o snapshot \o trend \in Seq(Step)
    BY <2>1, JoinedType
  <2> QED
    BY <2>1, <2>2, <2>3, <2>4
<1> QED
  BY <1>5, <1>7, <1>8


-----------------------------------------------------------------------------
(***************************************************************************)
(* What is behind a pool: its rows and facts, up to where it is.           *)
(***************************************************************************)
Passes == {"event", "validation"} \X {"pass"}

\* Step i has left its two rows, and its facts if it has any.
Noted(r, i) == r.plan[i].name = "doc-index" /\ "task-id" \in r.source
Backed(r, w, f, i) ==
  {<<i, "started">>, <<i, "succeeded">>} \subseteq w /\ (Noted(r, i) => f = Passes)

PoolOK(r, w, f) ==
  \/ r = NoPool /\ w = {} /\ f = {}
  \/ /\ r \in Pool /\ r.at \in DOMAIN r.plan
     /\ r.phase = "running" =>
          /\ r.child \in {"started", "ended"} => <<r.at, "started">> \in w
          /\ r.child \in {"event", "validation"} =>
               Noted(r, r.at) /\ (r.ok => {<<r.at, "started">>, <<r.at, "succeeded">>} \subseteq w)
          /\ r.child # "validation" \/ r.ok =>
               f \subseteq Passes /\ \A i \in DOMAIN r.plan : i < r.at => Backed(r, w, f, i)
          /\ r.child = "validation" /\ r.ok /\ r.noted => <<"event", "pass">> \in f
     /\ r.phase = "passed" => \A i \in DOMAIN r.plan : Backed(r, w, f, i)

PoolInvariant ==
  /\ pool = [p \in Pools |-> pool[p]]
  /\ rows = [p \in Pools |-> rows[p]]
  /\ facts = [p \in Pools |-> facts[p]]
  /\ \A p \in Pools : PoolOK(pool[p], rows[p], facts[p])

\* A step that has ended with all it takes leaves the pool one further, or at the
\* end; without, it leaves it failed.
LEMMA AdvancedOK ==
  ASSUME NEW r \in Pool, r.at \in DOMAIN r.plan, r.phase = "running", NEW ok \in BOOLEAN,
         NEW w, NEW f,
         ok => /\ f \subseteq Passes /\ Backed(r, w, f, r.at)
               /\ \A i \in DOMAIN r.plan : i < r.at => Backed(r, w, f, i)
  PROVE  PoolOK(Advanced(r, ok), w, f)
<1> DEFINE a == Advanced(r, ok)
<1>0. r.plan \in Seq(Step) /\ DOMAIN r.plan = 1..Len(r.plan) /\ Len(r.plan) \in Nat /\ r.at \in Nat
  BY DEF Pool
<1>1. CASE ~ ok
  <2>1. a = [r EXCEPT !.phase = "failed", !.child = "none"]
    BY <1>1 DEF Advanced
  <2> HIDE DEF a
  <2>2. a \in Pool /\ a.at = r.at /\ a.plan = r.plan /\ a.phase = "failed"
    BY <2>1 DEF Pool
  <2> QED
    BY <2>2 DEF PoolOK, a
<1>2. CASE ok /\ r.at = Len(r.plan)
  <2>1. a = [r EXCEPT !.phase = "passed", !.child = "none"]
    BY <1>2 DEF Advanced
  <2> HIDE DEF a
  <2>2. a \in Pool /\ a.at = r.at /\ a.plan = r.plan /\ a.phase = "passed" /\ a.source = r.source
    BY <2>1 DEF Pool
  <2>3. \A i \in DOMAIN r.plan : i < r.at \/ i = r.at
    BY <1>0, <1>2
  <2>4. \A i \in DOMAIN r.plan : Backed(r, w, f, i)
    BY <1>2, <2>3
  <2> QED
    BY <2>2, <2>4 DEF PoolOK, Backed, Noted, a
<1>3. CASE ok /\ r.at # Len(r.plan)
  <2>1. a = [r EXCEPT !.at = @ + 1, !.child = "none"]
    BY <1>3 DEF Advanced
  <2> HIDE DEF a
  <2>2. /\ a \in Pool /\ a.at = r.at + 1 /\ a.plan = r.plan /\ a.phase = "running"
        /\ a.source = r.source /\ a.child = "none" /\ a.noted = r.noted
    <3>1. PICK next : next = r.at + 1
      OBVIOUS
    <3>2. next \in Nat
      BY <1>0, <3>1
    <3>3. a = [r EXCEPT !.at = next, !.child = "none"]
      BY <2>1, <3>1
    <3> QED
      BY <3>1, <3>2, <3>3 DEF Pool
  <2>3. a.at \in DOMAIN a.plan
    BY <1>0, <1>3, <2>2
  <2>4. \A i \in DOMAIN r.plan : i < r.at + 1 => i < r.at \/ i = r.at
    BY <1>0
  <2>5. \A i \in DOMAIN r.plan : i < r.at + 1 => Backed(r, w, f, i)
    BY <1>3, <2>4
  <2> QED
    BY <1>3, <2>2, <2>3, <2>5 DEF PoolOK, Backed, Noted, a
<1> QED
  BY <1>1, <1>2, <1>3

\* The same for the return of a wrapper.
LEMMA ReturnedOK ==
  ASSUME NEW r \in Pool, r.at \in DOMAIN r.plan, r.phase = "running", NEW ok \in BOOLEAN,
         NEW w, NEW f, f \subseteq Passes, \A i \in DOMAIN r.plan : i < r.at => Backed(r, w, f, i),
         ok => {<<r.at, "started">>, <<r.at, "succeeded">>} \subseteq w
  PROVE  PoolOK(Returned(r, ok), w, f)
<1>1. CASE Noted(r, r.at)
  <2>1. PICK e : e = [r EXCEPT !.child = "event", !.ok = ok]
    OBVIOUS
  <2>2. /\ e \in Pool /\ e.at = r.at /\ e.plan = r.plan /\ e.phase = "running" /\ e.source = r.source
        /\ e.child = "event" /\ e.ok = ok
    BY <2>1 DEF Pool
  <2>3. Returned(r, ok) = e
    BY <1>1, <2>1 DEF Returned, Noted
  <2>4. PoolOK(e, w, f)
    BY <1>1, <2>2 DEF PoolOK, Backed, Noted
  <2> QED
    BY <2>3, <2>4
<1>2. CASE ~ Noted(r, r.at)
  <2>1. Returned(r, ok) = Advanced(r, ok)
    BY <1>2 DEF Returned, Noted
  <2>2. ok => Backed(r, w, f, r.at)
    BY <1>2 DEF Backed
  <2> QED
    BY <2>1, <2>2, AdvancedOK
<1> QED
  BY <1>1, <1>2

-----------------------------------------------------------------------------
(***************************************************************************)
(* Every step keeps it.                                                    *)
(***************************************************************************)
\* A step of a process is only about its own pool, rows and facts.
LEMMA OwnOnly ==
  ASSUME PoolInvariant, NEW p \in Pools, NEW r, NEW w, NEW f, PoolOK(r, w, f),
         pool' = [pool EXCEPT ![p] = r], rows' = [rows EXCEPT ![p] = w], facts' = [facts EXCEPT ![p] = f]
  PROVE  PoolInvariant'
<1> SUFFICES ASSUME NEW q \in Pools
             PROVE  PoolOK(pool'[q], rows'[q], facts'[q])
  BY DEF PoolInvariant
<1>1. CASE q = p
  BY <1>1 DEF PoolInvariant
<1>2. CASE q # p
  BY <1>2 DEF PoolInvariant
<1> QED
  BY <1>1, <1>2

LEMMA Untouched ==
  ASSUME PoolInvariant, NEW p \in Pools
  PROVE  /\ rows = [rows EXCEPT ![p] = rows[p]] /\ facts = [facts EXCEPT ![p] = facts[p]]
         /\ PoolOK(pool[p], rows[p], facts[p])
BY DEF PoolInvariant

LEMMA BeginKeeps ==
  ASSUME PoolInvariant, NEW p \in Pools, NEW context \in Contexts, NEW source \in Sources,
         NEW trace \in Traces, Begin(p, context, source, trace)
  PROVE  PoolInvariant'
<1>1. PICK plan : plan = Plan(context, source)
  OBVIOUS
<1>2. plan \in Seq(Step) /\ Len(plan) \in Nat \ {0}
  BY <1>1, PlanType
<1>3. 1 \in DOMAIN plan /\ \A i \in DOMAIN plan : ~ (i < 1)
  BY <1>2
<1>4. PICK r : r = [phase |-> "running", source |-> source, trace |-> trace, final |-> context.final,
                    plan |-> plan, at |-> 1, child |-> "none", ok |-> TRUE, noted |-> TRUE]
  OBVIOUS
<1>5. context.final \in BOOLEAN
  BY PoolAssumption DEF Context
<1>6. r \in Pool
  BY <1>2, <1>4, <1>5 DEF Pool
<1>n. pool[p] = NoPool /\ NoPool \notin Pool
  BY DEF Begin, NoPool, Pool
<1>f. facts[p] \subseteq Passes
  BY <1>n DEF PoolInvariant, PoolOK
<1>7. PoolOK(r, rows[p], facts[p])
  BY <1>3, <1>4, <1>6, <1>f DEF PoolOK
<1>8. pool' = [pool EXCEPT ![p] = r] /\ rows' = rows /\ facts' = facts
  BY <1>1, <1>4 DEF Begin
<1> QED
  BY <1>7, <1>8, Untouched, OwnOnly

\* What is known of a running pool whose child is given.
LEMMA Known ==
  ASSUME PoolInvariant, NEW p \in Pools, IsRunning(p)
  PROVE  /\ pool[p] \in Pool /\ pool[p].at \in DOMAIN pool[p].plan
         /\ PoolOK(pool[p], rows[p], facts[p])
         /\ pool[p].child \in {"started", "ended"} => <<pool[p].at, "started">> \in rows[p]
         /\ pool[p].child \in {"event", "validation"} =>
              /\ Noted(pool[p], pool[p].at)
              /\ pool[p].ok =>
                   {<<pool[p].at, "started">>, <<pool[p].at, "succeeded">>} \subseteq rows[p]
         /\ pool[p].child # "validation" \/ pool[p].ok =>
              /\ facts[p] \subseteq Passes
              /\ \A i \in DOMAIN pool[p].plan : i < pool[p].at => Backed(pool[p], rows[p], facts[p], i)
         /\ pool[p].child = "validation" /\ pool[p].ok /\ pool[p].noted => <<"event", "pass">> \in facts[p]
<1>1. pool[p] # NoPool
  BY DEF IsRunning, NoPool
<1>2. PoolOK(pool[p], rows[p], facts[p])
  BY DEF PoolInvariant
<1> QED
  BY <1>1, <1>2 DEF PoolOK, IsRunning

\* More rows take nothing away from what is behind a step.
LEMMA MoreRows ==
  ASSUME NEW r, NEW w, NEW v, w \subseteq v, NEW f, NEW i, Backed(r, w, f, i)
  PROVE  Backed(r, v, f, i)
BY DEF Backed

LEMMA AnnounceKeeps ==
  ASSUME PoolInvariant, NEW p \in Pools, Announce(p)
  PROVE  PoolInvariant'
<1>0. IsRunning(p) /\ pool[p].child = "none" /\ pool[p].phase = "running"
  BY DEF Announce, At, IsRunning
<1>1. CASE /\ pool' = [pool EXCEPT ![p].child = "started"] /\ rows' = Written(p, "started")
           /\ facts' = facts
  <2>1. PICK r : r = [pool[p] EXCEPT !.child = "started"]
    OBVIOUS
  <2>2. PICK w : w = rows[p] \cup {<<pool[p].at, "started">>}
    OBVIOUS
  <2>3. /\ r \in Pool /\ r.at = pool[p].at /\ r.plan = pool[p].plan /\ r.phase = "running"
        /\ r.source = pool[p].source /\ r.child = "started"
    BY <1>0, <2>1, Known DEF Pool
  <2>8. \A i \in DOMAIN pool[p].plan : i < pool[p].at => Backed(pool[p], w, facts[p], i)
    BY <1>0, <2>2, Known, MoreRows
  <2>4. \A i \in DOMAIN r.plan : i < r.at => Backed(r, w, facts[p], i)
    BY <2>3, <2>8 DEF Backed, Noted
  <2>5. PoolOK(r, w, facts[p])
    BY <1>0, <2>2, <2>3, <2>4, Known DEF PoolOK
  <2>6. pool' = [pool EXCEPT ![p] = r] /\ rows' = [rows EXCEPT ![p] = w]
    BY <1>1, <2>1, <2>2 DEF Written
  <2>7. facts' = [facts EXCEPT ![p] = facts[p]]
    BY <1>1, Untouched
  <2> QED
    BY <2>5, <2>6, <2>7, OwnOnly
<1>2. CASE pool' = [pool EXCEPT ![p] = Returned(@, FALSE)] /\ rows' = rows /\ facts' = facts
  <2>1. PICK r : r = Returned(pool[p], FALSE)
    OBVIOUS
  <2>2. PoolOK(r, rows[p], facts[p])
    BY <1>0, <2>1, Known, ReturnedOK
  <2>3. pool' = [pool EXCEPT ![p] = r]
    BY <1>2, <2>1
  <2>4. rows' = [rows EXCEPT ![p] = rows[p]] /\ facts' = [facts EXCEPT ![p] = facts[p]]
    BY <1>2, Untouched
  <2> QED
    BY <2>2, <2>3, <2>4, OwnOnly
<1> QED
  BY <1>1, <1>2 DEF Announce

LEMMA RunGateKeeps ==
  ASSUME PoolInvariant, NEW p \in Pools, RunGate(p)
  PROVE  PoolInvariant'
<1>0. IsRunning(p) /\ pool[p].child = "started" /\ pool[p].phase = "running"
  BY DEF RunGate, At, IsRunning
<1>1. PICK ok \in BOOLEAN : pool' = [pool EXCEPT ![p].child = "ended", ![p].ok = ok]
  BY DEF RunGate
<1>2. PICK r : r = [pool[p] EXCEPT !.child = "ended", !.ok = ok]
  OBVIOUS
<1>3. /\ r \in Pool /\ r.at = pool[p].at /\ r.plan = pool[p].plan /\ r.phase = "running"
      /\ r.source = pool[p].source /\ r.child = "ended"
  BY <1>0, <1>2, Known DEF Pool
<1>4. PoolOK(r, rows[p], facts[p])
  BY <1>0, <1>3, Known DEF PoolOK, Backed, Noted
<1>5. pool' = [pool EXCEPT ![p] = r] /\ rows' = rows /\ facts' = facts
  BY <1>1, <1>2 DEF RunGate, PoolInvariant
<1> QED
  BY <1>4, <1>5, Untouched, OwnOnly

LEMMA RecordKeeps ==
  ASSUME PoolInvariant, NEW p \in Pools, Record(p)
  PROVE  PoolInvariant'
<1>0. IsRunning(p) /\ pool[p].child = "ended" /\ pool[p].phase = "running" /\ facts' = facts
  BY DEF Record, At, IsRunning
<1>1. CASE /\ pool' = [pool EXCEPT ![p] = Returned(@, @.ok)]
           /\ rows' = Written(p, IF pool[p].ok THEN "succeeded" ELSE "failed")
  <2>0. PICK status : status = IF pool[p].ok THEN "succeeded" ELSE "failed"
    OBVIOUS
  <2>1. PICK r : r = Returned(pool[p], pool[p].ok)
    OBVIOUS
  <2>2. PICK w : w = rows[p] \cup {<<pool[p].at, status>>}
    OBVIOUS
  <2>3. pool[p].ok \in BOOLEAN
    BY <1>0, Known DEF Pool
  <2>4. \A i \in DOMAIN pool[p].plan : i < pool[p].at => Backed(pool[p], w, facts[p], i)
    BY <1>0, <2>2, Known, MoreRows
  <2>5. pool[p].ok => {<<pool[p].at, "started">>, <<pool[p].at, "succeeded">>} \subseteq w
    BY <1>0, <2>0, <2>2, Known
  <2>6. PoolOK(r, w, facts[p])
    BY <1>0, <2>1, <2>3, <2>4, <2>5, Known, ReturnedOK
  <2>7. pool' = [pool EXCEPT ![p] = r] /\ rows' = [rows EXCEPT ![p] = w]
    BY <1>1, <2>0, <2>1, <2>2 DEF Written
  <2>8. facts' = [facts EXCEPT ![p] = facts[p]]
    BY <1>0, Untouched
  <2> QED
    BY <2>6, <2>7, <2>8, OwnOnly
<1>2. CASE pool' = [pool EXCEPT ![p] = Returned(@, FALSE)] /\ rows' = rows
  <2>1. PICK r : r = Returned(pool[p], FALSE)
    OBVIOUS
  <2>2. PoolOK(r, rows[p], facts[p])
    BY <1>0, <2>1, Known, ReturnedOK
  <2>3. pool' = [pool EXCEPT ![p] = r]
    BY <1>2, <2>1
  <2>4. rows' = [rows EXCEPT ![p] = rows[p]] /\ facts' = [facts EXCEPT ![p] = facts[p]]
    BY <1>0, <1>2, Untouched
  <2> QED
    BY <2>2, <2>3, <2>4, OwnOnly
<1> QED
  BY <1>1, <1>2 DEF Record

LEMMA NoteEventKeeps ==
  ASSUME PoolInvariant, NEW p \in Pools, NoteEvent(p)
  PROVE  PoolInvariant'
<1>0. IsRunning(p) /\ pool[p].child = "event" /\ pool[p].phase = "running"
  BY DEF NoteEvent, At, IsRunning
<1>1. PICK written \in BOOLEAN :
        /\ pool' = [pool EXCEPT ![p].child = "validation", ![p].noted = written]
        /\ facts' = IF written THEN [facts EXCEPT ![p] = @ \cup {<<"event", Verdict(p)>>}] ELSE facts
  BY DEF NoteEvent
<1>2. PICK r : r = [pool[p] EXCEPT !.child = "validation", !.noted = written]
  OBVIOUS
<1>3. PICK f : f = IF written THEN facts[p] \cup {<<"event", Verdict(p)>>} ELSE facts[p]
  OBVIOUS
<1>4. /\ r \in Pool /\ r.at = pool[p].at /\ r.plan = pool[p].plan /\ r.phase = "running"
      /\ r.source = pool[p].source /\ r.child = "validation" /\ r.ok = pool[p].ok /\ r.noted = written
  BY <1>0, <1>2, Known DEF Pool
<1>5. r.ok => f \subseteq Passes /\ (written => <<"event", "pass">> \in f)
  <2> SUFFICES ASSUME r.ok
               PROVE  f \subseteq Passes /\ (written => <<"event", "pass">> \in f)
    OBVIOUS
  <2>1. f = IF written THEN facts[p] \cup {<<"event", "pass">>} ELSE facts[p]
    BY <1>3, <1>4 DEF Verdict
  <2>2. facts[p] \subseteq Passes
    BY <1>0, Known
  <2>3. <<"event", "pass">> \in Passes
    BY DEF Passes
  <2> QED
    BY <2>1, <2>2, <2>3
<1>6. \A i \in DOMAIN pool[p].plan : i < pool[p].at /\ facts[p] = Passes /\ r.ok => f = Passes
  BY <1>0, <1>3, <1>5
<1>7. r.ok => \A i \in DOMAIN r.plan : i < r.at => Backed(r, rows[p], f, i)
  <2> SUFFICES ASSUME r.ok, NEW i \in DOMAIN r.plan, i < r.at
               PROVE  Backed(r, rows[p], f, i)
    OBVIOUS
  <2>1. Backed(pool[p], rows[p], facts[p], i)
    BY <1>0, <1>4, Known
  <2> QED
    BY <2>1, <1>4, <1>6 DEF Backed, Noted
<1>8. Noted(r, r.at) /\ (r.ok => {<<r.at, "started">>, <<r.at, "succeeded">>} \subseteq rows[p])
  BY <1>0, <1>4, Known DEF Noted
<1>9. PoolOK(r, rows[p], f)
  <2>1. r.at \in DOMAIN r.plan
    BY <1>0, <1>4, Known
  <2> QED
    BY <2>1, <1>4, <1>5, <1>7, <1>8 DEF PoolOK
<1>10. pool' = [pool EXCEPT ![p] = r] /\ facts' = [facts EXCEPT ![p] = f]
  <2>1. CASE written
    BY <2>1, <1>1, <1>2, <1>3
  <2>2. CASE ~ written
    BY <2>2, <1>1, <1>2, <1>3, Untouched
  <2> QED
    BY <2>1, <2>2
<1>11. rows' = [rows EXCEPT ![p] = rows[p]]
  BY Untouched DEF NoteEvent
<1> QED
  BY <1>9, <1>10, <1>11, OwnOnly

LEMMA NoteValidationKeeps ==
  ASSUME PoolInvariant, NEW p \in Pools, NoteValidation(p)
  PROVE  PoolInvariant'
<1>0. IsRunning(p) /\ pool[p].child = "validation" /\ pool[p].phase = "running"
  BY DEF NoteValidation, At, IsRunning
<1>1. PICK written \in BOOLEAN :
        /\ pool' = [pool EXCEPT ![p] = Advanced(@, @.ok /\ @.noted /\ written)]
        /\ facts' = IF written THEN [facts EXCEPT ![p] = @ \cup {<<"validation", Verdict(p)>>}] ELSE facts
  BY DEF NoteValidation
<1>2. PICK ok : ok = (pool[p].ok /\ pool[p].noted /\ written)
  OBVIOUS
<1>3. PICK f : f = IF written THEN facts[p] \cup {<<"validation", Verdict(p)>>} ELSE facts[p]
  OBVIOUS
<1>4. pool[p].ok \in BOOLEAN /\ pool[p].noted \in BOOLEAN /\ ok \in BOOLEAN
  BY <1>0, <1>2, Known DEF Pool
<1>5. ok => f = Passes
  <2> SUFFICES ASSUME ok
               PROVE  f = Passes
    OBVIOUS
  <2>1. f = facts[p] \cup {<<"validation", "pass">>}
    BY <1>2, <1>3 DEF Verdict
  <2>2. facts[p] \subseteq Passes /\ <<"event", "pass">> \in facts[p]
    BY <1>0, <1>2, Known
  <2>3. Passes = {<<"event", "pass">>, <<"validation", "pass">>}
    BY DEF Passes
  <2> QED
    BY <2>1, <2>2, <2>3
<1>6. ok => Backed(pool[p], rows[p], f, pool[p].at)
  BY <1>0, <1>2, <1>5, Known DEF Backed
<1>7. ok => \A i \in DOMAIN pool[p].plan : i < pool[p].at => Backed(pool[p], rows[p], f, i)
  BY <1>0, <1>2, <1>5, Known DEF Backed
<1>8. PICK r : r = Advanced(pool[p], ok)
  OBVIOUS
<1>9. PoolOK(r, rows[p], f)
  BY <1>0, <1>4, <1>5, <1>6, <1>7, <1>8, Known, AdvancedOK
<1>10. pool' = [pool EXCEPT ![p] = r] /\ facts' = [facts EXCEPT ![p] = f]
  <2>1. CASE written
    BY <2>1, <1>1, <1>2, <1>3, <1>8
  <2>2. CASE ~ written
    BY <2>2, <1>1, <1>2, <1>3, <1>8, Untouched
  <2> QED
    BY <2>1, <2>2
<1>11. rows' = [rows EXCEPT ![p] = rows[p]]
  BY Untouched DEF NoteValidation
<1> QED
  BY <1>9, <1>10, <1>11, OwnOnly

LEMMA LeaveKeeps ==
  ASSUME PoolInvariant, NEW p \in Pools, Leave(p)
  PROVE  PoolInvariant'
<1>1. PoolOK(NoPool, {}, {})
  BY DEF PoolOK
<1> QED
  BY <1>1, OwnOnly DEF Leave

LEMMA PoolInvariantKept ==
  ASSUME PoolInvariant, [Next]_vars
  PROVE  PoolInvariant'
<1>1. CASE UNCHANGED vars
  BY <1>1 DEF vars, PoolInvariant
<1>2. ASSUME NEW p \in Pools, NEW context \in Contexts, NEW source \in Sources, NEW trace \in Traces,
             Begin(p, context, source, trace)
      PROVE  PoolInvariant'
  BY <1>2, BeginKeeps
<1>3. ASSUME NEW p \in Pools,
             Announce(p) \/ RunGate(p) \/ Record(p) \/ NoteEvent(p) \/ NoteValidation(p) \/ Leave(p)
      PROVE  PoolInvariant'
  BY <1>3, AnnounceKeeps, RunGateKeeps, RecordKeeps, NoteEventKeeps, NoteValidationKeeps, LeaveKeeps
<1> QED
  BY <1>1, <1>2, <1>3 DEF Next

\* A pool that has passed has run all the gates of its plan, and each of them has
\* its two rows; the impact on the documents is in the record as passed.  The
\* plan has at least the steps that look at the trace, and whatever ends a step
\* early, a row or a fact that could not be written, ends the pool as failed.
THEOREM PassedIsBacked == Spec => []PassedPoolIsBacked
<1>1. Init => PoolInvariant
  BY DEF Init, PoolInvariant, PoolOK
<1>2. PoolInvariant /\ [Next]_vars => PoolInvariant'
  BY PoolInvariantKept
<1>3. PoolInvariant => PassedPoolIsBacked
  <2> SUFFICES ASSUME PoolInvariant, NEW p \in Pools, pool[p].phase = "passed"
               PROVE  /\ \A i \in DOMAIN pool[p].plan :
                           {<<i, "started">>, <<i, "succeeded">>} \subseteq rows[p]
                      /\ "doc-index" \in Names(p) /\ "task-id" \in pool[p].source => facts[p] = Passes
    BY DEF PassedPoolIsBacked, Passes
  <2>1. pool[p] # NoPool /\ PoolOK(pool[p], rows[p], facts[p])
    BY DEF NoPool, PoolInvariant
  <2>2. \A i \in DOMAIN pool[p].plan : Backed(pool[p], rows[p], facts[p], i)
    BY <2>1 DEF PoolOK
  <2> QED
    BY <2>2 DEF Backed, Noted, Names
<1> QED
  BY <1>1, <1>2, <1>3, PTL DEF Spec

-----------------------------------------------------------------------------
(***************************************************************************)
(* The order of the plan.                                                  *)
(***************************************************************************)
\* The place of a step among all that a plan can have; the record is gated early
\* or late.
Place(early) == [name \in StepNames |->
  CASE name = "worktree-creation-policy" -> 1 [] name = "worktree-task reconcile" -> 2
    [] name = "worktree-task host-closeout" -> 3 [] name = "py-compile" -> 4
    [] name = "validate-encoding" -> 5 [] name = "policy assess" -> 6
    [] name = "validate-doc" -> 7 [] name = "doc-index" -> 8
    [] name = "scan-corrections" -> 9 [] name = "git-diff-check" -> 10
    [] name = "completion-test" -> 11 [] name = "framework-debt report" -> 12
    [] name = "task-run diagnose" -> 13 [] name = "shell-adapter diagnose" -> 14
    [] name = "git-state-audit" -> 15 [] name = "file-ownership audit" -> 16
    [] name = "architecture-guard" -> 17 [] name = "task-record gate" -> (IF early THEN 18 ELSE 23)
    [] name = "task-gate" -> 19 [] name = "session-gate" -> 20
    [] name = "task-queue lifecycle" -> 21 [] name = "task-queue" -> 22
    [] name = "telemetry" -> 24 [] name = "telemetry effectiveness snapshot" -> 25
    [] name = "telemetry effectiveness trend" -> 26 [] name = "tool-flow" -> 27]

LEMMA PlaceType == ASSUME NEW early \in BOOLEAN PROVE Place(early) \in [StepNames -> Nat]
BY DEF Place, StepNames

PolicyName == "policy assess"

\* Steps with places from lo to hi, in order, and only the policy more than once.
Sorted(s, place, lo, hi) ==
  /\ s \in Seq(Step)
  /\ \A i \in DOMAIN s : lo <= place[s[i].name] /\ place[s[i].name] <= hi
  /\ \A i, j \in DOMAIN s : i < j =>
       \/ place[s[i].name] < place[s[j].name]
       \/ s[i].name = PolicyName /\ s[j].name = PolicyName

LEMMA JoinedAt ==
  ASSUME NEW s \in Seq(Step), NEW t \in Seq(Step)
  PROVE  /\ s \o t \in Seq(Step) /\ Len(s \o t) = Len(s) + Len(t)
         /\ Len(s) \in Nat /\ Len(t) \in Nat
         /\ \A i \in 1..Len(s) : (s \o t)[i] = s[i]
         /\ \A i \in (Len(s) + 1)..(Len(s) + Len(t)) : (s \o t)[i] = t[i - Len(s)]
OBVIOUS

LEMMA SortedJoined ==
  ASSUME NEW place \in [StepNames -> Nat], NEW lo \in Nat, NEW mid \in Nat, NEW high \in Nat, NEW hi \in Nat,
         mid < high, lo <= mid, high <= hi,
         NEW s, NEW t, Sorted(s, place, lo, mid), Sorted(t, place, high, hi)
  PROVE  Sorted(s \o t, place, lo, hi)
<1>1. s \in Seq(Step) /\ t \in Seq(Step)
  BY DEF Sorted
<1> DEFINE u == s \o t
           InS(i) == i \in DOMAIN s /\ u[i] = s[i]
           InT(i) == i - Len(s) \in DOMAIN t /\ u[i] = t[i - Len(s)] /\ i > Len(s)
<1>2. u \in Seq(Step) /\ \A i \in DOMAIN u : i \in Nat /\ (InS(i) \/ InT(i))
  BY <1>1, JoinedAt
<1>3. \A step \in Step : step.name \in StepNames
  BY DEF Step
<1>4. /\ \A i \in DOMAIN s : s[i].name \in StepNames /\ i \in 1..Len(s)
      /\ \A i \in DOMAIN t : t[i].name \in StepNames /\ i \in Nat
      /\ Len(s) \in Nat
  BY <1>1, <1>3
<1>a. \A name \in StepNames : place[name] \in Nat
  OBVIOUS
<1> HIDE DEF u
<1>5. ASSUME NEW i \in DOMAIN u
      PROVE  lo <= place[u[i].name] /\ place[u[i].name] <= hi
  <2>1. CASE InS(i)
    <3>1. place[s[i].name] \in Nat /\ lo <= place[s[i].name] /\ place[s[i].name] <= mid
      BY <1>4, <1>a, <2>1 DEF Sorted
    <3> QED
      BY <2>1, <3>1
  <2>2. CASE InT(i)
    <3>1. PICK k \in DOMAIN t : k = i - Len(s)
      BY <2>2
    <3>2. place[t[k].name] \in Nat /\ high <= place[t[k].name] /\ place[t[k].name] <= hi
      BY <1>4, <1>a, <3>1 DEF Sorted
    <3> QED
      BY <2>2, <3>1, <3>2
  <2> QED
    BY <1>2, <2>1, <2>2
<1>6. ASSUME NEW i \in DOMAIN u, NEW j \in DOMAIN u, i < j
      PROVE  \/ place[u[i].name] < place[u[j].name]
             \/ u[i].name = PolicyName /\ u[j].name = PolicyName
  <2>1. CASE InS(i) /\ InS(j)
    BY <1>6, <2>1 DEF Sorted
  <2>2. CASE InT(i) /\ InT(j)
    <3>1. PICK k \in DOMAIN t, l \in DOMAIN t : k = i - Len(s) /\ l = j - Len(s)
      BY <2>2
    <3>2. k < l
      BY <1>2, <1>4, <1>6, <3>1
    <3> QED
      BY <2>2, <3>1, <3>2 DEF Sorted
  <2>3. CASE InS(i) /\ InT(j)
    <3>1. PICK l \in DOMAIN t : l = j - Len(s)
      BY <2>3
    <3>2. place[s[i].name] <= mid /\ high <= place[t[l].name]
      BY <2>3, <3>1 DEF Sorted
    <3>3. PICK a, b : a = place[s[i].name] /\ b = place[t[l].name]
      OBVIOUS
    <3>4. a \in Nat /\ b \in Nat /\ a <= mid /\ high <= b
      BY <1>4, <1>a, <2>3, <3>1, <3>2, <3>3
    <3>5. a < b
      BY <3>4
    <3> QED
      BY <2>3, <3>1, <3>3, <3>5
  <2>4. CASE InT(i) /\ InS(j)
    <3>1. PICK n \in Nat : n = Len(s)
      BY <1>4
    <3>2. i \in Nat /\ j \in Nat /\ j <= n /\ i > n
      BY <1>2, <1>4, <2>4, <3>1
    <3>3. ~ (i < j)
      BY <3>2
    <3> QED
      BY <1>6, <3>3
  <2> QED
    BY <1>2, <2>1, <2>2, <2>3, <2>4
<1> QED
  BY <1>2, <1>5, <1>6 DEF Sorted, u

\* Steps after steps, one by one.
LEMMA SortedNext ==
  ASSUME NEW early \in BOOLEAN, NEW lo \in Nat, NEW mid \in Nat, NEW n \in Nat, lo <= mid, mid < n,
         NEW s, NEW t, Sorted(s, Place(early), lo, mid), Sorted(t, Place(early), n, n)
  PROVE  Sorted(s \o t, Place(early), lo, n)
<1>1. n <= n
  OBVIOUS
<1> QED
  BY <1>1, PlaceType, SortedJoined

\* The same for one step, or none.
LEMMA SortedOne ==
  ASSUME NEW early \in BOOLEAN, NEW context \in Contexts
  PROVE  /\ \A n \in Nat : Sorted(<< >>, Place(early), n, n)
         /\ \A name \in StepNames :
              /\ Sorted(<<[name |-> name, final |-> context.final]>>, Place(early),
                        Place(early)[name], Place(early)[name])
              /\ Sorted(<<[name |-> name, final |-> FALSE]>>, Place(early),
                        Place(early)[name], Place(early)[name])
<1>0. context.final \in BOOLEAN
  BY PoolAssumption DEF Context
<1>1. ASSUME NEW name \in StepNames, NEW final \in BOOLEAN, NEW step, step = [name |-> name, final |-> final]
      PROVE  Sorted(<<step>>, Place(early), Place(early)[name], Place(early)[name])
  <2>1. PICK s : s = <<step>>
    OBVIOUS
  <2>2. step \in Step /\ step.name = name
    BY <1>1 DEF Step
  <2>3. s \in Seq(Step) /\ \A i \in DOMAIN s : i = 1 /\ s[i].name = name
    BY <2>1, <2>2
  <2>4. PICK n \in Nat : n = Place(early)[name]
    BY PlaceType
  <2>5. \A i \in DOMAIN s : n <= Place(early)[s[i].name] /\ Place(early)[s[i].name] <= n
    BY <2>3, <2>4
  <2>6. \A i, j \in DOMAIN s : ~ (i < j)
    BY <2>3
  <2>7. Sorted(s, Place(early), n, n)
    BY <2>3, <2>5, <2>6 DEF Sorted
  <2> QED
    BY <2>1, <2>4, <2>7
<1>2. \A n \in Nat : Sorted(<< >>, Place(early), n, n)
  <2>1. << >> \in Seq(Step) /\ DOMAIN << >> = {}
    OBVIOUS
  <2> QED
    BY <2>1 DEF Sorted
<1> QED
  BY <1>0, <1>1, <1>2

LEMMA PlaceIs ==
  ASSUME NEW early \in BOOLEAN
  PROVE  /\ Place(early)["worktree-creation-policy"] = 1
         /\ Place(early)["worktree-task reconcile"] = 2
         /\ Place(early)["worktree-task host-closeout"] = 3
         /\ Place(early)["py-compile"] = 4
         /\ Place(early)["validate-encoding"] = 5
         /\ Place(early)["policy assess"] = 6
         /\ Place(early)["validate-doc"] = 7
         /\ Place(early)["doc-index"] = 8
         /\ Place(early)["scan-corrections"] = 9
         /\ Place(early)["git-diff-check"] = 10
         /\ Place(early)["completion-test"] = 11
         /\ Place(early)["framework-debt report"] = 12
         /\ Place(early)["task-run diagnose"] = 13
         /\ Place(early)["shell-adapter diagnose"] = 14
         /\ Place(early)["git-state-audit"] = 15
         /\ Place(early)["file-ownership audit"] = 16
         /\ Place(early)["architecture-guard"] = 17
         /\ Place(early)["task-gate"] = 19
         /\ Place(early)["session-gate"] = 20
         /\ Place(early)["task-queue lifecycle"] = 21
         /\ Place(early)["task-queue"] = 22
         /\ Place(early)["telemetry"] = 24
         /\ Place(early)["telemetry effectiveness snapshot"] = 25
         /\ Place(early)["telemetry effectiveness trend"] = 26
         /\ Place(early)["tool-flow"] = 27
         /\ Place(early)["task-record gate"] = IF early THEN 18 ELSE 23
BY DEF Place, StepNames

LEMMA RepeatedType ==
  ASSUME NEW S, NEW v \in S, NEW m \in Nat
  PROVE  [i \in 1..m |-> v] \in Seq(S)
OBVIOUS

\* The steps of the policy, one for each file.
LEMMA RepeatedSorted ==
  ASSUME NEW early \in BOOLEAN, NEW m \in Nat, NEW final \in BOOLEAN
  PROVE  Sorted([i \in 1..m |-> [name |-> PolicyName, final |-> final]], Place(early), 6, 6)
<1>0. PolicyName \in StepNames /\ Place(early)[PolicyName] = 6
  BY PlaceIs, Zenon DEF PolicyName, StepNames
<1>1. PICK v : v = [name |-> PolicyName, final |-> final]
  OBVIOUS
<1>2. PICK s : s = [i \in 1..m |-> v]
  OBVIOUS
<1>3. s \in Seq(Step)
  <2>1. v \in Step
    BY <1>0, <1>1 DEF Step
  <2> QED
    BY <1>2, <2>1, RepeatedType
<1>4. \A i \in DOMAIN s : s[i].name = PolicyName
  BY <1>1, <1>2
<1>5. \A i \in DOMAIN s : 6 <= Place(early)[s[i].name] /\ Place(early)[s[i].name] <= 6
  BY <1>0, <1>4
<1>6. Sorted(s, Place(early), 6, 6)
  BY <1>4, <1>3, <1>5 DEF Sorted
<1> QED
  BY <1>1, <1>2, <1>6

LEMMA CoordinationSorted ==
  ASSUME NEW context \in Contexts, NEW gates, NEW early \in BOOLEAN, early <=> "task-record" \in gates
  PROVE  Sorted(Coordination(context, gates), Place(early), 1, 3)
<1>0. context.final \in BOOLEAN /\ IsFiniteSet(context.paths)
  BY PoolAssumption DEF Context
<1> DEFINE s1 == Flagged("worktree-creation-policy" \in gates,
                        "worktree-creation-policy", context)
           s2 == Flagged("worktree-live-state" \in gates,
                        "worktree-task reconcile", context)
           s3 == Flagged("host-submodule-closeout" \in gates,
                        "worktree-task host-closeout", context)
<1>1. Sorted(s1, Place(early), 1, 1)
  BY SortedOne, PlaceIs DEF StepNames, Flagged, Plain
<1>2. Sorted(s2, Place(early), 2, 2)
  BY SortedOne, PlaceIs DEF StepNames, Flagged, Plain
<1>3. Sorted(s3, Place(early), 3, 3)
  BY SortedOne, PlaceIs DEF StepNames, Flagged, Plain
<1>4. Coordination(context, gates) = s1 \o s2 \o s3
  BY DEF Coordination
<1> HIDE DEF s1, s2, s3
<1>5. Sorted(s1 \o s2, Place(early), 1, 2)
  BY <1>1, <1>2, SortedNext
<1>6. Sorted(s1 \o s2 \o s3, Place(early), 1, 3)
  BY <1>5, <1>3, SortedNext
<1> QED
  BY <1>4, <1>6

LEMMA ReportsSorted ==
  ASSUME NEW context \in Contexts, NEW gates, NEW early \in BOOLEAN, early <=> "task-record" \in gates
  PROVE  Sorted(Reports(context, gates), Place(early), 11, 15)
<1>0. context.final \in BOOLEAN /\ IsFiniteSet(context.paths)
  BY PoolAssumption DEF Context
<1> DEFINE s11 == Flagged("completion-test-plan" \in gates /\ context.paths # {},
                        "completion-test", context)
           s12 == Flagged("framework-debt" \in gates,
                        "framework-debt report", context)
           s13 == Flagged({"raw-shell-coverage", "task-run-diagnostics", "task-record-queue-alignment"} \cap gates # {},
                        "task-run diagnose", context)
           s14 == Flagged("shell-adapter-diagnostics" \in gates,
                        "shell-adapter diagnose", context)
           s15 == Flagged("git-state-audit" \in gates,
                        "git-state-audit", context)
<1>1. Sorted(s11, Place(early), 11, 11)
  BY SortedOne, PlaceIs DEF StepNames, Flagged, Plain
<1>2. Sorted(s12, Place(early), 12, 12)
  BY SortedOne, PlaceIs DEF StepNames, Flagged, Plain
<1>3. Sorted(s13, Place(early), 13, 13)
  BY SortedOne, PlaceIs DEF StepNames, Flagged, Plain
<1>4. Sorted(s14, Place(early), 14, 14)
  BY SortedOne, PlaceIs DEF StepNames, Flagged, Plain
<1>5. Sorted(s15, Place(early), 15, 15)
  BY SortedOne, PlaceIs DEF StepNames, Flagged, Plain
<1>6. Reports(context, gates) = s11 \o s12 \o s13 \o s14 \o s15
  BY DEF Reports
<1> HIDE DEF s11, s12, s13, s14, s15
<1>7. Sorted(s11 \o s12, Place(early), 11, 12)
  BY <1>1, <1>2, SortedNext
<1>8. Sorted(s11 \o s12 \o s13, Place(early), 11, 13)
  BY <1>7, <1>3, SortedNext
<1>9. Sorted(s11 \o s12 \o s13 \o s14, Place(early), 11, 14)
  BY <1>8, <1>4, SortedNext
<1>10. Sorted(s11 \o s12 \o s13 \o s14 \o s15, Place(early), 11, 15)
  BY <1>9, <1>5, SortedNext
<1> QED
  BY <1>6, <1>10

LEMMA ClosingSorted ==
  ASSUME NEW context \in Contexts, NEW gates, NEW source, NEW early \in BOOLEAN, early <=> "task-record" \in gates
  PROVE  Sorted(Closing(context, gates, source), Place(early), 16, 23)
<1>0. context.final \in BOOLEAN /\ IsFiniteSet(context.paths)
  BY PoolAssumption DEF Context
<1> DEFINE s16 == Flagged(context.final /\ "file-ownership" \in gates,
                        "file-ownership audit", context)
           s17 == Flagged(context.final /\ "architecture-guard" \in gates,
                        "architecture-guard", context)
           s18 == Flagged("task-record" \in gates /\ ById(source),
                        "task-record gate", context)
           s19 == Flagged(context.final /\ "task-gate" \in gates /\ ~ ById(source),
                        "task-gate", context)
           s20 == Flagged(context.final /\ "session-gate" \in gates,
                        "session-gate", context)
           s21 == Flagged(context.final /\ "task-queue" \in gates,
                        "task-queue lifecycle", context)
           s22 == Flagged(context.final /\ "task-queue" \in gates /\ ~ ById(source),
                        "task-queue", context)
           s23 == Flagged(context.final /\ "task-queue" \in gates /\ ById(source) /\ "task-record" \notin gates,
                        "task-record gate", context)
<1>1. Sorted(s16, Place(early), 16, 16)
  BY SortedOne, PlaceIs DEF StepNames, Flagged, Plain
<1>2. Sorted(s17, Place(early), 17, 17)
  BY SortedOne, PlaceIs DEF StepNames, Flagged, Plain
<1>3. Sorted(s18, Place(early), 18, 18)
  BY SortedOne, PlaceIs DEF StepNames, Flagged, Plain
<1>4. Sorted(s19, Place(early), 19, 19)
  BY SortedOne, PlaceIs DEF StepNames, Flagged, Plain
<1>5. Sorted(s20, Place(early), 20, 20)
  BY SortedOne, PlaceIs DEF StepNames, Flagged, Plain
<1>6. Sorted(s21, Place(early), 21, 21)
  BY SortedOne, PlaceIs DEF StepNames, Flagged, Plain
<1>7. Sorted(s22, Place(early), 22, 22)
  BY SortedOne, PlaceIs DEF StepNames, Flagged, Plain
<1>8. Sorted(s23, Place(early), 23, 23)
  BY SortedOne, PlaceIs DEF StepNames, Flagged, Plain
<1>9. Closing(context, gates, source) = s16 \o s17 \o s18 \o s19 \o s20 \o s21 \o s22 \o s23
  BY DEF Closing
<1> HIDE DEF s16, s17, s18, s19, s20, s21, s22, s23
<1>10. Sorted(s16 \o s17, Place(early), 16, 17)
  BY <1>1, <1>2, SortedNext
<1>11. Sorted(s16 \o s17 \o s18, Place(early), 16, 18)
  BY <1>10, <1>3, SortedNext
<1>12. Sorted(s16 \o s17 \o s18 \o s19, Place(early), 16, 19)
  BY <1>11, <1>4, SortedNext
<1>13. Sorted(s16 \o s17 \o s18 \o s19 \o s20, Place(early), 16, 20)
  BY <1>12, <1>5, SortedNext
<1>14. Sorted(s16 \o s17 \o s18 \o s19 \o s20 \o s21, Place(early), 16, 21)
  BY <1>13, <1>6, SortedNext
<1>15. Sorted(s16 \o s17 \o s18 \o s19 \o s20 \o s21 \o s22, Place(early), 16, 22)
  BY <1>14, <1>7, SortedNext
<1>16. Sorted(s16 \o s17 \o s18 \o s19 \o s20 \o s21 \o s22 \o s23, Place(early), 16, 23)
  BY <1>15, <1>8, SortedNext
<1> QED
  BY <1>9, <1>16

LEMMA TraceStepsSorted ==
  ASSUME NEW context \in Contexts, NEW gates, NEW early \in BOOLEAN, early <=> "task-record" \in gates
  PROVE  Sorted(TraceSteps(context), Place(early), 24, 27)
<1>0. context.final \in BOOLEAN /\ IsFiniteSet(context.paths)
  BY PoolAssumption DEF Context
<1> DEFINE s24 == Plain(TRUE, "telemetry")
           s25 == Plain(context.final \/ context.event = "final-output", "telemetry effectiveness snapshot")
           s26 == Plain(context.final \/ context.event = "final-output", "telemetry effectiveness trend")
           s27 == Plain(TRUE, "tool-flow")
<1>1. Sorted(s24, Place(early), 24, 24)
  BY SortedOne, PlaceIs DEF StepNames, Flagged, Plain
<1>2. Sorted(s25, Place(early), 25, 25)
  BY SortedOne, PlaceIs DEF StepNames, Flagged, Plain
<1>3. Sorted(s26, Place(early), 26, 26)
  BY SortedOne, PlaceIs DEF StepNames, Flagged, Plain
<1>4. Sorted(s27, Place(early), 27, 27)
  BY SortedOne, PlaceIs DEF StepNames, Flagged, Plain
<1>5. TraceSteps(context) = s24 \o s25 \o s26 \o s27
  BY DEF TraceSteps
<1> HIDE DEF s24, s25, s26, s27
<1>6. Sorted(s24 \o s25, Place(early), 24, 25)
  BY <1>1, <1>2, SortedNext
<1>7. Sorted(s24 \o s25 \o s26, Place(early), 24, 26)
  BY <1>6, <1>3, SortedNext
<1>8. Sorted(s24 \o s25 \o s26 \o s27, Place(early), 24, 27)
  BY <1>7, <1>4, SortedNext
<1> QED
  BY <1>5, <1>8

LEMMA ValidationSorted ==
  ASSUME NEW context \in Contexts, NEW gates, NEW early \in BOOLEAN, early <=> "task-record" \in gates
  PROVE  Sorted(Validation(context, gates), Place(early), 4, 10)
<1>0. context.final \in BOOLEAN /\ IsFiniteSet(context.paths)
  BY PoolAssumption DEF Context
<1> DEFINE text == WithSuffix(context, TextSuffixes)
           n == IF "security-policy" \in gates THEN Cardinality(text) ELSE 0
           s4 == Plain("py-compile" \in gates /\ WithSuffix(context, {".py"}) # {}, "py-compile")
           s5 == Flagged("validate-encoding" \in gates /\ text # {},
                        "validate-encoding", context)
           s6 == [i \in 1..n |-> [name |-> "policy assess", final |-> context.final]]
           s7 == Flagged("validate-doc" \in gates /\ WithSuffix(context, {".md"}) # {},
                        "validate-doc", context)
           s8 == Flagged("doc-index" \in gates /\ context.paths # {},
                        "doc-index", context)
           s9 == Flagged(/\ "scan-corrections" \in gates
                        /\ \/ "correction" \in context.types
                           \/ \E path \in context.paths : path.correction,
                        "scan-corrections", context)
           s10 == Plain("git-diff-check" \in gates /\ context.paths # {}, "git-diff-check")
<1>1. Sorted(s4, Place(early), 4, 4)
  BY SortedOne, PlaceIs DEF StepNames, Flagged, Plain
<1>2. Sorted(s5, Place(early), 5, 5)
  BY SortedOne, PlaceIs DEF StepNames, Flagged, Plain
<1>3. Sorted(s6, Place(early), 6, 6)
  <2>1. n \in Nat
    <3>1. IsFiniteSet(text)
      BY <1>0, FS_Subset DEF WithSuffix, Existing
    <3> QED
      BY <3>1, FS_CardinalityType
  <2>2. PICK m \in Nat : m = n
    BY <2>1
  <2>3. s6 = [i \in 1..m |-> [name |-> "policy assess", final |-> context.final]]
    BY <2>2
  <2> QED
    BY <1>0, <2>3, RepeatedSorted DEF PolicyName
<1>4. Sorted(s7, Place(early), 7, 7)
  BY SortedOne, PlaceIs DEF StepNames, Flagged, Plain
<1>5. Sorted(s8, Place(early), 8, 8)
  BY SortedOne, PlaceIs DEF StepNames, Flagged, Plain
<1>6. Sorted(s9, Place(early), 9, 9)
  BY SortedOne, PlaceIs DEF StepNames, Flagged, Plain
<1>7. Sorted(s10, Place(early), 10, 10)
  BY SortedOne, PlaceIs DEF StepNames, Flagged, Plain
<1>8. Validation(context, gates) = s4 \o s5 \o s6 \o s7 \o s8 \o s9 \o s10
  BY DEF Validation
<1> HIDE DEF s4, s5, s6, s7, s8, s9, s10
<1>9. Sorted(s4 \o s5, Place(early), 4, 5)
  BY <1>1, <1>2, SortedNext
<1>10. Sorted(s4 \o s5 \o s6, Place(early), 4, 6)
  BY <1>9, <1>3, SortedNext
<1>11. Sorted(s4 \o s5 \o s6 \o s7, Place(early), 4, 7)
  BY <1>10, <1>4, SortedNext
<1>12. Sorted(s4 \o s5 \o s6 \o s7 \o s8, Place(early), 4, 8)
  BY <1>11, <1>5, SortedNext
<1>13. Sorted(s4 \o s5 \o s6 \o s7 \o s8 \o s9, Place(early), 4, 9)
  BY <1>12, <1>6, SortedNext
<1>14. Sorted(s4 \o s5 \o s6 \o s7 \o s8 \o s9 \o s10, Place(early), 4, 10)
  BY <1>13, <1>7, SortedNext
<1> QED
  BY <1>8, <1>14

-----------------------------------------------------------------------------
(***************************************************************************)
(* What a plan holds, and in which order.                                  *)
(***************************************************************************)
LEMMA PlanSorted ==
  ASSUME NEW context \in Contexts, NEW source
  PROVE  \E early \in BOOLEAN : Sorted(Plan(context, source), Place(early), 1, 27)
<1> DEFINE gates == GateSteps(context)
           s1 == Coordination(context, gates)
           s2 == Validation(context, gates)
           s3 == Reports(context, gates)
           s4 == Closing(context, gates, source)
           s5 == TraceSteps(context)
<1>1. PICK early \in BOOLEAN : early <=> "task-record" \in gates
  OBVIOUS
<1> HIDE DEF gates
<1>2. Sorted(s1, Place(early), 1, 3) /\ Sorted(s2, Place(early), 4, 10) /\ Sorted(s3, Place(early), 11, 15)
  BY <1>1, CoordinationSorted, ValidationSorted, ReportsSorted
<1>3. Sorted(s4, Place(early), 16, 23) /\ Sorted(s5, Place(early), 24, 27)
  BY <1>1, ClosingSorted, TraceStepsSorted
<1>4. Plan(context, source) = s1 \o s2 \o s3 \o s4 \o s5
  BY DEF Plan, gates
<1> HIDE DEF s1, s2, s3, s4, s5
<1>p. PICK place \in [StepNames -> Nat] : place = Place(early)
  BY PlaceType
<1>5. Sorted(s1 \o s2, place, 1, 10)
  BY <1>2, <1>p, SortedJoined
<1>6. Sorted(s1 \o s2 \o s3, place, 1, 15)
  BY <1>2, <1>5, <1>p, SortedJoined
<1>7. Sorted(s1 \o s2 \o s3 \o s4, place, 1, 23)
  BY <1>3, <1>6, <1>p, SortedJoined
<1>8. Sorted(s1 \o s2 \o s3 \o s4 \o s5, place, 1, 27)
  BY <1>3, <1>7, <1>p, SortedJoined
<1> QED
  BY <1>4, <1>8, <1>p

\* The place tells which of two steps comes first.
LEMMA SortedBefore ==
  ASSUME NEW place \in [StepNames -> Nat], NEW s, NEW lo, NEW hi, Sorted(s, place, lo, hi),
         NEW i \in DOMAIN s, NEW j \in DOMAIN s, place[s[j].name] < place[s[i].name]
  PROVE  j < i
<1>1. s \in Seq(Step) /\ i \in Nat /\ j \in Nat
  BY DEF Sorted
<1>2. s[i].name \in StepNames /\ s[j].name \in StepNames
  <2>1. \A step \in Step : step.name \in StepNames
    BY DEF Step
  <2> QED
    BY <1>1, <2>1
<1>3. PICK a, b : a = place[s[i].name] /\ b = place[s[j].name]
  OBVIOUS
<1>4. a \in Nat /\ b \in Nat /\ b < a
  BY <1>2, <1>3
<1>5. i # j
  BY <1>3, <1>4
<1>6. CASE i < j
  <2>1. a < b \/ (s[i].name = PolicyName /\ s[j].name = PolicyName)
    BY <1>3, <1>6 DEF Sorted
  <2>2. s[i].name # s[j].name
    BY <1>3, <1>4
  <2> QED
    BY <1>4, <2>1, <2>2
<1> QED
  BY <1>1, <1>5, <1>6

\* The names in a sequence.
NamesOf(s) == {s[i].name : i \in DOMAIN s}

LEMMA NamesJoined ==
  ASSUME NEW s \in Seq(Step), NEW t \in Seq(Step)
  PROVE  NamesOf(s) \cup NamesOf(t) \subseteq NamesOf(s \o t)
<1> DEFINE u == s \o t
<1>1. /\ u \in Seq(Step) /\ Len(u) = Len(s) + Len(t) /\ Len(s) \in Nat /\ Len(t) \in Nat
      /\ \A i \in 1..Len(s) : u[i] = s[i]
      /\ \A i \in (Len(s) + 1)..(Len(s) + Len(t)) : u[i] = t[i - Len(s)]
  BY JoinedAt
<1> HIDE DEF u
<1>2. DOMAIN s = 1..Len(s) /\ DOMAIN t = 1..Len(t) /\ DOMAIN u = 1..(Len(s) + Len(t))
  BY <1>1
<1>3. ASSUME NEW i \in DOMAIN s PROVE \E k \in DOMAIN u : u[k] = s[i]
  BY <1>1, <1>2, <1>3
<1>4. ASSUME NEW i \in DOMAIN t PROVE \E k \in DOMAIN u : u[k] = t[i]
  <2>1. PICK k : k = i + Len(s)
    OBVIOUS
  <2>2. k \in DOMAIN u /\ k \in (Len(s) + 1)..(Len(s) + Len(t)) /\ k - Len(s) = i
    BY <1>1, <1>2, <2>1
  <2> QED
    BY <1>1, <2>2
<1> QED
  BY <1>3, <1>4 DEF NamesOf, u

LEMMA NameOfOne ==
  ASSUME NEW name, NEW final
  PROVE  name \in NamesOf(<<[name |-> name, final |-> final]>>)
<1>1. PICK s : s = <<[name |-> name, final |-> final]>>
  OBVIOUS
<1>2. 1 \in DOMAIN s /\ s[1].name = name
  BY <1>1
<1> QED
  BY <1>1, <1>2 DEF NamesOf

\* A final pool is asked for the gates that end a task, whatever the event and the
\* types of the task are.
LEMMA FinalGatesAsked ==
  ASSUME NEW context, context.final
  PROVE  {"task-gate", "session-gate", "task-queue"} \subseteq GateSteps(context)
<1> SUFFICES ASSUME NEW step \in {"task-gate", "session-gate", "task-queue"}
             PROVE  step \in GateSteps(context)
  OBVIOUS
<1>1. PICK c : c = [Gate EXCEPT !.step = step, !.finalOnly = TRUE]
  OBVIOUS
<1>2. c \in FinalGates
  BY <1>1 DEF FinalGates
<1>3. c \in Components
  BY <1>2 DEF Components
<1>4. /\ c.step = step /\ c.kind = "cross-cutting-gate" /\ c.finalOnly = TRUE /\ c.events = {}
      /\ c.types = {} /\ c.sized = FALSE /\ c.webOnly = FALSE /\ c.needsPaths = FALSE
      /\ c.suffixes = {} /\ c.corrections = FALSE
  BY <1>1 DEF Gate
<1>5. Matches(c, context)
  BY <1>4 DEF Matches
<1>6. step # ""
  OBVIOUS
<1> QED
  BY <1>3, <1>4, <1>5, <1>6 DEF GateSteps, Matching

\* So its plan holds them.
LEMMA ClosingHolds ==
  ASSUME NEW context \in Contexts, context.final, NEW gates, NEW source,
         {"task-gate", "session-gate", "task-queue"} \subseteq gates
  PROVE  /\ {"session-gate", "task-queue lifecycle"} \subseteq NamesOf(Closing(context, gates, source))
         /\ IF ById(source) THEN "task-record gate" \in NamesOf(Closing(context, gates, source))
            ELSE {"task-gate", "task-queue"} \subseteq NamesOf(Closing(context, gates, source))
<1>0. PICK early \in BOOLEAN : early = TRUE
  OBVIOUS
<1>e. << >> \in Seq(Step) /\ \A name \in StepNames : <<[name |-> name, final |-> context.final]>> \in Seq(Step)
  BY <1>0, SortedOne DEF Sorted
<1> DEFINE s16 == Flagged(context.final /\ "file-ownership" \in gates,
                        "file-ownership audit", context)
           s17 == Flagged(context.final /\ "architecture-guard" \in gates,
                        "architecture-guard", context)
           s18 == Flagged("task-record" \in gates /\ ById(source),
                        "task-record gate", context)
           s19 == Flagged(context.final /\ "task-gate" \in gates /\ ~ ById(source),
                        "task-gate", context)
           s20 == Flagged(context.final /\ "session-gate" \in gates,
                        "session-gate", context)
           s21 == Flagged(context.final /\ "task-queue" \in gates,
                        "task-queue lifecycle", context)
           s22 == Flagged(context.final /\ "task-queue" \in gates /\ ~ ById(source),
                        "task-queue", context)
           s23 == Flagged(context.final /\ "task-queue" \in gates /\ ById(source) /\ "task-record" \notin gates,
                        "task-record gate", context)
<1>1. s16 \in Seq(Step)
  BY <1>e, Zenon DEF Flagged, StepNames
<1>2. s17 \in Seq(Step)
  BY <1>e, Zenon DEF Flagged, StepNames
<1>3. s18 \in Seq(Step)
  BY <1>e, Zenon DEF Flagged, StepNames
<1>4. s19 \in Seq(Step)
  BY <1>e, Zenon DEF Flagged, StepNames
<1>5. s20 \in Seq(Step)
  BY <1>e, Zenon DEF Flagged, StepNames
<1>6. s21 \in Seq(Step)
  BY <1>e, Zenon DEF Flagged, StepNames
<1>7. s22 \in Seq(Step)
  BY <1>e, Zenon DEF Flagged, StepNames
<1>8. s23 \in Seq(Step)
  BY <1>e, Zenon DEF Flagged, StepNames
<1>9. "session-gate" \in NamesOf(s20) /\ "task-queue lifecycle" \in NamesOf(s21)
  BY NameOfOne, Zenon DEF Flagged
<1>10. ~ ById(source) => "task-gate" \in NamesOf(s19) /\ "task-queue" \in NamesOf(s22)
  BY NameOfOne, Zenon DEF Flagged
<1>11. ById(source) => "task-record gate" \in NamesOf(s18) \/ "task-record gate" \in NamesOf(s23)
  BY NameOfOne, Zenon DEF Flagged
<1>12. Closing(context, gates, source) = s16 \o s17 \o s18 \o s19 \o s20 \o s21 \o s22 \o s23
  BY DEF Closing
<1> HIDE DEF s16, s17, s18, s19, s20, s21, s22, s23
<1>13. /\ s16 \o s17 \in Seq(Step)
       /\ NamesOf(s16) \cup NamesOf(s17)
            \subseteq NamesOf(s16 \o s17)
  BY <1>1, <1>2, JoinedType, NamesJoined
<1>14. /\ s16 \o s17 \o s18 \in Seq(Step)
       /\ NamesOf(s16 \o s17) \cup NamesOf(s18)
            \subseteq NamesOf(s16 \o s17 \o s18)
  BY <1>13, <1>3, JoinedType, NamesJoined
<1>15. /\ s16 \o s17 \o s18 \o s19 \in Seq(Step)
       /\ NamesOf(s16 \o s17 \o s18) \cup NamesOf(s19)
            \subseteq NamesOf(s16 \o s17 \o s18 \o s19)
  BY <1>14, <1>4, JoinedType, NamesJoined
<1>16. /\ s16 \o s17 \o s18 \o s19 \o s20 \in Seq(Step)
       /\ NamesOf(s16 \o s17 \o s18 \o s19) \cup NamesOf(s20)
            \subseteq NamesOf(s16 \o s17 \o s18 \o s19 \o s20)
  BY <1>15, <1>5, JoinedType, NamesJoined
<1>17. /\ s16 \o s17 \o s18 \o s19 \o s20 \o s21 \in Seq(Step)
       /\ NamesOf(s16 \o s17 \o s18 \o s19 \o s20) \cup NamesOf(s21)
            \subseteq NamesOf(s16 \o s17 \o s18 \o s19 \o s20 \o s21)
  BY <1>16, <1>6, JoinedType, NamesJoined
<1>18. /\ s16 \o s17 \o s18 \o s19 \o s20 \o s21 \o s22 \in Seq(Step)
       /\ NamesOf(s16 \o s17 \o s18 \o s19 \o s20 \o s21) \cup NamesOf(s22)
            \subseteq NamesOf(s16 \o s17 \o s18 \o s19 \o s20 \o s21 \o s22)
  BY <1>17, <1>7, JoinedType, NamesJoined
<1>19. /\ s16 \o s17 \o s18 \o s19 \o s20 \o s21 \o s22 \o s23 \in Seq(Step)
       /\ NamesOf(s16 \o s17 \o s18 \o s19 \o s20 \o s21 \o s22) \cup NamesOf(s23)
            \subseteq NamesOf(s16 \o s17 \o s18 \o s19 \o s20 \o s21 \o s22 \o s23)
  BY <1>18, <1>8, JoinedType, NamesJoined
<1> QED
  BY <1>9, <1>10, <1>11, <1>12, <1>13, <1>14, <1>15, <1>16, <1>17, <1>18, <1>19, Zenon

LEMMA PlanHolds ==
  ASSUME NEW context \in Contexts, NEW source
  PROVE  /\ "telemetry" \in NamesOf(Plan(context, source))
         /\ context.final =>
              /\ {"session-gate", "task-queue lifecycle"} \subseteq NamesOf(Plan(context, source))
              /\ IF ById(source) THEN "task-record gate" \in NamesOf(Plan(context, source))
                 ELSE {"task-gate", "task-queue"} \subseteq NamesOf(Plan(context, source))
<1> DEFINE gates == GateSteps(context)
           s1 == Coordination(context, gates)
           s2 == Validation(context, gates)
           s3 == Reports(context, gates)
           s4 == Closing(context, gates, source)
           s5 == TraceSteps(context)
           effectiveness == context.final \/ context.event = "final-output"
           t1 == Plain(TRUE, "telemetry")
           t2 == Plain(effectiveness, "telemetry effectiveness snapshot")
           t3 == Plain(effectiveness, "telemetry effectiveness trend")
           t4 == Plain(TRUE, "tool-flow")
<1>1. PICK early \in BOOLEAN : early <=> "task-record" \in gates
  OBVIOUS
<1>2. context.final => {"task-gate", "session-gate", "task-queue"} \subseteq gates
  BY FinalGatesAsked
<1> HIDE DEF gates
<1>3. /\ s1 \in Seq(Step) /\ s2 \in Seq(Step) /\ s3 \in Seq(Step) /\ s4 \in Seq(Step) /\ s5 \in Seq(Step)
  BY <1>1, CoordinationSorted, ValidationSorted, ReportsSorted, ClosingSorted, TraceStepsSorted DEF Sorted
<1>4. context.final =>
        /\ {"session-gate", "task-queue lifecycle"} \subseteq NamesOf(s4)
        /\ IF ById(source) THEN "task-record gate" \in NamesOf(s4)
           ELSE {"task-gate", "task-queue"} \subseteq NamesOf(s4)
  BY <1>2, ClosingHolds
<1>5. "telemetry" \in NamesOf(s5)
  <2>1. << >> \in Seq(Step) /\ \A name \in StepNames : <<[name |-> name, final |-> FALSE]>> \in Seq(Step)
    BY <1>1, SortedOne DEF Sorted
  <2>2. t1 \in Seq(Step) /\ t4 \in Seq(Step)
    BY <2>1, Zenon DEF Plain, StepNames
  <2>3. t2 \in Seq(Step) /\ t3 \in Seq(Step)
    BY <2>1, Zenon DEF Plain, StepNames
  <2>4. "telemetry" \in NamesOf(t1)
    BY NameOfOne, Zenon DEF Plain
  <2>5. s5 = t1 \o t2 \o t3 \o t4
    BY DEF TraceSteps
  <2> HIDE DEF t1, t2, t3, t4, s5
  <2>6. t1 \o t2 \in Seq(Step) /\ NamesOf(t1) \subseteq NamesOf(t1 \o t2)
    BY <2>2, <2>3, JoinedType, NamesJoined
  <2>7. t1 \o t2 \o t3 \in Seq(Step) /\ NamesOf(t1 \o t2) \subseteq NamesOf(t1 \o t2 \o t3)
    BY <2>3, <2>6, JoinedType, NamesJoined
  <2>8. NamesOf(t1 \o t2 \o t3) \subseteq NamesOf(t1 \o t2 \o t3 \o t4)
    BY <2>2, <2>7, NamesJoined
  <2> QED
    BY <2>4, <2>5, <2>6, <2>7, <2>8, Zenon
<1>6. Plan(context, source) = s1 \o s2 \o s3 \o s4 \o s5
  BY DEF Plan, gates
<1> HIDE DEF s1, s2, s3, s4, s5
<1>7. s1 \o s2 \o s3 \in Seq(Step)
  BY <1>3, JoinedType
<1>8. s1 \o s2 \o s3 \o s4 \in Seq(Step) /\ NamesOf(s4) \subseteq NamesOf(s1 \o s2 \o s3 \o s4)
  BY <1>3, <1>7, JoinedType, NamesJoined
<1>9. NamesOf(s1 \o s2 \o s3 \o s4) \cup NamesOf(s5) \subseteq NamesOf(s1 \o s2 \o s3 \o s4 \o s5)
  BY <1>3, <1>8, NamesJoined
<1> QED
  BY <1>4, <1>5, <1>6, <1>8, <1>9, Zenon

-----------------------------------------------------------------------------
(***************************************************************************)
(* What a pool has planned and what its rows have left in the trace.       *)
(***************************************************************************)
Found == {"invocation", "final gate", "report"}
Facts == {"event", "validation"} \X {"pass", "fail"}

LEMMA EvidenceFound ==
  ASSUME NEW step
  PROVE  /\ Evidence(step) \subseteq Found /\ "invocation" \in Evidence(step)
         /\ step.name = "session-gate" => "final gate" \in Evidence(step)
         /\ step.name = "telemetry" => "report" \in Evidence(step)
BY Zenon DEF Evidence, Found, FinalGateNames

\* The same pool, perhaps a step further.
Same(a, r) ==
  a \in Pool /\ a.plan = r.plan /\ a.trace = r.trace /\ a.source = r.source /\ a.final = r.final /\ r.at <= a.at

LEMMA AdvancedSame ==
  ASSUME NEW r \in Pool, NEW ok \in BOOLEAN
  PROVE  Same(Advanced(r, ok), r)
<1>1. PICK next : next = r.at + 1
  OBVIOUS
<1>2. r.at \in Nat /\ next \in Nat /\ r.at <= next /\ r.at <= r.at
  BY <1>1 DEF Pool
<1>3. PICK a, b, c : /\ a = [r EXCEPT !.phase = "failed", !.child = "none"]
                     /\ b = [r EXCEPT !.phase = "passed", !.child = "none"]
                     /\ c = [r EXCEPT !.at = next, !.child = "none"]
  OBVIOUS
<1>4. Same(a, r) /\ Same(b, r) /\ Same(c, r)
  BY <1>2, <1>3 DEF Same, Pool
<1>5. Advanced(r, ok) \in {a, b, c}
  BY <1>1, <1>3 DEF Advanced
<1> QED
  BY <1>4, <1>5

LEMMA ReturnedSame ==
  ASSUME NEW r \in Pool, NEW ok \in BOOLEAN
  PROVE  Same(Returned(r, ok), r)
<1>1. PICK e : e = [r EXCEPT !.child = "event", !.ok = ok]
  OBVIOUS
<1>2. r.at \in Nat /\ r.at <= r.at
  BY DEF Pool
<1>3. Same(e, r)
  BY <1>1, <1>2 DEF Same, Pool
<1>4. Returned(r, ok) = e \/ Returned(r, ok) = Advanced(r, ok)
  BY <1>1, Zenon DEF Returned
<1> QED
  BY <1>3, <1>4, AdvancedSame

\* What a step of a running pool does: its rows are about the step it is at, and
\* a started row leaves its evidence in the trace.
Effect(p) ==
  /\ \E r : Same(r, pool[p]) /\ pool' = [pool EXCEPT ![p] = r]
  /\ \/ rows' = rows
     \/ \E status \in {"succeeded", "failed"} : rows' = Written(p, status)
     \/ /\ rows' = Written(p, "started")
        /\ evidence' = [evidence EXCEPT ![pool[p].trace] = @ \cup Evidence(Current(p))]
  /\ \/ evidence' = evidence
     \/ evidence' = [evidence EXCEPT ![pool[p].trace] = @ \cup Evidence(Current(p))]
  /\ \/ facts' = facts
     \/ \E fact \in Facts : facts' = [facts EXCEPT ![p] = @ \cup {fact}]

LEMMA StepEffect ==
  ASSUME NEW p \in Pools, IsRunning(p) => pool[p] \in Pool,
         Announce(p) \/ RunGate(p) \/ Record(p) \/ NoteEvent(p) \/ NoteValidation(p)
  PROVE  IsRunning(p) /\ Effect(p)
<1>1. IsRunning(p) /\ pool[p] \in Pool
  BY DEF Announce, RunGate, Record, NoteEvent, NoteValidation, At
<1>2. PICK r \in Pool : r = pool[p]
  BY <1>1
<1>3. r.at \in Nat /\ r.at <= r.at /\ r.ok \in BOOLEAN /\ r.noted \in BOOLEAN
  BY DEF Pool
<1>4. CASE Announce(p)
  <2>1. PICK s : s = [r EXCEPT !.child = "started"]
    OBVIOUS
  <2>2. Same(s, r)
    BY <1>3, <2>1 DEF Same, Pool
  <2>3. pool' = [pool EXCEPT ![p] = s] \/ pool' = [pool EXCEPT ![p] = Returned(r, FALSE)]
    BY <1>2, <1>4, <2>1 DEF Announce
  <2>4. \E a : Same(a, pool[p]) /\ pool' = [pool EXCEPT ![p] = a]
    BY <1>2, <2>2, <2>3, ReturnedSame
  <2> QED
    BY <1>1, <1>4, <2>4 DEF Announce, Effect
<1>5. CASE RunGate(p)
  <2>1. PICK ok \in BOOLEAN : pool' = [pool EXCEPT ![p].child = "ended", ![p].ok = ok]
    BY <1>5 DEF RunGate
  <2>2. PICK s : s = [r EXCEPT !.child = "ended", !.ok = ok]
    OBVIOUS
  <2>3. Same(s, r) /\ pool' = [pool EXCEPT ![p] = s]
    BY <1>2, <1>3, <2>1, <2>2 DEF Same, Pool
  <2> QED
    BY <1>1, <1>2, <1>5, <2>3 DEF RunGate, Effect
<1>6. CASE Record(p)
  <2>1. pool' = [pool EXCEPT ![p] = Returned(r, r.ok)] \/ pool' = [pool EXCEPT ![p] = Returned(r, FALSE)]
    BY <1>2, <1>6 DEF Record
  <2>2. \E a : Same(a, pool[p]) /\ pool' = [pool EXCEPT ![p] = a]
    BY <1>2, <1>3, <2>1, ReturnedSame
  <2>3. rows' = rows \/ \E status \in {"succeeded", "failed"} : rows' = Written(p, status)
    BY <1>6 DEF Record
  <2> QED
    BY <1>1, <1>6, <2>2, <2>3 DEF Record, Effect
<1>7. CASE NoteEvent(p)
  <2>1. PICK written \in BOOLEAN :
          /\ pool' = [pool EXCEPT ![p].child = "validation", ![p].noted = written]
          /\ facts' = IF written THEN [facts EXCEPT ![p] = @ \cup {<<"event", Verdict(p)>>}] ELSE facts
    BY <1>7 DEF NoteEvent
  <2>2. PICK s : s = [r EXCEPT !.child = "validation", !.noted = written]
    OBVIOUS
  <2>3. Same(s, r) /\ pool' = [pool EXCEPT ![p] = s]
    BY <1>2, <1>3, <2>1, <2>2 DEF Same, Pool
  <2>4. <<"event", Verdict(p)>> \in Facts
    BY DEF Facts, Verdict
  <2> QED
    BY <1>1, <1>2, <1>7, <2>1, <2>3, <2>4 DEF NoteEvent, Effect
<1>8. CASE NoteValidation(p)
  <2>1. PICK written \in BOOLEAN :
          /\ pool' = [pool EXCEPT ![p] = Advanced(@, @.ok /\ @.noted /\ written)]
          /\ facts' = IF written THEN [facts EXCEPT ![p] = @ \cup {<<"validation", Verdict(p)>>}] ELSE facts
    BY <1>8 DEF NoteValidation
  <2>2. PICK ok : ok = (r.ok /\ r.noted /\ written)
    OBVIOUS
  <2>3. ok \in BOOLEAN
    BY <1>3, <2>2
  <2>4. pool' = [pool EXCEPT ![p] = Advanced(r, ok)]
    BY <1>2, <2>1, <2>2
  <2>5. \E a : Same(a, pool[p]) /\ pool' = [pool EXCEPT ![p] = a]
    BY <1>2, <2>3, <2>4, AdvancedSame
  <2>6. <<"validation", Verdict(p)>> \in Facts
    BY DEF Facts, Verdict
  <2> QED
    BY <1>1, <1>8, <2>1, <2>5, <2>6 DEF NoteValidation, Effect
<1> QED
  BY <1>4, <1>5, <1>6, <1>7, <1>8

\* The plan is that of a context, the rows are about steps up to where the pool
\* is, and a started row has left its evidence.
Planned(p) ==
  /\ \E context \in Contexts : /\ pool[p].plan = Plan(context, pool[p].source)
                               /\ pool[p].final = context.final
  /\ \A row \in rows[p] : row[1] \in Nat /\ row[1] <= pool[p].at
  /\ \A j \in DOMAIN pool[p].plan : <<j, "started">> \in rows[p] =>
       Evidence(pool[p].plan[j]) \subseteq evidence[pool[p].trace]

TraceInvariant ==
  /\ evidence \in [Traces -> SUBSET Found]
  /\ \A p \in Pools : facts[p] \subseteq Facts
  /\ \A p \in Pools : pool[p] # NoPool => Planned(p)

\* A trace only gains evidence.
LEMMA Gained ==
  ASSUME PoolInvariant, TraceInvariant, NEW p \in Pools, pool'[p] = pool[p], rows'[p] = rows[p],
         \A trace \in Traces : evidence[trace] \subseteq evidence'[trace], pool[p] # NoPool
  PROVE  Planned(p)'
<1>1. pool[p] \in Pool /\ Planned(p)
  BY DEF PoolInvariant, PoolOK, TraceInvariant
<1>2. pool[p].trace \in Traces
  BY <1>1 DEF Pool
<1> QED
  BY <1>1, <1>2 DEF Planned

LEMMA TraceKept ==
  ASSUME PoolInvariant, TraceInvariant, [Next]_vars
  PROVE  TraceInvariant'
<1>0. DOMAIN pool = Pools /\ DOMAIN rows = Pools /\ DOMAIN facts = Pools
  BY DEF PoolInvariant
<1>1. CASE UNCHANGED vars
  BY <1>1 DEF vars, TraceInvariant, Planned
<1>2. ASSUME NEW p \in Pools, NEW context \in Contexts, NEW source \in Sources, NEW trace \in Traces,
             Begin(p, context, source, trace)
      PROVE  TraceInvariant'
  <2>1. /\ pool[p] = NoPool /\ UNCHANGED <<rows, facts>>
        /\ evidence' = evidence \/ evidence' = [evidence EXCEPT ![trace] = @ \cup {"invocation"}]
    BY <1>2 DEF Begin
  <2>2. evidence' \in [Traces -> SUBSET Found] /\ \A t \in Traces : evidence[t] \subseteq evidence'[t]
    <3>1. "invocation" \in Found
      BY Zenon DEF Found
    <3> QED
      BY <2>1, <3>1 DEF TraceInvariant
  <2>3. PICK plan : plan = Plan(context, source)
    OBVIOUS
  <2>4. pool' = [pool EXCEPT ![p] =
          [phase |-> "running", source |-> source, trace |-> trace, final |-> context.final,
           plan |-> plan, at |-> 1, child |-> "none", ok |-> TRUE, noted |-> TRUE]]
    BY <1>2, <2>3 DEF Begin
  <2>5. /\ pool'[p].plan = plan /\ pool'[p].source = source /\ pool'[p].final = context.final
        /\ \A q \in Pools \ {p} : pool'[q] = pool[q]
    BY <1>0, <2>4
  <2>6. rows[p] = {}
    <3>1. NoPool \notin Pool /\ PoolOK(pool[p], rows[p], facts[p])
      BY DEF NoPool, Pool, PoolInvariant
    <3> QED
      BY <2>1, <3>1 DEF PoolOK
  <2>7. Planned(p)'
    BY <2>1, <2>3, <2>5, <2>6 DEF Planned
  <2>8. ASSUME NEW q \in Pools \ {p}, pool'[q] # NoPool PROVE Planned(q)'
    BY <2>1, <2>2, <2>5, <2>8, Gained
  <2> QED
    BY <2>1, <2>2, <2>7, <2>8 DEF TraceInvariant
<1>3. ASSUME NEW p \in Pools, Announce(p) \/ RunGate(p) \/ Record(p) \/ NoteEvent(p) \/ NoteValidation(p)
      PROVE  TraceInvariant'
  <2>1. /\ pool[p] # NoPool /\ pool[p] \in Pool /\ pool[p].at \in DOMAIN pool[p].plan
        /\ Planned(p) /\ Effect(p)
    <3>1. IsRunning(p) => pool[p] # NoPool
      BY DEF IsRunning, NoPool
    <3>2. IsRunning(p) => pool[p] \in Pool /\ pool[p].at \in DOMAIN pool[p].plan
      BY <3>1 DEF PoolInvariant, PoolOK
    <3>3. IsRunning(p) /\ Effect(p)
      BY <1>3, <3>2, StepEffect
    <3> QED
      BY <3>1, <3>2, <3>3 DEF TraceInvariant
  <2>2. PICK old, step, r : /\ old = pool[p] /\ step = Current(p)
                            /\ Same(r, old) /\ pool' = [pool EXCEPT ![p] = r]
    BY <2>1 DEF Effect
  <2>3. old.trace \in Traces /\ old.at \in Nat /\ old.at \in DOMAIN old.plan /\ step = old.plan[old.at]
    BY <2>1, <2>2 DEF Pool, Current
  <2>4. pool'[p] = r /\ \A q \in Pools \ {p} : pool'[q] = pool[q]
    BY <1>0, <2>2
  <2>5. \/ evidence' = evidence
        \/ evidence' = [evidence EXCEPT ![old.trace] = @ \cup Evidence(step)]
    BY <2>1, <2>2 DEF Effect
  <2>6. evidence' \in [Traces -> SUBSET Found] /\ \A t \in Traces : evidence[t] \subseteq evidence'[t]
    <3>1. Evidence(step) \subseteq Found
      BY EvidenceFound
    <3> QED
      BY <2>5, <3>1 DEF TraceInvariant
  <2>7. \A q \in Pools : facts'[q] \subseteq Facts
    BY <1>0, <2>1 DEF Effect, TraceInvariant
  <2>8. /\ \A q \in Pools \ {p} : rows'[q] = rows[q]
        /\ \/ rows'[p] = rows[p]
           \/ \E status \in {"succeeded", "failed"} : rows'[p] = rows[p] \cup {<<old.at, status>>}
           \/ /\ rows'[p] = rows[p] \cup {<<old.at, "started">>}
              /\ evidence' = [evidence EXCEPT ![old.trace] = @ \cup Evidence(step)]
    BY <1>0, <2>1, <2>2 DEF Effect, Written
  <2>9. r.plan = old.plan /\ r.trace = old.trace /\ r.source = old.source /\ r.final = old.final
          /\ old.at <= r.at /\ r.at \in Nat
    BY <2>2 DEF Same, Pool
  <2>10. \A row \in rows'[p] : row[1] \in Nat /\ row[1] <= r.at
    <3>1. \A row \in rows[p] : row[1] \in Nat /\ row[1] <= r.at
      BY <2>1, <2>2, <2>3, <2>9 DEF Planned
    <3>2. \A status : <<old.at, status>>[1] = old.at
      OBVIOUS
    <3> QED
      BY <2>3, <2>8, <2>9, <3>1, <3>2
  <2>11. ASSUME NEW j \in DOMAIN old.plan, <<j, "started">> \in rows'[p]
         PROVE  Evidence(old.plan[j]) \subseteq evidence'[old.trace]
    <3>1. CASE <<j, "started">> \in rows[p]
      <4>1. Evidence(old.plan[j]) \subseteq evidence[old.trace]
        BY <2>1, <2>2, <3>1 DEF Planned
      <4> QED
        BY <2>3, <2>6, <4>1
    <3>2. CASE <<j, "started">> \notin rows[p]
      <4>1. j = old.at /\ evidence' = [evidence EXCEPT ![old.trace] = @ \cup Evidence(step)]
        BY <2>8, <2>11, <3>2
      <4> QED
        BY <2>3, <4>1 DEF TraceInvariant
    <3> QED
      BY <3>1, <3>2
  <2>12. Planned(p)'
    <3>1. PICK context \in Contexts : old.plan = Plan(context, old.source) /\ old.final = context.final
      BY <2>1, <2>2 DEF Planned
    <3> QED
      BY <2>4, <2>9, <2>10, <2>11, <3>1 DEF Planned
  <2>13. ASSUME NEW q \in Pools \ {p}, pool'[q] # NoPool PROVE Planned(q)'
    BY <2>4, <2>6, <2>8, <2>13, Gained
  <2> QED
    BY <2>6, <2>7, <2>12, <2>13 DEF TraceInvariant
<1>4. ASSUME NEW p \in Pools, Leave(p)
      PROVE  TraceInvariant'
  <2>1. /\ pool'[p] = NoPool /\ facts'[p] = {} /\ evidence' = evidence
        /\ \A q \in Pools \ {p} : pool'[q] = pool[q] /\ rows'[q] = rows[q] /\ facts'[q] = facts[q]
    BY <1>0, <1>4 DEF Leave
  <2>2. ASSUME NEW q \in Pools \ {p}, pool'[q] # NoPool PROVE Planned(q)'
    BY <2>1, <2>2, Gained
  <2> QED
    BY <2>1, <2>2 DEF TraceInvariant
<1> QED
  BY <1>1, <1>2, <1>3, <1>4 DEF Next

LEMMA Traced ==
  /\ Init => PoolInvariant /\ TraceInvariant
  /\ PoolInvariant /\ TraceInvariant /\ [Next]_vars => PoolInvariant' /\ TraceInvariant'
<1>1. Init => PoolInvariant
  BY DEF Init, PoolInvariant, PoolOK
<1>2. Init => TraceInvariant
  BY DEF Init, TraceInvariant
<1> QED
  BY <1>1, <1>2, PoolInvariantKept, TraceKept

\* A pool is idle or at a step of a plan of known steps, its rows are about steps
\* up to that one, its facts are the two that the impact on the documents has,
\* and a trace holds no more than the three kinds of evidence.
THEOREM PoolTypes == Spec => []TypeOK
<1>1. PoolInvariant /\ TraceInvariant => TypeOK
  <2> SUFFICES ASSUME PoolInvariant, TraceInvariant
               PROVE  TypeOK
    OBVIOUS
  <2>1. ASSUME NEW p \in Pools
        PROVE  /\ \/ pool[p] = NoPool
                  \/ pool[p] \in Pool /\ pool[p].at \in DOMAIN pool[p].plan
               /\ IsRunning(p) => \A row \in rows[p] : row[1] <= pool[p].at
               /\ facts[p] \subseteq Facts
    <3>1. PoolOK(pool[p], rows[p], facts[p])
      BY DEF PoolInvariant
    <3>2. IsRunning(p) => pool[p] # NoPool
      BY DEF IsRunning, NoPool
    <3> QED
      BY <3>1, <3>2 DEF PoolOK, TraceInvariant, Planned
  <2>2. DOMAIN pool = Pools
    BY DEF PoolInvariant
  <2>3. evidence \in [Traces -> SUBSET Found]
    BY DEF TraceInvariant
  <2> QED
    BY <2>1, <2>2, <2>3, Zenon DEF TypeOK, Facts, Found
<1> QED
  BY <1>1, Traced, PTL DEF Spec

\* The places of the steps that leave what tool-flow asks for, and of the gates
\* that close a task and those that look at the changes.
LEMMA PlacesApart ==
  ASSUME NEW place, NEW early \in BOOLEAN, place = Place(early)
  PROVE  /\ place["telemetry"] < place["tool-flow"] /\ place["session-gate"] < place["tool-flow"]
         /\ \A closer \in {"session-gate", "task-record gate", "task-queue lifecycle"},
               change \in {"doc-index", "validate-doc", "completion-test", "policy assess"} :
              place[change] < place[closer]
<1>1. place["telemetry"] = 24 /\ place["session-gate"] = 20 /\ place["tool-flow"] = 27
  BY PlaceIs, Zenon
<1>2. ASSUME NEW closer \in {"session-gate", "task-record gate", "task-queue lifecycle"}
      PROVE  place[closer] \in {18, 20, 21, 23}
  <2>1. place["session-gate"] = 20 /\ place["task-queue lifecycle"] = 21
    BY PlaceIs, Zenon
  <2>2. place["task-record gate"] = 18 \/ place["task-record gate"] = 23
    BY PlaceIs, Zenon
  <2> QED
    BY <2>1, <2>2, Zenon
<1>3. ASSUME NEW change \in {"doc-index", "validate-doc", "completion-test", "policy assess"}
      PROVE  place[change] \in {6, 7, 8, 11}
  <2>1. /\ place["policy assess"] = 6 /\ place["validate-doc"] = 7 /\ place["doc-index"] = 8
        /\ place["completion-test"] = 11
    BY PlaceIs, Zenon
  <2> QED
    BY <2>1, Zenon
<1>4. \A m \in {6, 7, 8, 11}, n \in {18, 20, 21, 23} : m < n
  OBVIOUS
<1>5. 24 < 27 /\ 20 < 27
  OBVIOUS
<1> QED
  BY <1>1, <1>2, <1>3, <1>4, <1>5, Zenon

\* What is known of the plan of a pool.
LEMMA PlanKnown ==
  ASSUME PoolInvariant, TraceInvariant, NEW p \in Pools, pool[p] # NoPool
  PROVE  /\ pool[p] \in Pool /\ Planned(p)
         /\ \E early \in BOOLEAN : Sorted(pool[p].plan, Place(early), 1, 27)
         /\ "telemetry" \in Names(p)
         /\ pool[p].final =>
              /\ {"session-gate", "task-queue lifecycle"} \subseteq Names(p)
              /\ IF ById(pool[p].source) THEN "task-record gate" \in Names(p)
                 ELSE {"task-gate", "task-queue"} \subseteq Names(p)
<1>1. pool[p] \in Pool /\ Planned(p)
  BY DEF PoolInvariant, PoolOK, TraceInvariant
<1>2. PICK context \in Contexts : pool[p].plan = Plan(context, pool[p].source) /\ pool[p].final = context.final
  BY <1>1 DEF Planned
<1>3. Names(p) = NamesOf(pool[p].plan)
  BY DEF Names, NamesOf
<1> QED
  BY <1>1, <1>2, <1>3, PlanSorted, PlanHolds, Zenon

\* When the check of the trace that ends a final pool runs, the trace has a final
\* gate and the telemetry report in it, whatever the context: session-gate and
\* telemetry are in the plan of every final pool, before tool-flow, and a pool is
\* at a step only when the rows of all the steps before it are written.
THEOREM FlowSatisfied == Spec => []FinalPoolSatisfiesFlow
<1>1. PoolInvariant /\ TraceInvariant => FinalPoolSatisfiesFlow
  <2> SUFFICES ASSUME PoolInvariant, TraceInvariant, NEW p \in Pools, At(p, "started"),
                      Current(p).name = "tool-flow", pool[p].final
               PROVE  FlowIsComplete(pool[p].trace)
    BY DEF FinalPoolSatisfiesFlow
  <2>1. IsRunning(p) /\ pool[p].child = "started" /\ pool[p] # NoPool
    BY DEF At, IsRunning, NoPool
  <2>2. PICK plan, at, trace : plan = pool[p].plan /\ at = pool[p].at /\ trace = pool[p].trace
    OBVIOUS
  <2>3. /\ at \in DOMAIN plan /\ plan[at].name = "tool-flow" /\ Planned(p)
        /\ \A i \in DOMAIN plan : i < at => <<i, "started">> \in rows[p]
    BY <2>1, <2>2, Known, PlanKnown DEF Current, Backed
  <2>4. PICK early \in BOOLEAN : Sorted(plan, Place(early), 1, 27)
    BY <2>1, <2>2, PlanKnown
  <2>5. PICK place \in [StepNames -> Nat] : place = Place(early)
    BY PlaceType
  <2>6. place["telemetry"] < place["tool-flow"] /\ place["session-gate"] < place["tool-flow"]
    BY <2>5, PlacesApart
  <2>7. ASSUME NEW i \in DOMAIN plan, place[plan[i].name] < place["tool-flow"]
        PROVE  Evidence(plan[i]) \subseteq evidence[trace]
    <3>1. i < at
      BY <2>3, <2>4, <2>5, <2>7, SortedBefore
    <3> QED
      BY <2>2, <2>3, <3>1 DEF Planned
  <2>8. "telemetry" \in Names(p) /\ "session-gate" \in Names(p)
    BY <2>1, PlanKnown, Zenon
  <2>9. PICK i \in DOMAIN plan, k \in DOMAIN plan : plan[i].name = "telemetry" /\ plan[k].name = "session-gate"
    BY <2>2, <2>8 DEF Names
  <2>10. Evidence(plan[i]) \subseteq evidence[trace] /\ Evidence(plan[k]) \subseteq evidence[trace]
    BY <2>6, <2>7, <2>9
  <2>11. Found \subseteq evidence[trace]
    BY <2>9, <2>10, EvidenceFound, Zenon DEF Found
  <2>12. FlowIssues(evidence[trace]) = Found \ evidence[trace]
    BY Zenon DEF FlowIssues, Found
  <2> QED
    BY <2>2, <2>11, <2>12 DEF FlowIsComplete
<1> QED
  BY <1>1, Traced, PTL DEF Spec

\* For any context, with any number of files and any components that ask for a
\* gate, a pool runs each gate once, the policy apart, and a final pool has the
\* gates that close the task, after those that look at the changes.
THEOREM PlanClosed == Spec => []PlanClosesOnce
<1>1. PoolInvariant /\ TraceInvariant => PlanClosesOnce
  <2> SUFFICES ASSUME PoolInvariant, TraceInvariant, NEW p \in Pools, IsRunning(p)
               PROVE  /\ \A i, j \in DOMAIN pool[p].plan :
                           i < j /\ pool[p].plan[i].name = pool[p].plan[j].name =>
                             pool[p].plan[i].name = "policy assess"
                      /\ pool[p].final =>
                           /\ {"session-gate", "task-queue lifecycle"} \subseteq Names(p)
                           /\ IF "task-tracking" \in pool[p].source
                                THEN {"task-gate", "task-queue"} \subseteq Names(p)
                                ELSE "task-record gate" \in Names(p)
                           /\ \A i, j \in DOMAIN pool[p].plan :
                                /\ pool[p].plan[i].name \in
                                     {"session-gate", "task-record gate", "task-queue lifecycle"}
                                /\ pool[p].plan[j].name \in
                                     {"doc-index", "validate-doc", "completion-test", "policy assess"}
                                => j < i
    BY Zenon DEF PlanClosesOnce
  <2>1. pool[p] # NoPool
    BY DEF IsRunning, NoPool
  <2>2. PICK plan : plan = pool[p].plan
    OBVIOUS
  <2>3. PICK early \in BOOLEAN : Sorted(plan, Place(early), 1, 27)
    BY <2>1, <2>2, PlanKnown
  <2>4. PICK place \in [StepNames -> Nat] : place = Place(early)
    BY PlaceType
  <2>5. ASSUME NEW i \in DOMAIN plan, NEW j \in DOMAIN plan, i < j, plan[i].name = plan[j].name
        PROVE  plan[i].name = PolicyName
    <3>1. plan[i].name \in StepNames
      <4>1. plan \in Seq(Step) /\ \A step \in Step : step.name \in StepNames
        BY <2>3 DEF Sorted, Step
      <4> QED
        BY <4>1
    <3>2. PICK n \in Nat : n = place[plan[i].name]
      BY <2>4, <3>1
    <3>3. ~ (n < n)
      OBVIOUS
    <3> QED
      BY <2>3, <2>4, <2>5, <3>2, <3>3 DEF Sorted
  <2>6. ASSUME NEW i \in DOMAIN plan, NEW j \in DOMAIN plan,
               plan[i].name \in {"session-gate", "task-record gate", "task-queue lifecycle"},
               plan[j].name \in {"doc-index", "validate-doc", "completion-test", "policy assess"}
        PROVE  j < i
    <3>1. place[plan[j].name] < place[plan[i].name]
      BY <2>4, <2>6, PlacesApart, Zenon
    <3>2. Sorted(plan, place, 1, 27)
      BY <2>3, <2>4
    <3> HIDE <2>6
    <3> QED
      BY <3>1, <3>2, SortedBefore, Zenon
  <2>7. pool[p].final =>
          /\ {"session-gate", "task-queue lifecycle"} \subseteq Names(p)
          /\ IF "task-tracking" \in pool[p].source THEN {"task-gate", "task-queue"} \subseteq Names(p)
             ELSE "task-record gate" \in Names(p)
    BY <2>1, PlanKnown, Zenon DEF ById
  <2> QED
    BY <2>2, <2>5, <2>6, <2>7, Zenon DEF PolicyName
<1> QED
  BY <1>1, Traced, PTL DEF Spec
=============================================================================
